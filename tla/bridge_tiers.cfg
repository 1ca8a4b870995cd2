SPECIFICATION Spec

CONSTANTS
  NoSlot = NoSlot
  NoThread = NoThread
  EvictRetries = 2
  PinSoftMax = 2
  CodecMayFail = TRUE
  MaxExternal = 0
  Misuse = {}
  Threads = {t1, t2}
  SubSlots = 2
  MaxTenants = 3
  HotSlots = {h1, h2}
  ColdSlots = {c1, c2}
  MaxIds = 3

SYMMETRY SlotSymmetry

INVARIANT ViewsStayValid
INVARIANT PinsCountHolders
INVARIANT PayloadIsPrivate
INVARIANT BitmapMatchesTenants
INVARIANT SharedEntryAvailable
PROPERTY SealedStaysHot
PROPERTY ImplementsStore

\* the bound MaxIds stops a bridge whose tenants are all created and destroyed
CHECK_DEADLOCK FALSE
