SPECIFICATION Spec

CONSTANTS
  NoSlot = NoSlot
  NoThread = NoThread
  EvictRetries = 2
  PinSoftMax = 2
  CodecMayFail = FALSE
  MaxExternal = 0
  Misuse = {"destroy_pinned"}
  Threads = {t1, t2}
  SubSlots = 2
  MaxTenants = 2
  HotSlots = {h1, h2}
  ColdSlots = {c1}
  MaxIds = 2

SYMMETRY SlotSymmetry

INVARIANT ViewsStayValid

\* the bound MaxIds stops a bridge whose tenants are all created and destroyed
CHECK_DEADLOCK FALSE
