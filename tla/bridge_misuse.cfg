SPECIFICATION FairSpec

CONSTANTS
  NoSlot = NoSlot
  NoThread = NoThread
  EvictRetries = 2
  PinSoftMax = 1
  CodecMayFail = TRUE
  MaxExternal = 2
  Misuse = {"destroy_pinned", "over_release", "leak", "fp32_on_micro"}
  Threads = {t1}
  SubSlots = 2
  MaxTenants = 2
  HotSlots = {h1, h2, h3}
  ColdSlots = {c1}
  MaxIds = 3

INVARIANT TypeOK
INVARIANT BridgeInv
PROPERTY MutexIsReleased

\* the bound MaxIds stops a bridge whose tenants are all created and destroyed
CHECK_DEADLOCK FALSE
