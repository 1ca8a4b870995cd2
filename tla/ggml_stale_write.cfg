SPECIFICATION Spec

CONSTANTS
  Threads = {t1, t2}
  Addrs = {a1, a2}
  NoAddr = NoAddr
  Contexts = {c1, c2}
  NoContext = NoContext
  SlotCount = 2
  kSlotSize = 2
  MaxBufferSize = 1
  MaxBridges = 2
  MaxBuffers = 2
  UsizeMod = 8
  Misuse = {"stale_write"}

SYMMETRY NameSymmetry

INVARIANT StaleWriteDetected

\* the bounds on bridges and buffers stop the model
CHECK_DEADLOCK FALSE
