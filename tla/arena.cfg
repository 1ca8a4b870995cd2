SPECIFICATION Spec

CONSTANTS
  Threads = {t1, t2}
  Slots = {s1, s2}
  Cells = {c1, c2}
  VersionMod = 4
  MaxBirths = 2

INVARIANT StaleIsRefused
INVARIANT LiveIdsWork
INVARIANT OccupiedHasOwner
INVARIANT NothingLeaks
PROPERTY ImplementsSlotArena

\* the bound MaxBirths stops an arena whose slots are used up
CHECK_DEADLOCK FALSE
