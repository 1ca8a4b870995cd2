SPECIFICATION Spec

CONSTANTS
  Threads = {t1, t2, t3}
  NoThread = NoThread
  MaxTenants = 2
  MaxIds = 3

INVARIANT OnlyStateRaces

\* the bound MaxIds stops a pool whose tenants are all created and destroyed
CHECK_DEADLOCK FALSE
