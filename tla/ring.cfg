SPECIFICATION FairSpec

CONSTANTS
  Values = {a, b}
  Zero = zero
  Capacity = 2
  Wrap = 4
  StaleLoads = TRUE

INVARIANT RingInv
INVARIANT SizeInRange
INVARIANT NoDataRace
INVARIANT PublishedIsWhole
PROPERTY ImplementsFifo
PROPERTY WaitPushReturns
PROPERTY WaitPopReturns
