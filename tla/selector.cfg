SPECIFICATION FairSpec

CONSTANTS
  t1 = t1
  t2 = t2
  Threads <- TwoThreads
  kWords = 2
  kBitsPerWord = 2
  kMaxRetriesPerWord = 2
  MaxHeld = 2
  StartWord <- SameStart
  SpuriousFailures = TRUE

INVARIANT SelectorInv
PROPERTY OverlooksOnlyUnderContention
PROPERTY AcquireReturns
