SPECIFICATION Spec

CONSTANTS
  HalfMax = 262016
  FloatMax = 8693531
  NonFinite = NonFinite
  None = None
  Data <- MCData
  Shaped <- MCShaped

INVARIANT NearestCode
INVARIANT BitsAccountedFor
INVARIANT ErrorBounded
INVARIANT SignsKept
INVARIANT NoDrift
INVARIANT RefusalsAreClean
