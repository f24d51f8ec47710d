CONSTANTS
  Size = 5
  MVal = 1000
  MaxVal = 10000
  Weights = {1, 2, 4}
  ZeroWeights = {1, 4}
  FarWeight = 5
  PricedWeights = {1, 4}
  PricedFarWeight = 60
  MaxIter = 3
  Steps = {1, 3}
  Problems <- MCProblems
SPECIFICATION Spec
INVARIANTS Coverage RecordGenuine BoundUnlessNearZero
