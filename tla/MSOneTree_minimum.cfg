CONSTANTS
  Size = 4
  Weights = {1, 2, 3, 20}
  ZeroWeights = {1, 2}
  MVal = 20
  MaxVal = 1000
SPECIFICATION Spec
INVARIANT FindsMinimumOneTree
