CONSTANTS
  Size = 5
  MVal = 100
  Matrices <- MCMatrices
  Shuffles <- MCShuffles
  Iterations = {2}
  Factors = {0, 25}
SPECIFICATION Spec
INVARIANT ValueIsLength
PROPERTIES BestOfAll Finishes
