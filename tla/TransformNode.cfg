CONSTANTS
  Vertex = {0, 1, 2, 3}
  None = None
  BigValue = 10000
  MinVal = 1
  MVal = 100
  Shapes <- ShortRows
  Matrices <- MCMatrices
  MaxLevel = 1
  MaxIncluded = 1
  MaxExcluded = 1
SPECIFICATION Spec
INVARIANTS Certificate Bounds
PROPERTY Finishes
