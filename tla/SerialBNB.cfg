CONSTANTS
  Node <- MCNode
  Root = 1
  Children <- MCChildren
  Value <- MCValue
  Tour <- MCTour
  Solution <- MCTour
  Cost <- MCCost
  Sols <- MCSols
  Engines = {"serial", "simple"}
  GivenRecord = {100, 6, 3}
  Ranks = {"small", "large"}
SPECIFICATION Spec
INVARIANTS ResultOptimal ResultGenuine
PROPERTY ImplementsBranchAndBound
