CONSTANTS
  Node <- MCNode
  Root = 1
  Children <- MCChildren
  Value <- MCValue
  Tour <- MCTour
  Solution <- MCTour
  Cost <- MCCost
  Sols <- MCSols
  Thread = {t1, t2}
  None = None
  UIntMax = 7
  MinNodes = 1
  MaxNodes = 1
  GivenRecord = {100, 5}
  Schedulers = {"requesting", "giving"}
  Signals = TRUE
  Ranks = {"large", "small"}
SPECIFICATION Spec
INVARIANTS OneOwner ResultOptimal ResultGenuine NodesReleased
PROPERTIES RecordNeverRises SolveReturns InterruptEnds ImplementsBranchAndBound
