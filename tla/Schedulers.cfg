CONSTANTS
  Thread = {1, 2, 3}
  Node = {1, 2, 3, 4, 5, 6, 7, 8}
  Offspring <- ForestOffspring
  InitialPools <- FirstNodes
  MinNodes = 1
  MaxNodes = 1
  UIntMax = 15
  None = None
SPECIFICATION Spec
INVARIANTS TypeOK QuitOnlyWhenDone NoMissedWakeup
PROPERTIES ImplementsWorkSharing
