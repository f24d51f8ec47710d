CONSTANTS
  Thread = {t1, t2}
  Node = {1, 2, 3, 4, 5}
  Root = 1
  Parent <- SmallTree
  None = None
  Settings <- MCSettings
SPECIFICATION Spec
INVARIANTS NoUseAfterFree LockedFreesAll
