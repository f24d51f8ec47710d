CONSTANTS
  Size = 5
  MVal = 100
  Problems <- MCProblems
SPECIFICATION Spec
INVARIANTS Coverage RecordGenuine ChildrenProper
