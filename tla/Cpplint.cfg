SPECIFICATION Spec
CONSTANTS
  NamespaceLines = 2
  LargeClass = 1
  CopyrightLines = 2
  NormalTrigger = 1
  TestTrigger = 2
  Header <- MCHeader
  Needs <- MCNeeds
  Disk <- MCDisk
  NolintCategory <- MCNolint
  Macros = {"MACRO"}
  Jobs <- MCJobs
INVARIANT MarksApplyToTheirLine
INVARIANT NestingFollowsFirstBranches
INVARIANT SystemIncludesInOrder
INVARIANT LongFunctionsReported
INVARIANT ExpressionsEndBalanced
INVARIANT BraceLoopEnds
