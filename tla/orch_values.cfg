CONSTANTS
  N = 3
  Provider = {p, q}
  FirstProvider = p
  RunSshTester = TRUE
  Topology <- ListedWorkflows
SPECIFICATION Spec
CHECK_DEADLOCK FALSE
INVARIANTS AddedAfterDependencies ListsIntact FailuresSurface
