CONSTANTS
  N = 3
  Provider = {p, q}
  FirstProvider = p
  RunSshTester = TRUE
  Topology <- PlainWorkflows
SPECIFICATION FairSpec
INVARIANTS TypeOK SuccessMeansCreated
PROPERTIES Termination ImplementsProvisioning
CHECK_DEADLOCK FALSE
