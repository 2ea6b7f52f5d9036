CONSTANTS
  N = 3
  p = p
  q = q
  Provider = {p, q}
  FirstProvider = p
  Topology <- Workflows
  MaxFailedApplies = 2
  Fault = {"interrupt", "die"}
SPECIFICATION Spec
INVARIANTS TypeOK DependenciesSaved
