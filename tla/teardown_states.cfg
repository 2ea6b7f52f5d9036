CONSTANTS
  N = 3
  p = p
  q = q
  Provider = {p, q}
  FirstProvider = p
  Topology <- Workflows
  MaxFailedApplies = 1
  Fault = {"interrupt"}
SPECIFICATION FairSpec
INVARIANTS NothingForgotten
PROPERTIES ExternalOrder EventuallyGone
