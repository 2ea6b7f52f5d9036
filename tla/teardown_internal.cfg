CONSTANTS
  N = 3
  p = p
  q = q
  Provider = {p, q}
  FirstProvider = p
  Topology <- Workflows
  MaxFailedApplies = 1
  Fault = {}
SPECIFICATION Spec
PROPERTIES DestroyOrder
