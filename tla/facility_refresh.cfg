SPECIFICATION FacilitySpec
CONSTANTS Jobs = {j1}
 Volumes = {v1}
 MaxRotations = 2
 MaxFaults = 0
 MaxPolls = 1
INVARIANTS ProviderSuffices
CHECK_DEADLOCK FALSE
