SPECIFICATION Spec
CONSTANTS Jobs = {j1}
 Volumes = {v1}
 MaxRotations = 2
 MaxFaults = 1
 MaxPolls = 2
 Sessions = {p1, p2}
 Stages = 1
 MaxAge = 1
 MaxCuts = 2
 Probers = {p1, p2}
 Endpoints = {e1}
 Ttl = 1
 MaxLost = 1
CHECK_DEADLOCK FALSE
INVARIANTS FaultsAreBounded WaitTellsTruth
PROPERTIES ProviderHeals DiscoveryIsRight VersionsAreRight
