CONSTANTS
    FabNodes = {n1, n2}
    FabNets = {w1, w2}
    FabNet = w1
    PoolSize = 2
    MaxGateways = 2
    MaxTables = 2
    MaxVifs = 2
    MaxKeys = 3
    MaxServices = 2
    Terminals = 2
    MaxNodes = 2
    MaxServers = 2
    FloatingIps = {1, 2}
    ConfigResource = {r1, r2, r3}
    MaxAddress = 14
    MaxSharing = 4
    PortNames = {"x", "y"}
    MaxPreference = 2
    MaxPorts = 2
    MaxCount = 2
SPECIFICATION Spec
SYMMETRY NodeSymmetry
CHECK_DEADLOCK FALSE
INVARIANTS OrderIsSound LeasesAreSound StitchIsSound SliceIsRight AwsIsRight GcpIsRight SenseIsRight LabIsRight
PROPERTIES RunsAreExact ChiIsRight
