CONSTANTS
    Uris = {u1, u2}
    Words = {"a", "b", "c"}
    KubeJobs = {k1}
    Completions = 2
    Facilities = {f1, f2}
    Enclaves = {f1, f2}
    Takable = {"site"}
    Ttl = 1
    IntentJobs = {i1, i2}
    MaxInstances = 2
    Texts = {x, y}
    Base64Like = {y}
    MaxTasks = 2
    MaxFetches = 2
SYMMETRY FacilitySymmetry
SPECIFICATION Spec
CHECK_DEADLOCK FALSE
INVARIANTS LinksAgree NamesAreOwn
PROPERTIES ForeseenHolds GatewayIsFollowed InstancesAreKept FilesAreRight BestChosen
