SPECIFICATION Spec
CONSTANTS
    Apis = {a1, a2}
    TicksPerApi = 1
    Fns = {f1}
    Names = {f1}
    Users = {u1}
    NameOf <- DistinctNames
    UserOf <- OneUser
    MaxBuilds = 1
    MaxVersion = 2
    RelayBatch = 1
    SlowHandling = TRUE
    RemoteBuilds = FALSE
    FaultKinds = {"crash", "db", "reply", "redis"}
    MaxFaults = 0
    u1 = u1
    u2 = u2
    f1 = f1
    hello = hello
SYMMETRY ApiSymmetry
INVARIANTS
    VersionHasSuccess
