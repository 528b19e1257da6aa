SPECIFICATION Spec
CONSTANTS
    Apis = {a1, a2}
    TicksPerApi = 1
    Fns = {f1}
    Names = {f1}
    Users = {u1}
    NameOf <- DistinctNames
    UserOf <- OneUser
    MaxBuilds = 2
    MaxVersion = 4
    RelayBatch = 2
    SlowHandling = TRUE
    RemoteBuilds = TRUE
    FaultKinds = {"crash", "db", "reply", "redis"}
    MaxFaults = 1
    u1 = u1
    u2 = u2
    f1 = f1
    hello = hello
SYMMETRY ApiSymmetry
INVARIANTS
    TypeOK
    PublishedOnce
    AckedOnlyWhenFinished
    PublishedIsTracked
    VersionsContiguous
    SuccessHasVersion
