SPECIFICATION FairSpec
CONSTANTS
    Apis = {a1, a2}
    TicksPerApi = 1
    Fns = {f1}
    Names = {f1}
    Users = {u1}
    NameOf <- DistinctNames
    UserOf <- OneUser
    MaxBuilds = 2
    MaxVersion = 4
    RelayBatch = 1
    SlowHandling = FALSE
    RemoteBuilds = FALSE
    FaultKinds = {"crash", "db", "redis"}
    MaxFaults = 2
    u1 = u1
    u2 = u2
    f1 = f1
    hello = hello
INVARIANTS
    OneVersionPerBuild
    VersionHasSuccess
PROPERTIES
    EveryBuildFinishes
    ImplementsBuildJob
