SPECIFICATION Spec
CONSTANTS
    Apis = {a1}
    TicksPerApi = 2
    Fns = {f1, f2}
    Names = {hello}
    Users = {u1}
    NameOf <- SameName
    UserOf <- OneUser
    MaxBuilds = 3
    MaxVersion = 3
    RelayBatch = 2
    SlowHandling = TRUE
    RemoteBuilds = FALSE
    FaultKinds = {"crash", "db", "reply", "redis"}
    MaxFaults = 1
    u1 = u1
    u2 = u2
    f1 = f1
    hello = hello
INVARIANTS
    ImageMatchesVersion
