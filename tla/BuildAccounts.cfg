SPECIFICATION Spec
CONSTANTS
    Apis = {a1}
    TicksPerApi = 1
    Fns = {f1, f2}
    Names = {hello}
    Users = {u1, u2}
    NameOf <- SameName
    UserOf <- TwoUsers
    MaxBuilds = 2
    MaxVersion = 4
    RelayBatch = 1
    SlowHandling = FALSE
    RemoteBuilds = FALSE
    FaultKinds = {"crash", "db", "reply", "redis"}
    MaxFaults = 0
    u1 = u1
    u2 = u2
    f1 = f1
    hello = hello
INVARIANTS
    ImageMatchesVersion
