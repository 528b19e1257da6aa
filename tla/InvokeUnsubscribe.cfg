SPECIFICATION Spec
CONSTANTS
    Requests = {r1}
    Apis = {a1}
    ApiOf <- OneApi
    Workers = {w1}
    Outcomes = {"success"}
    PendingBatch = 1
    LateHeartbeats = FALSE
    Editing = FALSE
    SlowSteps = FALSE
    SlowRuns = FALSE
    FaultKinds = {"dispatch"}
    MaxFaults = 1
INVARIANTS
    NoWorkerMeansNoReply
