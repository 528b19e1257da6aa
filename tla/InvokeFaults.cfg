SPECIFICATION Spec
CONSTANTS
    Requests = {r1, r2}
    Apis = {a1}
    ApiOf <- OneApi
    Workers = {w1, w2}
    Outcomes = {"success"}
    PendingBatch = 1
    LateHeartbeats = TRUE
    Editing = FALSE
    SlowSteps = TRUE
    SlowRuns = TRUE
    FaultKinds = {"api", "worker", "redis", "dispatch", "db", "stop"}
    MaxFaults = 1
SYMMETRY Symmetry
INVARIANTS
    TypeOK
    GroupBeforeJobs
    ReplyReachesWaiter
    AnswerWasPublished
    AckedWasPublished
    StoppedLeavesNothing
