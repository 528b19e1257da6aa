SPECIFICATION FairSpec
CONSTANTS
    Requests = {r1}
    Apis = {a1}
    ApiOf <- OneApi
    Workers = {w1, w2, w3}
    Outcomes = {"timeout"}
    PendingBatch = 1
    LateHeartbeats = FALSE
    Editing = TRUE
    SlowSteps = FALSE
    SlowRuns = FALSE
    FaultKinds = {"worker", "redis", "api", "dispatch", "db"}
    MaxFaults = 2
INVARIANTS
    AnsweredIsRecorded
    FirstHandJobsKept
PROPERTIES
    OnlyDeadOwnersRobbed
    EveryRequestAnswered
    OnlyStrandedJobsRemain
