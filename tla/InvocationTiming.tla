-------------------------- MODULE InvocationTiming --------------------------
(***************************************************************************)
(* Time in the invoke path, in whole seconds: one worker and one API       *)
(* process, each with the single Redis connection of redis.module.ts.      *)
(* Redis serves the commands of a connection in order, so while the        *)
(* worker's loop, or the build consumer's loop in the API process, is      *)
(* blocked in XREADGROUP, every other command of that process waits: the   *)
(* heartbeat's HSET, the HGETALL of hasSpareCapacity, the job's XADD.      *)
(*                                                                         *)
(* InvocationPipeline has the control flow and leaves durations out; here  *)
(* the control flow is reduced to what takes or bounds time.  Commands     *)
(* that do not wait take no time, and Tick advances every clock by one.    *)
(***************************************************************************)
EXTENDS Naturals, Sequences

CONSTANTS
    Requests,           \* invoke requests; each dispatches at most one job
    Block,              \* BLOCK of both XREADGROUPs
    HeartbeatInterval,  \* HEARTBEAT_INTERVAL_MS
    StaleAfter,         \* STALE_AFTER_MS
    Timeout,            \* timeoutMs of the function
    Buffer,             \* DISPATCH_TIMEOUT_BUFFER_MS
    Overhead            \* bound: what starting and killing a container add to a run

NoJob == "no job"

ASSUME TimingAssumption ==
    /\ NoJob \notin Requests
    /\ {Block, HeartbeatInterval, Timeout, Buffer, Overhead} \subseteq Nat \ {0}
    /\ StaleAfter \in Nat
    /\ Block < HeartbeatInterval
    /\ HeartbeatInterval + Block <= StaleAfter
    /\ Block + Overhead < Buffer

VARIABLES
    worker,     \* the worker's loop
    beat,       \* seconds to the next heartbeat
    queued,     \* the last heartbeat, if it waits behind the worker's XREADGROUP
    entry,      \* the worker's entry in the registry
    api,        \* seconds the API process's connection is still blocked
    jobs,       \* the stream: jobs no worker has read
    req         \* req[r]: an invoke request

fleet == <<worker, beat, queued, entry>>
vars  == <<fleet, api, jobs, req>>

MaxRun == Timeout + Overhead
Lag    == HeartbeatInterval + Block

\* Clocks nobody reads beyond a bound stay there.
Later(n, bound) == IF n > bound THEN n ELSE n + 1

\* A heartbeat: its age since Date.now() was taken, and whether inFlight is 1.
Heartbeats == [age : 0..(StaleAfter + 1), busy : BOOLEAN]

\* The loop is blocked in XREADGROUP for `left` seconds, or runs a job; `since` is
\* the time since it last changed between the two.
WorkerState == [job : Requests \cup {NoJob}, left : 0..Block, since : 0..(MaxRun + Lag + 1)]

\* `age` is the time since dispatch armed its timer; `direct` is history: the job
\* found the worker idle.
RequestState == [pc     : {"new", "capacity", "subscribe", "xadd", "wait",
                           "answered", "refused", "expired"},
                 age    : 0..(Timeout + Buffer),
                 direct : BOOLEAN]

\* dispatchTimeoutMs.
WindowUnbuffered == Timeout     \* faulty variant: no buffer

Window == Timeout + Buffer

Init ==
    /\ worker = [job |-> NoJob, left |-> Block, since |-> 0]
    /\ beat = HeartbeatInterval
    /\ queued = {}
    /\ entry = [age |-> 0, busy |-> FALSE]
    /\ api = 0
    /\ jobs = <<>>
    /\ req = [r \in Requests |-> [pc |-> "new", age |-> 0, direct |-> FALSE]]

Idle == worker.job = NoJob

-----------------------------------------------------------------------------
(* The worker: setInterval(sendHeartbeat), and the loop.                   *)

HeartbeatWhenIdle ==            \* faulty variant: sent by the loop, between two jobs
    /\ beat = 0
    /\ beat' = HeartbeatInterval
    /\ queued' = IF Idle THEN {[age |-> 0, busy |-> FALSE]} ELSE queued
    /\ UNCHANGED <<worker, entry, api, jobs, req>>

HeartbeatAlwaysFree ==          \* faulty variant: inFlight is never counted up
    /\ beat = 0
    /\ beat' = HeartbeatInterval
    /\ IF Idle
       THEN queued' = {[age |-> 0, busy |-> FALSE]} /\ UNCHANGED entry
       ELSE entry' = [age |-> 0, busy |-> FALSE] /\ UNCHANGED queued
    /\ UNCHANGED <<worker, api, jobs, req>>

HeartbeatNotQueued ==           \* faulty variant: not sent while the connection blocks
    /\ beat = 0
    /\ beat' = HeartbeatInterval
    /\ entry' = IF Idle THEN entry ELSE [age |-> 0, busy |-> TRUE]
    /\ UNCHANGED <<worker, queued, api, jobs, req>>

\* sendHeartbeat: the HSET waits if the loop is blocked in XREADGROUP.
Heartbeat ==
    /\ beat = 0
    /\ beat' = HeartbeatInterval
    /\ IF Idle
       THEN queued' = {[age |-> 0, busy |-> FALSE]} /\ UNCHANGED entry
       ELSE entry' = [age |-> 0, busy |-> TRUE] /\ UNCHANGED queued
    /\ UNCHANGED <<worker, api, jobs, req>>

\* XREADGROUP has returned, and Redis serves what has queued up behind it.
Flush ==
    /\ entry' \in IF queued = {} THEN {entry} ELSE queued
    /\ queued' = {}

\* XREADGROUP returns a job, and the run begins ...
ReadJob ==
    /\ Idle /\ jobs # <<>>
    /\ worker' = [job |-> Head(jobs), left |-> 0, since |-> 0]
    /\ jobs' = Tail(jobs)
    /\ Flush
    /\ UNCHANGED <<beat, api, req>>

BlockEndsLonger ==              \* faulty variant: the next one blocks longer
    /\ Idle /\ jobs = <<>> /\ worker.left = 0
    /\ worker' = [worker EXCEPT !.left = HeartbeatInterval]
    /\ Flush
    /\ UNCHANGED <<beat, api, jobs, req>>

\* ... or nothing, and the loop sends the next one.
BlockEnds ==
    /\ Idle /\ jobs = <<>> /\ worker.left = 0
    /\ worker' = [worker EXCEPT !.left = Block]
    /\ Flush
    /\ UNCHANGED <<beat, api, jobs, req>>

\* The run ends, at the latest when its container has been killed; PUBLISH, XACK,
\* and the loop blocks again.
FinishRun ==
    /\ ~Idle
    /\ worker' = [job |-> NoJob, left |-> Block, since |-> 0]
    /\ req' = IF req[worker.job].pc = "wait"
              THEN [req EXCEPT ![worker.job].pc = "answered"] ELSE req
    /\ UNCHANGED <<beat, queued, entry, api, jobs>>

-----------------------------------------------------------------------------
(* The API process.  Its build consumer blocks the connection again and    *)
(* again, for less than Block seconds when a build comes in, and not at    *)
(* all while it runs one.                                                  *)

\* Commands that were sent before the next XREADGROUP are served before it.
ApiBlocks ==
    /\ api = 0
    /\ \A r \in Requests : req[r].pc \notin {"capacity", "xadd"}
    /\ api' = Block
    /\ UNCHANGED <<fleet, jobs, req>>

ApiUnblocks ==
    /\ api > 0
    /\ api' = 0
    /\ UNCHANGED <<fleet, jobs, req>>

Goto(r, pc) == req' = [req EXCEPT ![r].pc = pc]

\* A request gets to hasSpareCapacity, which sends its HGETALL.
Arrive(r) ==
    /\ req[r].pc = "new"
    /\ Goto(r, "capacity")
    /\ UNCHANGED <<fleet, api, jobs>>

\* Admission is by the registry's entry; dispatch arms its timer at once.
CheckCapacity(r) ==
    /\ req[r].pc = "capacity" /\ api = 0
    /\ Goto(r, IF entry.age <= StaleAfter /\ ~entry.busy THEN "subscribe" ELSE "refused")
    /\ UNCHANGED <<fleet, api, jobs>>

\* SUBSCRIBE, on the connection of its own; then the XADD is sent.
Subscribe(r) ==
    /\ req[r].pc = "subscribe"
    /\ Goto(r, "xadd")
    /\ UNCHANGED <<fleet, api, jobs>>

Xadd(r) ==
    /\ req[r].pc = "xadd" /\ api = 0
    /\ jobs' = Append(jobs, r)
    /\ req' = [req EXCEPT ![r] = [@ EXCEPT !.pc = "wait", !.direct = Idle /\ jobs = <<>>]]
    /\ UNCHANGED <<fleet, api>>

\* dispatch's timer: by the assumption on Block and Buffer, not before the XADD.
TimerFires(r) ==
    /\ req[r].pc = "wait" /\ req[r].age = Window
    /\ Goto(r, "expired")
    /\ UNCHANGED <<fleet, api, jobs>>

-----------------------------------------------------------------------------
\* A second passes, unless something is due now.
Tick ==
    /\ beat > 0
    /\ IF Idle THEN worker.left > 0 /\ jobs = <<>> ELSE worker.since < MaxRun
    /\ \A r \in Requests : /\ req[r].pc # "subscribe"
                           /\ req[r].pc \in {"capacity", "xadd"} => api > 0
                           /\ req[r].pc = "wait" => req[r].age < Window
    /\ beat' = beat - 1
    /\ worker' = [worker EXCEPT !.left  = IF Idle THEN @ - 1 ELSE @,
                                !.since = IF Idle THEN Later(@, Lag) ELSE @ + 1]
    /\ queued' = {[b EXCEPT !.age = @ + 1] : b \in queued}
    /\ entry' = [entry EXCEPT !.age = Later(@, StaleAfter)]
    /\ api' = IF api > 0 THEN api - 1 ELSE api
    /\ req' = [r \in Requests |-> IF req[r].pc \in {"xadd", "wait"}
                                  THEN [req[r] EXCEPT !.age = @ + 1] ELSE req[r]]
    /\ UNCHANGED jobs

RequestStep(r) == Arrive(r) \/ CheckCapacity(r) \/ Subscribe(r) \/ Xadd(r) \/ TimerFires(r)

Next ==
    \/ Heartbeat \/ ReadJob \/ BlockEnds \/ FinishRun
    \/ ApiBlocks \/ ApiUnblocks
    \/ \E r \in Requests : RequestStep(r)
    \/ Tick

Spec == Init /\ [][Next]_vars

-----------------------------------------------------------------------------
(* Properties.                                                             *)

TypeOK ==
    /\ worker \in WorkerState
    /\ beat \in 0..HeartbeatInterval
    /\ queued \subseteq Heartbeats
    /\ entry \in Heartbeats
    /\ api \in 0..Block
    /\ jobs \in Seq(Requests)
    /\ req \in [Requests -> RequestState]

\* A live worker is never judged dead: its entry is younger than STALE_AFTER_MS
\* however long its job runs and however its heartbeats queue behind XREADGROUP.
HeartbeatsStayFresh == entry.age <= StaleAfter

\* A job that finds the worker idle is answered before dispatch gives up, though
\* the XADD and the run's start are delayed: the buffer is large enough.
DirectJobsAnswered ==
    \A r \in Requests : req[r].direct => req[r].pc # "expired"

\* "no worker replied within the dispatch window ... nothing ran at all": the job of a
\* request that dispatch has given up is not being run.  A job that was queued behind
\* another one is.
ExpiredRunsNothing ==
    \A r \in Requests : req[r].pc = "expired" => worker.job # r

\* Over-admission is brief: a request is only admitted to a worker that is busy if
\* its job began within the last heartbeat interval.
BusySeenInTime ==
    [][\A r \in Requests :
          req[r].pc = "capacity" /\ req'[r].pc = "subscribe" /\ ~Idle
            => worker.since <= HeartbeatInterval]_vars

\* So is needless refusal: an idle worker is only taken for busy or dead within one
\* interval and one blocked heartbeat of its last job.
IdleSeenInTime ==
    [][\A r \in Requests :
          req[r].pc = "capacity" /\ req'[r].pc = "refused" /\ Idle => worker.since <= Lag]_vars
=============================================================================
