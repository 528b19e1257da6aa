------------------------- MODULE InvocationPipeline -------------------------
(***************************************************************************)
(* The invoke path: POST /functions/:name/invoke looks the function up,    *)
(* asks the worker registry for spare capacity, and dispatches a job on    *)
(* the stream `invocations:pending`; a worker runs it, publishes the       *)
(* outcome on the request's own Pub/Sub channel and acknowledges it; the   *)
(* API process answers the caller and records the invocation.              *)
(*                                                                         *)
(* Requests are for one function (jobs of different functions meet only in *)
(* the stream and at the workers).  One action per awaited step of the API *)
(* processes and of the workers.                                           *)
(***************************************************************************)
EXTENDS Integers, FiniteSets, RedisStream

CONSTANTS
    Requests,       \* HTTP requests; also their correlation ids
    Apis,           \* API processes
    ApiOf,          \* the API process that serves each request
    Workers,        \* worker ids: a restarted worker process has a new id
    Outcomes,       \* what a container run can report
    PendingBatch,   \* COUNT of XPENDING (10 in the code)
    LateHeartbeats, \* may a live worker's heartbeat be older than STALE_AFTER_MS?
    Editing,        \* TRUE: the function is created, built and deleted meanwhile
    SlowSteps,      \* may a listed entry grow idle again between XPENDING and XCLAIM ...
    SlowRuns,       \* ... or while the worker that lists it runs a job?
    FaultKinds,     \* which failures happen: see Fault
    MaxFaults       \* bound: failures in a behaviour

ASSUME InvocationAssumption ==
    /\ ApiOf \in [Requests -> Apis]
    /\ Nobody \notin Workers
    /\ Outcomes \subseteq {"success", "error", "timeout"}
    /\ PendingBatch \in Nat \ {0}
    /\ LateHeartbeats \in BOOLEAN
    /\ Editing \in BOOLEAN
    /\ SlowSteps \in BOOLEAN /\ SlowRuns \in BOOLEAN
    /\ FaultKinds \subseteq {"api", "worker", "redis", "dispatch", "db", "stop"}
    /\ MaxFaults \in Nat

VARIABLES
    fn,         \* the function: "absent", "unbuilt", "built" or "deleted"
    rows,       \* the table invocations: the request and the status recorded
    req,        \* req[r]: the handler of request r
    subs,       \* channels a subscriber connection is subscribed to
    reply,      \* reply[r]: first outcome published to the subscribed channel
    group,      \* does the consumer group exist?
    log,        \* the stream invocations:pending
    reg,        \* the hash workers:registry
    wk,         \* wk[w]: the worker process w
    published,  \* history, published[r]: outcomes workers published for r
    faults      \* failures so far

stream == <<group, log>>
pubsub == <<subs, reply>>
api    == <<fn, rows, req>>
fleet  == <<reg, wk, published>>
vars   == <<api, pubsub, stream, fleet, faults>>

\* A request handler.  `promise` is resultPromise of dispatch: "waiting" while
\* the channel's resolver is in `waiters`.  `out` is what will be recorded.
RequestPc == {"start", "version", "capacity", "subscribe", "xadd", "wait",
              "unsub", "record", "done", "gone"}

RequestState == [pc      : RequestPc,
                 promise : {"none", "waiting", "rejected"} \cup Outcomes,
                 out     : {"none", "NO_WORKER"} \cup Outcomes,
                 ans     : {"none", "404", "409", "500", "503", "200", "200 Timeout", "200 Unhandled"}]

\* The pc of a worker whose process is up, and of one in handleMessage.
Live == {"hello", "pending", "list", "claim", "read", "run", "publish", "ack", "leave"}
Busy == {"run", "publish", "ack"}

\* A worker.  `seen` is the answer of XPENDING, `todo` the messages of it still
\* to be claimed, `cur` the message in handleMessage, `src` its caller.
WorkerState == [pc       : Live \cup {"off", "dead", "stopped"},
                seen     : SUBSET (Nat \X Workers),
                todo     : SUBSET Nat,
                cur      : Nat,
                src      : {"claim", "read"},
                out      : {"none"} \cup Outcomes,
                stopping : BOOLEAN]

\* A heartbeat: absent, within STALE_AFTER_MS or not, and whether inFlight = CAPACITY.
Heartbeats == [st : {"absent", "fresh", "stale"}, busy : BOOLEAN]

NewRequest == [pc |-> "start", promise |-> "none", out |-> "none", ans |-> "none"]
NewWorker  == [pc |-> "off", seen |-> {}, todo |-> {}, cur |-> 0, src |-> "read",
               out |-> "none", stopping |-> FALSE]
NoHeartbeat == [st |-> "absent", busy |-> FALSE]

Init ==
    /\ fn = IF Editing THEN "absent" ELSE "built"
    /\ rows = {}
    /\ req = [r \in Requests |-> NewRequest]
    /\ subs = {}
    /\ reply = [r \in Requests |-> "none"]
    /\ group = FALSE
    /\ log = <<>>
    /\ reg = [w \in Workers |-> NoHeartbeat]
    /\ wk = [w \in Workers |-> NewWorker]
    /\ published = [r \in Requests |-> {}]
    /\ faults = 0

-----------------------------------------------------------------------------
(* The function: registered, given its first version, deleted.  ON DELETE  *)
(* CASCADE takes the invocations with it.                                  *)

CreateFunction ==
    /\ fn = "absent"
    /\ fn' = "unbuilt"
    /\ UNCHANGED <<rows, req, pubsub, stream, fleet, faults>>

BuildFirstVersion ==
    /\ fn = "unbuilt"
    /\ fn' = "built"
    /\ UNCHANGED <<rows, req, pubsub, stream, fleet, faults>>

RemoveFunction ==
    /\ Editing /\ fn \in {"unbuilt", "built"}
    /\ fn' = "deleted"
    /\ rows' = {}
    /\ UNCHANGED <<req, pubsub, stream, fleet, faults>>

-----------------------------------------------------------------------------
(* FunctionsService.invoke and InvocationDispatchService.dispatch.         *)

Advance(r, pc) == req' = [req EXCEPT ![r].pc = pc]

\* The handler returns.  (A waiter that a failed SUBSCRIBE left behind stays until
\* its timer, but nobody awaits it.)
Answer(r, ans) == req' = [req EXCEPT ![r] = [NewRequest EXCEPT !.pc = "done", !.ans = ans]]

\* FunctionsController.invoke: an outcome is a 200 with or without X-Function-Error,
\* the exception of a missing worker a 503.
HttpAnswer(o) ==
    CASE o = "success"   -> "200"
      [] o = "timeout"   -> "200 Timeout"
      [] o = "error"     -> "200 Unhandled"
      [] o = "NO_WORKER" -> "503"

\* The request goes on to recordInvocation with outcome o.
Conclude(r, o) == req' = [req EXCEPT ![r] = [@ EXCEPT !.pc = "record", !.out = o]]

\* get: 404 when there is no such function.
GetFunction(r) ==
    /\ req[r].pc = "start"
    /\ \/ fn \in {"unbuilt", "built"} /\ Advance(r, "version")
       \/ fn \notin {"unbuilt", "built"} /\ Answer(r, "404")
    /\ UNCHANGED <<fn, rows, pubsub, stream, fleet, faults>>

\* functionVersion.findFirst: 409 when there is none (any more).
FindVersion(r) ==
    /\ req[r].pc = "version"
    /\ \/ fn = "built" /\ Advance(r, "capacity")
       \/ fn # "built" /\ Answer(r, "409")
    /\ UNCHANGED <<fn, rows, pubsub, stream, fleet, faults>>

\* registry.hasSpareCapacity.
hasSpareCapacity == \E w \in Workers : reg[w].st = "fresh" /\ ~reg[w].busy

\* Backpressure: fail fast, or enter dispatch, which sets the waiter and the
\* timer before its first await.
CheckCapacityUnrecorded(r) ==   \* faulty variant: the fast 503 is not recorded
    /\ req[r].pc = "capacity"
    /\ \/ ~hasSpareCapacity /\ Answer(r, "503")
       \/ /\ hasSpareCapacity
          /\ req' = [req EXCEPT ![r] = [@ EXCEPT !.pc = "subscribe", !.promise = "waiting"]]
    /\ UNCHANGED <<fn, rows, pubsub, stream, fleet, faults>>

CheckCapacity(r) ==
    /\ req[r].pc = "capacity"
    /\ \/ ~hasSpareCapacity /\ Conclude(r, "NO_WORKER")
       \/ /\ hasSpareCapacity
          /\ req' = [req EXCEPT ![r] = [@ EXCEPT !.pc = "subscribe", !.promise = "waiting"]]
    /\ UNCHANGED <<fn, rows, pubsub, stream, fleet, faults>>

SubscribeSkipped(r) ==          \* faulty variant: the job goes out before the SUBSCRIBE
    /\ req[r].pc = "subscribe"
    /\ Advance(r, "xadd")
    /\ UNCHANGED <<fn, rows, pubsub, stream, fleet, faults>>

Subscribe(r) ==
    /\ req[r].pc = "subscribe"
    /\ subs' = subs \cup {r}
    /\ Advance(r, "xadd")
    /\ UNCHANGED <<fn, rows, reply, stream, fleet, faults>>

\* The job goes out, even if the timer has fired already.
XaddJob(r) ==
    /\ req[r].pc = "xadd"
    /\ log' = XAdd(log, r)
    /\ Advance(r, "wait")
    /\ UNCHANGED <<fn, rows, pubsub, group, fleet, faults>>

\* The timer of dispatch: it rejects only if it removes the waiter itself.
TimerFiresSilently(r) ==        \* faulty variant: the waiter is removed, nothing rejected
    /\ req[r].promise = "waiting"
    /\ req' = [req EXCEPT ![r].promise = "none"]
    /\ UNCHANGED <<fn, rows, pubsub, stream, fleet, faults>>

TimerFires(r) ==
    /\ req[r].promise = "waiting"
    /\ req' = [req EXCEPT ![r].promise = "rejected"]
    /\ UNCHANGED <<fn, rows, pubsub, stream, fleet, faults>>

\* The 'message' event: it resolves the waiter of its channel, if there still is one.
MessageOfAnyChannel(r) ==       \* faulty variant: replies are not told apart
    /\ req[r].promise = "waiting"
    /\ \E s \in Requests : /\ reply[s] # "none"
                           /\ req' = [req EXCEPT ![r].promise = reply[s]]
    /\ UNCHANGED <<fn, rows, pubsub, stream, fleet, faults>>

Message(r) ==
    /\ req[r].promise = "waiting"
    /\ reply[r] # "none"
    /\ req' = [req EXCEPT ![r].promise = reply[r]]
    /\ UNCHANGED <<fn, rows, pubsub, stream, fleet, faults>>

\* What invoke makes of the settled resultPromise: its catch block knows one reason.
OutcomeOfRejected(promise) == promise   \* faulty variant: no catch block

OutcomeOf(promise) == IF promise = "rejected" THEN "NO_WORKER" ELSE promise

\* await resultPromise, then the finally block: UNSUBSCRIBE.  A reply still on
\* its way finds no waiter.
Unsubscribe(r) ==
    /\ \/ /\ req[r].pc = "wait"
          /\ req[r].promise \notin {"none", "waiting"}
          /\ Conclude(r, OutcomeOf(req[r].promise))
       \/ req[r].pc = "unsub" /\ Conclude(r, "NO_WORKER")
    /\ subs' = subs \ {r}
    /\ reply' = [reply EXCEPT ![r] = "none"]
    /\ UNCHANGED <<fn, rows, stream, fleet, faults>>

\* The row's status, from the outcome's.
RowStatus(o) ==
    CASE o = "success"   -> "SUCCESS"
      [] o = "timeout"   -> "TIMEOUT"
      [] o = "error"     -> "ERROR"
      [] o = "NO_WORKER" -> "NO_WORKER"

Row(r) == [req |-> r, status |-> RowStatus(req[r].out)]

\* invocation.create for the requests S.
Insert(S) == rows' = IF fn = "built" THEN rows \cup {Row(r) : r \in S} ELSE rows

\* recordInvocation: the foreign keys refuse the row of a deleted function, and
\* the error is swallowed; then the caller is answered.
RecordInvocation(r) ==
    /\ req[r].pc = "record"
    /\ Insert({r})
    /\ Answer(r, HttpAnswer(req[r].out))
    /\ UNCHANGED <<fn, pubsub, stream, fleet, faults>>

-----------------------------------------------------------------------------
(* WorkerService and WorkerRegistryService.                                *)

\* setInterval(sendHeartbeat) is on from the first heartbeat to onModuleDestroy.
HeartbeatOn(w) == wk[w].pc \in Live \ {"hello"} /\ ~wk[w].stopping

\* onModuleInit: ensureConsumerGroup ...
BootRegistersFirst(w) ==        \* faulty variant: registered before the group exists
    /\ wk[w].pc = "off"
    /\ reg' = [reg EXCEPT ![w] = [st |-> "fresh", busy |-> FALSE]]
    /\ wk' = [wk EXCEPT ![w].pc = "hello"]
    /\ UNCHANGED <<api, pubsub, stream, published, faults>>

Boot(w) ==
    /\ wk[w].pc = "off"
    /\ group' = TRUE
    /\ log' = IF group THEN log ELSE XGroupCreate(log)
    /\ wk' = [wk EXCEPT ![w].pc = "hello"]
    /\ UNCHANGED <<api, pubsub, reg, published, faults>>

\* ... then the first heartbeat, the timer and the loop.
Hello(w) ==
    /\ wk[w].pc = "hello"
    /\ reg' = [reg EXCEPT ![w] = [st |-> "fresh", busy |-> FALSE]]
    /\ wk' = [wk EXCEPT ![w].pc = "pending"]
    /\ UNCHANGED <<api, pubsub, stream, published, faults>>

\* sendHeartbeat: inFlight is 1 from the delivery of a job to the end of its run.
HeartbeatForever(w) ==          \* faulty variant: onModuleDestroy leaves the timer on
    /\ wk[w].pc \in (Live \ {"hello"}) \cup {"stopped"}
    /\ reg' = [reg EXCEPT ![w] = [st |-> "fresh", busy |-> wk[w].pc = "run"]]
    /\ UNCHANGED <<api, pubsub, stream, wk, published, faults>>

Heartbeat(w) ==
    /\ HeartbeatOn(w)
    /\ reg' = [reg EXCEPT ![w] = [st |-> "fresh", busy |-> wk[w].pc = "run"]]
    /\ UNCHANGED <<api, pubsub, stream, wk, published, faults>>

\* The last heartbeat of w is STALE_AFTER_MS old.
HeartbeatAges(w) ==
    /\ reg[w].st = "fresh"
    /\ LateHeartbeats \/ ~HeartbeatOn(w)
    /\ reg' = [reg EXCEPT ![w].st = "stale"]
    /\ UNCHANGED <<api, pubsub, stream, wk, published, faults>>

\* The entries that worker w took from XPENDING and has not dealt with yet.
Listed(w) == {s[1] : s \in wk[w].seen} \cup wk[w].todo

\* A PEL entry has been idle for claimIdleMs.  If some worker lists it, it was idle
\* before and has been claimed by another one since.
IdleOut(i) ==
    /\ i \in DOMAIN log
    /\ log[i].st = "pending" /\ ~log[i].idle
    /\ \A w \in Workers : i \in Listed(w) => IF wk[w].pc \in Busy THEN SlowRuns ELSE SlowSteps
    /\ log' = Expire(log, i)
    /\ UNCHANGED <<api, pubsub, group, fleet, faults>>

\* `while (this.running)` is tested once per iteration.
NextIteration(w) == IF wk[w].stopping THEN "leave" ELSE "pending"

\* The for loop over the entries of XPENDING, then readAndProcessOnce.
AfterClaims(todo) == IF todo = {} THEN "read" ELSE "claim"

\* XPENDING ... IDLE claimIdleMs - + PendingBatch: the oldest expired entries.
OldestExpired == {i \in Expired(log) : Cardinality({j \in Expired(log) : j < i}) < PendingBatch}

ScanPending(w) ==
    /\ wk[w].pc = "pending"
    /\ wk' = [wk EXCEPT ![w] =
                [wk[w] EXCEPT !.seen = {<<i, log[i].owner>> : i \in OldestExpired},
                              !.pc   = IF OldestExpired = {} THEN "read" ELSE "list"]]
    /\ UNCHANGED <<api, pubsub, stream, reg, published, faults>>

\* The owner of a scanned message is another worker the registry calls unhealthy.
ReclaimableBlind(w, owner) == owner # w     \* faulty variant: health is not looked at
ReclaimableIfGone(w, owner) ==              \* faulty variant: stale heartbeats count as healthy
    owner # w /\ reg[owner].st = "absent"

Reclaimable(w, owner) == owner # w /\ reg[owner].st # "fresh"

\* listWorkers and the two tests of the for loop: both use this snapshot.
ListWorkers(w) ==
    /\ wk[w].pc = "list"
    /\ LET todo == {e[1] : e \in {s \in wk[w].seen : Reclaimable(w, s[2])}} IN
       wk' = [wk EXCEPT ![w] =
                [wk[w] EXCEPT !.seen = {}, !.todo = todo, !.pc = AfterClaims(todo)]]
    /\ UNCHANGED <<api, pubsub, stream, reg, published, faults>>

\* Worker w enters handleMessage with message i and starts the container.
StartRun(w, i, src, todo) ==
    wk' = [wk EXCEPT ![w] = [wk[w] EXCEPT !.pc = "run", !.cur = i, !.src = src, !.todo = todo]]

\* XCLAIM of the next message: given if it is still pending and idle, whoever
\* owns it by now.
ClaimNext(w) ==
    /\ wk[w].pc = "claim"
    /\ \E i \in wk[w].todo :
         /\ \A j \in wk[w].todo : i <= j
         /\ LET rest == wk[w].todo \ {i} IN
            \/ /\ i \in Expired(log)
               /\ log' = Deliver(log, i, w)
               /\ StartRun(w, i, "claim", rest)
            \/ /\ i \notin Expired(log)
               /\ wk' = [wk EXCEPT ![w] = [wk[w] EXCEPT !.todo = rest, !.pc = AfterClaims(rest)]]
               /\ UNCHANGED log
    /\ UNCHANGED <<api, pubsub, group, reg, published, faults>>

\* readAndProcessOnce: XREADGROUP delivers the oldest new job ...
ReadJob(w) ==
    /\ wk[w].pc = "read"
    /\ \E i \in DOMAIN log :
         /\ IsNextNew(log, i)
         /\ log' = Deliver(log, i, w)
         /\ StartRun(w, i, "read", {})
    /\ UNCHANGED <<api, pubsub, group, reg, published, faults>>

\* ... or BLOCK times out.
ReadNothing(w) ==
    /\ wk[w].pc = "read"
    /\ \A i \in DOMAIN log : log[i].st # "new"
    /\ wk' = [wk EXCEPT ![w].pc = NextIteration(w)]
    /\ UNCHANGED <<api, pubsub, stream, reg, published, faults>>

Job(w) == log[wk[w].cur].val

\* executeVersionedFunction returns (or throws, which is an "error" outcome).
FinishRun(w, o) ==
    /\ wk[w].pc = "run"
    /\ wk' = [wk EXCEPT ![w] = [wk[w] EXCEPT !.pc = "publish", !.out = o]]
    /\ UNCHANGED <<api, pubsub, stream, reg, published, faults>>

\* PUBLISH: without a subscriber the message is gone.  Only the first one a
\* channel gets can matter: it takes the waiter.
PublishReply(w) ==
    /\ wk[w].pc = "publish"
    /\ published' = [published EXCEPT ![Job(w)] = @ \cup {wk[w].out}]
    /\ reply' = IF Job(w) \in subs /\ reply[Job(w)] = "none"
                THEN [reply EXCEPT ![Job(w)] = wk[w].out] ELSE reply
    /\ wk' = [wk EXCEPT ![w].pc = "ack"]
    /\ UNCHANGED <<api, subs, stream, reg, faults>>

\* XACK, and back to the loop handleMessage was called from.
AckJob(w) ==
    /\ wk[w].pc = "ack"
    /\ log' = XAck(log, wk[w].cur)
    /\ wk' = [wk EXCEPT ![w] =
                [wk[w] EXCEPT !.cur = 0, !.out = "none", !.src = "read",
                              !.pc  = IF wk[w].src = "claim" THEN AfterClaims(wk[w].todo)
                                      ELSE NextIteration(w)]]
    /\ UNCHANGED <<api, pubsub, group, reg, published, faults>>

\* onModuleDestroy waits for the loop, then deregisters.
Deregister(w) ==
    /\ wk[w].pc = "leave"
    /\ reg' = [reg EXCEPT ![w] = NoHeartbeat]
    /\ wk' = [wk EXCEPT ![w].pc = "stopped"]
    /\ UNCHANGED <<api, pubsub, stream, published, faults>>

-----------------------------------------------------------------------------
(* Failures, each counted against MaxFaults.                               *)

Fault(kind) == kind \in FaultKinds /\ faults < MaxFaults /\ faults' = faults + 1

\* onModuleDestroy begins: the heartbeat timer is cleared, the loop goes on to
\* the end of its iteration.
Stop(w) ==
    /\ HeartbeatOn(w) /\ Fault("stop")
    /\ wk' = [wk EXCEPT ![w].stopping = TRUE]
    /\ UNCHANGED <<api, pubsub, stream, reg, published>>

\* A worker process dies (an unhandled rejection in a heartbeat included, or one of
\* the HDEL in onModuleDestroy: the entry then stays and ages).
WorkerCrash(w) ==
    /\ wk[w].pc \in Live /\ Fault("worker")
    /\ wk' = [wk EXCEPT ![w] = [NewWorker EXCEPT !.pc = "dead"]]
    /\ UNCHANGED <<api, pubsub, stream, reg, published>>

\* An API process dies with its requests, waiters and subscriptions; a row it was
\* inserting may be there or not.
InProgress(r) == req[r].pc \notin {"start", "done", "gone"}

ApiCrash(a) ==
    /\ Fault("api")
    /\ LET hit == {r \in Requests : ApiOf[r] = a /\ InProgress(r)} IN
       /\ hit # {}
       /\ req' = [r \in Requests |-> IF r \in hit THEN [NewRequest EXCEPT !.pc = "gone"]
                                     ELSE req[r]]
       /\ subs' = subs \ hit
       /\ reply' = [r \in Requests |-> IF r \in hit THEN "none" ELSE reply[r]]
       /\ \E S \in SUBSET {r \in hit : req[r].pc = "record"} : Insert(S)
    /\ UNCHANGED <<fn, stream, fleet>>

\* A query of invoke fails: a 500 before dispatch, swallowed in recordInvocation.
RequestDbFails(r) ==
    /\ Fault("db")
    /\ \/ req[r].pc \in {"start", "version"} /\ Answer(r, "500")
       \/ req[r].pc = "record" /\ Answer(r, HttpAnswer(req[r].out))
    /\ UNCHANGED <<fn, rows, pubsub, stream, fleet>>

\* A Redis command of a request fails: hasSpareCapacity is outside invoke's try,
\* the others end in its catch block.  A failed XADD may have been applied; a
\* failed UNSUBSCRIBE replaces the outcome.
RequestRedisFails(r) ==
    /\ Fault("dispatch")
    /\ \/ req[r].pc = "capacity" /\ Answer(r, "500") /\ UNCHANGED log
       \/ req[r].pc = "subscribe" /\ Conclude(r, "NO_WORKER") /\ UNCHANGED log
       \/ req[r].pc = "xadd" /\ Advance(r, "unsub") /\ log' \in {log, XAdd(log, r)}
       \/ /\ req[r].pc = "wait" /\ req[r].promise \notin {"none", "waiting"}
          /\ Conclude(r, "NO_WORKER") /\ UNCHANGED log
    /\ UNCHANGED <<fn, rows, pubsub, group, fleet>>

\* A Redis command of the worker's loop fails, and the loop starts over: an
\* XPENDING, HGETALL, PUBLISH or XACK that is not applied, or an XCLAIM or
\* XREADGROUP whose reply is lost after it moved the message into w's PEL.
LoopAgain(w) ==
    wk' = [wk EXCEPT ![w] = [NewWorker EXCEPT !.pc = NextIteration(w), !.stopping = wk[w].stopping]]

WorkerRedisFailsAcked(w) ==     \* faulty variant: a failed PUBLISH is ignored
    /\ Fault("redis")
    /\ wk[w].pc = "publish"
    /\ wk' = [wk EXCEPT ![w].pc = "ack"]
    /\ UNCHANGED <<api, pubsub, stream, reg, published>>

WorkerRedisFails(w) ==
    /\ Fault("redis")
    /\ LoopAgain(w)
    /\ \/ wk[w].pc \in {"pending", "list", "publish", "ack"} /\ UNCHANGED log
       \/ /\ wk[w].pc = "claim"
          /\ \E i \in wk[w].todo \cap Expired(log) :
               (\A j \in wk[w].todo : i <= j) /\ log' = Deliver(log, i, w)
       \/ /\ wk[w].pc = "read"
          /\ \E i \in DOMAIN log : IsNextNew(log, i) /\ log' = Deliver(log, i, w)
    /\ UNCHANGED <<api, pubsub, group, reg, published>>

-----------------------------------------------------------------------------
RequestStep(r) ==
    \/ FindVersion(r) \/ CheckCapacity(r) \/ Subscribe(r) \/ XaddJob(r)
    \/ Unsubscribe(r) \/ RecordInvocation(r)

LoopStep(w) ==
    \/ Hello(w) \/ ScanPending(w) \/ ListWorkers(w) \/ ClaimNext(w)
    \/ ReadJob(w) \/ ReadNothing(w) \/ (\E o \in Outcomes : FinishRun(w, o))
    \/ PublishReply(w) \/ AckJob(w) \/ Deregister(w)

RequestEvent(r) == GetFunction(r) \/ RequestStep(r) \/ TimerFires(r) \/ Message(r)
RequestFault(r) == RequestDbFails(r) \/ RequestRedisFails(r)
WorkerEvent(w)  == Boot(w) \/ LoopStep(w) \/ Heartbeat(w) \/ HeartbeatAges(w)
WorkerFault(w)  == Stop(w) \/ WorkerCrash(w) \/ WorkerRedisFails(w)

Next ==
    \/ CreateFunction \/ BuildFirstVersion \/ RemoveFunction
    \/ \E r \in Requests : RequestEvent(r) \/ RequestFault(r)
    \/ \E w \in Workers : WorkerEvent(w) \/ WorkerFault(w)
    \/ \E a \in Apis : ApiCrash(a)
    \/ \E i \in DOMAIN log : IdleOut(i)

Spec == Init /\ [][Next]_vars

(***************************************************************************)
(* Fairness: event loops get to every continuation, timers fire, replies   *)
(* reach their subscriber, Kubernetes starts the workers, clocks advance,  *)
(* and a container run ends.  Nothing is assumed of callers or failures.   *)
(***************************************************************************)
Fairness ==
    /\ \A r \in Requests : WF_vars(RequestStep(r)) /\ WF_vars(TimerFires(r))
    /\ \A w \in Workers : /\ WF_vars(Boot(w)) /\ WF_vars(LoopStep(w))
                          /\ WF_vars(HeartbeatAges(w))
    /\ \A i \in 1..Cardinality(Requests) : WF_vars(IdleOut(i))

FairSpec == Spec /\ Fairness

-----------------------------------------------------------------------------
(* Properties.                                                             *)

TypeOK ==
    /\ fn \in {"absent", "unbuilt", "built", "deleted"}
    /\ rows \subseteq [req : Requests, status : {"SUCCESS", "TIMEOUT", "ERROR", "NO_WORKER"}]
    /\ req \in [Requests -> RequestState]
    /\ subs \subseteq Requests
    /\ reply \in [Requests -> {"none"} \cup Outcomes]
    /\ group \in BOOLEAN
    /\ log \in Seq(Entries(Requests, Workers))
    /\ reg \in [Workers -> Heartbeats]
    /\ wk \in [Workers -> WorkerState]
    /\ published \in [Requests -> SUBSET Outcomes]
    /\ faults \in 0..MaxFaults

\* A job is never put into the stream before the consumer group exists, where a
\* group created at '$' would skip it: a worker creates the group before its first
\* heartbeat, and a request only dispatches when it sees a heartbeat.
GroupBeforeJobs == log # <<>> => group

\* Pub/Sub forgets: a request that still waits while its job has been answered
\* has that answer on its way, because dispatch subscribes before it publishes.
ReplyReachesWaiter ==
    \A r \in Requests :
        req[r].pc = "wait" /\ req[r].promise = "waiting" /\ published[r] # {} => reply[r] # "none"

\* An outcome given to a caller is one a worker published for that very request,
\* however often its job was redelivered.
AnswerWasPublished ==
    \A r \in Requests :
        req[r].ans \in {"200", "200 Timeout", "200 Unhandled"}
          => \E o \in published[r] : req[r].ans = HttpAnswer(o)

\* No job leaves the PEL before its outcome was published, whatever fails between
\* the run, the PUBLISH and the XACK.
AckedWasPublished ==
    \A i \in DOMAIN log : log[i].st = "acked" => published[log[i].val] # {}

\* The process of worker w is gone, or it was told to stop.
Leaving(w) == wk[w].pc \in {"dead", "stopped"} \/ wk[w].stopping

\* The status a caller was told, in the words of the invocations table.
Told == [a \in {"200", "200 Timeout", "200 Unhandled", "503"} |->
            CASE a = "200" -> "SUCCESS" [] a = "200 Timeout" -> "TIMEOUT"
              [] a = "200 Unhandled" -> "ERROR" [] a = "503" -> "NO_WORKER"]

\* "The API also records every invocation": while the function exists and no
\* query has failed, every dispatched or fast-failed request that is answered has
\* exactly one row, and it says what the caller was told.
AnsweredIsRecorded ==
    \A r \in Requests : req[r].ans \in DOMAIN Told =>
        /\ \A x \in rows : x.req = r => x.status = Told[req[r].ans]
        /\ fn = "built" /\ faults = 0 => \E x \in rows : x.req = r

\* "dispatch() only ever throws for ONE reason: no worker replied within the dispatch
\* window": a request is not given up as NO_WORKER once its reply has arrived.  An
\* UNSUBSCRIBE that fails in dispatch's finally block does just that.
NoWorkerMeansNoReply ==
    \A r \in Requests : req[r].out = "NO_WORKER" => req[r].promise \notin Outcomes

\* A message changes hands only when its owner's process is gone, or is going and has
\* ended its heartbeats: "a worker that's simply taking a long time on a legitimate
\* slow function keeps its job".
OnlyDeadOwnersRobbed ==
    [][\A i \in DOMAIN log, w \in Workers :
          log[i].owner = w /\ log'[i].owner \notin {w, Nobody} => Leaving(w)]_vars

\* However stale the lists of the others are: a worker keeps the job it has read from
\* the stream itself as long as it handles it, and nobody else runs that job.
FirstHandJobsKept ==
    \A w \in Workers : wk[w].pc \in Busy /\ wk[w].src = "read" /\ ~wk[w].stopping =>
        /\ log[wk[w].cur].owner = w
        /\ \A v \in Workers \ {w} : wk[v].pc \in Busy => wk[v].cur # wk[w].cur

\* A cleanly stopped worker is gone from the registry for good and, if the stop is
\* the only failure, leaves no message behind in its PEL.
StoppedLeavesNothing ==
    \A w \in Workers : wk[w].pc = "stopped" =>
        /\ reg[w].st = "absent"
        /\ faults = 1 => \A i \in DOMAIN log : log[i].owner # w

\* Every request that is being served is answered, or its process died.
EveryRequestAnswered ==
    \A r \in Requests : InProgress(r) ~> ~InProgress(r)

\* Worker w is up and has entry i in its PEL without handling it: a command failed
\* between the delivery and the XACK, and a worker never retries its own entries.
Stranded(i) ==
    \E w \in Workers : /\ log[i].owner = w /\ wk[w].pc \in Live
                       /\ ~(wk[w].pc \in Busy /\ wk[w].cur = i)

\* Redis errors and deaths of workers leave no job behind but those: in the end every
\* job is acknowledged, or waits in the PEL of a worker that is up (so that its death
\* will free it), unless no worker is left.
OnlyStrandedJobsRemain ==
    <>[]\/ \A i \in DOMAIN log : log[i].st = "acked" \/ Stranded(i)
        \/ \A w \in Workers : wk[w].pc \in {"dead", "stopped"}
=============================================================================
