--------------------------- MODULE BuildPipeline ---------------------------
(***************************************************************************)
(* The asynchronous build pipeline: POST /functions/:name/versions records *)
(* a PENDING build in Postgres, the transactional outbox relay of every    *)
(* API process publishes it to the stream `builds:pending`, and the stream *)
(* consumer of every API process runs it and records the outcome.          *)
(*                                                                         *)
(* One action per awaited step: an `await` is where the steps of the       *)
(* relays, the consumers and the HTTP requests of all API processes        *)
(* interleave.  See README.md for the correspondence with src/build.       *)
(***************************************************************************)
EXTENDS Integers, FiniteSets, RedisStream

CONSTANTS
    Apis,           \* API processes (k8s/03-api-deployment.yaml runs two)
    TicksPerApi,    \* relay ticks of one process that may overlap
    Fns,            \* ids of function rows; a deleted id is never reused
    Names,          \* function names
    Users,          \* accounts
    NameOf,         \* the name of each function id
    UserOf,         \* the account each function id belongs to
    MaxBuilds,      \* bound: builds submitted in a behaviour
    MaxVersion,     \* bound: version numbers
    RelayBatch,     \* LIMIT of the relay's SELECT (20 in the code)
    SlowHandling,   \* may a message outlive BUILD_CLAIM_IDLE_MS in a live consumer?
    RemoteBuilds,   \* TRUE: CodeBuildExecutor, FALSE: LocalDockerBuildExecutor
    FaultKinds,     \* which failures happen: see Fault
    MaxFaults       \* bound: failures in a behaviour

ASSUME BuildAssumption ==
    /\ TicksPerApi \in Nat
    /\ NameOf \in [Fns -> Names]
    /\ UserOf \in [Fns -> Users]
    /\ MaxBuilds \in Nat
    /\ MaxVersion \in Nat
    /\ RelayBatch \in Nat \ {0}
    /\ SlowHandling \in BOOLEAN
    /\ RemoteBuilds \in BOOLEAN
    /\ FaultKinds \subseteq {"crash", "db", "reply", "redis"}
    /\ MaxFaults \in Nat

VARIABLES
    up,         \* up[p]: the API process p is running
    fns,        \* fns[f]: has the function row been created or deleted?
    builds,     \* rows of the table builds, in the order of created_at
    versions,   \* rows of the table function_versions
    images,     \* images[tag]: the build whose source the image holds, 0: none
    group,      \* does the consumer group build-workers exist?
    log,        \* the stream builds:pending
    relay,      \* relay[<<p, k>>]: a call of relayOnce in process p
    cons,       \* cons[p]: the consumer loop of process p
    orphans,    \* CodeBuild runs nobody polls any more
    lost,       \* history: builds marked published that no XADD will follow
    faults      \* failures so far

db     == <<fns, builds, versions>>
stream == <<group, log>>
vars   == <<up, db, images, stream, relay, cons, orphans, lost, faults>>

BuildIds == 1..MaxBuilds
Slots    == Apis \X (1..TicksPerApi)
Tags     == Names \X (1..MaxVersion)
NoTag    == <<>>
NoFn     == "nofn"

\* NULL is the id of no function.
ASSUME NoFnAssumption == NoFn \notin Fns

\* imageRef of local-docker-build-executor.ts and codebuild-executor.ts: both
\* put only the function's name and the version number into the tag.
TagOf(f, n) == <<NameOf[f], n>>

BuildRow == [st  : {"none", "PENDING", "SUCCESS", "FAILED", "deleted"},
             fn  : Fns \cup {NoFn},
             pub : BOOLEAN,
             tag : Tags \cup {NoTag}]

\* `by` is history: the row has no column for the build it came from.
VersionRow == [fn : Fns, num : 1..MaxVersion, tag : Tags, by : BuildIds]

\* A tick of the relay: waiting for its interval, inside its transaction with
\* the rows `ids` locked, or publishing the `ids` it has marked.
TickState == [pc : {"idle", "locked", "xadd"}, ids : SUBSET BuildIds]

\* A consumer loop.  `src` is the call made last (XAUTOCLAIM or XREADGROUP),
\* `todo` the delivered stream positions not handled yet, `cur` the one being
\* handled, `num` the version number runBuild computed.
ConsumerPc == {"down", "loop", "find", "next", "build", "commit", "catch", "ack"}

ConsumerState == [pc   : ConsumerPc,
                  src  : {"reclaim", "read"},
                  todo : SUBSET Nat,
                  cur  : Nat,
                  num  : 0..MaxVersion]

IdleTick == [pc |-> "idle", ids |-> {}]
Booted   == [pc |-> "loop", src |-> "read", todo |-> {}, cur |-> 0, num |-> 0]
Stopped  == [Booted EXCEPT !.pc = "down"]

Exists(b)   == builds[b].st \notin {"none", "deleted"}
Finished(b) == builds[b].st \in {"SUCCESS", "FAILED"}
Locked      == {b \in BuildIds : \E t \in Slots : relay[t].pc = "locked" /\ b \in relay[t].ids}
Current(p)  == log[cons[p].cur].val
FnOf(b)     == builds[b].fn

\* The stream position i is in the hands of a running consumer.
Held(i) == \E p \in Apis : cons[p].pc # "down" /\ (i = cons[p].cur \/ i \in cons[p].todo)

Init ==
    /\ up = [p \in Apis |-> FALSE]
    /\ fns = [f \in Fns |-> "absent"]
    /\ builds = [b \in BuildIds |-> [st |-> "none", fn |-> NoFn, pub |-> FALSE, tag |-> NoTag]]
    /\ versions = {}
    /\ images = [tag \in Tags |-> 0]
    /\ group = FALSE
    /\ log = <<>>
    /\ relay = [t \in Slots |-> IdleTick]
    /\ cons = [p \in Apis |-> Stopped]
    /\ orphans = {}
    /\ lost = {}
    /\ faults = 0

-----------------------------------------------------------------------------
(* HTTP requests.                                                          *)

\* FunctionsService.register: the insert fails (409) when the account already
\* has a function of that name.
Register(f) ==
    /\ fns[f] = "absent"
    /\ \A g \in Fns : fns[g] = "live" => <<UserOf[g], NameOf[g]>> # <<UserOf[f], NameOf[f]>>
    /\ fns' = [fns EXCEPT ![f] = "live"]
    /\ UNCHANGED <<up, builds, versions, images, stream, relay, cons, orphans, lost, faults>>

\* FunctionsService.remove: ON DELETE CASCADE takes the builds and the versions
\* with it; the delete waits for a relay transaction that has locked one of them.
\* Nothing removes the images.
Remove(f) ==
    /\ fns[f] = "live"
    /\ \A b \in Locked : FnOf(b) # f
    /\ fns' = [fns EXCEPT ![f] = "deleted"]
    /\ builds' = [b \in BuildIds |-> IF FnOf(b) = f /\ Exists(b)
                                     THEN [builds[b] EXCEPT !.st = "deleted"]
                                     ELSE builds[b]]
    /\ versions' = {v \in versions : v.fn # f}
    /\ UNCHANGED <<up, images, stream, relay, cons, orphans, lost, faults>>

\* BuildController.createVersion and BuildService.submitBuild: the upload, then
\* the row.  A request that fails in between, or whose function is deleted in
\* between, leaves only an object nobody refers to.
SubmitBuild(b, f) ==
    /\ fns[f] = "live"
    /\ builds[b].st = "none"
    /\ \A a \in BuildIds : a < b => builds[a].st # "none"
    /\ builds' = [builds EXCEPT ![b] = [@ EXCEPT !.st = "PENDING", !.fn = f]]
    /\ UNCHANGED <<up, fns, versions, images, stream, relay, cons, orphans, lost, faults>>

-----------------------------------------------------------------------------
(* Start-up of an API process: the group is created before the consumer    *)
(* loop starts and, on the shared connection, before any XADD of the       *)
(* process's relay.  An existing group (BUSYGROUP) is left as it is.       *)
BootRecreatesGroup(p) ==    \* faulty variant: the group is reset to '$' on every start
    /\ ~up[p]
    /\ up' = [up EXCEPT ![p] = TRUE]
    /\ group' = TRUE
    /\ log' = XGroupCreate(log)
    /\ cons' = [cons EXCEPT ![p] = Booted]
    /\ UNCHANGED <<db, images, relay, orphans, lost, faults>>

Boot(p) ==
    /\ ~up[p]
    /\ up' = [up EXCEPT ![p] = TRUE]
    /\ group' = TRUE
    /\ log' = IF group THEN log ELSE XGroupCreate(log)
    /\ cons' = [cons EXCEPT ![p] = Booted]
    /\ UNCHANGED <<db, images, relay, orphans, lost, faults>>

-----------------------------------------------------------------------------
(* The outbox relay, BuildOutboxRelayService.  setInterval starts a tick   *)
(* whether or not the previous one has finished.                           *)

\* WHERE status = 'PENDING' AND published_to_stream_at IS NULL, SKIP LOCKED.
ClaimableWithoutLocks ==    \* faulty variant: a plain SELECT
    {b \in BuildIds : builds[b].st = "PENDING" /\ ~builds[b].pub}

Claimable ==
    {b \in BuildIds : builds[b].st = "PENDING" /\ ~builds[b].pub /\ b \notin Locked}

\* ORDER BY created_at LIMIT RelayBatch.
Oldest(S) == {b \in S : Cardinality({a \in S : a < b}) < RelayBatch}

\* SELECT ... FOR UPDATE SKIP LOCKED; a tick that finds no row returns.
RelayLock(t) ==
    /\ up[t[1]]
    /\ relay[t].pc = "idle"
    /\ Oldest(Claimable) # {}
    /\ relay' = [relay EXCEPT ![t] = [pc |-> "locked", ids |-> Oldest(Claimable)]]
    /\ UNCHANGED <<up, db, images, stream, cons, orphans, lost, faults>>

MarkPublished(ids) ==
    [b \in BuildIds |-> IF b \in ids THEN [builds[b] EXCEPT !.pub = TRUE] ELSE builds[b]]

\* updateMany(publishedToStreamAt) and COMMIT, which releases the locks.
RelayCommit(t) ==
    /\ relay[t].pc = "locked"
    /\ builds' = MarkPublished(relay[t].ids)
    /\ relay' = [relay EXCEPT ![t].pc = "xadd"]
    /\ UNCHANGED <<up, fns, versions, images, stream, cons, orphans, lost, faults>>

\* The tick is done with build b: the next one of claimedIds, or the end.
NextClaimed(tick, b) ==
    IF tick.ids = {b} THEN IdleTick ELSE [tick EXCEPT !.ids = @ \ {b}]

\* One round of `for (const buildId of claimedIds)`: the XADD.
RelayXadd(t) ==
    /\ relay[t].pc = "xadd"
    /\ \E b \in relay[t].ids :
         /\ \A a \in relay[t].ids : b <= a
         /\ log' = XAdd(log, b)
         /\ relay' = [relay EXCEPT ![t] = NextClaimed(@, b)]
    /\ UNCHANGED <<up, db, images, group, cons, orphans, lost, faults>>

-----------------------------------------------------------------------------
(* The stream consumer, BuildStreamConsumerService.                        *)

InLoop(p, last) == cons[p].pc = "loop" /\ cons[p].todo = {} /\ cons[p].src = last

\* An entry has been pending for claimIdleMs.  Unless SlowHandling, that only
\* happens to an entry no running consumer holds any more.
IdleOut(i) ==
    /\ i \in DOMAIN log
    /\ log[i].st = "pending" /\ ~log[i].idle
    /\ SlowHandling \/ ~Held(i)
    /\ log' = Expire(log, i)
    /\ UNCHANGED <<up, db, images, group, relay, cons, orphans, lost, faults>>

\* reclaimAbandonedMessages: XAUTOCLAIM takes every expired entry, and the batch
\* is then handled one message after the other.
ReclaimNever(p) ==          \* faulty variant: XAUTOCLAIM's answer is ignored
    /\ InLoop(p, "read")
    /\ cons' = [cons EXCEPT ![p].src = "reclaim"]
    /\ UNCHANGED <<up, db, images, stream, relay, orphans, lost, faults>>

Reclaim(p) ==
    /\ InLoop(p, "read")
    /\ log' = XAutoClaim(log, p)
    /\ cons' = [cons EXCEPT ![p] = [@ EXCEPT !.src = "reclaim", !.todo = Expired(log)]]
    /\ UNCHANGED <<up, db, images, group, relay, orphans, lost, faults>>

\* readAndProcessOnce: XREADGROUP delivers the oldest new entry ...
ReadNew(p) ==
    /\ InLoop(p, "reclaim")
    /\ \E i \in DOMAIN log :
         /\ IsNextNew(log, i)
         /\ log' = Deliver(log, i, p)
         /\ cons' = [cons EXCEPT ![p] = [@ EXCEPT !.src = "read", !.todo = {i}]]
    /\ UNCHANGED <<up, db, images, group, relay, orphans, lost, faults>>

\* ... or BLOCK times out.
ReadNothing(p) ==
    /\ InLoop(p, "reclaim")
    /\ \A i \in DOMAIN log : log[i].st # "new"
    /\ cons' = [cons EXCEPT ![p].src = "read"]
    /\ UNCHANGED <<up, db, images, stream, relay, orphans, lost, faults>>

\* handleMessage looks the build up: a missing row throws (no XACK), a finished
\* build is only acknowledged, any other one is run.
AfterLookupUnchecked(b) ==  \* faulty variant: no idempotency guard
    IF ~Exists(b) THEN "loop" ELSE "find"

AfterLookupRetrying(b) ==   \* faulty variant: the guard only knows SUCCESS
    IF ~Exists(b) THEN "loop" ELSE IF builds[b].st = "SUCCESS" THEN "ack" ELSE "find"

AfterLookup(b) ==
    IF ~Exists(b) THEN "loop" ELSE IF Finished(b) THEN "ack" ELSE "find"

HandleMessage(p) ==
    /\ cons[p].pc = "loop"
    /\ \E i \in cons[p].todo :
         /\ \A j \in cons[p].todo : i <= j
         /\ LET pc == AfterLookup(log[i].val) IN
            cons' = [cons EXCEPT ![p] =
                       [cons[p] EXCEPT !.todo = @ \ {i},
                                       !.pc   = pc,
                                       !.cur  = IF pc = "loop" THEN 0 ELSE i]]
    /\ UNCHANGED <<up, db, images, stream, relay, orphans, lost, faults>>

Goto(p, pc) == cons' = [cons EXCEPT ![p].pc = pc]

\* handleMessage returns, with or without XACK, to the loop over its batch.
Done(p) == cons' = [cons EXCEPT ![p] = [@ EXCEPT !.pc = "loop", !.cur = 0, !.num = 0]]

\* runBuild: function.findUniqueOrThrow.
FindFunction(p) ==
    /\ cons[p].pc = "find"
    /\ Goto(p, IF fns[FnOf(Current(p))] = "live" THEN "next" ELSE "catch")
    /\ UNCHANGED <<up, db, images, stream, relay, orphans, lost, faults>>

\* n is the highest version number of f, 0 when f has no version.
IsLatest(f, n) ==
    /\ \A v \in versions : v.fn = f => v.num <= n
    /\ n # 0 => \E v \in versions : v.fn = f /\ v.num = n

\* runBuild: nextVersionNumber.
NextVersionNumberReused(p) ==   \* faulty variant: the latest number again
    /\ cons[p].pc = "next"
    /\ \E n \in 0..(MaxVersion - 1) :
         /\ IsLatest(FnOf(Current(p)), n)
         /\ cons' = [cons EXCEPT ![p] = [@ EXCEPT !.pc = "build", !.num = IF n = 0 THEN 1 ELSE n]]
    /\ UNCHANGED <<up, db, images, stream, relay, orphans, lost, faults>>

NextVersionNumber(p) ==
    /\ cons[p].pc = "next"
    /\ \E n \in 0..(MaxVersion - 1) :
         /\ IsLatest(FnOf(Current(p)), n)
         /\ cons' = [cons EXCEPT ![p] = [@ EXCEPT !.pc = "build", !.num = n + 1]]
    /\ UNCHANGED <<up, db, images, stream, relay, orphans, lost, faults>>

BuildTag(p) == TagOf(FnOf(Current(p)), cons[p].num)

\* executor.build succeeds: `docker build -t tag`, or CodeBuild's push, makes
\* the tag name this build's image, whatever it named before.
ExecutorBuilds(p) ==
    /\ cons[p].pc = "build"
    /\ images' = [images EXCEPT ![BuildTag(p)] = Current(p)]
    /\ Goto(p, "commit")
    /\ UNCHANGED <<up, db, stream, relay, orphans, lost, faults>>

\* executor.build throws: no source object, docker build exits with an error,
\* CodeBuild reports a failure.
ExecutorFails(p) ==
    /\ cons[p].pc = "build"
    /\ Goto(p, "catch")
    /\ UNCHANGED <<up, db, images, stream, relay, orphans, lost, faults>>

\* CodeBuildExecutor gives up polling; the CodeBuild run goes on.
ExecutorGivesUp(p) ==
    /\ RemoteBuilds
    /\ cons[p].pc = "build"
    /\ orphans' = orphans \cup {<<BuildTag(p), Current(p)>>}
    /\ Goto(p, "catch")
    /\ UNCHANGED <<up, db, images, stream, relay, lost, faults>>

\* A CodeBuild run nobody polls pushes its image.
OrphanLands(o) ==
    /\ o \in orphans
    /\ orphans' = orphans \ {o}
    /\ images' = [images EXCEPT ![o[1]] = o[2]]
    /\ UNCHANGED <<up, db, stream, relay, cons, lost, faults>>

\* The transaction of runBuild is refused: the function, and with it the build
\* row, is gone, or (function_id, version_number) is taken.
CommitRefusedUnlessLive(b, n) ==    \* faulty variant: no unique constraint
    fns[FnOf(b)] # "live"

CommitRefused(b, n) ==
    \/ fns[FnOf(b)] # "live"
    \/ \E v \in versions : v.fn = FnOf(b) /\ v.num = n

RecordStatusOnly(b, n) ==   \* faulty variant: SUCCESS without the version row
    /\ builds' = [builds EXCEPT ![b] = [@ EXCEPT !.st = "SUCCESS", !.tag = TagOf(FnOf(b), n)]]
    /\ UNCHANGED versions

RecordVersionOnly(b, n) ==  \* faulty variant: the version row without SUCCESS
    /\ versions' = versions \cup {[fn |-> FnOf(b), num |-> n, tag |-> TagOf(FnOf(b), n), by |-> b]}
    /\ UNCHANGED builds

RecordSuccess(b, n) ==
    /\ versions' = versions \cup {[fn |-> FnOf(b), num |-> n, tag |-> TagOf(FnOf(b), n), by |-> b]}
    /\ builds' = [builds EXCEPT ![b] = [@ EXCEPT !.st = "SUCCESS", !.tag = TagOf(FnOf(b), n)]]

\* runBuild: the version row and SUCCESS in one transaction.
CommitVersion(p) ==
    /\ cons[p].pc = "commit"
    /\ \/ /\ CommitRefused(Current(p), cons[p].num)
          /\ Goto(p, "catch")
          /\ UNCHANGED db
       \/ /\ ~CommitRefused(Current(p), cons[p].num)
          /\ RecordSuccess(Current(p), cons[p].num)
          /\ Goto(p, "ack")
          /\ UNCHANGED fns
    /\ UNCHANGED <<up, images, stream, relay, orphans, lost, faults>>

RecordFailedMisspelt(b) ==  \* faulty variant: the status column is a plain string
    builds' = [builds EXCEPT ![b].st = "failed"]

RecordFailed(b) == builds' = [builds EXCEPT ![b].st = "FAILED"]

\* runBuild's catch block: FAILED, whatever the row says by now.  The update
\* itself throws when the row is gone, and then nothing is acknowledged.
CatchFailed(p) ==
    /\ cons[p].pc = "catch"
    /\ \/ Exists(Current(p)) /\ RecordFailed(Current(p)) /\ Goto(p, "ack")
       \/ ~Exists(Current(p)) /\ Done(p) /\ UNCHANGED builds
    /\ UNCHANGED <<up, fns, versions, images, stream, relay, orphans, lost, faults>>

\* handleMessage: XACK.
AckMessage(p) ==
    /\ cons[p].pc = "ack"
    /\ log' = XAck(log, cons[p].cur)
    /\ Done(p)
    /\ UNCHANGED <<up, db, images, group, relay, orphans, lost, faults>>

-----------------------------------------------------------------------------
(* Failures, each counted against MaxFaults.                               *)

Fault(kind) == kind \in FaultKinds /\ faults < MaxFaults /\ faults' = faults + 1

\* An API process dies.  Its transactions roll back, its claimed but unpublished
\* builds are never published, its PEL entries stay, a CodeBuild run goes on.
Crash(p) ==
    /\ up[p] /\ Fault("crash")
    /\ up' = [up EXCEPT ![p] = FALSE]
    /\ cons' = [cons EXCEPT ![p] = Stopped]
    /\ relay' = [t \in Slots |-> IF t[1] = p THEN IdleTick ELSE relay[t]]
    /\ lost' = lost \cup UNION {relay[t].ids : t \in {s \in Slots : s[1] = p /\ relay[s].pc = "xadd"}}
    /\ orphans' = IF RemoteBuilds /\ cons[p].pc = "build"
                  THEN orphans \cup {<<BuildTag(p), Current(p)>>} ELSE orphans
    /\ UNCHANGED <<db, images, stream>>

\* The relay's transaction fails and rolls back; the tick logs and ends.
RelayDbFails(t) ==
    /\ relay[t].pc = "locked" /\ Fault("db")
    /\ relay' = [relay EXCEPT ![t] = IdleTick]
    /\ UNCHANGED <<up, db, images, stream, cons, orphans, lost>>

\* The relay's COMMIT succeeds but the reply is lost: the tick ends, published
\* rows and all.
RelayReplyLost(t) ==
    /\ relay[t].pc = "locked" /\ Fault("reply")
    /\ builds' = MarkPublished(relay[t].ids)
    /\ lost' = lost \cup relay[t].ids
    /\ relay' = [relay EXCEPT ![t] = IdleTick]
    /\ UNCHANGED <<up, fns, versions, images, stream, cons, orphans>>

\* XADD fails: logged, and the loop goes on to the next build.
XaddFails(t) ==
    /\ relay[t].pc = "xadd" /\ Fault("redis")
    /\ \E b \in relay[t].ids :
         /\ \A a \in relay[t].ids : b <= a
         /\ lost' = lost \cup {b}
         /\ relay' = [relay EXCEPT ![t] = NextClaimed(@, b)]
    /\ UNCHANGED <<up, db, images, stream, cons, orphans>>

\* A query of handleMessage or runBuild fails.
ConsumerDbFailsAcked(p) ==  \* faulty variant: an error in the catch block is swallowed
    /\ Fault("db")
    /\ \/ cons[p].pc \in {"find", "next", "commit"} /\ Goto(p, "catch")
       \/ cons[p].pc = "catch" /\ Goto(p, "ack")
    /\ UNCHANGED <<up, db, images, stream, relay, orphans, lost>>

ConsumerDbFails(p) ==
    /\ Fault("db")
    /\ \/ /\ cons[p].pc = "loop"
          /\ \E i \in cons[p].todo :
               /\ \A j \in cons[p].todo : i <= j
               /\ cons' = [cons EXCEPT ![p].todo = @ \ {i}]
       \/ cons[p].pc \in {"find", "next", "commit"} /\ Goto(p, "catch")
       \/ cons[p].pc = "catch" /\ Done(p)
    /\ UNCHANGED <<up, db, images, stream, relay, orphans, lost>>

\* A write of runBuild is applied but its reply is lost.
ConsumerReplyLost(p) ==
    /\ Fault("reply")
    /\ \/ /\ cons[p].pc = "commit"
          /\ ~CommitRefused(Current(p), cons[p].num)
          /\ RecordSuccess(Current(p), cons[p].num)
          /\ Goto(p, "catch")
       \/ /\ cons[p].pc = "catch"
          /\ Exists(Current(p))
          /\ RecordFailed(Current(p))
          /\ Done(p)
          /\ UNCHANGED versions
    /\ UNCHANGED <<up, fns, images, stream, relay, orphans, lost>>

\* A Redis command of the consumer fails: an XACK that is not applied, or an
\* XAUTOCLAIM or XREADGROUP whose reply is lost after it moved entries into
\* p's PEL (the loop's catch starts over with the reclaim).
ConsumerRedisFails(p) ==
    /\ Fault("redis")
    /\ \/ cons[p].pc = "ack" /\ Done(p) /\ UNCHANGED log
       \/ /\ InLoop(p, "read")
          /\ Expired(log) # {}
          /\ log' = XAutoClaim(log, p)
          /\ UNCHANGED cons
       \/ /\ InLoop(p, "reclaim")
          /\ \E i \in DOMAIN log : IsNextNew(log, i) /\ log' = Deliver(log, i, p)
          /\ cons' = [cons EXCEPT ![p].src = "read"]
    /\ UNCHANGED <<up, db, images, group, relay, orphans, lost>>

-----------------------------------------------------------------------------
RelayStep(t) == RelayLock(t) \/ RelayCommit(t) \/ RelayXadd(t)

ConsumerStep(p) ==
    \/ Reclaim(p) \/ ReadNew(p) \/ ReadNothing(p) \/ HandleMessage(p)
    \/ FindFunction(p) \/ NextVersionNumber(p)
    \/ ExecutorBuilds(p) \/ ExecutorFails(p) \/ ExecutorGivesUp(p)
    \/ CommitVersion(p) \/ CatchFailed(p) \/ AckMessage(p)

RelayFault(t)    == RelayDbFails(t) \/ RelayReplyLost(t) \/ XaddFails(t)
ConsumerFault(p) == ConsumerDbFails(p) \/ ConsumerReplyLost(p) \/ ConsumerRedisFails(p)

Next ==
    \/ \E f \in Fns : Register(f) \/ Remove(f)
    \/ \E b \in BuildIds, f \in Fns : SubmitBuild(b, f)
    \/ \E p \in Apis : Boot(p) \/ ConsumerStep(p) \/ ConsumerFault(p) \/ Crash(p)
    \/ \E t \in Slots : RelayStep(t) \/ RelayFault(t)
    \/ \E i \in DOMAIN log : IdleOut(i)
    \/ \E o \in orphans : OrphanLands(o)

Spec == Init /\ [][Next]_vars

(***************************************************************************)
(* Fairness: a process that is down is restarted by Kubernetes, setInterval *)
(* keeps starting ticks, the event loop gets to every pending continuation, *)
(* an executor returns sooner or later, and idle clocks advance.  Nothing   *)
(* is assumed of HTTP requests, failures or orphaned CodeBuild runs.        *)
(***************************************************************************)
Fairness ==
    /\ \A p \in Apis : WF_vars(Boot(p)) /\ WF_vars(ConsumerStep(p))
    /\ \A t \in Slots : WF_vars(RelayStep(t))
    /\ \A i \in 1..MaxBuilds : WF_vars(IdleOut(i))

FairSpec == Spec /\ Fairness

-----------------------------------------------------------------------------
(* Properties.                                                             *)

TypeOK ==
    /\ up \in [Apis -> BOOLEAN]
    /\ fns \in [Fns -> {"absent", "live", "deleted"}]
    /\ builds \in [BuildIds -> BuildRow]
    /\ versions \subseteq VersionRow
    /\ images \in [Tags -> BuildIds \cup {0}]
    /\ group \in BOOLEAN
    /\ log \in Seq(Entries(BuildIds, Apis))
    /\ relay \in [Slots -> TickState]
    /\ cons \in [Apis -> ConsumerState]
    /\ orphans \subseteq Tags \X BuildIds
    /\ lost \subseteq BuildIds
    /\ faults \in 0..MaxFaults

\* The relays of all processes, overlapping ticks included, put at most one
\* message per build into the stream: the double publish that SELECT ... FOR
\* UPDATE SKIP LOCKED was introduced against does not come back.
PublishedOnce ==
    \A i, j \in DOMAIN log : log[i].val = log[j].val => i = j

\* A message leaves the PEL only when its build has an outcome (or its row is
\* gone): handleMessage never acknowledges work that still has to be done.
AckedOnlyWhenFinished ==
    \A i \in DOMAIN log : log[i].st = "acked" => builds[log[i].val].st # "PENDING"

\* A build marked published and still PENDING is in a relay's hands or in the
\* stream where a consumer will get it, except the ones the relay lost between
\* its COMMIT and its XADD.
PublishedIsTracked ==
    \A b \in BuildIds :
        builds[b].st = "PENDING" /\ builds[b].pub =>
            \/ b \in lost
            \/ \E t \in Slots : relay[t].pc = "xadd" /\ b \in relay[t].ids
            \/ \E i \in DOMAIN log : log[i].val = b /\ log[i].st \in {"new", "pending"}

\* Version numbers of a function are 1, 2, ..., n without a gap or a duplicate,
\* however many consumers run nextVersionNumber at the same time.
VersionsContiguous ==
    \A v \in versions :
        /\ \A w \in versions : v.fn = w.fn /\ v.num = w.num => v = w
        /\ v.num > 1 => \E w \in versions : w.fn = v.fn /\ w.num = v.num - 1

\* "a SUCCESS build with no corresponding version" does not exist: the one half
\* of the comment on runBuild's transaction.
SuccessHasVersion ==
    \A b \in BuildIds :
        builds[b].st = "SUCCESS" => \E v \in versions : v.fn = FnOf(b) /\ v.tag = builds[b].tag

\* The other half: "a FunctionVersion pointing at an image nobody recorded as
\* SUCCESS" does not exist.
VersionHasSuccess ==
    \A v \in versions :
        \E b \in BuildIds : builds[b].st = "SUCCESS" /\ FnOf(b) = v.fn /\ builds[b].tag = v.tag

\* Redelivery is idempotent: one build yields at most one version.
OneVersionPerBuild ==
    \A v, w \in versions : v.by = w.by => v = w

\* A version is immutable: the image its tag names holds the source of the build
\* that created the version.
ImageMatchesVersion ==
    \A v \in versions : images[v.tag] = v.by

\* "An immutable build artifact": while a version exists, nothing replaces the image
\* its tag names, a CodeBuild run that nobody polls any more included.
ArtifactsImmutable ==
    [][\A v \in versions \cap versions' : images'[v.tag] = images[v.tag]]_vars

\* Every PENDING build is finished, deleted with its function, or one of those
\* the relay lost.
EveryBuildFinishes ==
    \A b \in BuildIds : builds[b].st = "PENDING" ~> builds[b].st # "PENDING" \/ b \in lost

\* A build as a client sees it, from the two tables.
JobOf(b) ==
    [st  |-> builds[b].st,
     fn  |-> FnOf(b),
     num |-> IF \E v \in versions : v.by = b THEN (CHOOSE v \in versions : v.by = b).num ELSE 0]

\* The builds a client can ask for: the variable of BuildJob.
Jobs == [b \in BuildIds |-> JobOf(b)]

Job == INSTANCE BuildJob WITH Builds <- BuildIds, job <- Jobs

\* The pipeline implements BuildJob: through crashes, redelivery and failed
\* queries, a client sees each build go once from PENDING to its final outcome.
ImplementsBuildJob == Job!Spec
=============================================================================
