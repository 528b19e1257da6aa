# Verification of the Mini-Serverless-Cloud-Platform

TLA+ models of the platform in `src/`, model-checked with TLC on small
instances and, where marked, proved with TLAPS for every value of the constants.

## 1. Inventory

The platform is two kinds of Node processes around Postgres and Redis: API
processes (`k8s/03-api-deployment.yaml` runs two) and workers (two, each
with an id of its own per process start).

| Component | State | Operations | Interacts through | What is hard | Correct means |
|---|---|---|---|---|---|
| Build service (`build.service.ts`) | tables builds, function_versions | submitBuild, runBuild, nextVersionNumber | Postgres, executor | version race, write order, overwritten outcome | outcome and version agree, numbers contiguous |
| Outbox relay (`build-outbox-relay.service.ts`) | `published_to_stream_at`, ticks in flight | relayOnce every second, overlapping | row locks, XADD | two relays, crash between COMMIT and XADD | each build published once, losses only where documented |
| Build consumer (`build-stream-consumer.service.ts`) | PEL of the group, loop | reclaim, read, handle, ack | Redis stream, Postgres | redelivery, slow versus dead, poison messages | no ack before an outcome, redelivery is idempotent |
| Executors (`local-docker-…`, `codebuild-executor.ts`) | image tags, remote builds | build | Docker, CodeBuild | shared tags, poll window | a version's tag names its own image |
| Functions service (`functions.service.ts`) | tables functions, invocations | register, remove, invoke, recordInvocation | Postgres, registry, dispatch | deletion during an invocation | what was answered is recorded |
| Dispatch (`invocation-dispatch.service.ts`) | waiters, timers, subscriptions | dispatch, message handler | stream, Pub/Sub | timer against reply, Pub/Sub has no memory | every request answered, with its own outcome |
| Worker (`worker.service.ts`) | PEL, in-flight job, heartbeat timer | loop, reclaim, run, publish, ack, stop | stream, Pub/Sub, registry | stale health snapshot, crash points, shutdown order | at-least-once, no theft from the living |
| Registry (`worker-registry.service.ts`) | hash of heartbeats | heartbeat, deregister, listWorkers | Redis hash | staleness, heartbeats stuck behind a blocked connection | a lease on life, not on a job; wrong about a worker only briefly |
| Container executor, shim (`containerExecutor.ts`, `runtime/shim.js`) | container, result file, kill timer | run, kill, close | Docker | kill before start, kill during the write | every call returns, nothing left behind |
| In-process executor (`executor.ts`, `run.ts`) | one promise, one timer per call | executeFunction | user code on its own event loop | late rejections, code that hangs or blocks | every call settles once, with what the code did |
| Authentication (`auth/`) and the controllers behind it | users, sessions, API keys | register, login, create, list and revoke keys, both guards | Postgres | revocation against use, updates nobody awaits | a revoked key serves nothing, scopes decide on the function routes, keys are managed by sessions, accounts do not meet |
| Metrics, storage, health, entry points | – | – | – | – | see section 7 |

`PROJECT.json` lists the components, the hazards with their lines, and which
property catches each of them.

## 2. Modules

| Module | Models | Proofs |
|---|---|---|
| `RedisStream` | a stream with one consumer group (external: the commands the services send) | `RedisStreamProofs` |
| `BuildPipeline` | POST versions → relay → stream → consumer → executor → outcome, on any number of API processes | `BuildPipelineProofs`, and `BuildOutcomeProofs` for what redelivery may do to outcomes |
| `InvocationPipeline` | invoke → registry → dispatch → stream → worker → Pub/Sub → answer and row | `InvocationPipelineProofs` |
| `InvocationTiming` | the same path in seconds: one worker, one API process, one Redis connection each | `InvocationTimingProofs` |
| `ContainerRun` | `runIsolatedContainer` with Docker and the shim | `ContainerRunProofs` |
| `InProcessExecutor` | `executeFunction`, and user code on the caller's event loop | `ExecutorsProofs` |
| `Accounts` | accounts, sessions, API keys, the guards and the routes behind them | `AccountsProofs` |
| `BuildJob` | abstract: a build as a polling client sees it; `BuildPipeline` implements it | `BuildOutcomeProofs` |
| `ExecutionRuntime` | abstract: what a call of an executor promises; `ContainerRun` and `InProcessExecutor` implement it | both implementations: `ContainerRunProofs`, `ExecutorsProofs` |
| `MCBuildPipeline`, `MCInvocationPipeline`, `MCExecutors` | instances for TLC; the last composes both executors | |

An action is the stretch of code between two `await`s: an `await` is where
other requests, ticks, loops and processes get their turn. `PROJECT.json` maps
each definition to its lines. Definitions marked *faulty variant* stand directly
before the definition they vary; they are no part of the specification and
state a plausible bug that the corresponding property is shown to catch.

**BuildPipeline.** `builds`, `versions`, `fns` are the tables. A row lock is a
build in the `ids` of a tick that is `"locked"`; a tick goes idle → locked
(SELECT … FOR UPDATE SKIP LOCKED) → xadd (after COMMIT) → idle. A consumer goes
loop → find → next → build → commit → ack, with `catch` for runBuild's catch
block; its `src` says which of XAUTOCLAIM and XREADGROUP comes next. `images`
maps a tag to the build whose source it holds. History only: `lost` (marked
published, never sent) and `by` in a version row.

**InvocationPipeline.** `req[r]` is the handler of one request; `promise` is
dispatch's `resultPromise`, `"waiting"` while its resolver is in `waiters`.
`wk[w]` is a worker's loop: pending (XPENDING) → list (HGETALL) → claim … →
read → run → publish → ack. A heartbeat is absent, fresh or stale, and busy or
not. Requests are for one function, and `ans` is the HTTP answer of the
controller: 200, 200 with `X-Function-Error`, 503, 404, 409 or 500. History only:
`published`.

**InvocationTiming.** Redis serves a connection's commands in order, and
`redis.module.ts` gives each process one connection, which XREADGROUP … BLOCK
holds for up to two seconds. Clocks count seconds, `Tick` advances all of them and
waits for whatever is due. `queued` is a heartbeat that waits behind the worker's
XREADGROUP; `api` is how long the build consumer still blocks the API process's
connection. `TimingAssumption` states how the constants of three files have to
fit together: Block < HeartbeatInterval, HeartbeatInterval + Block ≤ StaleAfter,
Block + Overhead < Buffer. `Overhead`, what starting and killing a container
add to a run, is a bound of the model (2 s, the code measures 450–680 ms).

**ContainerRun.** One record per call: timer, docker kill, container, exit code,
shim, result file, scratch directory, outcome; and the host process, which an
uncaught exception ends.

**InProcessExecutor.** One record per call: race, timer, handlerPromise, outcome.
An action is one turn of the event loop. User code may settle its promise at any
time, also after the timer, block the loop, or throw past every promise.

**ExecutionRuntime** has a call go from idle to running to one outcome, and the
user's code end at most once, before or after that. A success needs a code that
returned, a timeout one that had not ended. For a container, what the code did
is what the shim's result file says. Nothing is promised once the calling
process has died. **BuildJob** has a build go from PENDING to FAILED or, in one
step, to SUCCESS with the next version number of its function; that outcome is
final.

**Accounts.** A connection carries any number of requests; a request goes idle →
guard (the lookup of an API key; a JWT is verified at once) → handler → idle, with
one action per query. `touched` holds the updates of `lastUsedAt` that are on
their way. A session is its account, a key the id of its row. The build routes pass
the same two guards, `/workers` only the first; they are not repeated here.
History only: `late`, a request that came with a key already revoked.

Time is abstracted outside `InvocationTiming`: timers fire, leases expire and idle clocks pass at any
moment, except where a constant says otherwise: `SlowHandling` (a message may
outlive the claim idle time in a live consumer), `LateHeartbeats` (a live
worker may look dead), `SlowStart` (the kill timer may fire before the container
runs), and two for a message that a worker has listed by XPENDING and that another
worker claims before it does: may the claim idle time pass again before the first
one's own XCLAIM, while it runs a job of an earlier claim (`SlowRuns`) or makes its way from one
command to the next (`SlowSteps`)? Passing runs use the more permissive value unless the
question is what holds without it.

## 3. Runs

Passing runs:

| Run | Instance | Shows |
|---|---|---|
| `build_replicas` | 2 API processes, 2 builds, relay batches of 2, CodeBuild, slow builds, 1 failure of any kind | `PublishedOnce`, `AckedOnlyWhenFinished`, `PublishedIsTracked`, `VersionsContiguous`, `SuccessHasVersion` |
| `build_patient` | 2 processes, 2 builds, no slow build, 2 crashes or failed commands, fairness | `OneVersionPerBuild`, `VersionHasSuccess`: redelivery is idempotent if only the dead lose messages; `EveryBuildFinishes`; `ImplementsBuildJob`: a client never sees an outcome change |
| `invoke_faults` | 2 requests, 2 workers, late heartbeats, 1 failure or clean stop of any kind | `GroupBeforeJobs`, `ReplyReachesWaiter`, `AnswerWasPublished`, `AckedWasPublished`, `StoppedLeavesNothing` |
| `invoke_live` | 1 request, 3 workers, the function created, built and deleted meanwhile, heartbeats on time, no listed message idle twice, 2 failures of any kind (no clean stop), fairness | `AnsweredIsRecorded`, `OnlyDeadOwnersRobbed`, `FirstHandJobsKept`, `EveryRequestAnswered`, `OnlyStrandedJobsRemain`: a job is acknowledged, or lies with a live worker that dropped it, or no worker is left |
| `timing` | 2 requests, the constants of the code in seconds (2, 3, 10, 5, timeout 3), runs up to 5 s | `HeartbeatsStayFresh`, `DirectJobsAnswered`, `BusySeenInTime`, `IdleSeenInTime` |
| `executors` | 2 container calls with prompt starts and memory kills, 1 in-process call, fairness | `NothingLeftBehind`, `ResultBeatsKill`, `EveryCallReturns`, `ImplementsRuntime`, and for the in-process executor `LocalImplementsRuntime`, `LocalEveryCallReturns`, `LocalLateRejectionHarmless`, `LocalNoCallAbandoned` |
| `accounts` | 2 connections, 2 accounts, 1 key with `functions:write`, 1 name, failing queries and lost replies, fairness | `RevokedNeverServed`, `ScopesDecide`, `FunctionsChangeByOwner`, `EveryRequestAnswered` |

Runs in which what the code does contradicts what the repository says:

| Run | What happens |
|---|---|
| `build_stolen` | A build slower than `BUILD_CLAIM_IDLE_MS` is taken from a live consumer; the second run is refused by the unique constraint (or fails later) and its catch block overwrites SUCCESS with FAILED. |
| `build_race` | Two replicas build version *n* of one function; the refused one has already replaced the image of the accepted one. |
| `invoke_robbed` | A worker claims several messages by one snapshot, running a job after each claim; by the second claim the message belongs to a live, slow worker. |
| `container_slow_start` | The kill timer fires before the container exists; the one `docker kill` hits nothing, and a hanging handler holds the worker for ever. |
| `accounts_delegated` | An API key passes AuthGuard on the key routes, documented as "JWT only", and mints or revokes keys. |

`build_patient` leaves out one kind of failure, a lost reply to the COMMIT of
runBuild's transaction: its catch block then writes FAILED over the committed
SUCCESS, as in `build_stolen`. `invoke_live` has
heartbeats on time and no listed message idle twice; `invoke_robbed` shows what a longer
pass does, and `FirstHandJobsKept` is what holds even then. A worker that is being stopped
is excepted by `OnlyDeadOwnersRobbed` and `FirstHandJobsKept`: it clears its heartbeat
timer before it waits for its job, so a long job may be taken from it (no comment says
otherwise).
`ImplementsBuildJob` needs the conditions of `build_patient`; `build_stolen` is what
happens to it without them.

Further configurations ask questions beside these, each with the module named; they
are not among the runs of `PROJECT.json`. Five of them hold:

| Configuration | Module | Holds |
|---|---|---|
| `BuildSingle.cfg` | `MCBuildPipeline` | `ImageMatchesVersion` on one process, with overlapping ticks, slow builds, a failure, and a function deleted and registered again under its name (`BuildImageMatchesVersion` proves it in general) |
| `InvokeClaims.cfg` | `MCInvocationPipeline` | `OnlyDeadOwnersRobbed` with two jobs and batches of two, so that one claim follows another |
| `InvokeReclaim.cfg` | `MCInvocationPipeline` | `FirstHandJobsKept` with two jobs, batches of two, and passes and runs of any length |
| `InvokeStranded.cfg` | `MCInvocationPipeline` | `OnlyStrandedJobsRemain` with three deaths or Redis failures |
| `AccountsKeys.cfg` | `Accounts` | `ScopesDecide` with two keys of different scopes that may mint and revoke each other |

In the others TLC finds a counterexample, and the repository says otherwise:

| Configuration | Module | What happens |
|---|---|---|
| `BuildAccounts.cfg` | `MCBuildPipeline` | Two accounts have a function of one name; their image tags are the same, and the second build replaces the first account's image (`ImageMatchesVersion`; `prisma/schema.prisma:60`, "exactly the real-world requirement multi-tenancy implies"). |
| `BuildOrphan.cfg` | `MCBuildPipeline` | A CodeBuild run outlives the poll window, the next build takes the same version number, and the orphan pushes its image over that version's (`ArtifactsImmutable`; `prisma/schema.prisma:66`, "An immutable build artifact"). |
| `InvokeHidden.cfg` | `MCInvocationPipeline` | Jobs that live workers dropped fill the XPENDING batch; a dead worker's later job is never listed and never reclaimed (`OnlyStrandedJobsRemain`; `docs/phase8.md:386`, "The message is reclaimed"). The code's batch of 10 is scaled to 1. |
| `InvokeUnsubscribe.cfg` | `MCInvocationPipeline` | The UNSUBSCRIBE of dispatch's `finally` fails after the reply has come; the caller of a function that ran gets 503, its row says NO_WORKER (`NoWorkerMeansNoReply`; `functions.service.ts:135`, "dispatch() only ever throws for ONE reason"). |
| `TimingExpired.cfg` | `InvocationTiming` | Two requests are admitted to one free worker; the window of the second one ends while it waits, and the worker runs it after its caller was told otherwise (`ExpiredRunsNothing`; `functions.service.ts:136`, "nothing ran at all"). |
| `ContainerMemory.cfg` | `ContainerRun` | The memory limit kills the container, whose exit code is that of a `docker kill`; the call is reported as a timeout (`TimeoutOnlyByTimer`; `README.md:247`, where `Timeout` is for code that "times out"). |
| `ExecutorEscape.cfg` | `InProcessExecutor` | A handler that never yields keeps the timer from firing, one that throws in a callback of its own ends the process: the call never returns (`EveryHandlerContained`; `executor.ts:7`, "a misbehaving handler can never take this process down"). |

A 503 does not mean that nothing ran: dispatch's timer only says that no reply came
in time (`TimingExpired.cfg`), and not even that if the UNSUBSCRIBE fails
(`InvokeUnsubscribe.cfg`). `DirectJobsAnswered` bounds the first case from one side: a job that finds its
worker idle is answered within the dispatch window, so the caller of a 503
met a busy, dead or failing worker. It assumes that `INVOCATION_DISPATCH_TIMEOUT_MS`,
which replaces the window in tests, is not set.

`ImageMatchesVersion` needs three conditions, which are those of its theorem: one process
(else `build_race`), one account per function name (else `BuildAccounts.cfg`), local
builds (else `BuildOrphan.cfg`; `RemoteBuilds` is CodeBuild).

**Bounds.** Two processes are what the deployment runs and are enough for every
race between replicas; three workers are the fewest in which a reclaimer can be
overtaken by another. Two builds of one function give a version race, a third one
a later version to overwrite. Failures are counted (`MaxFaults`), so that each
run covers every placement of one or two of them. `MaxVersion` exceeds what the
builds can reach. `RelayBatch` and `PendingBatch` are small so that the limit
is met; `InvokeHidden.cfg` needs as many dropped jobs as the batch has places, so with the
code's 10 it takes ten failures instead of one. Its `CONSTRAINT OneAtATime` only
shortens the search for the counterexample, in which the two requests come one after the
other; no run has a constraint. `accounts` has one key, for its life cycle beside
a second account of the same function name; `accounts_delegated` has the two it
takes for a key to mint or revoke another. In
`timing`, two requests are enough to have one job in front of another.

**Deadlock.** It is checked in the build runs, `invoke_faults`, `invoke_live`, `timing` and
`accounts`; in `timing` it shows that no deadline leaves the clocks
without a next step. `CHECK_DEADLOCK FALSE` stands where the modelled system really may stop: every
worker process dead or stopped for good, or all calls made.

**Fairness.** Weak fairness only: of boots (Kubernetes restarts processes), of
relay ticks (`setInterval`), of consumer, worker and request continuations (the
event loop), of timers, idle clocks and heartbeat ages, of Docker serving its
clients. A container run is assumed to end in `InvocationPipeline`; that it
does is the subject of `ContainerRun`, where nothing is assumed of user code.
In `InProcessExecutor` only the timer is fair, while the event loop turns; in
`Accounts` only queries return, and neither clients, nor expiry, nor the updates
of `lastUsedAt` are assumed to do anything. `InvocationTiming` needs no fairness:
its deadlines are safety properties.
Nothing is assumed of callers, deletions, failures or orphaned remote builds.

## 4. Proofs

`BuildPipelineProofs` proves, for all constants satisfying `BuildAssumption`
(types of the constants, nothing about their size) and `NoFnAssumption` (NULL is
no function's id):

* `BuildTypeCorrect`: `TypeInv`, which is `TypeOK` strengthened by what the
  steps need to keep it: the message a consumer holds exists, its build has a
  function, tags and locked ids are in range.
* `BuildPublishedOnce`: the strengthening says that a build is in at most one
  tick, that a build in a tick or in the stream is not claimable again, and that
  a build being sent is not in the stream yet. The locks carry the first half
  up to COMMIT, the mark `pub` afterwards.
* `BuildAckedOnlyWhenFinished` (`AckInv`): a consumer at `ack` holds a build
  that is not PENDING, and no step returns a build to PENDING.
* `BuildVersionsContiguous`, `BuildSuccessHasVersion` (`VersionInv`): a consumer
  between `next` and `commit` holds a number at most one above the highest
  version its function had, or a number that is taken; the transaction is refused
  in the second case.
* `BuildPublishedIsTracked` (`TrackInv`): with `AckInv`, and the invariant that
  the group exists whenever a relay works or the stream has an entry, so that
  creating it skips nothing.

`BuildOutcomeProofs` proves what holds of the outcomes, for any number of processes,
ticks, functions, builds and failures, under the conditions each theorem names.
None of them can be dropped:

| Condition | Says | Without it |
|---|---|---|
| `Patient` | no message outlives `BUILD_CLAIM_IDLE_MS` in the hands of a running consumer | `build_stolen` |
| `NoLostReply` | Postgres answers every write it applies | the catch block writes FAILED over a committed SUCCESS |
| `OneBuilder` | one API process, local Docker builds, one account per function name | `build_race`, `BuildOrphan.cfg`, `BuildAccounts.cfg` |

* `BuildOneHolder` (`Patient`). `HoldInv`: what a running consumer holds is in its own
  PEL and has not expired, so XAUTOCLAIM, which only takes what has, takes it from nobody.
  Crashes, reclaims and lost Redis replies leave entries nobody holds, never two holders.
* `BuildOneVersionPerBuild` (`Patient`, lost replies included). `OutcomeInv`: while a
  consumer works on a build the row has no outcome, since `handleMessage` looked before
  it began and nobody else holds the message (`PublishedOnce`: there is only one); a
  version's build is finished and has the version's function; a SUCCESS build has a
  version of its own. So whoever commits is the first to do so. A lost reply ends this at
  the commit: the catch block may then change the outcome, but it adds no version.
* `BuildVersionHasSuccess` (`Patient`, `NoLostReply`), from the same invariant, in
  which the row then stays without an outcome up to the end of the catch block.
* `BuildImplementsJob` (`Patient`, `NoLostReply`): every step is a step of `BuildJob`
  or changes nothing a client sees. The step that needs the most is the commit:
  its number was computed some steps before, and `BuildJob` wants one plus the
  number of successful builds of the function. `VersionCount` counts them: each has
  one version, numbers are not shared, and those taken are exactly the ones below the
  number to be used (`LifeInv`, `VersionInv`).
* `BuildImageMatchesVersion` (`OneBuilder`, slow builds and lost replies included).
  `ImageInv`: there is no orphaned run, and the tag a consumer at `build` or
  `commit` is about to use is the tag of no version of a live function, because its
  number is above all of that function's and no other live function has its name. A
  tag a deleted function left behind may be used again; its versions are gone.

`LifeInv` supports all of them: rows and versions exist only with their function, an
account has one live function of a name, and below a version's number all are taken.
All these invariants were model-checked before they were proved.

`RedisStreamProofs` holds the lemmas on the stream operators (types kept, which
entries change, whose PEL an entry is in afterwards).

`InvocationPipelineProofs` proves the invariants of the invoke path for all
constants satisfying `InvocationAssumption` (types, and that `Nobody`, the owner of
an entry in no PEL, is no worker): any number of requests, API processes, workers
and failures, late heartbeats, slow steps and any batch size included. The inductive
invariant `PipelineInv` is `TypeOK` and

* `StreamInv`: an entry is owned exactly while it is pending, and an outcome is
  published only for a request whose job is in the stream;
* `WorkerInv(w)`: a worker in `handleMessage` holds an existing message, one at
  `ack` has published, and whoever has a heartbeat or has booted has created the
  group, which is what makes `CheckCapacity` a safe test for `GroupBeforeJobs`;
* `WaitInv(r)`: no job before the XADD, subscribed from the SUBSCRIBE on, and no
  reply missed while waiting. It is inductive because before the XADD nothing
  can have been published for `r`, by `StreamInv`;
* `OutcomeInv(r)`: reply, promise, recorded outcome and answer of `r` each come from
  `published[r]`;
* `RecordInv(r)`: a row of `r` exists only once its handler has ended, and then
  agrees with the answer;
* `OwnedInv`: while nothing has failed but one worker was told to stop, a PEL holds
  at most the job its worker is handling. `StoppedLeavesNothing` needs it, and
  with a second failure (a lost XREADGROUP reply, say) it is false, so the
  property says so too.

The steps of a request change only their request's part and those of a worker only
its own; `RequestFrame` and `WorkerFrame` carry all other parts over a step.
Theorems: `PipelineTypeCorrect`, `PipelineGroupBeforeJobs`,
`PipelineReplyReachesWaiter`, `PipelineAnswerWasPublished`,
`PipelineAckedWasPublished`, `PipelineAnsweredIsRecorded`,
`PipelineStoppedLeavesNothing`.

Its last part is about whose messages a worker takes. `EveryMove` reduces the steps
to what they do to PELs, heartbeats and lists: a worker's step (`WorkerMove`) leaves
the PELs alone up to an acknowledgement, makes or filters a list, or is delivered one
entry, new or from its list; the others are quiet, or an idle clock passes. On that
reduction rest two theorems, both for any batch size and any number of requests, workers,
deaths, clean stops and Redis failures:

* `ClaimOnlyFromTheDead`: `OnlyDeadOwnersRobbed`, under `OnTime`, which are the conditions
  without which it is false: late heartbeats make the living look dead, and a message
  that a worker has listed, another one has claimed since and that grows idle again
  before the lister comes to it (`invoke_robbed`) is taken from that other one. The
  batch is not restricted: claims of one batch that act on an old list are covered, and
  harmless as long as a run between them is shorter than the claim idle time.
  `ClaimInv`: a serving worker has a fresh heartbeat, one not yet registered owns nothing
  (`HealthInv`), and what XPENDING and HGETALL told a worker is still true of those
  entries on its lists that it can still claim (`ScanInv`).
* `FirstHandKept`: `FirstHandJobsKept`, with heartbeats on time and no condition on
  the lists. A job that a worker has read from the stream itself was on nobody's
  list before (`SeenInv`), and whoever lists it afterwards has it as that worker's, who
  is healthy (`KeptInv`), so it is never among those to be claimed. What
  `invoke_robbed` takes is therefore always a job that has already been reclaimed once.

`InvocationTimingProofs` proves the four properties of `timing` for every choice of
durations that `TimingAssumption` admits and any number of requests, where the run
has the code's numbers. `TimingInv`: the registry holds the last heartbeat, or that
heartbeat waits behind the XREADGROUP it met and the registry holds the one before
(`BeatInv`, which needs Block < HeartbeatInterval: never two wait); how long the
registry can have been wrong about the load, by where the last heartbeat is
(`LoadInv`); and how much of its window a request has used at each step
(`DispatchInv`).

`AccountsProofs` proves `RevokedNeverServed`, `ScopesDecide` and
`FunctionsChangeByOwner` for any number of connections, accounts, keys and names.
`AccountInv`: a live key belongs to an account; a request past its guards acts for
the account its credential stands for, with the scopes of that credential, which
cover the route's (a revoked row keeps owner and scopes, so this survives a
revocation); and a request that came with a revoked key is still before the guard.

`ContainerRunProofs` proves `NothingLeftBehind`, `ResultBeatsKill` and type
correctness for any number of calls from `ContainerInv`, which relates timer,
container, shim, result file and scratch directory of each call and says that only the close
handler settles it; and from it `ContainerImplementsRuntime`, that every step of
`ContainerRun` is a step of `ExecutionRuntime` on that one call, or changes nothing
of what it shows. `ExecutorsProofs` does the same for the in-process executor
(`LocalInv`, `LocalExecutorImplements`), and proves that late rejections are
harmless and that no call is abandoned. None of it assumes prompt starts.

Only model-checked: liveness (`EveryBuildFinishes`, `EveryRequestAnswered` of both
modules, `OnlyStrandedJobsRemain`, `EveryCallReturns`, `LocalEveryCallReturns`), which is out of
the prover's reach, as are `ENABLED` and induction over data. Every invariant, action
property and refinement of the passing runs has a theorem.

## 5. Abstractions worth knowing

* Redis keeps its data; a command fails as a whole, or its reply is lost where the
  model says so. Client-side resending of commands after a reconnect is not modelled.
* A failing Postgres query is not applied, except for the writes whose lost
  reply has an action of its own.
* Function ids and worker ids are never reused.
* A failing HDEL of a stopping worker rejects `onModuleDestroy` and leaves its
  heartbeat to age, as a crash at that point does (`WorkerCrash` at `leave`).
* The file system calls of `containerExecutor.ts` are taken to succeed. One that throws
  before the spawn (lines 96-114) reaches the worker's `catch` as an error outcome and may
  leave a scratch directory; a failing `rmSync` (line 182) replaces the outcome by an error.
  `NothingLeftBehind` and `ImplementsRuntime` are about a host whose temporary directory
  is writable.
* Clean shutdown of the API process is not modelled; a crash stops it at every
  point. A worker's clean stop is modelled, although the entry point does not
  enable Nest's shutdown hooks, so only `close()` on the application context
  triggers it.

## 6. Plan

Every safety property of the passing runs is proved. What would add to the project:

1. The relay's shutdown with overlapping ticks.
2. Reconnecting clients that resend a command Redis has already applied.
3. Failing file system calls of the container executor.

## 7. Not modelled

Metrics and `/metrics` servers (nothing reads them back), object storage (keys are
never reused; a missing object is a failing executor), health endpoint and entry
points (no state), ECR login (its failure is a worker that does not boot), the
infrastructure files and load tests. Of the relay and the build consumer,
`onModuleDestroy` (see section 5). Of Redis and Prisma, reconnecting and pooling.
The CLIs' printing of an outcome is left out.
