----------------------- MODULE InvocationTimingProofs -----------------------
(***************************************************************************)
(* Proofs about InvocationTiming, for every choice of its durations that   *)
(* TimingAssumption admits, and any number of requests.                    *)
(***************************************************************************)
EXTENDS InvocationTiming, TLAPS

\* Seconds since the last heartbeat was sent, whether Redis has served it or not.
SinceBeat == HeartbeatInterval - beat

\* The registry has the last heartbeat, or that heartbeat waits behind the
\* XREADGROUP it met, and the registry has the one before.
BeatInv ==
    /\ queued = {} => entry.age = SinceBeat
    /\ queued # {} => /\ Idle
                      /\ queued = {[age |-> SinceBeat, busy |-> FALSE]}
                      /\ SinceBeat + worker.left <= Block
                      /\ entry.age = HeartbeatInterval + SinceBeat

\* How long the registry can have been wrong about a worker's load.
LoadInv ==
    /\ ~Idle => worker.since <= MaxRun
    /\ ~Idle /\ ~entry.busy => worker.since <= SinceBeat
    /\ Idle /\ entry.busy /\ queued = {} => worker.since <= SinceBeat
    /\ Idle /\ entry.busy /\ queued # {} => worker.since <= HeartbeatInterval + SinceBeat

\* How much of its window a request r has used, by where it is.
DispatchInv(r) ==
    /\ req[r].pc \in {"new", "capacity", "subscribe"} => req[r].age = 0
    /\ req[r].pc = "xadd" => req[r].age + api <= Block
    /\ req[r].direct => req[r].pc \in {"wait", "answered"}
    /\ req[r].direct /\ req[r].pc = "wait" =>
         \/ Idle /\ jobs # <<>> /\ Head(jobs) = r /\ req[r].age <= Block
         \/ worker.job = r /\ req[r].age <= Block + worker.since

TimingInv == TypeOK /\ BeatInv /\ LoadInv /\ \A r \in Requests : DispatchInv(r)

\* What the assumption on the durations says, one by one.
LEMMA Durations ==
    /\ Block \in Nat /\ HeartbeatInterval \in Nat /\ Timeout \in Nat /\ Buffer \in Nat
    /\ Overhead \in Nat /\ StaleAfter \in Nat
    /\ Block > 0 /\ HeartbeatInterval > 0
    /\ Block < HeartbeatInterval
    /\ HeartbeatInterval + Block <= StaleAfter
    /\ Block + Overhead < Buffer
    /\ MaxRun = Timeout + Overhead /\ Lag = HeartbeatInterval + Block
    /\ Window = Timeout + Buffer
  BY TimingAssumption DEF MaxRun, Lag, Window

\* The invariant holds when both processes have just started.
LEMMA TimingInit == Init => TimingInv
<1> SUFFICES ASSUME Init PROVE TimingInv
  OBVIOUS
<1> USE Durations
<1>1. TypeOK
  BY DEF Init, TypeOK, WorkerState, Heartbeats, RequestState
<1>2. BeatInv /\ LoadInv
  BY DEF Init, BeatInv, LoadInv, SinceBeat, Idle
<1>3. \A r \in Requests : DispatchInv(r)
  BY DEF Init, DispatchInv
<1> QED BY <1>1, <1>2, <1>3 DEF TimingInv

\* sendHeartbeat: it finds no earlier heartbeat still waiting, because the loop
\* never blocks for as long as the interval.
LEMMA HeartbeatKeeps ==
    ASSUME TimingInv, Heartbeat PROVE TimingInv'
<1> USE Durations
<1>1. /\ beat = 0 /\ beat' = HeartbeatInterval /\ worker' = worker /\ api' = api
      /\ jobs' = jobs /\ req' = req
  BY DEF Heartbeat
<1>2. beat \in 0..HeartbeatInterval /\ worker \in WorkerState /\ entry \in Heartbeats
  BY DEF TimingInv, TypeOK
<1>3. queued = {}
  BY <1>1, <1>2 DEF TimingInv, BeatInv, SinceBeat, WorkerState
<1>4. entry.age = HeartbeatInterval
  BY <1>1, <1>3 DEF TimingInv, BeatInv, SinceBeat
<1>5. SinceBeat' = 0
  BY <1>1 DEF SinceBeat
<1>6. CASE Idle
  <2>1. queued' = {[age |-> 0, busy |-> FALSE]} /\ entry' = entry /\ Idle'
    BY <1>1, <1>6 DEF Heartbeat, Idle
  <2>2. TypeOK'
    BY <1>1, <2>1 DEF TimingInv, TypeOK, Heartbeats
  <2>3. BeatInv'
    <3>1. worker'.left \in Nat /\ worker'.left <= Block
      BY <1>1, <1>2 DEF WorkerState
    <3>2. entry'.age = HeartbeatInterval + SinceBeat'
      BY <1>4, <1>5, <2>1
    <3>3. queued' # {} /\ queued' = {[age |-> SinceBeat', busy |-> FALSE]}
      BY <1>5, <2>1
    <3>4. SinceBeat' + worker'.left <= Block
      BY <1>5, <3>1
    <3> QED BY <2>1, <3>2, <3>3, <3>4 DEF BeatInv
  <2>4. LoadInv'
    <3>1. entry.busy => worker.since <= HeartbeatInterval
      BY <1>1, <1>3, <1>6 DEF TimingInv, LoadInv, SinceBeat
    <3>2. entry'.busy => worker'.since <= HeartbeatInterval + SinceBeat'
      BY <1>1, <1>5, <2>1, <3>1
    <3>3. queued' # {}
      BY <2>1
    <3> QED BY <2>1, <3>2, <3>3 DEF LoadInv
  <2> QED BY <1>1, <2>1, <2>2, <2>3, <2>4 DEF TimingInv, DispatchInv, Idle
<1>7. CASE ~Idle
  <2>1. queued' = {} /\ entry' = [age |-> 0, busy |-> TRUE] /\ ~Idle'
    BY <1>1, <1>3, <1>7 DEF Heartbeat, Idle
  <2>2. TypeOK'
    BY <1>1, <2>1 DEF TimingInv, TypeOK, Heartbeats
  <2>3. BeatInv'
    BY <1>5, <2>1 DEF BeatInv
  <2>4. LoadInv'
    BY <1>1, <1>7, <2>1 DEF TimingInv, LoadInv
  <2> QED BY <1>1, <2>1, <2>2, <2>3, <2>4 DEF TimingInv, DispatchInv, Idle
<1> QED BY <1>6, <1>7

\* Flush: the registry has the last heartbeat again.
LEMMA FlushFacts ==
    ASSUME TimingInv, Flush
    PROVE  /\ queued' = {} /\ entry' \in Heartbeats /\ entry'.age = SinceBeat
           /\ queued = {} => entry' = entry
           /\ queued # {} => ~entry'.busy
<1>1. CASE queued = {}
  <2>1. entry' = entry /\ queued' = {}
    BY <1>1 DEF Flush
  <2> QED BY <1>1, <2>1 DEF TimingInv, TypeOK, BeatInv
<1>2. CASE queued # {}
  <2>1. entry' \in queued /\ queued' = {} /\ queued = {[age |-> SinceBeat, busy |-> FALSE]}
    BY <1>2 DEF Flush, TimingInv, BeatInv
  <2>2. entry' = [age |-> SinceBeat, busy |-> FALSE]
    BY <2>1
  <2>3. entry' \in Heartbeats
    BY <2>1 DEF TimingInv, TypeOK
  <2> QED BY <1>2, <2>1, <2>2, <2>3
<1> QED BY <1>1, <1>2

\* XREADGROUP returns a job.
LEMMA ReadJobKeeps ==
    ASSUME TimingInv, ReadJob PROVE TimingInv'
<1> USE Durations
<1>1. /\ Idle /\ jobs # <<>> /\ Flush
      /\ worker' = [job |-> Head(jobs), left |-> 0, since |-> 0]
      /\ jobs' = Tail(jobs) /\ beat' = beat /\ api' = api /\ req' = req
  BY DEF ReadJob
<1>2. jobs \in Seq(Requests) /\ beat \in 0..HeartbeatInterval
  BY DEF TimingInv, TypeOK
<1>3. Head(jobs) \in Requests /\ Tail(jobs) \in Seq(Requests)
  BY <1>1, <1>2
<1>4. ~Idle' /\ SinceBeat' = SinceBeat
  BY <1>1, <1>3, TimingAssumption DEF Idle, SinceBeat
<1>5. TypeOK'
  BY <1>1, <1>3, FlushFacts DEF TimingInv, TypeOK, WorkerState
<1>6. BeatInv'
  BY <1>1, <1>4, FlushFacts DEF BeatInv
<1>7. LoadInv'
  BY <1>1, <1>2, <1>4 DEF LoadInv, SinceBeat
<1>8. ASSUME NEW r \in Requests PROVE DispatchInv(r)'
  <2>1. worker.job # r
    BY <1>1, TimingAssumption DEF Idle
  <2>2. worker'.job = Head(jobs) /\ worker'.since = 0
    BY <1>1
  <2>3. req[r].age \in Nat
    BY DEF TimingInv, TypeOK, RequestState
  <2> QED BY <1>1, <2>1, <2>2, <2>3 DEF TimingInv, DispatchInv
<1> QED BY <1>5, <1>6, <1>7, <1>8 DEF TimingInv

\* XREADGROUP returns nothing.
LEMMA BlockEndsKeeps ==
    ASSUME TimingInv, BlockEnds PROVE TimingInv'
<1> USE Durations
<1>1. /\ Idle /\ jobs = <<>> /\ Flush /\ worker' = [worker EXCEPT !.left = Block]
      /\ jobs' = jobs /\ beat' = beat /\ api' = api /\ req' = req
  BY DEF BlockEnds
<1>2. worker \in WorkerState /\ beat \in 0..HeartbeatInterval
  BY DEF TimingInv, TypeOK
<1>3. /\ worker' \in WorkerState /\ worker'.job = worker.job
      /\ worker'.since = worker.since
  <2>1. Block \in 0..Block
    OBVIOUS
  <2> QED BY <1>1, <1>2, <2>1 DEF WorkerState
<1>4. Idle' /\ SinceBeat' = SinceBeat
  BY <1>1, <1>3 DEF Idle, SinceBeat
<1>5. TypeOK'
  BY <1>1, <1>3, FlushFacts DEF TimingInv, TypeOK
<1>6. BeatInv'
  BY <1>1, <1>4, FlushFacts DEF BeatInv
<1>7. LoadInv'
  BY <1>1, <1>3, <1>4, FlushFacts DEF TimingInv, LoadInv
<1>8. ASSUME NEW r \in Requests PROVE DispatchInv(r)'
  BY <1>1, <1>3, TimingAssumption DEF TimingInv, DispatchInv, Idle
<1> QED BY <1>5, <1>6, <1>7, <1>8 DEF TimingInv

\* A run ends: the request it was for, if it still waits, is answered.
LEMMA FinishRunKeeps ==
    ASSUME TimingInv, FinishRun PROVE TimingInv'
<1> USE Durations
<1>1. /\ ~Idle /\ worker' = [job |-> NoJob, left |-> Block, since |-> 0]
      /\ beat' = beat /\ queued' = queued /\ entry' = entry /\ api' = api /\ jobs' = jobs
  BY DEF FinishRun
<1>2. worker \in WorkerState /\ beat \in 0..HeartbeatInterval /\ req \in [Requests -> RequestState]
  BY DEF TimingInv, TypeOK
<1>3. worker.job \in Requests /\ queued = {}
  BY <1>1, <1>2 DEF WorkerState, Idle, TimingInv, BeatInv
<1>4. Idle' /\ SinceBeat' = SinceBeat
  BY <1>1 DEF Idle, SinceBeat
<1>5. ASSUME NEW r \in Requests
      PROVE  /\ req'[r] \in RequestState /\ req'[r].age = req[r].age /\ req'[r].direct = req[r].direct
             /\ \/ req'[r].pc = req[r].pc /\ (r = worker.job => req[r].pc # "wait")
                \/ r = worker.job /\ req'[r].pc = "answered"
  <2>1. req[r] \in RequestState
    BY <1>2
  <2> DEFINE s == [req[r] EXCEPT !.pc = "answered"]
  <2>2. s \in RequestState /\ s.age = req[r].age /\ s.direct = req[r].direct /\ s.pc = "answered"
    BY <2>1 DEF RequestState
  <2>3. req'[r] = IF r = worker.job /\ req[r].pc = "wait" THEN s ELSE req[r]
    BY <1>2, <1>3 DEF FinishRun
  <2> HIDE DEF s
  <2> QED BY <2>1, <2>2, <2>3
<1>6. TypeOK'
  <2>1. req' \in [Requests -> RequestState]
    BY <1>2, <1>3, <1>5 DEF FinishRun
  <2> QED BY <1>1, <2>1 DEF TimingInv, TypeOK, WorkerState
<1>7. BeatInv'
  BY <1>1, <1>3, <1>4 DEF TimingInv, BeatInv
<1>8. LoadInv'
  BY <1>1, <1>2, <1>3, <1>4 DEF LoadInv, SinceBeat
<1>9. ASSUME NEW r \in Requests PROVE DispatchInv(r)'
  <2>1. DispatchInv(r)
    BY DEF TimingInv
  <2> QED BY <1>1, <1>5, <2>1 DEF DispatchInv
<1> QED BY <1>6, <1>7, <1>8, <1>9 DEF TimingInv

\* The API process's connection blocks or is free again.
LEMMA ApiKeeps ==
    ASSUME TimingInv, ApiBlocks \/ ApiUnblocks PROVE TimingInv'
<1> USE Durations
<1>1. /\ worker' = worker /\ beat' = beat /\ queued' = queued /\ entry' = entry
      /\ jobs' = jobs /\ req' = req
  BY DEF ApiBlocks, ApiUnblocks, fleet
<1>2. api' \in 0..Block
  BY DEF ApiBlocks, ApiUnblocks
<1>3. TypeOK' /\ BeatInv' /\ LoadInv'
  BY <1>1, <1>2 DEF TimingInv, TypeOK, BeatInv, LoadInv, Idle, SinceBeat
<1>4. ASSUME NEW r \in Requests PROVE DispatchInv(r)'
  <2>1. DispatchInv(r) /\ req[r].age \in Nat /\ api \in Nat
    BY DEF TimingInv, TypeOK, RequestState
  <2>2. req[r].pc = "xadd" => api' <= api
    BY <2>1 DEF ApiBlocks, ApiUnblocks
  <2>3. req'[r].pc = "xadd" => req'[r].age + api' <= Block
    BY <1>1, <1>2, <2>1, <2>2 DEF DispatchInv
  <2> QED BY <1>1, <2>1, <2>3 DEF DispatchInv, Idle
<1> QED BY <1>3, <1>4 DEF TimingInv

\* A step of request r that leaves the worker, and the jobs before its own, alone.
LEMMA OneRequest ==
    ASSUME TimingInv, NEW r \in Requests, NEW s \in RequestState,
           req' = [req EXCEPT ![r] = s], UNCHANGED <<fleet, api>>,
           jobs' = jobs \/ jobs' = Append(jobs, r),
           DispatchInv(r)'
    PROVE  TimingInv'
<1>1. /\ worker' = worker /\ beat' = beat /\ queued' = queued /\ entry' = entry /\ api' = api
      /\ jobs \in Seq(Requests) /\ req \in [Requests -> RequestState]
  BY DEF fleet, TimingInv, TypeOK
<1>2. TypeOK'
  <2>1. jobs' \in Seq(Requests) /\ req' \in [Requests -> RequestState]
    BY <1>1
  <2> QED BY <1>1, <2>1 DEF TimingInv, TypeOK
<1>5. BeatInv' /\ LoadInv'
  BY <1>1 DEF TimingInv, BeatInv, LoadInv, Idle, SinceBeat
<1>3. jobs # <<>> => jobs' # <<>> /\ Head(jobs') = Head(jobs)
  BY <1>1
<1>4. ASSUME NEW q \in Requests, q # r PROVE DispatchInv(q)'
  <2>1. DispatchInv(q) /\ req'[q] = req[q]
    BY <1>1, <1>4 DEF TimingInv
  <2> QED BY <1>1, <1>3, <2>1 DEF DispatchInv, Idle
<1> QED BY <1>2, <1>4, <1>5 DEF TimingInv

\* The steps of a request.
LEMMA RequestKeeps ==
    ASSUME TimingInv, NEW r \in Requests, RequestStep(r) PROVE TimingInv'
<1> USE Durations
<1>1. /\ req \in [Requests -> RequestState] /\ req[r] \in RequestState /\ DispatchInv(r)
      /\ api \in 0..Block /\ jobs \in Seq(Requests) /\ worker \in WorkerState
  BY DEF TimingInv, TypeOK
<1>2. ASSUME NEW pc \in {"capacity", "subscribe", "refused", "xadd"}, Goto(r, pc),
             UNCHANGED <<fleet, api, jobs>>, ~req[r].direct, req[r].age = 0
      PROVE  TimingInv'
  <2> DEFINE s == [req[r] EXCEPT !.pc = pc]
  <2>1. s \in RequestState /\ s.age = 0 /\ ~s.direct /\ s.pc = pc
    BY <1>1, <1>2 DEF RequestState
  <2>2. req' = [req EXCEPT ![r] = s]
    BY <1>2 DEF Goto
  <2> HIDE DEF s
  <2>3. req'[r] = s /\ api' = api
    BY <1>1, <1>2, <2>2
  <2>4. DispatchInv(r)'
    BY <1>1, <2>1, <2>3 DEF DispatchInv
  <2> QED BY <1>2, <2>1, <2>2, <2>4, OneRequest
<1>3. CASE Arrive(r)
  <2>1. ~req[r].direct /\ req[r].age = 0
    BY <1>1, <1>3 DEF Arrive, DispatchInv
  <2> QED BY <1>2, <1>3, <2>1 DEF Arrive
<1>4. CASE CheckCapacity(r)
  <2>1. ~req[r].direct /\ req[r].age = 0
    BY <1>1, <1>4 DEF CheckCapacity, DispatchInv
  <2> QED BY <1>2, <1>4, <2>1 DEF CheckCapacity
<1>5. CASE Subscribe(r)
  <2>1. ~req[r].direct /\ req[r].age = 0
    BY <1>1, <1>5 DEF Subscribe, DispatchInv
  <2> QED BY <1>2, <1>5, <2>1 DEF Subscribe
<1>6. CASE Xadd(r)
  <2> DEFINE d == Idle /\ jobs = <<>>
             s == [req[r] EXCEPT !.pc = "wait", !.direct = d]
  <2>1. /\ req[r].pc = "xadd" /\ jobs' = Append(jobs, r) /\ req' = [req EXCEPT ![r] = s]
        /\ UNCHANGED <<fleet, api>>
    BY <1>6 DEF Xadd
  <2>2. d \in BOOLEAN
    BY DEF Idle
  <2>3. s \in RequestState /\ s.age = req[r].age /\ (s.direct <=> d) /\ s.pc = "wait"
    <3> HIDE DEF d
    <3> QED BY <1>1, <2>2 DEF RequestState
  <2>4. req[r].age <= Block
    BY <1>1, <2>1 DEF DispatchInv, RequestState
  <2>5. jobs' # <<>> /\ (d => Head(jobs') = r)
    BY <1>1, <2>1
  <2>6. d => Idle'
    BY <2>1 DEF Idle, fleet
  <2> HIDE DEF s, d
  <2>7. req'[r] = s
    BY <1>1, <2>1
  <2>8. DispatchInv(r)'
    BY <2>3, <2>4, <2>5, <2>6, <2>7 DEF DispatchInv
  <2> QED BY <2>1, <2>3, <2>8, OneRequest
<1>7. CASE TimerFires(r)
  <2> DEFINE s == [req[r] EXCEPT !.pc = "expired"]
  <2>1. /\ req[r].pc = "wait" /\ req[r].age = Window /\ req' = [req EXCEPT ![r] = s]
        /\ UNCHANGED <<fleet, api, jobs>>
    BY <1>7 DEF TimerFires, Goto
  <2>2. ~req[r].direct
    <3>1. ~(req[r].age <= Block)
      BY <2>1
    <3>2. ~Idle => worker.since <= MaxRun
      BY DEF TimingInv, LoadInv
    <3>3. worker.job = r => ~Idle
      BY TimingAssumption DEF Idle
    <3>4. worker.job = r => ~(req[r].age <= Block + worker.since)
      BY <1>1, <2>1, <3>2, <3>3 DEF WorkerState
    <3> QED BY <1>1, <2>1, <3>1, <3>4 DEF DispatchInv
  <2>3. s \in RequestState /\ ~s.direct /\ s.pc = "expired"
    BY <1>1, <2>2 DEF RequestState
  <2> HIDE DEF s
  <2>4. req'[r] = s
    BY <1>1, <2>1
  <2>5. DispatchInv(r)'
    BY <2>3, <2>4 DEF DispatchInv
  <2> QED BY <2>1, <2>3, <2>5, OneRequest
<1> QED BY <1>3, <1>4, <1>5, <1>6, <1>7 DEF RequestStep

\* A second passes.
LEMMA TickKeeps ==
    ASSUME TimingInv, Tick PROVE TimingInv'
<1> USE Durations
<1>1. /\ beat \in 0..HeartbeatInterval /\ beat > 0 /\ beat' = beat - 1
      /\ worker \in WorkerState /\ entry \in Heartbeats /\ api \in 0..Block
      /\ req \in [Requests -> RequestState] /\ jobs' = jobs
      /\ BeatInv /\ LoadInv
  BY DEF TimingInv, TypeOK, Tick
<1>2. SinceBeat \in Nat /\ SinceBeat' = SinceBeat + 1 /\ SinceBeat' <= HeartbeatInterval
  BY <1>1 DEF SinceBeat
<1>3. /\ worker' \in WorkerState /\ worker'.job = worker.job
      /\ Idle => /\ worker.left > 0 /\ worker'.left = worker.left - 1 /\ jobs = <<>>
                 /\ worker'.since <= worker.since + 1
      /\ ~Idle => worker.since < MaxRun /\ worker'.since = worker.since + 1
  <2>1. CASE Idle
    <3>1. worker.left > 0 /\ jobs = <<>>
      BY <2>1 DEF Tick
    <3>2. worker' = [worker EXCEPT !.left = worker.left - 1, !.since = Later(worker.since, Lag)]
      BY <2>1 DEF Tick
    <3>3. /\ worker.left - 1 \in 0..Block /\ Later(worker.since, Lag) \in 0..(MaxRun + Lag + 1)
          /\ Later(worker.since, Lag) <= worker.since + 1
      BY <1>1, <3>1 DEF WorkerState, Later
    <3> QED BY <1>1, <2>1, <3>1, <3>2, <3>3 DEF WorkerState
  <2>2. CASE ~Idle
    <3>1. worker.since < MaxRun
      BY <2>2 DEF Tick
    <3>2. worker' = [worker EXCEPT !.left = worker.left, !.since = worker.since + 1]
      BY <2>2 DEF Tick
    <3>3. worker.since + 1 \in 0..(MaxRun + Lag + 1)
      BY <1>1, <3>1 DEF WorkerState
    <3> QED BY <1>1, <2>2, <3>1, <3>2, <3>3 DEF WorkerState
  <2> QED BY <2>1, <2>2
<1>4. Idle' = Idle
  BY <1>3 DEF Idle
<1>5. /\ entry' \in Heartbeats /\ entry'.busy = entry.busy
      /\ entry'.age = entry.age + 1
  <2>1. entry.age <= HeartbeatInterval + Block
    BY <1>1, <1>2 DEF BeatInv, WorkerState
  <2>2. entry' = [entry EXCEPT !.age = Later(entry.age, StaleAfter)]
    BY DEF Tick
  <2>3. Later(entry.age, StaleAfter) = entry.age + 1 /\ entry.age + 1 \in 0..(StaleAfter + 1)
    BY <1>1, <2>1 DEF Later, Heartbeats
  <2> QED BY <1>1, <2>2, <2>3 DEF Heartbeats
<1>6. /\ queued = {} => queued' = {}
      /\ queued # {} => queued' = {[age |-> SinceBeat', busy |-> FALSE]} /\ SinceBeat' <= Block
  <2>1. queued' = {[b EXCEPT !.age = b.age + 1] : b \in queued}
    BY DEF Tick
  <2>2. CASE queued = {}
    BY <2>1, <2>2
  <2>3. CASE queued # {}
    <3> DEFINE b == [age |-> SinceBeat, busy |-> FALSE]
    <3>1. queued = {b} /\ Idle /\ SinceBeat + worker.left <= Block
      BY <1>1, <2>3 DEF BeatInv
    <3>2. queued' = {[b EXCEPT !.age = b.age + 1]}
      BY <2>1, <3>1
    <3>3. [b EXCEPT !.age = b.age + 1] = [age |-> SinceBeat', busy |-> FALSE]
      <4>1. b \in [age : Nat, busy : BOOLEAN] /\ b.age + 1 = SinceBeat' /\ b.busy = FALSE
        BY <1>2
      <4> DEFINE x == [b EXCEPT !.age = b.age + 1]
                 y == [age |-> SinceBeat', busy |-> FALSE]
      <4> HIDE DEF b
      <4>2. x \in [age : Nat, busy : BOOLEAN] /\ x.age = SinceBeat' /\ x.busy = FALSE
        BY <4>1
      <4>3. y \in [age : Nat, busy : BOOLEAN] /\ y.age = SinceBeat' /\ y.busy = FALSE
        BY <1>2
      <4> HIDE DEF x, y
      <4>4. x = y
        BY <4>2, <4>3
      <4> QED BY <4>4 DEF x, y
    <3>4. SinceBeat' <= Block
      BY <1>1, <1>2, <1>3, <3>1 DEF WorkerState
    <3> QED BY <2>3, <3>2, <3>3, <3>4
  <2> QED BY <2>2, <2>3
<1>7. api' \in 0..Block /\ (api > 0 => api' = api - 1)
  BY <1>1 DEF Tick
<1>8. ASSUME NEW r \in Requests
      PROVE  /\ req'[r] \in RequestState /\ req'[r].pc = req[r].pc /\ req'[r].direct = req[r].direct
             /\ req'[r].age = IF req[r].pc \in {"xadd", "wait"} THEN req[r].age + 1 ELSE req[r].age
             /\ req[r].pc = "xadd" => api > 0
  <2>1. /\ req[r] \in RequestState
        /\ req[r].pc = "xadd" => api > 0
        /\ req[r].pc = "wait" => req[r].age < Window
    BY <1>1 DEF Tick
  <2>2. req'[r] = IF req[r].pc \in {"xadd", "wait"} THEN [req[r] EXCEPT !.age = req[r].age + 1] ELSE req[r]
    BY DEF Tick
  <2>3. req[r].pc = "xadd" => req[r].age + 1 <= Block
    BY <1>1, <2>1 DEF TimingInv, DispatchInv, RequestState
  <2>4. req[r].pc \in {"xadd", "wait"} => req[r].age + 1 \in 0..(Timeout + Buffer)
    BY <2>1, <2>3 DEF RequestState
  <2> QED BY <2>1, <2>2, <2>4 DEF RequestState
<1>9. TypeOK'
  <2>1. queued' \subseteq Heartbeats
    <3>1. queued # {} => SinceBeat' \in 0..(StaleAfter + 1)
      BY <1>2, <1>6
    <3>2. queued # {} => [age |-> SinceBeat', busy |-> FALSE] \in Heartbeats
      BY <3>1 DEF Heartbeats
    <3> QED BY <1>6, <3>2
  <2>2. req' \in [Requests -> RequestState]
    BY <1>8 DEF Tick
  <2>3. beat' \in 0..HeartbeatInterval
    BY <1>1
  <2> QED BY <1>1, <1>3, <1>5, <1>7, <2>1, <2>2, <2>3 DEF TimingInv, TypeOK
<1>10. BeatInv'
  <2>1. CASE queued = {}
    BY <1>1, <1>2, <1>5, <1>6, <2>1 DEF BeatInv
  <2>2. CASE queued # {}
    <3>1. Idle /\ SinceBeat + worker.left <= Block /\ entry.age = HeartbeatInterval + SinceBeat
      BY <1>1, <2>2 DEF BeatInv
    <3>2. SinceBeat' + worker'.left <= Block
      BY <1>1, <1>2, <1>3, <3>1 DEF WorkerState
    <3>3. entry'.age = HeartbeatInterval + SinceBeat'
      BY <1>2, <1>5, <3>1
    <3>4. queued' # {} /\ queued' = {[age |-> SinceBeat', busy |-> FALSE]}
      BY <1>6, <2>2
    <3> QED BY <1>4, <3>1, <3>2, <3>3, <3>4 DEF BeatInv
  <2> QED BY <2>1, <2>2
<1>11. LoadInv'
  <2>1. worker.since \in Nat /\ worker'.since \in Nat
    BY <1>1, <1>3 DEF WorkerState
  <2>2. (queued = {}) = (queued' = {})
    BY <1>6
  <2> QED BY <1>1, <1>2, <1>3, <1>4, <1>5, <2>1, <2>2 DEF LoadInv
<1>12. ASSUME NEW r \in Requests PROVE DispatchInv(r)'
  <2>1. /\ DispatchInv(r) /\ req[r].age \in Nat /\ worker.since \in Nat
    BY <1>1 DEF TimingInv, RequestState, WorkerState
  <2>2. /\ req'[r].pc = req[r].pc /\ req'[r].direct = req[r].direct
        /\ req'[r].age = IF req[r].pc \in {"xadd", "wait"} THEN req[r].age + 1 ELSE req[r].age
        /\ req[r].pc = "xadd" => api > 0
    BY <1>8
  <2>3. req'[r].pc = "xadd" => req'[r].age + api' <= Block
    BY <1>1, <1>7, <2>1, <2>2 DEF DispatchInv
  <2>4. ASSUME req[r].direct, req[r].pc = "wait"
        PROVE  worker'.job = r /\ req'[r].age <= Block + worker'.since
    <3>1. worker.job = r /\ req[r].age <= Block + worker.since
      BY <1>3, <2>1, <2>4 DEF DispatchInv
    <3>2. ~Idle
      BY <3>1, TimingAssumption DEF Idle
    <3> QED BY <1>3, <2>1, <2>2, <2>4, <3>1, <3>2
  <2> QED BY <2>1, <2>2, <2>3, <2>4 DEF DispatchInv
<1> QED BY <1>9, <1>10, <1>11, <1>12 DEF TimingInv

\* The inductive invariant of the invoke path's clocks.
THEOREM TimingInvariant == Spec => []TimingInv
<1>1. TimingInv /\ [Next]_vars => TimingInv'
  <2> SUFFICES ASSUME TimingInv, [Next]_vars PROVE TimingInv'
    OBVIOUS
  <2>1. CASE UNCHANGED vars
    BY <2>1 DEF vars, fleet, TimingInv, TypeOK, BeatInv, LoadInv, DispatchInv, Idle, SinceBeat
  <2>2. CASE Next
    BY <2>2, HeartbeatKeeps, ReadJobKeeps, BlockEndsKeeps, FinishRunKeeps, ApiKeeps,
       RequestKeeps, TickKeeps DEF Next
  <2> QED BY <2>1, <2>2
<1> QED BY <1>1, TimingInit, PTL DEF Spec

\* Type correctness: in particular no clock leaves its range.
THEOREM TimingTypeCorrect == Spec => []TypeOK
<1>1. TimingInv => TypeOK
  BY DEF TimingInv
<1> QED BY <1>1, TimingInvariant, PTL

\* The age of the registry's entry, from the invariant.
LEMMA FreshEntry == TimingInv => HeartbeatsStayFresh
<1> SUFFICES ASSUME TimingInv PROVE HeartbeatsStayFresh
  OBVIOUS
<1>1. beat \in 0..HeartbeatInterval /\ worker \in WorkerState /\ BeatInv
  BY DEF TimingInv, TypeOK
<1> QED BY <1>1, Durations DEF BeatInv, SinceBeat, WorkerState, HeartbeatsStayFresh

\* A live worker is never judged dead, for any durations with which one heartbeat and
\* one blocked XREADGROUP fit into STALE_AFTER_MS.
THEOREM TimingHeartbeatsStayFresh == Spec => []HeartbeatsStayFresh
  BY FreshEntry, TimingInvariant, PTL

\* A job that finds the worker idle is answered before dispatch gives up, for any
\* buffer longer than one blocked XREADGROUP and a container's overhead.
THEOREM TimingDirectJobsAnswered == Spec => []DirectJobsAnswered
<1>1. TimingInv => DirectJobsAnswered
  BY DEF TimingInv, DispatchInv, DirectJobsAnswered
<1> QED BY <1>1, TimingInvariant, PTL

\* A request's next step.
LEMMA GotoFacts ==
    ASSUME NEW r \in Requests, NEW pc, req \in [Requests -> RequestState], Goto(r, pc)
    PROVE  req'[r].pc = pc /\ \A q \in Requests : q # r => req'[q] = req[q]
  BY DEF Goto, RequestState

\* Only the answer of the registry takes a request out of hasSpareCapacity.
LEMMA DecidedByRegistry ==
    ASSUME TimingInv, Next, NEW r \in Requests, req[r].pc = "capacity", req'[r].pc # "capacity"
    PROVE  CheckCapacity(r)
<1>1. req \in [Requests -> RequestState] /\ worker \in WorkerState
  BY DEF TimingInv, TypeOK
<1>2. CASE Heartbeat \/ ReadJob \/ BlockEnds \/ ApiBlocks \/ ApiUnblocks
  BY <1>2 DEF Heartbeat, ReadJob, BlockEnds, ApiBlocks, ApiUnblocks
<1>3. CASE FinishRun
  BY <1>1, <1>3 DEF FinishRun, WorkerState
<1>4. ASSUME NEW q \in Requests, RequestStep(q), q # r PROVE FALSE
  BY <1>1, <1>4, GotoFacts DEF RequestStep, Arrive, CheckCapacity, Subscribe, Xadd, TimerFires
<1>5. CASE RequestStep(r)
  BY <1>5 DEF RequestStep, Arrive, Subscribe, Xadd, TimerFires
<1>6. CASE Tick
  BY <1>1, <1>6 DEF Tick
<1> QED BY <1>2, <1>3, <1>4, <1>5, <1>6 DEF Next

\* A request is only admitted to a busy worker within one heartbeat interval of the
\* job's start.
THEOREM TimingBusySeenInTime == Spec => BusySeenInTime
<1> DEFINE A == \A r \in Requests :
                  req[r].pc = "capacity" /\ req'[r].pc = "subscribe" /\ ~Idle
                    => worker.since <= HeartbeatInterval
<1>1. TimingInv /\ [Next]_vars => [A]_vars
  <2> SUFFICES ASSUME TimingInv, Next, NEW r \in Requests,
                      req[r].pc = "capacity", req'[r].pc = "subscribe", ~Idle
               PROVE  worker.since <= HeartbeatInterval
    OBVIOUS
  <2>1. CheckCapacity(r)
    BY DecidedByRegistry
  <2>2. ~entry.busy
    BY <2>1, GotoFacts DEF CheckCapacity, TimingInv, TypeOK
  <2>3. beat \in 0..HeartbeatInterval /\ worker.since <= SinceBeat
    BY <2>2 DEF TimingInv, LoadInv, TypeOK
  <2>4. worker.since \in Nat
    BY DEF TimingInv, TypeOK, WorkerState
  <2> QED BY <2>3, <2>4, Durations DEF SinceBeat
<1> QED BY <1>1, TimingInvariant, PTL DEF Spec, BusySeenInTime

\* An idle worker is only refused within one interval and one blocked heartbeat of
\* the end of its last job.
THEOREM TimingIdleSeenInTime == Spec => IdleSeenInTime
<1> DEFINE A == \A r \in Requests :
                  req[r].pc = "capacity" /\ req'[r].pc = "refused" /\ Idle => worker.since <= Lag
<1>1. TimingInv /\ [Next]_vars => [A]_vars
  <2> SUFFICES ASSUME TimingInv, Next, NEW r \in Requests,
                      req[r].pc = "capacity", req'[r].pc = "refused", Idle
               PROVE  worker.since <= Lag
    OBVIOUS
  <2>1. CheckCapacity(r)
    BY DecidedByRegistry
  <2>2. ~(entry.age <= StaleAfter) \/ entry.busy
    BY <2>1, GotoFacts DEF CheckCapacity, TimingInv, TypeOK
  <2>3. beat \in 0..HeartbeatInterval /\ worker \in WorkerState /\ BeatInv /\ LoadInv
    BY DEF TimingInv, TypeOK
  <2>4. entry.age <= StaleAfter
    BY FreshEntry DEF HeartbeatsStayFresh
  <2>5. CASE queued = {}
    BY <2>2, <2>3, <2>4, <2>5, Durations DEF LoadInv, SinceBeat, WorkerState
  <2>6. CASE queued # {}
    BY <2>2, <2>3, <2>4, <2>6, Durations DEF BeatInv, LoadInv, SinceBeat, WorkerState
  <2> QED BY <2>5, <2>6
<1> QED BY <1>1, TimingInvariant, PTL DEF Spec, IdleSeenInTime
=============================================================================
