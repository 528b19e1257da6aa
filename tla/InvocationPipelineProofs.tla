---------------------- MODULE InvocationPipelineProofs ----------------------
(***************************************************************************)
(* Proofs about InvocationPipeline, for any number of requests, API        *)
(* processes, workers and failures.  The invariant has a part for the      *)
(* stream, one for each worker, three for each request, and one that       *)
(* relates the PELs to what the workers are doing; each step is shown to   *)
(* keep the parts of whoever takes it, and two frame lemmas show that it   *)
(* keeps everybody else's.                                                 *)
(***************************************************************************)
EXTENDS InvocationPipeline, RedisStreamProofs

\* Some job of request r is in the stream.
Dispatched(r) == \E i \in DOMAIN log : log[i].val = r

\* What the stream says about the group, the PELs and the outcomes published.
StreamInv ==
    /\ GroupBeforeJobs
    /\ \A i \in DOMAIN log : log[i].owner \in Workers <=> log[i].st = "pending"
    /\ \A r \in Requests : published[r] # {} => Dispatched(r)
    /\ AckedWasPublished

\* What worker w knows at each of its steps.
WorkerInv(w) ==
    /\ reg[w].st # "absent" \/ wk[w].pc # "off" => group
    /\ wk[w].pc \in Busy => wk[w].cur \in DOMAIN log
    /\ wk[w].pc \in {"publish", "ack"} => wk[w].out \in Outcomes
    /\ wk[w].pc = "ack" => published[Job(w)] # {}
    /\ wk[w].pc = "stopped" => reg[w].st = "absent"
    /\ wk[w].pc \in {"leave", "stopped"} => wk[w].stopping
    /\ wk[w].stopping => faults > 0

\* The answers of a dispatched or fast-failed request.
Answers == {"200", "200 Timeout", "200 Unhandled", "503"}

\* What dispatch has done for request r: nothing is in the stream before its
\* XADD, the group is there from the capacity check on, and while it waits it is
\* subscribed and has missed no reply.
WaitInv(r) ==
    /\ req[r].pc \in {"start", "version", "capacity", "subscribe", "xadd"} => ~Dispatched(r)
    /\ req[r].pc \in {"subscribe", "xadd", "wait", "unsub"} => group
    /\ req[r].pc \in {"xadd", "wait"} => r \in subs
    /\ req[r].pc = "wait" /\ published[r] # {} => reply[r] # "none"

\* Wherever an outcome of request r is kept, a worker published it for r.
OutcomeInv(r) ==
    /\ req[r].pc = "record" => req[r].out # "none"
    /\ reply[r] # "none" => reply[r] \in published[r]
    /\ req[r].promise \in Outcomes => req[r].promise \in published[r]
    /\ req[r].out \in Outcomes => req[r].out \in published[r]
    /\ req[r].ans \in {"200", "200 Timeout", "200 Unhandled"}
         => \E o \in published[r] : req[r].ans = HttpAnswer(o)

\* The rows of request r, and what its caller was told.
RecordInv(r) ==
    /\ req[r].pc # "done" => req[r].ans = "none"
    /\ req[r].pc \notin {"start", "version", "done", "gone"} \/ req[r].ans \in Answers
         => fn \in {"built", "deleted"}
    /\ \A x \in rows : x.req = r =>
         /\ req[r].pc \in {"done", "gone"}
         /\ req[r].pc = "done" => req[r].ans \in Answers /\ x.status = Told[req[r].ans]
    /\ req[r].ans \in Answers /\ fn = "built" /\ faults = 0 => \E x \in rows : x.req = r

RequestInv(r) == WaitInv(r) /\ OutcomeInv(r) /\ RecordInv(r)

\* Nothing has failed but, perhaps, one worker was told to stop.
OnlyAStop == faults = 0 \/ (faults = 1 /\ \E w \in Workers : wk[w].stopping)

\* Then a worker's PEL holds at most the job it is handling.
OwnedInv ==
    OnlyAStop => \A i \in DOMAIN log, w \in Workers :
                    log[i].owner = w => wk[w].pc \in Busy /\ wk[w].cur = i

PipelineInv ==
    /\ TypeOK /\ StreamInv /\ OwnedInv
    /\ \A w \in Workers : WorkerInv(w)
    /\ \A r \in Requests : RequestInv(r)

-----------------------------------------------------------------------------
(* Facts the steps share.                                                  *)

\* The type of the stream.
Stream == Seq(Entries(Requests, Workers))

\* The type of the invocations table.
RowTypes == [req : Requests, status : {"SUCCESS", "TIMEOUT", "ERROR", "NO_WORKER"}]

\* The entries of a well-typed stream, field by field.
LEMMA EntryFacts ==
    ASSUME NEW s \in Stream, NEW i \in DOMAIN s
    PROVE  /\ s[i].val \in Requests /\ s[i].st \in EntryStatus
           /\ s[i].owner \in Workers \cup {Nobody} /\ s[i].idle \in BOOLEAN
<1>1. s[i] \in Entries(Requests, Workers)
  BY DEF Stream
<1> QED BY <1>1 DEF Entries

\* XADD of a request's job: the entries before it stay as they are, and the new one
\* is in nobody's PEL.
LEMMA XaddFacts ==
    ASSUME log \in Stream, NEW r \in Requests
    PROVE  /\ XAdd(log, r) \in Stream
           /\ DOMAIN log \subseteq DOMAIN XAdd(log, r)
           /\ \A i \in DOMAIN log : XAdd(log, r)[i] = log[i]
           /\ \A i \in DOMAIN XAdd(log, r) : i \notin DOMAIN log =>
                /\ XAdd(log, r)[i].val = r /\ XAdd(log, r)[i].st = "new"
                /\ XAdd(log, r)[i].owner = Nobody
<1> DEFINE e == [val |-> r, st |-> "new", owner |-> Nobody, idle |-> FALSE]
<1>1. e \in Entries(Requests, Workers)
  BY DEF Entries, EntryStatus
<1>2. e.val = r /\ e.st = "new" /\ e.owner = Nobody
  OBVIOUS
<1>3. XAdd(log, r) = Append(log, e)
  BY DEF XAdd
<1> HIDE DEF e
<1>4. /\ Append(log, e) \in Stream
      /\ DOMAIN Append(log, e) = DOMAIN log \cup {Len(log) + 1}
      /\ \A i \in DOMAIN log : Append(log, e)[i] = log[i]
      /\ Append(log, e)[Len(log) + 1] = e
  BY <1>1 DEF Stream
<1>5. \A i \in DOMAIN Append(log, e) : i \notin DOMAIN log => Append(log, e)[i] = e
  BY <1>4
<1> QED BY <1>2, <1>3, <1>4, <1>5

\* A request's answer, its row and what Told says of the answer agree.
LEMMA AnswerFacts ==
    ASSUME NEW o \in Outcomes \cup {"NO_WORKER"}
    PROVE  /\ HttpAnswer(o) \in Answers
           /\ RowStatus(o) \in {"SUCCESS", "TIMEOUT", "ERROR", "NO_WORKER"}
           /\ Told[HttpAnswer(o)] = RowStatus(o)
           /\ o \notin Outcomes => HttpAnswer(o) = "503"
<1>1. o \in {"success", "error", "timeout", "NO_WORKER"}
  BY InvocationAssumption
<1>2. CASE o = "success"
  BY <1>2, InvocationAssumption DEF HttpAnswer, RowStatus, Told, Answers
<1>3. CASE o = "error"
  BY <1>3, InvocationAssumption DEF HttpAnswer, RowStatus, Told, Answers
<1>4. CASE o = "timeout"
  BY <1>4, InvocationAssumption DEF HttpAnswer, RowStatus, Told, Answers
<1>5. CASE o = "NO_WORKER"
  BY <1>5, InvocationAssumption DEF HttpAnswer, RowStatus, Told, Answers
<1> QED BY <1>1, <1>2, <1>3, <1>4, <1>5

\* A request keeps its part when a step is not its own: it sees the same subscription,
\* reply, outcomes and rows, and the stream holds a job of it only if it did before.
LEMMA RequestFrame ==
    ASSUME NEW r \in Requests, RequestInv(r),
           req'[r] = req[r], reply'[r] = reply[r], r \in subs' <=> r \in subs,
           published'[r] = published[r], group => group', fn' = fn,
           \A x : x.req = r => (x \in rows' <=> x \in rows),
           faults' = 0 => faults = 0,
           Dispatched(r)' => Dispatched(r)
    PROVE  RequestInv(r)'
<1>1. WaitInv(r)'
  BY DEF RequestInv, WaitInv
<1>2. OutcomeInv(r)'
  BY DEF RequestInv, OutcomeInv
<1>3. RecordInv(r)'
  BY DEF RequestInv, RecordInv
<1> QED BY <1>1, <1>2, <1>3 DEF RequestInv

\* A worker keeps its part when a step is not its own: the stream only grows, and
\* outcomes are never taken back.
LEMMA WorkerFrame ==
    ASSUME NEW w \in Workers, WorkerInv(w),
           wk'[w] = wk[w], reg'[w] = reg[w], group => group',
           DOMAIN log \subseteq DOMAIN log',
           \A i \in DOMAIN log : log'[i].val = log[i].val,
           \A i \in DOMAIN log : published[log[i].val] # {} => published'[log[i].val] # {},
           faults > 0 => faults' > 0
    PROVE  WorkerInv(w)'
<1>1. wk[w].pc = "ack" => published'[Job(w)'] # {}
  BY DEF WorkerInv, Job, Busy
<1> QED BY <1>1 DEF WorkerInv

\* A failure other than a stop ends OnlyAStop.
LEMMA FaultSpoils ==
    ASSUME PipelineInv, faults' = faults + 1,
           \A w \in Workers : wk'[w].stopping => wk[w].stopping
    PROVE  OwnedInv'
<1>1. faults \in Nat
  BY InvocationAssumption DEF PipelineInv, TypeOK
<1>2. ASSUME OnlyAStop' PROVE FALSE
  <2>1. PICK w \in Workers : wk[w].stopping /\ faults = 0
    BY <1>1, <1>2 DEF OnlyAStop
  <2> QED BY <2>1 DEF PipelineInv, WorkerInv
<1> QED BY <1>2 DEF OwnedInv

-----------------------------------------------------------------------------
(* The steps of a request.                                                 *)

\* A step changes the handler of request r and no other.
OnlyRequest(r) ==
    /\ req' \in [Requests -> RequestState]
    /\ \A s \in Requests \ {r} : req'[s] = req[s]

\* A step of request r's handler: it changes r's own record, subscription, reply
\* and rows, and perhaps adds r's job; if r's own part holds again, so does all.
LEMMA RequestMoves ==
    ASSUME PipelineInv, NEW r \in Requests, OnlyRequest(r),
           fn' = fn, group' = group, UNCHANGED fleet,
           log' \in {log, XAdd(log, r)}, log' # log => group,
           subs' \subseteq Requests, \A s \in Requests \ {r} : s \in subs' <=> s \in subs,
           reply' \in [Requests -> {"none"} \cup Outcomes],
           \A s \in Requests \ {r} : reply'[s] = reply[s],
           rows' \subseteq RowTypes, \A x : x.req # r => (x \in rows' <=> x \in rows),
           faults' \in 0..MaxFaults, faults' \in {faults, faults + 1},
           RequestInv(r)'
    PROVE  PipelineInv'
<1>1. TypeOK /\ faults \in Nat /\ log \in Stream
  BY InvocationAssumption DEF PipelineInv, TypeOK, Stream
<1>2. /\ log' \in Stream
      /\ DOMAIN log \subseteq DOMAIN log'
      /\ \A i \in DOMAIN log : log'[i] = log[i]
      /\ \A i \in DOMAIN log' : i \notin DOMAIN log =>
           log'[i].val = r /\ log'[i].st = "new" /\ log'[i].owner = Nobody
  <2>1. CASE log' = log
    BY <1>1, <2>1
  <2>2. CASE log' = XAdd(log, r)
    BY <1>1, <2>2, XaddFacts
  <2> QED BY <2>1, <2>2
<1>3. TypeOK'
  <2>1. req' \in [Requests -> RequestState]
    BY DEF OnlyRequest
  <2> QED BY <1>1, <1>2, <2>1 DEF TypeOK, fleet, RowTypes, Stream
<1>4. StreamInv'
  <2>1. GroupBeforeJobs'
    BY DEF PipelineInv, StreamInv, GroupBeforeJobs
  <2>2. \A i \in DOMAIN log' : log'[i].owner \in Workers <=> log'[i].st = "pending"
    BY <1>2, InvocationAssumption DEF PipelineInv, StreamInv
  <2>3. \A s \in Requests : published'[s] # {} => Dispatched(s)'
    BY <1>2 DEF PipelineInv, StreamInv, Dispatched, fleet
  <2>4. AckedWasPublished'
    BY <1>2 DEF PipelineInv, StreamInv, AckedWasPublished, fleet
  <2> QED BY <2>1, <2>2, <2>3, <2>4 DEF StreamInv, fleet
<1>5. OwnedInv'
  <2>1. CASE faults' = faults
    <3>1. OnlyAStop' => OnlyAStop
      BY <2>1 DEF OnlyAStop, fleet
    <3> QED BY <1>2, <3>1, InvocationAssumption DEF PipelineInv, OwnedInv, fleet
  <2>2. CASE faults' = faults + 1
    BY <2>2, FaultSpoils DEF fleet
  <2> QED BY <2>1, <2>2
<1>6. ASSUME NEW w \in Workers PROVE WorkerInv(w)'
  BY <1>1, <1>2, WorkerFrame DEF PipelineInv, fleet
<1>7. ASSUME NEW s \in Requests, s # r PROVE RequestInv(s)'
  <2>1. req'[s] = req[s] /\ published'[s] = published[s]
    BY <1>7 DEF OnlyRequest, fleet
  <2>2. Dispatched(s)' => Dispatched(s)
    BY <1>2, <1>7 DEF Dispatched
  <2>3. \A x : x.req = s => (x \in rows' <=> x \in rows)
    BY <1>7
  <2>4. faults' = 0 => faults = 0
    BY <1>1
  <2> QED BY <1>7, <2>1, <2>2, <2>3, <2>4, RequestFrame DEF PipelineInv
<1> QED BY <1>3, <1>4, <1>5, <1>6, <1>7 DEF PipelineInv

\* Advance: only the step counter moves.
LEMMA AdvanceFacts ==
    ASSUME TypeOK, NEW r \in Requests, NEW pc \in RequestPc, Advance(r, pc)
    PROVE  /\ OnlyRequest(r)
           /\ req'[r].pc = pc /\ req'[r].promise = req[r].promise
           /\ req'[r].out = req[r].out /\ req'[r].ans = req[r].ans
<1>1. req \in [Requests -> RequestState] /\ req[r] \in RequestState
  BY DEF TypeOK
<1> DEFINE q == [req[r] EXCEPT !.pc = pc]
<1>2. /\ q \in RequestState /\ q.pc = pc /\ q.promise = req[r].promise
      /\ q.out = req[r].out /\ q.ans = req[r].ans
  BY <1>1 DEF RequestState
<1>3. req' = [req EXCEPT ![r] = q]
  BY <1>1 DEF Advance
<1> HIDE DEF q
<1> QED BY <1>1, <1>2, <1>3 DEF OnlyRequest

\* A step that settles or sets the promise of request r.
LEMMA PromiseFacts ==
    ASSUME TypeOK, NEW r \in Requests,
           NEW p \in {"none", "waiting", "rejected"} \cup Outcomes,
           req' = [req EXCEPT ![r].promise = p]
    PROVE  /\ OnlyRequest(r)
           /\ req'[r].pc = req[r].pc /\ req'[r].promise = p
           /\ req'[r].out = req[r].out /\ req'[r].ans = req[r].ans
<1>1. req \in [Requests -> RequestState] /\ req[r] \in RequestState
  BY DEF TypeOK
<1> DEFINE q == [req[r] EXCEPT !.promise = p]
<1>2. /\ q \in RequestState /\ q.pc = req[r].pc /\ q.promise = p
      /\ q.out = req[r].out /\ q.ans = req[r].ans
  BY <1>1 DEF RequestState
<1>3. req' = [req EXCEPT ![r] = q]
  BY <1>1
<1> HIDE DEF q
<1> QED BY <1>1, <1>2, <1>3 DEF OnlyRequest

\* Conclude: the request goes on to recordInvocation with outcome o.
LEMMA ConcludeFacts ==
    ASSUME TypeOK, NEW r \in Requests, NEW o \in Outcomes \cup {"NO_WORKER"}, Conclude(r, o)
    PROVE  /\ OnlyRequest(r)
           /\ req'[r].pc = "record" /\ req'[r].promise = req[r].promise
           /\ req'[r].out = o /\ req'[r].ans = req[r].ans
<1>1. req \in [Requests -> RequestState] /\ req[r] \in RequestState
  BY DEF TypeOK
<1> DEFINE q == [req[r] EXCEPT !.pc = "record", !.out = o]
<1>2. /\ q \in RequestState /\ q.pc = "record" /\ q.promise = req[r].promise
      /\ q.out = o /\ q.ans = req[r].ans
  BY <1>1 DEF RequestState, RequestPc
<1>3. req' = [req EXCEPT ![r] = q]
  BY <1>1 DEF Conclude
<1> HIDE DEF q
<1> QED BY <1>1, <1>2, <1>3 DEF OnlyRequest

\* Answer: the handler returns, with nothing left but the answer.
LEMMA AnswerSent ==
    ASSUME TypeOK, NEW r \in Requests, NEW a \in {"404", "409", "500"} \cup Answers, Answer(r, a)
    PROVE  /\ OnlyRequest(r)
           /\ req'[r].pc = "done" /\ req'[r].promise = "none"
           /\ req'[r].out = "none" /\ req'[r].ans = a
<1>1. req \in [Requests -> RequestState]
  BY DEF TypeOK
<1> DEFINE q == [NewRequest EXCEPT !.pc = "done", !.ans = a]
<1>2. q \in RequestState /\ q.pc = "done" /\ q.promise = "none" /\ q.out = "none" /\ q.ans = a
  BY DEF NewRequest, RequestState, RequestPc, Answers
<1>3. req' = [req EXCEPT ![r] = q]
  BY DEF Answer
<1> HIDE DEF q
<1> QED BY <1>1, <1>2, <1>3 DEF OnlyRequest

\* None of the outcomes is one of the marks the handler uses.
LEMMA OutcomeNames ==
    /\ "none" \notin Outcomes /\ "NO_WORKER" \notin Outcomes
    /\ "waiting" \notin Outcomes /\ "rejected" \notin Outcomes
  BY InvocationAssumption

\* An error answer before the job is dispatched keeps everything.
LEMMA RefusedKeeps ==
    ASSUME PipelineInv, NEW r \in Requests, NEW a \in {"404", "409", "500"},
           req[r].pc \in {"start", "version", "capacity"}, Answer(r, a),
           UNCHANGED <<fn, rows, pubsub, stream, fleet>>,
           faults' \in 0..MaxFaults, faults' \in {faults, faults + 1}
    PROVE  PipelineInv'
<1>1. TypeOK /\ RequestInv(r)
  BY DEF PipelineInv
<1>2. /\ OnlyRequest(r) /\ req'[r].pc = "done" /\ req'[r].promise = "none"
      /\ req'[r].out = "none" /\ req'[r].ans = a
  BY <1>1, AnswerSent
<1>3. /\ fn' = fn /\ rows' = rows /\ subs' = subs /\ reply' = reply /\ group' = group
      /\ log' = log /\ UNCHANGED fleet /\ published' = published
  BY DEF pubsub, stream, fleet
<1>4. WaitInv(r)'
  BY <1>2 DEF WaitInv
<1>5. OutcomeInv(r)'
  BY <1>1, <1>2, <1>3, OutcomeNames DEF RequestInv, OutcomeInv
<1>6. RecordInv(r)'
  BY <1>1, <1>2, <1>3 DEF RequestInv, RecordInv, Answers
<1>7. RequestInv(r)'
  BY <1>4, <1>5, <1>6 DEF RequestInv
<1> QED BY <1>1, <1>2, <1>3, <1>7, RequestMoves DEF TypeOK, RowTypes

\* GetFunction: the handler goes on, or the caller gets a 404.
LEMMA GetFunctionKeeps ==
    ASSUME PipelineInv, NEW r \in Requests, GetFunction(r) PROVE PipelineInv'
<1>1. TypeOK /\ RequestInv(r) /\ req[r].pc = "start"
  BY DEF PipelineInv, GetFunction
<1>2. /\ fn' = fn /\ rows' = rows /\ subs' = subs /\ reply' = reply /\ group' = group
      /\ log' = log /\ UNCHANGED fleet /\ published' = published /\ faults' = faults
  BY DEF GetFunction, pubsub, stream, fleet
<1>3. CASE Advance(r, "version")
  <2>1. /\ OnlyRequest(r) /\ req'[r].pc = "version" /\ req'[r].promise = req[r].promise
        /\ req'[r].out = req[r].out /\ req'[r].ans = req[r].ans
    BY <1>1, <1>3, AdvanceFacts DEF RequestPc
  <2>2. WaitInv(r)'
    BY <1>1, <1>2, <2>1 DEF RequestInv, WaitInv, Dispatched
  <2>3. OutcomeInv(r)'
    BY <1>1, <1>2, <2>1 DEF RequestInv, OutcomeInv
  <2>4. RecordInv(r)'
    BY <1>1, <1>2, <2>1 DEF RequestInv, RecordInv
  <2>5. RequestInv(r)'
    BY <2>2, <2>3, <2>4 DEF RequestInv
  <2> QED BY <1>1, <1>2, <2>1, <2>5, RequestMoves DEF TypeOK, RowTypes
<1>4. CASE Answer(r, "404")
  BY <1>1, <1>2, <1>4, RefusedKeeps DEF TypeOK, pubsub, stream
<1> QED BY <1>3, <1>4 DEF GetFunction

\* FindVersion: only a built function is invoked.
LEMMA FindVersionKeeps ==
    ASSUME PipelineInv, NEW r \in Requests, FindVersion(r) PROVE PipelineInv'
<1>1. TypeOK /\ RequestInv(r) /\ req[r].pc = "version"
  BY DEF PipelineInv, FindVersion
<1>2. /\ fn' = fn /\ rows' = rows /\ subs' = subs /\ reply' = reply /\ group' = group
      /\ log' = log /\ UNCHANGED fleet /\ published' = published /\ faults' = faults
  BY DEF FindVersion, pubsub, stream, fleet
<1>3. CASE fn = "built" /\ Advance(r, "capacity")
  <2>1. /\ OnlyRequest(r) /\ req'[r].pc = "capacity" /\ req'[r].promise = req[r].promise
        /\ req'[r].out = req[r].out /\ req'[r].ans = req[r].ans
    BY <1>1, <1>3, AdvanceFacts DEF RequestPc
  <2>2. WaitInv(r)'
    BY <1>1, <1>2, <2>1 DEF RequestInv, WaitInv, Dispatched
  <2>3. OutcomeInv(r)'
    BY <1>1, <1>2, <2>1 DEF RequestInv, OutcomeInv
  <2>4. RecordInv(r)'
    BY <1>1, <1>2, <1>3, <2>1 DEF RequestInv, RecordInv
  <2>5. RequestInv(r)'
    BY <2>2, <2>3, <2>4 DEF RequestInv
  <2> QED BY <1>1, <1>2, <2>1, <2>5, RequestMoves DEF TypeOK, RowTypes
<1>4. CASE Answer(r, "409")
  BY <1>1, <1>2, <1>4, RefusedKeeps DEF TypeOK, pubsub, stream
<1> QED BY <1>3, <1>4 DEF FindVersion

\* A request that goes on to be recorded, with an outcome published for it or
\* NO_WORKER, and with its subscription given up or not.
LEMMA ConcludeKeeps ==
    ASSUME PipelineInv, NEW r \in Requests, NEW o \in Outcomes \cup {"NO_WORKER"},
           req[r].pc \in {"capacity", "subscribe", "wait", "unsub"}, Conclude(r, o),
           o \in Outcomes => o \in published[r],
           UNCHANGED <<fn, rows, stream, fleet>>,
           \/ subs' = subs /\ reply' = reply
           \/ subs' = subs \ {r} /\ reply' = [reply EXCEPT ![r] = "none"],
           faults' \in 0..MaxFaults, faults' \in {faults, faults + 1}
    PROVE  PipelineInv'
<1>1. TypeOK /\ RequestInv(r)
  BY DEF PipelineInv
<1>2. /\ OnlyRequest(r) /\ req'[r].pc = "record" /\ req'[r].promise = req[r].promise
      /\ req'[r].out = o /\ req'[r].ans = req[r].ans
  BY <1>1, ConcludeFacts
<1>3. /\ fn' = fn /\ rows' = rows /\ group' = group /\ log' = log /\ UNCHANGED fleet
      /\ published' = published
  BY DEF stream, fleet
<1>4. /\ subs' \subseteq Requests /\ reply' \in [Requests -> {"none"} \cup Outcomes]
      /\ \A s \in Requests \ {r} : (s \in subs' <=> s \in subs) /\ reply'[s] = reply[s]
      /\ reply'[r] \in {"none", reply[r]}
  BY <1>1 DEF TypeOK
<1>5. WaitInv(r)'
  BY <1>2 DEF WaitInv
<1>6. OutcomeInv(r)'
  BY <1>1, <1>2, <1>3, <1>4, OutcomeNames DEF RequestInv, OutcomeInv
<1>7. RecordInv(r)'
  BY <1>1, <1>2, <1>3 DEF RequestInv, RecordInv, Answers
<1>8. RequestInv(r)'
  BY <1>5, <1>6, <1>7 DEF RequestInv
<1> QED BY <1>1, <1>2, <1>3, <1>4, <1>8, RequestMoves DEF TypeOK, RowTypes

\* CheckCapacity: a fresh heartbeat shows that a worker has created the group.
LEMMA CheckCapacityKeeps ==
    ASSUME PipelineInv, NEW r \in Requests, CheckCapacity(r) PROVE PipelineInv'
<1>1. TypeOK /\ RequestInv(r) /\ req[r].pc = "capacity" /\ req[r] \in RequestState
  BY DEF PipelineInv, CheckCapacity, TypeOK
<1>2. /\ fn' = fn /\ rows' = rows /\ subs' = subs /\ reply' = reply /\ group' = group
      /\ log' = log /\ UNCHANGED fleet /\ published' = published /\ faults' = faults
  BY DEF CheckCapacity, pubsub, stream, fleet
<1>3. CASE Conclude(r, "NO_WORKER")
  <2>1. UNCHANGED <<fn, rows, stream, fleet>> /\ faults' \in 0..MaxFaults
    BY <1>1, <1>2 DEF stream, TypeOK
  <2> QED BY <1>1, <1>2, <1>3, <2>1, ConcludeKeeps, OutcomeNames
<1>4. CASE /\ hasSpareCapacity
           /\ req' = [req EXCEPT ![r] = [@ EXCEPT !.pc = "subscribe", !.promise = "waiting"]]
  <2>1. group
    <3>1. PICK w \in Workers : reg[w].st = "fresh"
      BY <1>4 DEF hasSpareCapacity
    <3> QED BY <3>1 DEF PipelineInv, WorkerInv
  <2> DEFINE q == [req[r] EXCEPT !.pc = "subscribe", !.promise = "waiting"]
  <2>2. /\ q \in RequestState /\ q.pc = "subscribe" /\ q.promise = "waiting"
        /\ q.out = req[r].out /\ q.ans = req[r].ans
    BY <1>1 DEF RequestState, RequestPc
  <2>3. req' = [req EXCEPT ![r] = q]
    BY <1>4
  <2> HIDE DEF q
  <2>4. /\ OnlyRequest(r) /\ req'[r].pc = "subscribe" /\ req'[r].promise = "waiting"
        /\ req'[r].out = req[r].out /\ req'[r].ans = req[r].ans
    BY <1>1, <2>2, <2>3 DEF OnlyRequest, TypeOK
  <2>5. WaitInv(r)'
    BY <1>1, <1>2, <2>1, <2>4 DEF RequestInv, WaitInv, Dispatched
  <2>6. OutcomeInv(r)'
    BY <1>1, <1>2, <2>4, OutcomeNames DEF RequestInv, OutcomeInv
  <2>7. RecordInv(r)'
    BY <1>1, <1>2, <2>4 DEF RequestInv, RecordInv
  <2>8. RequestInv(r)'
    BY <2>5, <2>6, <2>7 DEF RequestInv
  <2> QED BY <1>1, <1>2, <2>4, <2>8, RequestMoves DEF TypeOK, RowTypes
<1> QED BY <1>3, <1>4 DEF CheckCapacity

\* Subscribe comes before the job is in the stream.
LEMMA SubscribeKeeps ==
    ASSUME PipelineInv, NEW r \in Requests, Subscribe(r) PROVE PipelineInv'
<1>1. TypeOK /\ RequestInv(r) /\ req[r].pc = "subscribe"
  BY DEF PipelineInv, Subscribe
<1>2. /\ fn' = fn /\ rows' = rows /\ subs' = subs \cup {r} /\ reply' = reply /\ group' = group
      /\ log' = log /\ UNCHANGED fleet /\ published' = published /\ faults' = faults
  BY DEF Subscribe, stream, fleet
<1>3. /\ OnlyRequest(r) /\ req'[r].pc = "xadd" /\ req'[r].promise = req[r].promise
      /\ req'[r].out = req[r].out /\ req'[r].ans = req[r].ans
  <2>1. Advance(r, "xadd")
    BY DEF Subscribe
  <2> QED BY <1>1, <2>1, AdvanceFacts DEF RequestPc
<1>4. WaitInv(r)'
  BY <1>1, <1>2, <1>3 DEF RequestInv, WaitInv, Dispatched
<1>5. OutcomeInv(r)'
  BY <1>1, <1>2, <1>3 DEF RequestInv, OutcomeInv
<1>6. RecordInv(r)'
  BY <1>1, <1>2, <1>3 DEF RequestInv, RecordInv
<1>7. RequestInv(r)'
  BY <1>4, <1>5, <1>6 DEF RequestInv
<1> QED BY <1>1, <1>2, <1>3, <1>7, RequestMoves DEF TypeOK, RowTypes

\* The job goes out, or an XADD fails that may have been applied.  No outcome can have
\* been published for the request yet, so it has missed none.
LEMMA XaddKeeps ==
    ASSUME PipelineInv, NEW r \in Requests, req[r].pc = "xadd",
           NEW pc \in {"wait", "unsub"}, Advance(r, pc), log' \in {log, XAdd(log, r)},
           UNCHANGED <<fn, rows, pubsub, group, fleet>>,
           faults' \in 0..MaxFaults, faults' \in {faults, faults + 1}
    PROVE  PipelineInv'
<1>1. TypeOK /\ RequestInv(r)
  BY DEF PipelineInv
<1>2. /\ fn' = fn /\ rows' = rows /\ subs' = subs /\ reply' = reply /\ group' = group
      /\ UNCHANGED fleet /\ published' = published
  BY DEF pubsub, fleet
<1>3. /\ OnlyRequest(r) /\ req'[r].pc = pc /\ req'[r].promise = req[r].promise
      /\ req'[r].out = req[r].out /\ req'[r].ans = req[r].ans
  BY <1>1, AdvanceFacts DEF RequestPc
<1>4. ~Dispatched(r) /\ group /\ r \in subs
  BY <1>1 DEF RequestInv, WaitInv
<1>5. published[r] = {}
  BY <1>4 DEF PipelineInv, StreamInv
<1>6. WaitInv(r)'
  BY <1>2, <1>3, <1>4, <1>5 DEF WaitInv
<1>7. OutcomeInv(r)'
  BY <1>1, <1>2, <1>3 DEF RequestInv, OutcomeInv
<1>8. RecordInv(r)'
  <2>1. faults' = 0 => faults = 0
    BY <1>1, InvocationAssumption DEF TypeOK
  <2> QED BY <1>1, <1>2, <1>3, <2>1 DEF RequestInv, RecordInv
<1>9. RequestInv(r)'
  BY <1>6, <1>7, <1>8 DEF RequestInv
<1> QED BY <1>1, <1>2, <1>3, <1>4, <1>9, RequestMoves DEF TypeOK, RowTypes

\* The promise is settled by the timer, or by the reply of the request's own channel.
LEMMA SettleKeeps ==
    ASSUME PipelineInv, NEW r \in Requests, TimerFires(r) \/ Message(r) PROVE PipelineInv'
<1>1. TypeOK /\ RequestInv(r)
  BY DEF PipelineInv
<1>2. /\ fn' = fn /\ rows' = rows /\ subs' = subs /\ reply' = reply /\ group' = group
      /\ log' = log /\ UNCHANGED fleet /\ published' = published /\ faults' = faults
  BY DEF TimerFires, Message, pubsub, stream, fleet
<1>3. PICK p \in {"rejected"} \cup Outcomes :
          /\ req' = [req EXCEPT ![r].promise = p]
          /\ p \in Outcomes => p \in published[r]
  <2>1. CASE TimerFires(r)
    BY <2>1, OutcomeNames DEF TimerFires
  <2>2. CASE Message(r)
    <3>1. reply[r] # "none" /\ req' = [req EXCEPT ![r].promise = reply[r]]
      BY <2>2 DEF Message
    <3>2. reply[r] \in Outcomes /\ reply[r] \in published[r]
      BY <1>1, <3>1 DEF TypeOK, RequestInv, OutcomeInv
    <3> QED BY <3>1, <3>2
  <2> QED BY <2>1, <2>2
<1>4. /\ OnlyRequest(r) /\ req'[r].pc = req[r].pc /\ req'[r].promise = p
      /\ req'[r].out = req[r].out /\ req'[r].ans = req[r].ans
  BY <1>1, <1>3, PromiseFacts
<1>5. WaitInv(r)'
  BY <1>1, <1>2, <1>4 DEF RequestInv, WaitInv, Dispatched
<1>6. OutcomeInv(r)'
  BY <1>1, <1>2, <1>3, <1>4 DEF RequestInv, OutcomeInv
<1>7. RecordInv(r)'
  BY <1>1, <1>2, <1>4 DEF RequestInv, RecordInv
<1>8. RequestInv(r)'
  BY <1>5, <1>6, <1>7 DEF RequestInv
<1> QED BY <1>1, <1>2, <1>4, <1>8, RequestMoves DEF TypeOK, RowTypes

\* Unsubscribe: the outcome recorded is the one the promise was settled with.
LEMMA UnsubscribeKeeps ==
    ASSUME PipelineInv, NEW r \in Requests, Unsubscribe(r) PROVE PipelineInv'
<1>1. TypeOK /\ RequestInv(r) /\ req[r] \in RequestState
  BY DEF PipelineInv, TypeOK
<1>2. /\ UNCHANGED <<fn, rows, stream, fleet>> /\ faults' = faults
      /\ subs' = subs \ {r} /\ reply' = [reply EXCEPT ![r] = "none"]
  BY DEF Unsubscribe
<1>3. faults' \in 0..MaxFaults
  BY <1>1, <1>2 DEF TypeOK
<1>4. req[r].pc \in {"wait", "unsub"}
  BY DEF Unsubscribe
<1>5. PICK o \in Outcomes \cup {"NO_WORKER"} :
          Conclude(r, o) /\ (o \in Outcomes => o \in published[r])
  <2>1. CASE /\ req[r].promise \notin {"none", "waiting"}
             /\ Conclude(r, OutcomeOf(req[r].promise))
    <3>1. req[r].promise \in {"rejected"} \cup Outcomes
      BY <1>1, <2>1 DEF RequestState
    <3>2. req[r].promise \in Outcomes => req[r].promise \in published[r]
      BY <1>1 DEF RequestInv, OutcomeInv
    <3> QED BY <2>1, <3>1, <3>2, OutcomeNames DEF OutcomeOf
  <2>2. CASE Conclude(r, "NO_WORKER")
    BY <2>2, OutcomeNames
  <2> QED BY <2>1, <2>2 DEF Unsubscribe
<1> QED BY <1>2, <1>3, <1>4, <1>5, ConcludeKeeps

\* A row to be inserted is well-typed, and it is its own request's.
LEMMA RowFacts ==
    ASSUME TypeOK, NEW r \in Requests, req[r].out \in Outcomes \cup {"NO_WORKER"}
    PROVE  /\ Row(r) \in RowTypes /\ Row(r).req = r /\ Row(r).status = RowStatus(req[r].out)
  BY AnswerFacts DEF Row, RowTypes

\* The answer of a request whose outcome is known, with its row inserted or, where a
\* query failed or the function is gone, not.
LEMMA AnsweredKeeps ==
    ASSUME PipelineInv, NEW r \in Requests, req[r].pc = "record",
           Answer(r, HttpAnswer(req[r].out)), rows' \in {rows, rows \cup {Row(r)}},
           faults' = 0 /\ fn = "built" => Row(r) \in rows',
           UNCHANGED <<fn, pubsub, stream, fleet>>,
           faults' \in 0..MaxFaults, faults' \in {faults, faults + 1}
    PROVE  PipelineInv'
<1> DEFINE o == req[r].out
           a == HttpAnswer(o)
<1>1. TypeOK /\ RequestInv(r) /\ req[r] \in RequestState
  BY DEF PipelineInv, TypeOK
<1>2. o \in Outcomes \cup {"NO_WORKER"}
  BY <1>1 DEF RequestInv, OutcomeInv, RequestState
<1>3. a \in Answers /\ Told[a] = RowStatus(o) /\ (o \notin Outcomes => a = "503")
  BY <1>2, AnswerFacts
<1>4. /\ OnlyRequest(r) /\ req'[r].pc = "done" /\ req'[r].promise = "none"
      /\ req'[r].out = "none" /\ req'[r].ans = a
  BY <1>1, <1>3, AnswerSent
<1>5. /\ fn' = fn /\ subs' = subs /\ reply' = reply /\ group' = group
      /\ log' = log /\ UNCHANGED fleet /\ published' = published
  BY DEF pubsub, stream, fleet
<1>6. Row(r) \in RowTypes /\ Row(r).req = r /\ Row(r).status = Told[a]
  BY <1>1, <1>2, <1>3, RowFacts
<1>7. WaitInv(r)'
  BY <1>4 DEF WaitInv
<1>8. OutcomeInv(r)'
  <2>1. o \in Outcomes => o \in published[r]
    BY <1>1 DEF RequestInv, OutcomeInv
  <2>2. a \in {"200", "200 Timeout", "200 Unhandled"} => \E x \in published[r] : a = HttpAnswer(x)
    BY <1>2, <1>3, <2>1
  <2> HIDE DEF a
  <2> QED BY <1>1, <1>4, <1>5, <2>2, OutcomeNames DEF RequestInv, OutcomeInv
<1>9. RecordInv(r)'
  <2> HIDE DEF a
  <2>1. fn' \in {"built", "deleted"}
    BY <1>1, <1>5 DEF RequestInv, RecordInv
  <2>2. \A x \in rows' : x.req = r => x.status = Told[a]
    BY <1>1, <1>6 DEF RequestInv, RecordInv
  <2>3. fn' = "built" /\ faults' = 0 => \E x \in rows' : x.req = r
    BY <1>5, <1>6
  <2> QED BY <1>3, <1>4, <2>1, <2>2, <2>3 DEF RecordInv
<1>10. RequestInv(r)'
  BY <1>7, <1>8, <1>9 DEF RequestInv
<1>11. rows' \subseteq RowTypes /\ \A x : x.req # r => (x \in rows' <=> x \in rows)
  BY <1>1, <1>6 DEF TypeOK, RowTypes
<1> QED BY <1>1, <1>4, <1>5, <1>10, <1>11, RequestMoves DEF TypeOK

\* recordInvocation, then the answer.
LEMMA RecordInvocationKeeps ==
    ASSUME PipelineInv, NEW r \in Requests, RecordInvocation(r) PROVE PipelineInv'
<1>1. /\ req[r].pc = "record" /\ Answer(r, HttpAnswer(req[r].out)) /\ faults' = faults
      /\ UNCHANGED <<fn, pubsub, stream, fleet>>
  BY DEF RecordInvocation
<1>2. rows' = IF fn = "built" THEN rows \cup {Row(r)} ELSE rows
  BY DEF RecordInvocation, Insert
<1>3. faults' \in 0..MaxFaults
  BY <1>1 DEF PipelineInv, TypeOK
<1> QED BY <1>1, <1>2, <1>3, AnsweredKeeps

\* What a failure does to the count of failures.
LEMMA FaultFacts ==
    ASSUME TypeOK, NEW k, Fault(k)
    PROVE  faults \in Nat /\ faults' = faults + 1 /\ faults' \in 0..MaxFaults /\ faults' # 0
  BY InvocationAssumption DEF TypeOK, Fault

\* A query of invoke fails.
LEMMA RequestDbFailsKeeps ==
    ASSUME PipelineInv, NEW r \in Requests, RequestDbFails(r) PROVE PipelineInv'
<1>1. TypeOK
  BY DEF PipelineInv
<1>2. faults' = faults + 1 /\ faults' \in 0..MaxFaults /\ faults' # 0
  BY <1>1, FaultFacts DEF RequestDbFails
<1>3. UNCHANGED <<fn, rows, pubsub, stream, fleet>>
  BY DEF RequestDbFails
<1>4. CASE req[r].pc \in {"start", "version"} /\ Answer(r, "500")
  BY <1>2, <1>3, <1>4, RefusedKeeps
<1>5. CASE req[r].pc = "record" /\ Answer(r, HttpAnswer(req[r].out))
  BY <1>2, <1>3, <1>5, AnsweredKeeps
<1> QED BY <1>4, <1>5 DEF RequestDbFails

\* A Redis command of a request fails.
LEMMA RequestRedisFailsKeeps ==
    ASSUME PipelineInv, NEW r \in Requests, RequestRedisFails(r) PROVE PipelineInv'
<1>1. TypeOK
  BY DEF PipelineInv
<1>2. faults' = faults + 1 /\ faults' \in 0..MaxFaults
  BY <1>1, FaultFacts DEF RequestRedisFails
<1>3. UNCHANGED <<fn, rows, pubsub, group, fleet>>
  BY DEF RequestRedisFails
<1>4. CASE req[r].pc = "capacity" /\ Answer(r, "500") /\ UNCHANGED log
  BY <1>2, <1>3, <1>4, RefusedKeeps DEF stream
<1>5. CASE /\ req[r].pc \in {"subscribe", "wait"}
           /\ Conclude(r, "NO_WORKER") /\ UNCHANGED log
  <2>1. UNCHANGED <<fn, rows, stream, fleet>> /\ subs' = subs /\ reply' = reply
    BY <1>3, <1>5 DEF stream, pubsub
  <2> QED BY <1>2, <1>5, <2>1, ConcludeKeeps, OutcomeNames
<1>6. CASE req[r].pc = "xadd" /\ Advance(r, "unsub") /\ log' \in {log, XAdd(log, r)}
  BY <1>2, <1>3, <1>6, XaddKeeps
<1> QED BY <1>4, <1>5, <1>6 DEF RequestRedisFails

\* Every step of a request keeps the invariant.
LEMMA RequestStepKeeps ==
    ASSUME PipelineInv, NEW r \in Requests, RequestEvent(r) \/ RequestFault(r)
    PROVE  PipelineInv'
<1>1. CASE XaddJob(r)
  <2>1. /\ req[r].pc = "xadd" /\ Advance(r, "wait") /\ log' = XAdd(log, r) /\ faults' = faults
        /\ UNCHANGED <<fn, rows, pubsub, group, fleet>>
    BY <1>1 DEF XaddJob
  <2>2. faults' \in 0..MaxFaults
    BY <2>1 DEF PipelineInv, TypeOK
  <2> QED BY <2>1, <2>2, XaddKeeps
<1> QED BY <1>1, GetFunctionKeeps, FindVersionKeeps, CheckCapacityKeeps, SubscribeKeeps, SettleKeeps,
           UnsubscribeKeeps, RecordInvocationKeeps, RequestDbFailsKeeps, RequestRedisFailsKeeps
        DEF RequestEvent, RequestFault, RequestStep

-----------------------------------------------------------------------------
(* The steps of a worker.                                                  *)

\* A step changes the process and the heartbeat of worker w and no other.
OnlyWorker(w) ==
    /\ wk' \in [Workers -> WorkerState] /\ reg' \in [Workers -> Heartbeats]
    /\ \A v \in Workers \ {w} : wk'[v] = wk[v] /\ reg'[v] = reg[v]

\* The stream keeps its jobs, whoever they are delivered to.
SameJobs ==
    /\ log' \in Stream /\ DOMAIN log' = DOMAIN log
    /\ \A i \in DOMAIN log : log'[i].val = log[i].val

\* A step of worker w: if its own part, the stream's and the PELs' hold again, so
\* does all.
LEMMA WorkerMoves ==
    ASSUME PipelineInv, NEW w \in Workers, OnlyWorker(w), SameJobs,
           UNCHANGED <<api, pubsub, published>>, group' \in BOOLEAN, group => group',
           faults' \in 0..MaxFaults, faults' \in {faults, faults + 1},
           StreamInv', OwnedInv', WorkerInv(w)'
    PROVE  PipelineInv'
<1>1. TypeOK /\ faults \in Nat
  BY InvocationAssumption DEF PipelineInv, TypeOK
<1>2. /\ fn' = fn /\ rows' = rows /\ req' = req /\ subs' = subs /\ reply' = reply
      /\ published' = published
  BY DEF api, pubsub
<1>3. TypeOK'
  BY <1>1, <1>2 DEF TypeOK, OnlyWorker, SameJobs, Stream
<1>4. ASSUME NEW v \in Workers, v # w PROVE WorkerInv(v)'
  <2>1. wk'[v] = wk[v] /\ reg'[v] = reg[v]
    BY <1>4 DEF OnlyWorker
  <2>2. DOMAIN log \subseteq DOMAIN log' /\ \A i \in DOMAIN log : log'[i].val = log[i].val
    BY DEF SameJobs
  <2>3. faults > 0 => faults' > 0
    BY <1>1
  <2> QED BY <1>2, <2>1, <2>2, <2>3, WorkerFrame DEF PipelineInv
<1>5. ASSUME NEW r \in Requests PROVE RequestInv(r)'
  <2>1. Dispatched(r)' => Dispatched(r)
    BY DEF SameJobs, Dispatched
  <2>2. faults' = 0 => faults = 0
    BY <1>1
  <2> QED BY <1>2, <2>1, <2>2, RequestFrame DEF PipelineInv
<1> QED BY <1>3, <1>4, <1>5 DEF PipelineInv

\* A step that leaves the PELs alone, and keeps every worker at the job it handles.
LEMMA OwnedFrame ==
    ASSUME PipelineInv, faults' = faults, DOMAIN log' = DOMAIN log,
           \A i \in DOMAIN log : log'[i].owner = log[i].owner,
           \A v \in Workers : /\ wk'[v].stopping = wk[v].stopping
                              /\ wk[v].pc \in Busy => wk'[v].pc \in Busy /\ wk'[v].cur = wk[v].cur
    PROVE  OwnedInv'
<1>1. OnlyAStop' => OnlyAStop
  BY DEF OnlyAStop
<1> QED BY <1>1 DEF PipelineInv, OwnedInv

\* A step of worker w that leaves the stream alone and is not a failure.
LEMMA LoopMoves ==
    ASSUME PipelineInv, NEW w \in Workers, OnlyWorker(w),
           UNCHANGED <<api, pubsub, stream, published, faults>>,
           wk'[w].stopping = wk[w].stopping,
           wk[w].pc \in Busy => wk'[w].pc \in Busy /\ wk'[w].cur = wk[w].cur,
           WorkerInv(w)'
    PROVE  PipelineInv'
<1>1. TypeOK
  BY DEF PipelineInv
<1>2. log' = log /\ group' = group /\ published' = published /\ faults' = faults
  BY DEF stream
<1>3. SameJobs /\ group' \in BOOLEAN /\ faults' \in 0..MaxFaults
  BY <1>1, <1>2 DEF SameJobs, TypeOK, Stream
<1>4. StreamInv'
  BY <1>2 DEF PipelineInv, StreamInv, GroupBeforeJobs, AckedWasPublished, Dispatched
<1>5. \A v \in Workers : /\ wk'[v].stopping = wk[v].stopping
                         /\ wk[v].pc \in Busy => wk'[v].pc \in Busy /\ wk'[v].cur = wk[v].cur
  BY DEF OnlyWorker
<1>6. OwnedInv'
  BY <1>2, <1>5, OwnedFrame
<1> QED BY <1>2, <1>3, <1>4, <1>6, WorkerMoves

\* A worker's new record, and its heartbeat as it was.
LEMMA WorkerUpdate ==
    ASSUME TypeOK, NEW w \in Workers, NEW q \in WorkerState,
           wk' = [wk EXCEPT ![w] = q], reg' = reg
    PROVE  OnlyWorker(w) /\ wk'[w] = q
  BY DEF TypeOK, OnlyWorker

\* A worker's step counter moves, and its heartbeat becomes h.
LEMMA WorkerAdvance ==
    ASSUME TypeOK, NEW w \in Workers, NEW pc \in Live \cup {"off", "dead", "stopped"},
           NEW h \in Heartbeats,
           wk' = [wk EXCEPT ![w].pc = pc], reg' = [reg EXCEPT ![w] = h]
    PROVE  /\ OnlyWorker(w) /\ reg'[w] = h
           /\ wk'[w].pc = pc /\ wk'[w].cur = wk[w].cur /\ wk'[w].out = wk[w].out
           /\ wk'[w].stopping = wk[w].stopping
<1>1. wk \in [Workers -> WorkerState] /\ wk[w] \in WorkerState
  BY DEF TypeOK
<1> DEFINE q == [wk[w] EXCEPT !.pc = pc]
<1>2. /\ q \in WorkerState /\ q.pc = pc /\ q.cur = wk[w].cur /\ q.out = wk[w].out
      /\ q.stopping = wk[w].stopping
  BY <1>1 DEF WorkerState
<1>3. wk' = [wk EXCEPT ![w] = q]
  BY <1>1
<1> HIDE DEF q
<1> QED BY <1>1, <1>2, <1>3 DEF TypeOK, OnlyWorker

\* onModuleInit creates the group while the stream is still empty, if it is first.
LEMMA BootKeeps ==
    ASSUME PipelineInv, NEW w \in Workers, Boot(w) PROVE PipelineInv'
<1>1. TypeOK /\ WorkerInv(w) /\ log \in Stream /\ reg[w] \in Heartbeats
  BY DEF PipelineInv, TypeOK, Stream
<1>2. /\ wk[w].pc = "off" /\ wk' = [wk EXCEPT ![w].pc = "hello"] /\ reg' = [reg EXCEPT ![w] = reg[w]]
      /\ group' = TRUE /\ UNCHANGED <<api, pubsub, published>> /\ published' = published
      /\ faults' = faults
  BY <1>1 DEF Boot, TypeOK
<1>3. /\ OnlyWorker(w) /\ reg'[w] = reg[w] /\ wk'[w].pc = "hello" /\ wk'[w].cur = wk[w].cur
      /\ wk'[w].out = wk[w].out /\ wk'[w].stopping = wk[w].stopping
  BY <1>1, <1>2, WorkerAdvance DEF Live
<1>4. SameJobs /\ \A i \in DOMAIN log : log'[i] = log[i]
  <2>1. CASE group
    BY <1>1, <2>1 DEF Boot, SameJobs
  <2>2. CASE ~group
    <3>1. log = <<>> /\ log' = XGroupCreate(log)
      BY <2>2 DEF Boot, PipelineInv, StreamInv, GroupBeforeJobs
    <3>2. XGroupCreate(log) \in Stream /\ DOMAIN XGroupCreate(log) = DOMAIN log
      BY <1>1, XGroupCreateFacts DEF Stream
    <3>3. DOMAIN log = {}
      BY <3>1
    <3> QED BY <3>1, <3>2, <3>3 DEF SameJobs
  <2> QED BY <2>1, <2>2
<1>5. StreamInv'
  BY <1>2, <1>4 DEF PipelineInv, StreamInv, GroupBeforeJobs, AckedWasPublished, Dispatched, SameJobs
<1>6. OwnedInv'
  <2>1. \A v \in Workers : /\ wk'[v].stopping = wk[v].stopping
                           /\ wk[v].pc \in Busy => wk'[v].pc \in Busy /\ wk'[v].cur = wk[v].cur
    BY <1>2, <1>3 DEF OnlyWorker, Busy
  <2> QED BY <1>2, <1>4, <2>1, OwnedFrame DEF SameJobs
<1>7. WorkerInv(w)'
  BY <1>1, <1>2, <1>3 DEF WorkerInv, Busy
<1>8. faults' \in 0..MaxFaults /\ group' \in BOOLEAN
  BY <1>1, <1>2 DEF TypeOK
<1> QED BY <1>2, <1>3, <1>4, <1>5, <1>6, <1>7, <1>8, WorkerMoves

\* The first heartbeat, and the deregistration of a worker that leaves.
LEMMA RegisterKeeps ==
    ASSUME PipelineInv, NEW w \in Workers, Hello(w) \/ Deregister(w) PROVE PipelineInv'
<1>1. TypeOK /\ WorkerInv(w)
  BY DEF PipelineInv
<1>2. /\ UNCHANGED <<api, pubsub, stream, published, faults>> /\ group' = group
      /\ log' = log /\ faults' = faults
  BY DEF Hello, Deregister, stream
<1>3. wk[w].pc \notin Busy
  BY DEF Hello, Deregister, Busy
<1>4. CASE Hello(w)
  <2> DEFINE h == [st |-> "fresh", busy |-> FALSE]
  <2>1. /\ wk[w].pc = "hello" /\ wk' = [wk EXCEPT ![w].pc = "pending"] /\ reg' = [reg EXCEPT ![w] = h]
    BY <1>4 DEF Hello
  <2>2. h \in Heartbeats /\ h.st = "fresh"
    BY DEF Heartbeats
  <2> HIDE DEF h
  <2>3. /\ OnlyWorker(w) /\ reg'[w] = h /\ wk'[w].pc = "pending" /\ wk'[w].stopping = wk[w].stopping
    BY <1>1, <2>1, <2>2, WorkerAdvance DEF Live
  <2>4. WorkerInv(w)'
    BY <1>1, <1>2, <2>1, <2>2, <2>3 DEF WorkerInv, Busy
  <2> QED BY <1>2, <1>3, <2>3, <2>4, LoopMoves
<1>5. CASE Deregister(w)
  <2>1. /\ wk[w].pc = "leave" /\ wk' = [wk EXCEPT ![w].pc = "stopped"]
        /\ reg' = [reg EXCEPT ![w] = NoHeartbeat]
    BY <1>5 DEF Deregister
  <2>2. NoHeartbeat \in Heartbeats /\ NoHeartbeat.st = "absent"
    BY DEF Heartbeats, NoHeartbeat
  <2>3. /\ OnlyWorker(w) /\ reg'[w] = NoHeartbeat /\ wk'[w].pc = "stopped"
        /\ wk'[w].stopping = wk[w].stopping
    BY <1>1, <2>1, <2>2, WorkerAdvance
  <2>4. WorkerInv(w)'
    BY <1>1, <1>2, <2>1, <2>2, <2>3 DEF WorkerInv, Busy
  <2> QED BY <1>2, <1>3, <2>3, <2>4, LoopMoves
<1> QED BY <1>4, <1>5

\* A heartbeat, and a heartbeat's age: a stopped worker has none.
LEMMA HeartbeatKeeps ==
    ASSUME PipelineInv, NEW w \in Workers, Heartbeat(w) \/ HeartbeatAges(w) PROVE PipelineInv'
<1>1. TypeOK /\ WorkerInv(w) /\ reg[w] \in Heartbeats
  BY DEF PipelineInv, TypeOK
<1>2. /\ UNCHANGED <<api, pubsub, stream, published, faults>> /\ group' = group
      /\ log' = log /\ faults' = faults /\ wk' = wk /\ published' = published
  BY DEF Heartbeat, HeartbeatAges, stream
<1>3. wk[w].pc \notin {"off", "stopped"} \/ (reg[w].st # "absent" /\ wk[w].pc # "stopped")
  BY <1>1 DEF Heartbeat, HeartbeatAges, HeartbeatOn, Live, WorkerInv
<1>4. PICK h \in Heartbeats : reg' = [reg EXCEPT ![w] = h]
  <2>1. CASE Heartbeat(w)
    <3>1. [st |-> "fresh", busy |-> wk[w].pc = "run"] \in Heartbeats
      BY DEF Heartbeats
    <3> QED BY <2>1, <3>1 DEF Heartbeat
  <2>2. CASE HeartbeatAges(w)
    <3>1. [reg[w] EXCEPT !.st = "stale"] \in Heartbeats
      BY <1>1 DEF Heartbeats
    <3>2. reg' = [reg EXCEPT ![w] = [reg[w] EXCEPT !.st = "stale"]]
      BY <1>1, <2>2 DEF HeartbeatAges, TypeOK
    <3> QED BY <3>1, <3>2
  <2> QED BY <2>1, <2>2
<1>5. OnlyWorker(w)
  BY <1>1, <1>2, <1>4 DEF TypeOK, OnlyWorker
<1>6. WorkerInv(w)'
  <2>1. group /\ wk[w].pc # "stopped"
    BY <1>1, <1>3 DEF WorkerInv
  <2>2. Job(w)' = Job(w)
    BY <1>2 DEF Job
  <2> QED BY <1>1, <1>2, <2>1, <2>2 DEF WorkerInv
<1> QED BY <1>2, <1>5, <1>6, LoopMoves

\* A step of the loop between two jobs.
LEMMA CalmMoves ==
    ASSUME PipelineInv, NEW w \in Workers, NEW q \in WorkerState,
           wk' = [wk EXCEPT ![w] = q], UNCHANGED <<api, pubsub, stream, reg, published, faults>>,
           wk[w].pc \in {"pending", "list", "claim", "read"},
           q.pc \in {"pending", "list", "claim", "read", "leave"},
           q.pc = "leave" => wk[w].stopping, q.stopping = wk[w].stopping
    PROVE  PipelineInv'
<1>1. TypeOK /\ WorkerInv(w)
  BY DEF PipelineInv
<1>2. /\ UNCHANGED <<api, pubsub, stream, published, faults>> /\ group' = group
      /\ faults' = faults /\ reg' = reg
  BY DEF stream
<1>3. OnlyWorker(w) /\ wk'[w] = q
  BY <1>1, <1>2, WorkerUpdate
<1>4. WorkerInv(w)'
  BY <1>1, <1>2, <1>3 DEF WorkerInv, Busy
<1> QED BY <1>2, <1>3, <1>4, LoopMoves DEF Busy

\* Where the loop goes on.
LEMMA LoopFacts ==
    ASSUME NEW w \in Workers, NEW todo
    PROVE  /\ NextIteration(w) \in {"pending", "leave"}
           /\ NextIteration(w) = "leave" => wk[w].stopping
           /\ AfterClaims(todo) \in {"read", "claim"}
  BY DEF NextIteration, AfterClaims

\* XPENDING: what it lists is in somebody's PEL.
LEMMA ScanPendingKeeps ==
    ASSUME PipelineInv, NEW w \in Workers, ScanPending(w) PROVE PipelineInv'
<1>1. TypeOK /\ log \in Stream /\ wk[w] \in WorkerState
  BY DEF PipelineInv, TypeOK, Stream
<1>2. \A i \in OldestExpired : i \in Nat /\ log[i].owner \in Workers
  <2>1. \A i \in OldestExpired : i \in DOMAIN log /\ log[i].st = "pending"
    BY DEF OldestExpired, Expired
  <2>2. DOMAIN log \subseteq Nat
    BY <1>1 DEF Stream
  <2> QED BY <2>1, <2>2 DEF PipelineInv, StreamInv
<1> DEFINE seen == {<<i, log[i].owner>> : i \in OldestExpired}
           pc   == IF OldestExpired = {} THEN "read" ELSE "list"
           q    == [wk[w] EXCEPT !.seen = seen, !.pc = pc]
<1>3. seen \in SUBSET (Nat \X Workers)
  BY <1>2
<1>4. pc \in {"read", "list"}
  OBVIOUS
<1>5. /\ wk[w].pc = "pending" /\ wk' = [wk EXCEPT ![w] = q]
      /\ UNCHANGED <<api, pubsub, stream, reg, published, faults>>
  BY DEF ScanPending
<1> HIDE DEF seen, pc
<1>6. q \in WorkerState /\ q.pc = pc /\ q.stopping = wk[w].stopping
  BY <1>1, <1>3, <1>4 DEF WorkerState, Live
<1> HIDE DEF q
<1> QED BY <1>4, <1>5, <1>6, CalmMoves

\* HGETALL and the tests of the for loop.
LEMMA ListWorkersKeeps ==
    ASSUME PipelineInv, NEW w \in Workers, ListWorkers(w) PROVE PipelineInv'
<1>1. wk[w] \in WorkerState
  BY DEF PipelineInv, TypeOK
<1> DEFINE todo == {e[1] : e \in {s \in wk[w].seen : Reclaimable(w, s[2])}}
           q    == [wk[w] EXCEPT !.seen = {}, !.todo = todo, !.pc = AfterClaims(todo)]
<1>2. todo \in SUBSET Nat
  <2>1. wk[w].seen \subseteq Nat \X Workers
    BY <1>1 DEF WorkerState
  <2>2. \A e \in Nat \X Workers : e[1] \in Nat
    OBVIOUS
  <2> QED BY <2>1, <2>2
<1>3. /\ wk[w].pc = "list" /\ wk' = [wk EXCEPT ![w] = q]
      /\ UNCHANGED <<api, pubsub, stream, reg, published, faults>>
  BY DEF ListWorkers
<1> HIDE DEF todo
<1>4. AfterClaims(todo) \in {"read", "claim"}
  BY LoopFacts
<1>5. q \in WorkerState /\ q.pc = AfterClaims(todo) /\ q.stopping = wk[w].stopping
  BY <1>1, <1>2, <1>4 DEF WorkerState, Live
<1> HIDE DEF q
<1> QED BY <1>3, <1>4, <1>5, CalmMoves

\* BLOCK times out.
LEMMA ReadNothingKeeps ==
    ASSUME PipelineInv, NEW w \in Workers, ReadNothing(w) PROVE PipelineInv'
<1>1. wk \in [Workers -> WorkerState] /\ wk[w] \in WorkerState
  BY DEF PipelineInv, TypeOK
<1> DEFINE q == [wk[w] EXCEPT !.pc = NextIteration(w)]
<1>2. /\ wk[w].pc = "read" /\ wk' = [wk EXCEPT ![w] = q]
      /\ UNCHANGED <<api, pubsub, stream, reg, published, faults>>
  BY <1>1 DEF ReadNothing
<1>3. NextIteration(w) \in {"pending", "leave"} /\ (NextIteration(w) = "leave" => wk[w].stopping)
  BY LoopFacts
<1>4. q \in WorkerState /\ q.pc = NextIteration(w) /\ q.stopping = wk[w].stopping
  BY <1>1, <1>3 DEF WorkerState, Live
<1> HIDE DEF q
<1> QED BY <1>2, <1>3, <1>4, CalmMoves

\* The container run ends with an outcome.
LEMMA FinishRunKeeps ==
    ASSUME PipelineInv, NEW w \in Workers, NEW o \in Outcomes, FinishRun(w, o) PROVE PipelineInv'
<1>1. TypeOK /\ WorkerInv(w) /\ wk[w] \in WorkerState
  BY DEF PipelineInv, TypeOK
<1> DEFINE q == [wk[w] EXCEPT !.pc = "publish", !.out = o]
<1>2. /\ wk[w].pc = "run" /\ wk' = [wk EXCEPT ![w] = q] /\ group' = group /\ faults' = faults
      /\ UNCHANGED <<api, pubsub, stream, published, faults>> /\ reg' = reg /\ log' = log
  BY DEF FinishRun, stream
<1>3. /\ q \in WorkerState /\ q.pc = "publish" /\ q.stopping = wk[w].stopping
      /\ q.cur = wk[w].cur /\ q.out = o
  BY <1>1 DEF WorkerState, Live
<1> HIDE DEF q
<1>4. OnlyWorker(w) /\ wk'[w] = q
  BY <1>1, <1>2, <1>3, WorkerUpdate
<1>5. WorkerInv(w)'
  BY <1>1, <1>2, <1>3, <1>4 DEF WorkerInv, Busy
<1> QED BY <1>2, <1>3, <1>4, <1>5, LoopMoves DEF Busy

\* A delivery moves one entry into the PEL of w.
LEMMA DeliverStream ==
    ASSUME PipelineInv, NEW w \in Workers, NEW i \in DOMAIN log, log' = Deliver(log, i, w),
           group' = group, published' = published
    PROVE  /\ SameJobs /\ StreamInv' /\ log'[i].owner = w
           /\ \A j \in DOMAIN log : j # i => log'[j] = log[j]
<1>1. log \in Seq(Entries(Requests, Workers))
  BY DEF PipelineInv, TypeOK
<1>2. /\ Deliver(log, i, w) \in Seq(Entries(Requests, Workers))
      /\ DOMAIN Deliver(log, i, w) = DOMAIN log
      /\ \A j \in DOMAIN log : Deliver(log, i, w)[j].val = log[j].val
      /\ \A j \in DOMAIN log : j # i => Deliver(log, i, w)[j] = log[j]
      /\ Deliver(log, i, w)[i].st = "pending"
  BY <1>1, DeliverFacts
<1>3. Deliver(log, i, w)[i].owner = w
  BY <1>1, DeliverOwner
<1>4. SameJobs /\ log'[i].owner = w /\ log'[i].st = "pending"
  BY <1>2, <1>3 DEF SameJobs, Stream
<1>5. \A j \in DOMAIN log : j # i => log'[j] = log[j]
  BY <1>2
<1>6. log # <<>>
  BY <1>1
<1>7. StreamInv'
  BY <1>4, <1>5, <1>6
     DEF PipelineInv, StreamInv, GroupBeforeJobs, AckedWasPublished, Dispatched, SameJobs
<1> QED BY <1>4, <1>5, <1>7

\* Worker w starts the run of the message it was just given.
LEMMA DeliverKeeps ==
    ASSUME PipelineInv, NEW w \in Workers, NEW i \in DOMAIN log, log' = Deliver(log, i, w),
           NEW src \in {"claim", "read"}, NEW todo \in SUBSET Nat, StartRun(w, i, src, todo),
           wk[w].pc \in {"claim", "read"}, UNCHANGED <<api, pubsub, group, reg, published, faults>>
    PROVE  PipelineInv'
<1>1. TypeOK /\ WorkerInv(w) /\ wk[w] \in WorkerState /\ i \in Nat
  BY DEF PipelineInv, TypeOK
<1>2. /\ SameJobs /\ StreamInv' /\ log'[i].owner = w
      /\ \A j \in DOMAIN log : j # i => log'[j] = log[j]
  BY DeliverStream
<1> DEFINE q == [wk[w] EXCEPT !.pc = "run", !.cur = i, !.src = src, !.todo = todo]
<1>3. wk' = [wk EXCEPT ![w] = q] /\ reg' = reg
  BY DEF StartRun
<1>4. q \in WorkerState /\ q.pc = "run" /\ q.cur = i /\ q.stopping = wk[w].stopping
  BY <1>1 DEF WorkerState, Live
<1> HIDE DEF q
<1>5. OnlyWorker(w) /\ wk'[w] = q
  BY <1>1, <1>3, <1>4, WorkerUpdate
<1>6. WorkerInv(w)'
  BY <1>1, <1>2, <1>3, <1>4, <1>5 DEF WorkerInv, Busy, SameJobs
<1>7. OwnedInv'
  <2> SUFFICES ASSUME OnlyAStop', NEW j \in DOMAIN log', NEW v \in Workers, log'[j].owner = v
               PROVE  wk'[v].pc \in Busy /\ wk'[v].cur = j
    BY DEF OwnedInv
  <2>1. OnlyAStop
    BY <1>4, <1>5 DEF OnlyAStop, OnlyWorker
  <2>2. CASE j = i
    BY <1>2, <1>4, <1>5, <2>2 DEF Busy
  <2>3. CASE j # i
    <3>1. wk[v].pc \in Busy /\ wk[v].cur = j
      BY <1>2, <2>1, <2>3 DEF PipelineInv, OwnedInv, SameJobs
    <3>2. v # w
      BY <3>1 DEF Busy
    <3> QED BY <1>5, <3>1, <3>2 DEF OnlyWorker
  <2> QED BY <2>2, <2>3
<1>8. group' \in BOOLEAN /\ faults' \in 0..MaxFaults
  BY <1>1 DEF TypeOK
<1> QED BY <1>2, <1>5, <1>6, <1>7, <1>8, WorkerMoves

\* XREADGROUP delivers a new job.
LEMMA ReadJobKeeps ==
    ASSUME PipelineInv, NEW w \in Workers, ReadJob(w) PROVE PipelineInv'
<1>1. PICK i \in DOMAIN log : log' = Deliver(log, i, w) /\ StartRun(w, i, "read", {})
  BY DEF ReadJob
<1>2. wk[w].pc = "read" /\ UNCHANGED <<api, pubsub, group, reg, published, faults>>
  BY DEF ReadJob
<1>3. {} \in SUBSET Nat
  OBVIOUS
<1> QED BY <1>1, <1>2, <1>3, DeliverKeeps

\* XCLAIM delivers the message, or it is no longer to be had.
LEMMA ClaimNextKeeps ==
    ASSUME PipelineInv, NEW w \in Workers, ClaimNext(w) PROVE PipelineInv'
<1>1. wk[w] \in WorkerState
  BY DEF PipelineInv, TypeOK
<1>2. wk[w].pc = "claim" /\ UNCHANGED <<api, pubsub, group, reg, published, faults>>
  BY DEF ClaimNext
<1>3. PICK i \in wk[w].todo :
          \/ /\ i \in Expired(log) /\ log' = Deliver(log, i, w)
             /\ StartRun(w, i, "claim", wk[w].todo \ {i})
          \/ /\ wk' = [wk EXCEPT ![w] = [wk[w] EXCEPT !.todo = wk[w].todo \ {i},
                                                      !.pc = AfterClaims(wk[w].todo \ {i})]]
             /\ UNCHANGED log
  BY DEF ClaimNext
<1> DEFINE rest == wk[w].todo \ {i}
<1>4. rest \in SUBSET Nat
  BY <1>1 DEF WorkerState
<1> HIDE DEF rest
<1>5. CASE i \in Expired(log) /\ log' = Deliver(log, i, w) /\ StartRun(w, i, "claim", rest)
  <2>1. i \in DOMAIN log
    BY <1>5 DEF Expired
  <2> QED BY <1>2, <1>4, <1>5, <2>1, DeliverKeeps
<1>6. CASE /\ wk' = [wk EXCEPT ![w] = [wk[w] EXCEPT !.todo = rest, !.pc = AfterClaims(rest)]]
           /\ UNCHANGED log
  <2> DEFINE q == [wk[w] EXCEPT !.todo = rest, !.pc = AfterClaims(rest)]
  <2>1. AfterClaims(rest) \in {"read", "claim"}
    BY LoopFacts
  <2>2. q \in WorkerState /\ q.pc = AfterClaims(rest) /\ q.stopping = wk[w].stopping
    BY <1>1, <1>4, <2>1 DEF WorkerState, Live
  <2>3. wk' = [wk EXCEPT ![w] = q] /\ UNCHANGED <<api, pubsub, stream, reg, published, faults>>
    BY <1>2, <1>6 DEF stream
  <2> HIDE DEF q
  <2> QED BY <1>2, <2>1, <2>2, <2>3, CalmMoves
<1> QED BY <1>3, <1>5, <1>6 DEF rest

\* XACK: the outcome was published, and the entry leaves the PEL it was in.
LEMMA AckJobKeeps ==
    ASSUME PipelineInv, NEW w \in Workers, AckJob(w) PROVE PipelineInv'
<1> DEFINE c    == wk[w].cur
           next == IF wk[w].src = "claim" THEN AfterClaims(wk[w].todo) ELSE NextIteration(w)
           q    == [wk[w] EXCEPT !.cur = 0, !.out = "none", !.src = "read", !.pc = next]
<1>1. TypeOK /\ WorkerInv(w) /\ wk[w] \in WorkerState /\ log \in Seq(Entries(Requests, Workers))
  BY DEF PipelineInv, TypeOK
<1>2. /\ wk[w].pc = "ack" /\ log' = XAck(log, c) /\ wk' = [wk EXCEPT ![w] = q] /\ group' = group
      /\ UNCHANGED <<api, pubsub, published>> /\ reg' = reg /\ faults' = faults /\ published' = published
  BY DEF AckJob
<1>3. next \in {"read", "claim", "pending", "leave"} /\ (next = "leave" => wk[w].stopping)
  BY LoopFacts
<1> HIDE DEF next
<1>4. q \in WorkerState /\ q.pc = next /\ q.stopping = wk[w].stopping
  BY <1>1, <1>3 DEF WorkerState, Live
<1> HIDE DEF q
<1>5. OnlyWorker(w) /\ wk'[w] = q
  BY <1>1, <1>2, <1>4, WorkerUpdate
<1>6. c \in DOMAIN log /\ published[log[c].val] # {}
  BY <1>1, <1>2 DEF WorkerInv, Busy, Job
<1> HIDE DEF c
<1>7. /\ XAck(log, c) \in Seq(Entries(Requests, Workers))
      /\ DOMAIN XAck(log, c) = DOMAIN log
      /\ \A j \in DOMAIN log : XAck(log, c)[j].val = log[j].val
      /\ \A j \in DOMAIN log : j # c => XAck(log, c)[j] = log[j]
      /\ XAck(log, c)[c].st = IF log[c].st = "pending" THEN "acked" ELSE log[c].st
  BY <1>1, <1>6, XAckFacts
<1>8. /\ log[c].st = "pending" => XAck(log, c)[c].owner = Nobody
      /\ log[c].st # "pending" => XAck(log, c) = log
  BY <1>1, <1>6, XAckOwner
<1>9. log'[c].owner \notin Workers /\ log'[c].st # "pending"
  BY <1>2, <1>6, <1>7, <1>8, InvocationAssumption DEF PipelineInv, StreamInv
<1>10. SameJobs /\ \A j \in DOMAIN log : j # c => log'[j] = log[j]
  BY <1>2, <1>7 DEF SameJobs, Stream
<1>11. StreamInv'
  <2>1. GroupBeforeJobs'
    <3>1. log # <<>>
      BY <1>1, <1>6
    <3> QED BY <1>2, <3>1 DEF PipelineInv, StreamInv, GroupBeforeJobs
  <2>2. \A i \in DOMAIN log' : log'[i].owner \in Workers <=> log'[i].st = "pending"
    BY <1>9, <1>10 DEF PipelineInv, StreamInv, SameJobs
  <2>3. \A r \in Requests : published'[r] # {} => Dispatched(r)'
    BY <1>2, <1>10 DEF PipelineInv, StreamInv, SameJobs, Dispatched
  <2>4. AckedWasPublished'
    BY <1>2, <1>6, <1>10 DEF PipelineInv, StreamInv, SameJobs, AckedWasPublished
  <2> QED BY <2>1, <2>2, <2>3, <2>4 DEF StreamInv
<1>12. OwnedInv'
  <2> SUFFICES ASSUME OnlyAStop', NEW j \in DOMAIN log', NEW v \in Workers, log'[j].owner = v
               PROVE  wk'[v].pc \in Busy /\ wk'[v].cur = j
    BY DEF OwnedInv
  <2>1. OnlyAStop
    BY <1>2, <1>4, <1>5 DEF OnlyAStop, OnlyWorker
  <2>2. j # c
    BY <1>9
  <2>3. wk[v].pc \in Busy /\ wk[v].cur = j
    BY <1>10, <2>1, <2>2 DEF PipelineInv, OwnedInv, SameJobs
  <2>4. v # w
    BY <2>2, <2>3 DEF c
  <2> QED BY <1>5, <2>3, <2>4 DEF OnlyWorker
<1>13. WorkerInv(w)'
  BY <1>1, <1>2, <1>3, <1>4, <1>5 DEF WorkerInv, Busy
<1>14. group' \in BOOLEAN /\ faults' \in 0..MaxFaults
  BY <1>1, <1>2 DEF TypeOK
<1> QED BY <1>2, <1>5, <1>10, <1>11, <1>12, <1>13, <1>14, WorkerMoves

\* PUBLISH: the request that waits for this job is subscribed, so it gets the outcome
\* unless it already had one.
LEMMA PublishReplyKeeps ==
    ASSUME PipelineInv, NEW w \in Workers, PublishReply(w) PROVE PipelineInv'
<1> DEFINE j == Job(w)
           o == wk[w].out
<1>1. /\ TypeOK /\ WorkerInv(w) /\ wk[w] \in WorkerState /\ wk \in [Workers -> WorkerState]
      /\ log \in Stream
  BY DEF PipelineInv, TypeOK, Stream
<1>2. /\ wk[w].pc = "publish" /\ wk' = [wk EXCEPT ![w].pc = "ack"]
      /\ published' = [published EXCEPT ![j] = @ \cup {o}]
      /\ reply' = IF j \in subs /\ reply[j] = "none" THEN [reply EXCEPT ![j] = o] ELSE reply
      /\ fn' = fn /\ rows' = rows /\ req' = req /\ subs' = subs /\ group' = group /\ log' = log
      /\ reg' = reg /\ faults' = faults
  BY DEF PublishReply, api, stream
<1>3. wk[w].cur \in DOMAIN log /\ o \in Outcomes /\ j = log[wk[w].cur].val
  BY <1>1, <1>2 DEF WorkerInv, Busy, Job
<1>4. j \in Requests
  BY <1>1, <1>3, EntryFacts
<1> HIDE DEF j, o
<1>5. /\ OnlyWorker(w) /\ wk'[w].pc = "ack" /\ wk'[w].cur = wk[w].cur /\ wk'[w].out = o
      /\ wk'[w].stopping = wk[w].stopping
  <2> DEFINE q == [wk[w] EXCEPT !.pc = "ack"]
  <2>1. /\ q \in WorkerState /\ q.pc = "ack" /\ q.cur = wk[w].cur /\ q.out = wk[w].out
        /\ q.stopping = wk[w].stopping
    BY <1>1 DEF WorkerState, Live
  <2>2. wk' = [wk EXCEPT ![w] = q]
    BY <1>1, <1>2
  <2> HIDE DEF q
  <2> QED BY <1>1, <1>2, <2>1, <2>2, WorkerUpdate DEF o
<1>6. /\ published' \in [Requests -> SUBSET Outcomes] /\ published'[j] = published[j] \cup {o}
      /\ \A r \in Requests \ {j} : published'[r] = published[r]
  BY <1>1, <1>2, <1>3, <1>4 DEF TypeOK
<1>7. /\ reply' \in [Requests -> {"none"} \cup Outcomes]
      /\ \A r \in Requests \ {j} : reply'[r] = reply[r]
      /\ reply'[j] \in {reply[j], o} /\ (reply[j] # "none" => reply'[j] = reply[j])
      /\ j \in subs => reply'[j] # "none"
  BY <1>1, <1>2, <1>3, <1>4, OutcomeNames DEF TypeOK
<1>8. TypeOK'
  BY <1>1, <1>2, <1>5, <1>6, <1>7 DEF TypeOK, OnlyWorker
<1>9. StreamInv'
  <2>1. Dispatched(j)
    BY <1>3 DEF Dispatched
  <2>2. \A r \in Requests : published'[r] # {} => Dispatched(r)
    BY <1>6, <2>1 DEF PipelineInv, StreamInv
  <2>3. \A r \in Requests : published[r] # {} => published'[r] # {}
    BY <1>4, <1>6
  <2>4. \A i \in DOMAIN log : log[i].val \in Requests
    BY <1>1, EntryFacts
  <2>5. AckedWasPublished'
    BY <1>2, <2>3, <2>4 DEF PipelineInv, StreamInv, AckedWasPublished
  <2> QED BY <1>2, <2>2, <2>5 DEF PipelineInv, StreamInv, GroupBeforeJobs, Dispatched
<1>10. OwnedInv'
  <2>1. \A v \in Workers : /\ wk'[v].stopping = wk[v].stopping
                           /\ wk[v].pc \in Busy => wk'[v].pc \in Busy /\ wk'[v].cur = wk[v].cur
    BY <1>2, <1>5 DEF OnlyWorker, Busy
  <2> QED BY <1>2, <2>1, OwnedFrame
<1>11. ASSUME NEW v \in Workers PROVE WorkerInv(v)'
  <2>1. CASE v = w
    <3>1. published'[Job(w)'] # {}
      BY <1>2, <1>3, <1>5, <1>6 DEF Job
    <3> QED BY <1>1, <1>2, <1>3, <1>5, <2>1, <3>1 DEF WorkerInv, Busy
  <2>2. CASE v # w
    <3>1. wk'[v] = wk[v] /\ reg'[v] = reg[v]
      BY <2>2, <1>5 DEF OnlyWorker
    <3>2. \A i \in DOMAIN log : published[log[i].val] # {} => published'[log[i].val] # {}
      <4>1. \A i \in DOMAIN log : log[i].val \in Requests
        BY <1>1, EntryFacts
      <4> QED BY <4>1, <1>4, <1>6
    <3> QED BY <1>2, <3>1, <3>2, WorkerFrame DEF PipelineInv
  <2> QED BY <2>1, <2>2
<1>12. ASSUME NEW r \in Requests PROVE RequestInv(r)'
  <2>1. CASE r # j
    <3>1. Dispatched(r)' => Dispatched(r)
      BY <1>2 DEF Dispatched
    <3>2. published'[r] = published[r] /\ reply'[r] = reply[r]
      BY <2>1, <1>6, <1>7
    <3> QED BY <1>2, <3>1, <3>2, RequestFrame DEF PipelineInv
  <2>2. CASE r = j
    <3>1. RequestInv(r)
      BY DEF PipelineInv
    <3>2. /\ published'[r] = published[r] \cup {o} /\ reply'[r] \in {reply[r], o}
          /\ reply[r] # "none" => reply'[r] = reply[r]
          /\ r \in subs => reply'[r] # "none"
      BY <1>6, <1>7, <2>2
    <3>3. WaitInv(r)'
      BY <1>2, <3>1, <3>2 DEF RequestInv, WaitInv, Dispatched
    <3>4. OutcomeInv(r)'
      BY <1>2, <3>1, <3>2 DEF RequestInv, OutcomeInv
    <3>5. RecordInv(r)'
      BY <1>2, <3>1 DEF RequestInv, RecordInv
    <3> QED BY <3>3, <3>4, <3>5 DEF RequestInv
  <2> QED BY <2>1, <2>2
<1> QED BY <1>8, <1>9, <1>10, <1>11, <1>12 DEF PipelineInv

\* A failure of worker w, with a delivery whose reply is lost or without one: the
\* process is gone or the loop starts over.
LEMMA WorkerFaultMoves ==
    ASSUME PipelineInv, NEW w \in Workers, NEW q \in WorkerState, wk' = [wk EXCEPT ![w] = q],
           wk[w].pc \in Live, q.pc \in {"pending", "leave", "dead"},
           q.stopping => wk[w].stopping, q.pc = "leave" => q.stopping,
           log' = log \/ \E i \in DOMAIN log : log' = Deliver(log, i, w),
           UNCHANGED <<api, pubsub, group, reg, published>>,
           faults' = faults + 1, faults' \in 0..MaxFaults
    PROVE  PipelineInv'
<1>1. TypeOK /\ WorkerInv(w) /\ faults \in Nat
  BY InvocationAssumption DEF PipelineInv, TypeOK
<1>2. OnlyWorker(w) /\ wk'[w] = q
  BY <1>1, WorkerUpdate
<1>3. SameJobs /\ StreamInv'
  <2>1. CASE log' = log
    BY <1>1, <2>1 DEF SameJobs, TypeOK, Stream, PipelineInv, StreamInv, GroupBeforeJobs,
                      AckedWasPublished, Dispatched
  <2>2. CASE \E i \in DOMAIN log : log' = Deliver(log, i, w)
    BY <2>2, DeliverStream
  <2> QED BY <2>1, <2>2
<1>4. OwnedInv'
  <2>1. \A v \in Workers : wk'[v].stopping => wk[v].stopping
    BY <1>2 DEF OnlyWorker
  <2> QED BY <2>1, FaultSpoils
<1>5. WorkerInv(w)'
  BY <1>1, <1>2 DEF WorkerInv, Busy, Live
<1>6. group' \in BOOLEAN
  BY <1>1 DEF TypeOK
<1> QED BY <1>2, <1>3, <1>4, <1>5, <1>6, WorkerMoves

\* A worker's process dies, or a Redis command of its loop fails.
LEMMA WorkerFaultKeeps ==
    ASSUME PipelineInv, NEW w \in Workers, WorkerCrash(w) \/ WorkerRedisFails(w)
    PROVE  PipelineInv'
<1>1. TypeOK /\ wk[w] \in WorkerState
  BY DEF PipelineInv, TypeOK
<1>2. CASE WorkerCrash(w)
  <2> DEFINE q == [NewWorker EXCEPT !.pc = "dead"]
  <2>1. /\ wk[w].pc \in Live /\ wk' = [wk EXCEPT ![w] = q] /\ log' = log
        /\ UNCHANGED <<api, pubsub, group, reg, published>>
    BY <1>2 DEF WorkerCrash, stream
  <2>2. q \in WorkerState /\ q.pc = "dead" /\ q.stopping = FALSE
    BY DEF NewWorker, WorkerState
  <2>3. faults' = faults + 1 /\ faults' \in 0..MaxFaults
    BY <1>1, <1>2, FaultFacts DEF WorkerCrash
  <2> HIDE DEF q
  <2> QED BY <2>1, <2>2, <2>3, WorkerFaultMoves
<1>3. CASE WorkerRedisFails(w)
  <2> DEFINE q == [NewWorker EXCEPT !.pc = NextIteration(w), !.stopping = wk[w].stopping]
  <2>1. /\ wk' = [wk EXCEPT ![w] = q] /\ UNCHANGED <<api, pubsub, group, reg, published>>
        /\ wk[w].pc \in Live
    BY <1>3 DEF WorkerRedisFails, LoopAgain, Live
  <2>2. log' = log \/ \E i \in DOMAIN log : log' = Deliver(log, i, w)
    BY <1>3 DEF WorkerRedisFails, Expired
  <2>3. NextIteration(w) \in {"pending", "leave"} /\ (NextIteration(w) = "leave" => wk[w].stopping)
    BY LoopFacts
  <2>4. q \in WorkerState /\ q.pc = NextIteration(w) /\ q.stopping = wk[w].stopping
    BY <1>1, <2>3 DEF NewWorker, WorkerState, Live
  <2>5. faults' = faults + 1 /\ faults' \in 0..MaxFaults
    BY <1>1, <1>3, FaultFacts DEF WorkerRedisFails
  <2> HIDE DEF q
  <2> QED BY <2>1, <2>2, <2>3, <2>4, <2>5, WorkerFaultMoves
<1> QED BY <1>2, <1>3

\* onModuleDestroy begins.
LEMMA StopKeeps ==
    ASSUME PipelineInv, NEW w \in Workers, Stop(w) PROVE PipelineInv'
<1>1. TypeOK /\ WorkerInv(w) /\ wk[w] \in WorkerState /\ wk \in [Workers -> WorkerState]
  BY DEF PipelineInv, TypeOK
<1> DEFINE q == [wk[w] EXCEPT !.stopping = TRUE]
<1>2. /\ wk' = [wk EXCEPT ![w] = q] /\ UNCHANGED <<api, pubsub, published>>
      /\ log' = log /\ group' = group /\ reg' = reg /\ published' = published
  BY <1>1 DEF Stop, stream
<1>3. q \in WorkerState /\ q.pc = wk[w].pc /\ q.cur = wk[w].cur /\ q.out = wk[w].out /\ q.stopping
  BY <1>1 DEF WorkerState
<1> HIDE DEF q
<1>4. OnlyWorker(w) /\ wk'[w] = q
  BY <1>1, <1>2, <1>3, WorkerUpdate
<1>5. faults \in Nat /\ faults' = faults + 1 /\ faults' \in 0..MaxFaults
  BY <1>1, FaultFacts DEF Stop
<1>6. SameJobs /\ StreamInv' /\ group' \in BOOLEAN
  BY <1>1, <1>2 DEF SameJobs, TypeOK, Stream, PipelineInv, StreamInv, GroupBeforeJobs,
                    AckedWasPublished, Dispatched
<1>7. OwnedInv'
  <2>1. OnlyAStop' => OnlyAStop
    BY <1>5 DEF OnlyAStop
  <2>2. \A v \in Workers : wk'[v].pc = wk[v].pc /\ wk'[v].cur = wk[v].cur
    BY <1>3, <1>4 DEF OnlyWorker
  <2> QED BY <1>2, <2>1, <2>2 DEF PipelineInv, OwnedInv
<1>8. WorkerInv(w)'
  <2>1. Job(w)' = Job(w)
    BY <1>2, <1>3, <1>4 DEF Job
  <2> QED BY <1>1, <1>2, <1>3, <1>4, <1>5, <2>1 DEF WorkerInv
<1> QED BY <1>2, <1>4, <1>5, <1>6, <1>7, <1>8, WorkerMoves

\* Every step of a worker keeps the invariant.
LEMMA WorkerStepKeeps ==
    ASSUME PipelineInv, NEW w \in Workers, WorkerEvent(w) \/ WorkerFault(w)
    PROVE  PipelineInv'
  BY BootKeeps, RegisterKeeps, HeartbeatKeeps, ScanPendingKeeps, ListWorkersKeeps, ClaimNextKeeps,
     ReadJobKeeps, ReadNothingKeeps, FinishRunKeeps, PublishReplyKeeps, AckJobKeeps,
     WorkerFaultKeeps, StopKeeps
  DEF WorkerEvent, WorkerFault, LoopStep

-----------------------------------------------------------------------------
(* The other steps.                                                        *)

\* A step that leaves the workers and the stream alone, and fails if it counts.
LEMMA ApiMoves ==
    ASSUME PipelineInv, UNCHANGED <<stream, fleet>>, TypeOK',
           \/ faults' = faults
           \/ faults' = faults + 1,
           \A r \in Requests : RequestInv(r)'
    PROVE  PipelineInv'
<1>1. log' = log /\ group' = group /\ reg' = reg /\ wk' = wk /\ published' = published
  BY DEF stream, fleet
<1>2. StreamInv'
  BY <1>1 DEF PipelineInv, StreamInv, GroupBeforeJobs, AckedWasPublished, Dispatched
<1>3. OwnedInv'
  <2>1. CASE faults' = faults
    BY <1>1, <2>1, OwnedFrame
  <2>2. CASE faults' = faults + 1
    BY <1>1, <2>2, FaultSpoils
  <2> QED BY <2>1, <2>2
<1>4. ASSUME NEW w \in Workers PROVE WorkerInv(w)'
  <2>1. faults > 0 => faults' > 0
    BY InvocationAssumption DEF PipelineInv, TypeOK
  <2> QED BY <1>1, <2>1, WorkerFrame DEF PipelineInv
<1> QED BY <1>2, <1>3, <1>4 DEF PipelineInv

\* The function is created, built and deleted.
LEMMA FunctionKeeps ==
    ASSUME PipelineInv, CreateFunction \/ BuildFirstVersion \/ RemoveFunction
    PROVE  PipelineInv'
<1>1. /\ UNCHANGED <<stream, fleet>> /\ req' = req /\ subs' = subs /\ reply' = reply /\ group' = group
      /\ log' = log /\ published' = published /\ faults' = faults /\ reg' = reg /\ wk' = wk
  BY DEF CreateFunction, BuildFirstVersion, RemoveFunction, pubsub, stream, fleet
<1>2. /\ fn' \in {"unbuilt", "built", "deleted"} /\ rows' \in {rows, {}}
      /\ fn \in {"built", "deleted"} => fn' = "deleted"
      /\ fn' # "deleted" => rows' = rows
  BY DEF CreateFunction, BuildFirstVersion, RemoveFunction
<1>3. TypeOK'
  BY <1>1, <1>2 DEF PipelineInv, TypeOK
<1>4. ASSUME NEW r \in Requests PROVE RequestInv(r)'
  <2>1. RequestInv(r)
    BY DEF PipelineInv
  <2>2. WaitInv(r)' /\ OutcomeInv(r)'
    BY <1>1, <2>1 DEF RequestInv, WaitInv, OutcomeInv, Dispatched
  <2>3. RecordInv(r)'
    BY <1>1, <1>2, <2>1 DEF RequestInv, RecordInv
  <2> QED BY <2>2, <2>3 DEF RequestInv
<1> QED BY <1>1, <1>3, <1>4, ApiMoves

\* An API process dies: its requests are gone, and the row one was inserting may be there.
LEMMA ApiCrashKeeps ==
    ASSUME PipelineInv, NEW a \in Apis, ApiCrash(a) PROVE PipelineInv'
<1> DEFINE hit == {r \in Requests : ApiOf[r] = a /\ InProgress(r)}
           gone == [NewRequest EXCEPT !.pc = "gone"]
<1>1. TypeOK
  BY DEF PipelineInv
<1>2. faults' = faults + 1 /\ faults' \in 0..MaxFaults /\ faults' # 0
  BY <1>1, FaultFacts DEF ApiCrash
<1>3. /\ fn' = fn /\ group' = group /\ log' = log /\ reg' = reg /\ wk' = wk
      /\ published' = published /\ UNCHANGED <<stream, fleet>>
  BY DEF ApiCrash, stream, fleet
<1>4. /\ req' = [r \in Requests |-> IF r \in hit THEN gone ELSE req[r]]
      /\ subs' = subs \ hit
      /\ reply' = [r \in Requests |-> IF r \in hit THEN "none" ELSE reply[r]]
  BY DEF ApiCrash
<1>5. PICK S \in SUBSET {r \in hit : req[r].pc = "record"} : Insert(S)
  BY DEF ApiCrash
<1>6. /\ gone \in RequestState /\ gone.pc = "gone" /\ gone.promise = "none" /\ gone.out = "none"
      /\ gone.ans = "none"
  BY DEF NewRequest, RequestState, RequestPc
<1> HIDE DEF gone
<1>7. \A r \in S : r \in hit /\ r \in Requests /\ req[r].out \in Outcomes \cup {"NO_WORKER"}
  <2>1. ASSUME NEW r \in S PROVE req[r].out \in Outcomes \cup {"NO_WORKER"}
    <3>1. r \in Requests /\ req[r].pc = "record"
      BY <1>5
    <3>2. req[r] \in RequestState /\ RequestInv(r)
      BY <1>1, <3>1 DEF TypeOK, PipelineInv
    <3> QED BY <3>1, <3>2 DEF RequestInv, OutcomeInv, RequestState
  <2> QED BY <1>5, <2>1
<1>8. \A r \in S : Row(r) \in RowTypes /\ Row(r).req = r
  BY <1>1, <1>7, RowFacts
<1>9. \A x \in rows' : x \in rows \/ (x \in RowTypes /\ x.req \in S)
  BY <1>5, <1>8 DEF Insert
<1>10. rows \subseteq rows'
  BY <1>5 DEF Insert
<1> HIDE DEF hit
<1>11. TypeOK'
  <2>1. rows' \subseteq RowTypes
    BY <1>1, <1>9 DEF TypeOK, RowTypes
  <2>2. req' \in [Requests -> RequestState] /\ reply' \in [Requests -> {"none"} \cup Outcomes]
    BY <1>1, <1>4, <1>6 DEF TypeOK
  <2> QED BY <1>1, <1>2, <1>3, <1>4, <2>1, <2>2 DEF TypeOK, RowTypes
<1>12. ASSUME NEW r \in Requests PROVE RequestInv(r)'
  <2>1. RequestInv(r)
    BY DEF PipelineInv
  <2>2. CASE r \in hit
    <3>1. req'[r] = gone /\ reply'[r] = "none"
      BY <1>4, <2>2
    <3>2. WaitInv(r)' /\ OutcomeInv(r)'
      BY <1>6, <3>1, OutcomeNames DEF WaitInv, OutcomeInv
    <3>3. RecordInv(r)'
      BY <1>6, <3>1 DEF RecordInv, Answers
    <3> QED BY <3>2, <3>3 DEF RequestInv
  <2>3. CASE r \notin hit
    <3>1. req'[r] = req[r] /\ reply'[r] = reply[r] /\ (r \in subs' <=> r \in subs)
      BY <1>4, <2>3
    <3>2. \A x : x.req = r => (x \in rows' <=> x \in rows)
      BY <1>7, <1>9, <1>10, <2>3
    <3>3. Dispatched(r)' => Dispatched(r)
      BY <1>3 DEF Dispatched
    <3> QED BY <1>2, <1>3, <2>1, <3>1, <3>2, <3>3, RequestFrame
  <2> QED BY <2>2, <2>3
<1> QED BY <1>2, <1>3, <1>11, <1>12, ApiMoves

\* A PEL entry grows idle where it is.
LEMMA IdleOutKeeps ==
    ASSUME PipelineInv, NEW i \in DOMAIN log, IdleOut(i) PROVE PipelineInv'
<1>1. TypeOK /\ log \in Seq(Entries(Requests, Workers))
  BY DEF PipelineInv, TypeOK
<1>2. /\ log' = Expire(log, i) /\ UNCHANGED <<api, pubsub>> /\ group' = group /\ reg' = reg
      /\ wk' = wk /\ published' = published /\ faults' = faults
  BY DEF IdleOut, fleet
<1>3. /\ Expire(log, i) \in Seq(Entries(Requests, Workers))
      /\ DOMAIN Expire(log, i) = DOMAIN log
      /\ \A j \in DOMAIN log : /\ Expire(log, i)[j].val = log[j].val
                               /\ Expire(log, i)[j].st = log[j].st
  BY <1>1, ExpireFacts
<1>4. \A j \in DOMAIN log : Expire(log, i)[j].owner = log[j].owner
  BY <1>1, ExpireOwner
<1>5. /\ log' \in Stream /\ DOMAIN log' = DOMAIN log
      /\ \A j \in DOMAIN log : /\ log'[j].val = log[j].val /\ log'[j].st = log[j].st
                               /\ log'[j].owner = log[j].owner
  BY <1>2, <1>3, <1>4 DEF Stream
<1>6. StreamInv'
  <2>1. GroupBeforeJobs'
    <3>1. log # <<>>
      BY <1>1
    <3> QED BY <1>2, <3>1 DEF PipelineInv, StreamInv, GroupBeforeJobs
  <2> QED BY <1>2, <1>5, <2>1 DEF PipelineInv, StreamInv, AckedWasPublished, Dispatched
<1>7. OwnedInv'
  BY <1>2, <1>5, OwnedFrame
<1>8. TypeOK'
  BY <1>1, <1>2, <1>5 DEF TypeOK, api, pubsub, Stream
<1>9. ASSUME NEW w \in Workers PROVE WorkerInv(w)'
  BY <1>2, <1>5, WorkerFrame DEF PipelineInv
<1>10. ASSUME NEW r \in Requests PROVE RequestInv(r)'
  <2>1. Dispatched(r)' => Dispatched(r)
    BY <1>5 DEF Dispatched
  <2>2. /\ req' = req /\ reply' = reply /\ subs' = subs /\ fn' = fn /\ rows' = rows
    BY <1>2 DEF api, pubsub
  <2> QED BY <1>2, <2>1, <2>2, RequestFrame DEF PipelineInv
<1> QED BY <1>6, <1>7, <1>8, <1>9, <1>10 DEF PipelineInv

\* The invariant holds before any process has started.
LEMMA PipelineInit == Init => PipelineInv
<1> SUFFICES ASSUME Init PROVE PipelineInv
  OBVIOUS
<1>1. /\ NewRequest \in RequestState /\ NewRequest.pc = "start" /\ NewRequest.promise = "none"
      /\ NewRequest.out = "none" /\ NewRequest.ans = "none"
  BY DEF NewRequest, RequestState, RequestPc
<1>2. /\ NewWorker \in WorkerState /\ NewWorker.pc = "off" /\ NewWorker.stopping = FALSE
  BY DEF NewWorker, WorkerState
<1>3. NoHeartbeat \in Heartbeats /\ NoHeartbeat.st = "absent"
  BY DEF NoHeartbeat, Heartbeats
<1>4. log = <<>> /\ DOMAIN log = {} /\ log \in Seq(Entries(Requests, Workers))
  BY DEF Init
<1>5. TypeOK
  <2>1. fn \in {"absent", "unbuilt", "built", "deleted"} /\ faults \in 0..MaxFaults
    BY InvocationAssumption DEF Init
  <2>2. group \in BOOLEAN /\ rows \subseteq RowTypes /\ subs \subseteq Requests
    BY DEF Init
  <2>3. /\ req \in [Requests -> RequestState] /\ reply \in [Requests -> {"none"} \cup Outcomes]
        /\ published \in [Requests -> SUBSET Outcomes]
    BY <1>1 DEF Init
  <2>4. reg \in [Workers -> Heartbeats] /\ wk \in [Workers -> WorkerState]
    BY <1>2, <1>3 DEF Init
  <2> QED BY <1>4, <2>1, <2>2, <2>3, <2>4 DEF TypeOK, RowTypes
<1>6. StreamInv /\ OwnedInv
  BY <1>4 DEF Init, StreamInv, OwnedInv, GroupBeforeJobs, AckedWasPublished
<1>7. \A w \in Workers : WorkerInv(w)
  BY <1>2, <1>3 DEF Init, WorkerInv, Busy
<1>8. \A r \in Requests : RequestInv(r)
  BY <1>1, <1>4, OutcomeNames
     DEF Init, RequestInv, WaitInv, OutcomeInv, RecordInv, Dispatched, Answers
<1> QED BY <1>5, <1>6, <1>7, <1>8 DEF PipelineInv

\* Every step keeps the invariant.
LEMMA PipelineNext == PipelineInv /\ [Next]_vars => PipelineInv'
<1> SUFFICES ASSUME PipelineInv, [Next]_vars PROVE PipelineInv'
  OBVIOUS
<1>1. CASE Next
  BY <1>1, FunctionKeeps, RequestStepKeeps, WorkerStepKeeps, ApiCrashKeeps, IdleOutKeeps DEF Next
<1>2. CASE UNCHANGED vars
  <2>1. /\ UNCHANGED <<stream, fleet>> /\ UNCHANGED <<api, pubsub>> /\ faults' = faults /\ log' = log
        /\ req' = req /\ reply' = reply /\ subs' = subs /\ fn' = fn /\ rows' = rows
        /\ group' = group /\ published' = published /\ reg' = reg /\ wk' = wk
    BY <1>2 DEF vars, api, pubsub, stream, fleet
  <2>2. TypeOK'
    BY <2>1 DEF PipelineInv, TypeOK
  <2>3. \A r \in Requests : RequestInv(r)'
    BY <2>1, RequestFrame DEF PipelineInv, Dispatched
  <2> QED BY <2>1, <2>2, <2>3, ApiMoves
<1> QED BY <1>1, <1>2

-----------------------------------------------------------------------------
(* The theorems.                                                           *)

\* The inductive invariant of the invoke path.
THEOREM PipelineInvariant == Spec => []PipelineInv
  BY PipelineInit, PipelineNext, PTL DEF Spec

\* Every variable keeps its type, whatever fails and however often.
THEOREM PipelineTypeCorrect == Spec => []TypeOK
<1>1. PipelineInv => TypeOK
  BY DEF PipelineInv
<1> QED BY <1>1, PipelineInvariant, PTL

\* No job is ever put into invocations:pending before a worker created the consumer
\* group at '$', which would skip it.
THEOREM PipelineGroupBeforeJobs == Spec => []GroupBeforeJobs
<1>1. PipelineInv => GroupBeforeJobs
  BY DEF PipelineInv, StreamInv
<1> QED BY <1>1, PipelineInvariant, PTL

\* A request that waits in dispatch misses no reply: it subscribes before its XADD.
THEOREM PipelineReplyReachesWaiter == Spec => []ReplyReachesWaiter
<1>1. PipelineInv => ReplyReachesWaiter
  BY DEF PipelineInv, RequestInv, WaitInv, ReplyReachesWaiter
<1> QED BY <1>1, PipelineInvariant, PTL

\* The outcome a caller is given is one that a worker published for its own request,
\* under any redelivery, crash or lost reply.
THEOREM PipelineAnswerWasPublished == Spec => []AnswerWasPublished
<1>1. PipelineInv => AnswerWasPublished
  BY DEF PipelineInv, RequestInv, OutcomeInv, AnswerWasPublished
<1> QED BY <1>1, PipelineInvariant, PTL

\* A job is acknowledged only after an outcome of it was published.
THEOREM PipelineAckedWasPublished == Spec => []AckedWasPublished
<1>1. PipelineInv => AckedWasPublished
  BY DEF PipelineInv, StreamInv
<1> QED BY <1>1, PipelineInvariant, PTL

\* The row of an answered request says what its caller was told, and it is there while
\* the function exists and nothing has failed.
THEOREM PipelineAnsweredIsRecorded == Spec => []AnsweredIsRecorded
<1>1. ASSUME PipelineInv PROVE AnsweredIsRecorded
  <2> SUFFICES ASSUME NEW r \in Requests, req[r].ans \in DOMAIN Told
               PROVE  /\ \A x \in rows : x.req = r => x.status = Told[req[r].ans]
                      /\ fn = "built" /\ faults = 0 => \E x \in rows : x.req = r
    BY DEF AnsweredIsRecorded
  <2>1. req[r].ans \in Answers
    BY DEF Told, Answers
  <2>2. RecordInv(r)
    BY <1>1 DEF PipelineInv, RequestInv
  <2>3. req[r].pc = "done"
    BY <2>1, <2>2 DEF RecordInv, Answers
  <2> QED BY <2>1, <2>2, <2>3 DEF RecordInv
<1> QED BY <1>1, PipelineInvariant, PTL

\* A worker that was stopped is not in the registry, and if nothing else failed it has
\* left no message in its PEL.
THEOREM PipelineStoppedLeavesNothing == Spec => []StoppedLeavesNothing
<1>1. ASSUME PipelineInv PROVE StoppedLeavesNothing
  <2> SUFFICES ASSUME NEW w \in Workers, wk[w].pc = "stopped"
               PROVE  /\ reg[w].st = "absent"
                      /\ faults = 1 => \A i \in DOMAIN log : log[i].owner # w
    BY DEF StoppedLeavesNothing
  <2>1. WorkerInv(w)
    BY <1>1 DEF PipelineInv
  <2>2. wk[w].stopping /\ wk[w].pc \notin Busy
    BY <2>1 DEF WorkerInv, Busy
  <2>3. faults = 1 => OnlyAStop
    BY <2>2 DEF OnlyAStop
  <2> QED BY <1>1, <2>1, <2>2, <2>3 DEF PipelineInv, OwnedInv, WorkerInv
<1> QED BY <1>1, PipelineInvariant, PTL

-----------------------------------------------------------------------------
(***************************************************************************)
(* Whose messages a worker takes.  The steps of the platform are first     *)
(* reduced to what they do to the PELs, the heartbeats and the lists of    *)
(* the workers; two invariants are then shown to be kept by every such     *)
(* step, for any batch, number of requests, workers, deaths, stops and     *)
(* Redis failures.                                                         *)
(***************************************************************************)
\* Worker w is past its first heartbeat and has not been told to stop.
Serving(w) == wk[w].pc \in Live \ {"hello"} /\ ~wk[w].stopping

\* A serving worker has a fresh heartbeat; one before its first heartbeat owns nothing.
HealthInv(w) ==
    /\ Serving(w) => reg[w].st = "fresh"
    /\ wk[w].pc \in {"off", "hello"} =>
         ~wk[w].stopping /\ \A i \in DOMAIN log : log[i].owner # w

\* The heartbeat and the life of w in a step: a serving worker's heartbeat stays fresh,
\* and nobody that leaves comes back.
Beats(w) ==
    /\ Leaving(w) => Leaving(w)'
    /\ wk'[w].pc \in {"off", "hello"} =>
         wk[w].pc \in {"off", "hello"} /\ wk'[w].stopping = wk[w].stopping
    /\ Serving(w)' => reg'[w].st = "fresh" \/ (Serving(w) /\ reg'[w].st = reg[w].st)

\* A step of the others only.
Same(v) == wk'[v] = wk[v] /\ reg'[v] = reg[v]

\* The lists of w do not grow in a step.
FewerListed(w) == wk'[w].seen \subseteq wk[w].seen /\ wk'[w].todo \subseteq wk[w].todo

\* In a step w begins no job.
Continues(w) ==
    wk'[w].pc \in Busy =>
        /\ wk[w].pc \in Busy /\ wk'[w].cur = wk[w].cur /\ wk'[w].src = wk[w].src
        /\ ~wk'[w].stopping => ~wk[w].stopping

\* In a step no PEL entry is made, moved or grows idle; one may be acknowledged.
Quiet ==
    /\ DOMAIN log \subseteq DOMAIN log'
    /\ \A i \in DOMAIN log :
         \/ log'[i] = log[i]
         \/ /\ log[i].st = "pending" /\ log'[i].st = "acked" /\ log'[i].owner = Nobody
            /\ \E w \in Workers : wk[w].pc = "ack" /\ wk[w].cur = i /\ wk'[w].pc \notin Busy
    /\ \A i \in DOMAIN log' : i \notin DOMAIN log => log'[i].st = "new" /\ log'[i].owner = Nobody

\* The entry i is delivered to w: a new one, or an idle one on its list.
Takes(w, i) ==
    /\ FewerListed(w) /\ wk[w].pc \in Live \ {"hello"}
    /\ wk'[w].pc \in Busy => wk'[w].cur = i
    /\ i \in DOMAIN log /\ DOMAIN log' = DOMAIN log
    /\ log'[i].st = "pending" /\ log'[i].owner = w /\ ~log'[i].idle
    /\ \A j \in DOMAIN log : j # i => log'[j] = log[j]
    /\ \/ log[i].st = "new"
       \/ i \in wk[w].todo \cap Expired(log) /\ (wk'[w].pc \in Busy => wk'[w].src = "claim")

\* XPENDING, and what listWorkers makes of its answer.
Scans(w) ==
    /\ log' = log /\ wk'[w].pc \notin Busy /\ wk'[w].todo = wk[w].todo
    /\ wk'[w].seen = {<<i, log[i].owner>> : i \in OldestExpired}

Lists(w) ==
    /\ log' = log /\ wk'[w].pc \notin Busy /\ wk'[w].seen = {}
    /\ wk'[w].todo = {e[1] : e \in {s \in wk[w].seen : Reclaimable(w, s[2])}}

\* What a step of worker w comes to.
WorkerMove(w) ==
    /\ \A v \in Workers \ {w} : Same(v)
    /\ Beats(w)
    /\ \/ Quiet /\ FewerListed(w) /\ Continues(w)
       \/ Scans(w) \/ Lists(w)
       \/ \E i \in DOMAIN log : Takes(w, i)

\* A step takes an entry only from a worker that leaves.
Spared ==
    \A i \in DOMAIN log, w \in Workers :
        log[i].owner = w /\ log'[i].owner \notin {w, Nobody} => Leaving(w)

-----------------------------------------------------------------------------
(* Every step is one of these.                                             *)

\* A step that leaves the stream alone is quiet.
LEMMA SameLog == ASSUME log' = log PROVE Quiet
  BY DEF Quiet

\* So are the steps of requests, which at most add an entry.
LEMMA XaddQuiet ==
    ASSUME PipelineInv, NEW r \in Requests, log' = XAdd(log, r) PROVE Quiet
<1>1. log \in Stream
  BY DEF PipelineInv, TypeOK, Stream
<1> QED BY <1>1, XaddFacts DEF Quiet

\* A worker starts, registers, sends a heartbeat, grows stale, is told to stop, leaves
\* or dies.
LEMMA RegistryMove ==
    ASSUME ~LateHeartbeats, PipelineInv, NEW w \in Workers,
           \/ Boot(w) \/ Hello(w) \/ Heartbeat(w) \/ HeartbeatAges(w) \/ Stop(w)
           \/ Deregister(w) \/ WorkerCrash(w)
    PROVE  WorkerMove(w)
<1>1. /\ wk \in [Workers -> WorkerState] /\ reg \in [Workers -> Heartbeats]
      /\ wk[w] \in WorkerState /\ reg[w] \in Heartbeats /\ WorkerInv(w)
  BY DEF PipelineInv, TypeOK
<1>2. Quiet
  <2>1. CASE Boot(w) /\ ~group
    <3>1. log = <<>> /\ log' = XGroupCreate(log)
      BY <2>1 DEF Boot, PipelineInv, StreamInv, GroupBeforeJobs
    <3>2. DOMAIN log' = DOMAIN log
      BY <3>1 DEF XGroupCreate
    <3> QED BY <3>1, <3>2 DEF Quiet
  <2>2. CASE log' = log
    BY <2>2, SameLog
  <2> QED BY <2>1, <2>2 DEF Boot, Hello, Heartbeat, HeartbeatAges, Stop, Deregister, WorkerCrash, stream
<1>3. \A v \in Workers \ {w} : Same(v)
  BY <1>1 DEF Same, Boot, Hello, Heartbeat, HeartbeatAges, Stop, Deregister, WorkerCrash
<1>4. CASE Boot(w) \/ Hello(w) \/ Deregister(w)
  <2>1. /\ wk'[w].seen = wk[w].seen /\ wk'[w].todo = wk[w].todo /\ wk'[w].stopping = wk[w].stopping
        /\ \/ wk[w].pc = "off" /\ wk'[w].pc = "hello"
           \/ wk[w].pc = "hello" /\ wk'[w].pc = "pending" /\ reg'[w].st = "fresh"
           \/ wk[w].pc = "leave" /\ wk'[w].pc = "stopped"
    BY <1>1, <1>4 DEF Boot, Hello, Deregister, WorkerState
  <2>2. Beats(w) /\ FewerListed(w) /\ Continues(w)
    BY <2>1 DEF Beats, FewerListed, Continues, Leaving, Serving, Live, Busy
  <2> QED BY <1>2, <1>3, <2>2 DEF WorkerMove
<1>5. CASE Heartbeat(w) \/ HeartbeatAges(w)
  <2>1. wk' = wk
    BY <1>5 DEF Heartbeat, HeartbeatAges
  <2>2. Serving(w) => reg'[w].st = "fresh"
    BY <1>1, <1>5 DEF Heartbeat, HeartbeatAges, HeartbeatOn, Serving
  <2>3. Beats(w) /\ FewerListed(w) /\ Continues(w)
    BY <2>1, <2>2 DEF Beats, FewerListed, Continues, Leaving, Serving
  <2> QED BY <1>2, <1>3, <2>3 DEF WorkerMove
<1>6. CASE Stop(w)
  <2>1. /\ wk'[w].seen = wk[w].seen /\ wk'[w].todo = wk[w].todo /\ wk'[w].stopping
        /\ wk'[w].pc = wk[w].pc /\ wk'[w].cur = wk[w].cur /\ wk'[w].src = wk[w].src
        /\ wk[w].pc \in Live \ {"hello"}
    BY <1>1, <1>6 DEF Stop, HeartbeatOn, WorkerState
  <2>2. Beats(w) /\ FewerListed(w) /\ Continues(w)
    BY <2>1 DEF Beats, FewerListed, Continues, Leaving, Serving, Live
  <2> QED BY <1>2, <1>3, <2>2 DEF WorkerMove
<1>7. CASE WorkerCrash(w)
  <2>1. wk'[w] = [NewWorker EXCEPT !.pc = "dead"]
    BY <1>1, <1>7 DEF WorkerCrash
  <2>2. wk'[w].pc = "dead" /\ wk'[w].seen = {} /\ wk'[w].todo = {}
    BY <2>1 DEF NewWorker
  <2>3. Beats(w) /\ FewerListed(w) /\ Continues(w)
    BY <2>2 DEF Beats, FewerListed, Continues, Leaving, Serving, Live, Busy
  <2> QED BY <1>2, <1>3, <2>3 DEF WorkerMove
<1> QED BY <1>4, <1>5, <1>6, <1>7

\* A step of the loop of w: its new state, and what that means for its heartbeat.
LEMMA LoopBeats ==
    ASSUME PipelineInv, NEW w \in Workers, NEW q, wk' = [wk EXCEPT ![w] = q], reg' = reg,
           wk[w].pc \in Live \ {"hello"}, q.pc \in Live \ {"hello"}, q.stopping = wk[w].stopping
    PROVE  wk'[w] = q /\ Beats(w) /\ \A v \in Workers \ {w} : Same(v)
<1>1. wk \in [Workers -> WorkerState]
  BY DEF PipelineInv, TypeOK
<1>2. wk'[w] = q /\ \A v \in Workers \ {w} : Same(v)
  BY <1>1 DEF Same
<1>3. Beats(w)
  BY <1>2 DEF Beats, Leaving, Serving, Live
<1> QED BY <1>2, <1>3

\* XPENDING and HGETALL.
LEMMA ListMove ==
    ASSUME PipelineInv, NEW w \in Workers, ScanPending(w) \/ ListWorkers(w) PROVE WorkerMove(w)
<1>1. wk[w] \in WorkerState
  BY DEF PipelineInv, TypeOK
<1>2. CASE ScanPending(w)
  <2> DEFINE seen == {<<i, log[i].owner>> : i \in OldestExpired}
             pc   == IF OldestExpired = {} THEN "read" ELSE "list"
             q    == [wk[w] EXCEPT !.seen = seen, !.pc = pc]
  <2>1. wk[w].pc = "pending" /\ wk' = [wk EXCEPT ![w] = q] /\ reg' = reg /\ log' = log
    BY <1>2 DEF ScanPending, stream
  <2>2. pc \in {"read", "list"}
    OBVIOUS
  <2> HIDE DEF seen, pc
  <2>3. q.pc = pc /\ q.seen = seen /\ q.todo = wk[w].todo /\ q.stopping = wk[w].stopping
    BY <1>1 DEF WorkerState
  <2> HIDE DEF q
  <2>4. wk'[w] = q /\ Beats(w) /\ \A v \in Workers \ {w} : Same(v)
    BY <2>1, <2>2, <2>3, LoopBeats DEF Live
  <2>5. Scans(w)
    BY <2>1, <2>2, <2>3, <2>4 DEF Scans, Busy, seen
  <2> QED BY <2>4, <2>5 DEF WorkerMove
<1>3. CASE ListWorkers(w)
  <2> DEFINE todo == {e[1] : e \in {s \in wk[w].seen : Reclaimable(w, s[2])}}
             q    == [wk[w] EXCEPT !.seen = {}, !.todo = todo, !.pc = AfterClaims(todo)]
  <2>1. wk[w].pc = "list" /\ wk' = [wk EXCEPT ![w] = q] /\ reg' = reg /\ log' = log
    BY <1>3 DEF ListWorkers, stream
  <2> HIDE DEF todo
  <2>2. AfterClaims(todo) \in {"read", "claim"}
    BY LoopFacts
  <2>3. q.pc = AfterClaims(todo) /\ q.seen = {} /\ q.todo = todo /\ q.stopping = wk[w].stopping
    BY <1>1 DEF WorkerState
  <2> HIDE DEF q
  <2>4. wk'[w] = q /\ Beats(w) /\ \A v \in Workers \ {w} : Same(v)
    BY <2>1, <2>2, <2>3, LoopBeats DEF Live
  <2>5. Lists(w)
    BY <2>1, <2>2, <2>3, <2>4 DEF Lists, Busy, todo
  <2> QED BY <2>4, <2>5 DEF WorkerMove
<1> QED BY <1>2, <1>3

\* The stream after a delivery to w, whose own state is then q.
LEMMA TakeMove ==
    ASSUME PipelineInv, NEW w \in Workers, NEW i \in DOMAIN log, log' = Deliver(log, i, w),
           NEW q, wk' = [wk EXCEPT ![w] = q], reg' = reg, wk[w].pc \in Live \ {"hello"},
           q.pc \in Live \ {"hello"}, q.stopping = wk[w].stopping,
           q.seen \subseteq wk[w].seen, q.todo \subseteq wk[w].todo, q.pc \in Busy => q.cur = i,
           \/ log[i].st = "new"
           \/ i \in wk[w].todo \cap Expired(log) /\ (q.pc \in Busy => q.src = "claim")
    PROVE  WorkerMove(w)
<1>1. log \in Seq(Entries(Requests, Workers))
  BY DEF PipelineInv, TypeOK
<1>2. /\ DOMAIN Deliver(log, i, w) = DOMAIN log /\ Deliver(log, i, w)[i].st = "pending"
      /\ \A j \in DOMAIN log : j # i => Deliver(log, i, w)[j] = log[j]
  BY <1>1, DeliverFacts
<1>3. Deliver(log, i, w)[i].owner = w /\ ~Deliver(log, i, w)[i].idle
  BY <1>1, DeliverOwner
<1>4. wk'[w] = q /\ Beats(w) /\ \A v \in Workers \ {w} : Same(v)
  BY LoopBeats
<1>5. Takes(w, i)
  BY <1>2, <1>3, <1>4 DEF Takes, FewerListed
<1> QED BY <1>4, <1>5 DEF WorkerMove

\* Worker w enters handleMessage with message i.
LEMMA StartMove ==
    ASSUME PipelineInv, NEW w \in Workers, NEW i \in DOMAIN log, NEW src, NEW todo,
           StartRun(w, i, src, todo), log' = Deliver(log, i, w), reg' = reg,
           todo \subseteq wk[w].todo, wk[w].pc \in {"claim", "read"},
           log[i].st = "new" \/ (i \in wk[w].todo \cap Expired(log) /\ src = "claim")
    PROVE  WorkerMove(w)
<1>1. wk[w] \in WorkerState
  BY DEF PipelineInv, TypeOK
<1> DEFINE q == [wk[w] EXCEPT !.pc = "run", !.cur = i, !.src = src, !.todo = todo]
<1>2. wk' = [wk EXCEPT ![w] = q]
  BY DEF StartRun
<1>3. /\ q.pc = "run" /\ q.cur = i /\ q.src = src /\ q.todo = todo /\ q.seen = wk[w].seen
      /\ q.stopping = wk[w].stopping
  BY <1>1 DEF WorkerState
<1> HIDE DEF q
<1> QED BY <1>2, <1>3, TakeMove DEF Live

\* XREADGROUP.
LEMMA ReadMove ==
    ASSUME PipelineInv, NEW w \in Workers, ReadJob(w) PROVE WorkerMove(w)
<1>1. PICK i \in DOMAIN log : /\ IsNextNew(log, i) /\ log' = Deliver(log, i, w)
                              /\ StartRun(w, i, "read", {})
  BY DEF ReadJob
<1>2. reg' = reg /\ wk[w].pc = "read" /\ log[i].st = "new"
  BY <1>1 DEF ReadJob, IsNextNew
<1> QED BY <1>1, <1>2, StartMove

\* XCLAIM, given or refused.
LEMMA ClaimMove ==
    ASSUME PipelineInv, NEW w \in Workers, ClaimNext(w) PROVE WorkerMove(w)
<1>1. wk[w] \in WorkerState
  BY DEF PipelineInv, TypeOK
<1>2. wk[w].pc = "claim" /\ reg' = reg
  BY DEF ClaimNext
<1>3. PICK i \in wk[w].todo :
          \/ /\ i \in Expired(log) /\ log' = Deliver(log, i, w)
             /\ StartRun(w, i, "claim", wk[w].todo \ {i})
          \/ /\ wk' = [wk EXCEPT ![w] = [wk[w] EXCEPT !.todo = wk[w].todo \ {i},
                                                      !.pc = AfterClaims(wk[w].todo \ {i})]]
             /\ UNCHANGED log
  BY Zenon DEF ClaimNext
<1> DEFINE rest == wk[w].todo \ {i}
<1>4. rest \subseteq wk[w].todo
  OBVIOUS
<1>5. CASE i \in Expired(log) /\ log' = Deliver(log, i, w) /\ StartRun(w, i, "claim", rest)
  <2>1. i \in DOMAIN log
    BY <1>5 DEF Expired
  <2> HIDE DEF rest
  <2> QED BY <1>2, <1>4, <1>5, <2>1, StartMove
<1>6. CASE /\ wk' = [wk EXCEPT ![w] = [wk[w] EXCEPT !.todo = rest, !.pc = AfterClaims(rest)]]
           /\ UNCHANGED log
  <2> DEFINE q == [wk[w] EXCEPT !.todo = rest, !.pc = AfterClaims(rest)]
  <2>1. wk' = [wk EXCEPT ![w] = q]
    BY <1>6
  <2> HIDE DEF rest
  <2>2. q.pc = AfterClaims(rest) /\ q.todo = rest /\ q.seen = wk[w].seen /\ q.stopping = wk[w].stopping
    BY <1>1 DEF WorkerState
  <2>3. AfterClaims(rest) \in {"read", "claim"}
    BY LoopFacts
  <2> HIDE DEF q
  <2>4. wk'[w] = q /\ Beats(w) /\ \A v \in Workers \ {w} : Same(v)
    BY <1>2, <2>1, <2>2, <2>3, LoopBeats DEF Live
  <2>5. Quiet /\ FewerListed(w) /\ Continues(w)
    BY <1>4, <1>6, <2>2, <2>3, <2>4, SameLog DEF FewerListed, Continues, Busy
  <2> QED BY <2>4, <2>5 DEF WorkerMove
<1> QED BY <1>3, <1>5, <1>6

\* XACK, and back to the loop.
LEMMA AckMove ==
    ASSUME PipelineInv, NEW w \in Workers, AckJob(w) PROVE WorkerMove(w)
<1>1. wk[w] \in WorkerState /\ log \in Seq(Entries(Requests, Workers))
  BY DEF PipelineInv, TypeOK
<1> DEFINE pc == IF wk[w].src = "claim" THEN AfterClaims(wk[w].todo) ELSE NextIteration(w)
           q  == [wk[w] EXCEPT !.cur = 0, !.out = "none", !.src = "read", !.pc = pc]
           c  == wk[w].cur
<1>2. /\ wk' = [wk EXCEPT ![w] = q] /\ wk[w].pc = "ack" /\ log' = XAck(log, c) /\ c \in DOMAIN log
      /\ reg' = reg
  BY DEF AckJob, PipelineInv, WorkerInv, Busy
<1>3. pc \in {"pending", "read", "claim", "leave"}
  BY LoopFacts
<1> HIDE DEF pc
<1>4. q.pc = pc /\ q.seen = wk[w].seen /\ q.todo = wk[w].todo /\ q.stopping = wk[w].stopping
  BY <1>1 DEF WorkerState
<1> HIDE DEF q
<1>5. wk'[w] = q /\ Beats(w) /\ \A v \in Workers \ {w} : Same(v)
  BY <1>2, <1>3, <1>4, LoopBeats DEF Live
<1>6. Quiet
  <2>1. wk[w].cur = c
    OBVIOUS
  <2> HIDE DEF c
  <2>2. /\ DOMAIN XAck(log, c) = DOMAIN log
        /\ \A j \in DOMAIN log : j # c => XAck(log, c)[j] = log[j]
        /\ XAck(log, c)[c].st = IF log[c].st = "pending" THEN "acked" ELSE log[c].st
    BY <1>1, <1>2, XAckFacts
  <2>3. /\ log[c].st = "pending" => XAck(log, c)[c].owner = Nobody
        /\ log[c].st # "pending" => XAck(log, c) = log
    BY <1>1, <1>2, XAckOwner
  <2>4. wk'[w].pc \notin Busy
    BY <1>3, <1>4, <1>5 DEF Busy
  <2> QED BY <1>2, <2>1, <2>2, <2>3, <2>4 DEF Quiet
<1>7. FewerListed(w) /\ Continues(w)
  BY <1>3, <1>4, <1>5 DEF FewerListed, Continues, Busy
<1> QED BY <1>5, <1>6, <1>7 DEF WorkerMove

\* Worker w goes on to pc; nothing else changes but, perhaps, the outcome it holds.
LEMMA AdvanceMove ==
    ASSUME PipelineInv, NEW w \in Workers, NEW q, wk' = [wk EXCEPT ![w] = q], reg' = reg, log' = log,
           wk[w].pc \in Live \ {"hello"}, q.pc \in Live \ {"hello"}, q.pc \in Busy => wk[w].pc \in Busy,
           q.seen = wk[w].seen, q.todo = wk[w].todo, q.cur = wk[w].cur, q.src = wk[w].src,
           q.stopping = wk[w].stopping
    PROVE  WorkerMove(w)
<1>1. wk'[w] = q /\ Beats(w) /\ \A v \in Workers \ {w} : Same(v)
  BY LoopBeats
<1>2. Quiet /\ FewerListed(w) /\ Continues(w)
  BY <1>1, SameLog DEF FewerListed, Continues
<1> QED BY <1>1, <1>2 DEF WorkerMove

\* The rest of the loop: an empty read, the run and PUBLISH.
LEMMA HandleMove ==
    ASSUME PipelineInv, NEW w \in Workers,
           ReadNothing(w) \/ PublishReply(w) \/ \E o \in Outcomes : FinishRun(w, o)
    PROVE  WorkerMove(w)
<1>1. wk[w] \in WorkerState /\ wk \in [Workers -> WorkerState]
  BY DEF PipelineInv, TypeOK
<1>2. reg' = reg /\ log' = log
  BY Zenon DEF ReadNothing, PublishReply, FinishRun, stream
<1>3. CASE ReadNothing(w)
  <2> DEFINE pc == NextIteration(w)
             q  == [wk[w] EXCEPT !.pc = pc]
  <2>1. wk' = [wk EXCEPT ![w] = q] /\ wk[w].pc = "read"
    BY <1>1, <1>3 DEF ReadNothing
  <2>2. pc \in {"pending", "leave"}
    BY LoopFacts
  <2> HIDE DEF pc
  <2>3. /\ q.pc = pc /\ q.seen = wk[w].seen /\ q.todo = wk[w].todo /\ q.cur = wk[w].cur
        /\ q.src = wk[w].src /\ q.stopping = wk[w].stopping
    BY <1>1 DEF WorkerState
  <2> HIDE DEF q
  <2> QED BY <1>2, <2>1, <2>2, <2>3, AdvanceMove DEF Live, Busy
<1>4. CASE PublishReply(w)
  <2> DEFINE q == [wk[w] EXCEPT !.pc = "ack"]
  <2>1. wk' = [wk EXCEPT ![w] = q] /\ wk[w].pc = "publish"
    BY <1>1, <1>4 DEF PublishReply
  <2>2. /\ q.pc = "ack" /\ q.seen = wk[w].seen /\ q.todo = wk[w].todo /\ q.cur = wk[w].cur
        /\ q.src = wk[w].src /\ q.stopping = wk[w].stopping
    BY <1>1 DEF WorkerState
  <2> HIDE DEF q
  <2> QED BY <1>2, <2>1, <2>2, AdvanceMove DEF Live, Busy
<1>5. ASSUME NEW o \in Outcomes, FinishRun(w, o) PROVE WorkerMove(w)
  <2> DEFINE q == [wk[w] EXCEPT !.pc = "publish", !.out = o]
  <2>1. wk' = [wk EXCEPT ![w] = q] /\ wk[w].pc = "run"
    BY <1>5, Zenon DEF FinishRun
  <2>2. /\ q.pc = "publish" /\ q.seen = wk[w].seen /\ q.todo = wk[w].todo /\ q.cur = wk[w].cur
        /\ q.src = wk[w].src /\ q.stopping = wk[w].stopping
    BY <1>1 DEF WorkerState
  <2> HIDE DEF q
  <2> QED BY <1>2, <2>1, <2>2, AdvanceMove DEF Live, Busy
<1> QED BY <1>3, <1>4, <1>5

\* A Redis command fails, and the loop starts over.
LEMMA LoopAgainMove ==
    ASSUME PipelineInv, NEW w \in Workers, WorkerRedisFails(w) PROVE WorkerMove(w)
<1> DEFINE q == [NewWorker EXCEPT !.pc = NextIteration(w), !.stopping = wk[w].stopping]
<1>1. wk' = [wk EXCEPT ![w] = q] /\ reg' = reg /\ wk[w].pc \in Live \ {"hello"}
  BY DEF WorkerRedisFails, LoopAgain, Live
<1>2. /\ q.pc \in {"pending", "leave"} /\ q.seen = {} /\ q.todo = {} /\ q.stopping = wk[w].stopping
  BY LoopFacts DEF NewWorker
<1> HIDE DEF q
<1>3. CASE log' = log
  <2>1. wk'[w] = q /\ Beats(w) /\ \A v \in Workers \ {w} : Same(v)
    BY <1>1, <1>2, LoopBeats DEF Live
  <2>2. Quiet /\ FewerListed(w) /\ Continues(w)
    BY <1>2, <1>3, <2>1, SameLog DEF FewerListed, Continues, Busy
  <2> QED BY <2>1, <2>2 DEF WorkerMove
<1>4. ASSUME NEW i \in DOMAIN log, log' = Deliver(log, i, w),
             log[i].st = "new" \/ i \in wk[w].todo \cap Expired(log)
      PROVE  WorkerMove(w)
  BY <1>1, <1>2, <1>4, TakeMove DEF Live, Busy
<1> QED BY <1>3, <1>4 DEF WorkerRedisFails, IsNextNew, Expired

\* Every step of a worker.
LEMMA EveryWorkerMove ==
    ASSUME ~LateHeartbeats, PipelineInv, NEW w \in Workers, WorkerEvent(w) \/ WorkerFault(w)
    PROVE  WorkerMove(w)
  BY RegistryMove, ListMove, ReadMove, ClaimMove, AckMove, HandleMove, LoopAgainMove
  DEF WorkerEvent, WorkerFault, LoopStep

\* Every step of the platform.
LEMMA EveryMove ==
    ASSUME ~LateHeartbeats, PipelineInv, [Next]_vars
    PROVE  \/ \E w \in Workers : WorkerMove(w)
           \/ Quiet /\ wk' = wk /\ reg' = reg
           \/ \E i \in DOMAIN log : IdleOut(i)
<1>1. ASSUME NEW r \in Requests, RequestEvent(r) \/ RequestFault(r)
      PROVE  Quiet /\ wk' = wk /\ reg' = reg
  <2>1. UNCHANGED fleet /\ (log' = log \/ log' = XAdd(log, r))
    BY <1>1 DEF RequestEvent, RequestFault, RequestStep, GetFunction, FindVersion, CheckCapacity,
                Subscribe, XaddJob, TimerFires, Message, Unsubscribe, RecordInvocation,
                RequestDbFails, RequestRedisFails, stream
  <2> QED BY <2>1, SameLog, XaddQuiet DEF fleet
<1>2. CASE \/ CreateFunction \/ BuildFirstVersion \/ RemoveFunction
           \/ (\E a \in Apis : ApiCrash(a)) \/ UNCHANGED vars
  <2>1. UNCHANGED fleet /\ log' = log
    BY <1>2 DEF CreateFunction, BuildFirstVersion, RemoveFunction, ApiCrash, vars, stream
  <2> QED BY <2>1, SameLog DEF fleet
<1> QED BY <1>1, <1>2, EveryWorkerMove DEF Next

-----------------------------------------------------------------------------
(* Workers take messages only from those that leave.                       *)

\* A delivery to worker w, as the others see it.
LEMMA TakenFrom ==
    ASSUME PipelineInv, NEW w \in Workers, NEW i \in DOMAIN log, Takes(w, i)
    PROVE  /\ \A v \in Workers \ {w}, j \in DOMAIN log' : log'[j].owner = v => log[j].owner = v
           /\ \A j \in Expired(log') : j \in Expired(log) /\ log'[j].owner = log[j].owner
           /\ log[i].st = "new" => log[i].owner \notin Workers
           /\ \A j \in DOMAIN log : log[j].st # "new" => log'[j].st # "new"
<1>1. log[i].st = "new" => log[i].owner \notin Workers
  BY DEF PipelineInv, StreamInv
<1> QED BY <1>1 DEF Takes, Expired

\* Heartbeats and unborn workers.
LEMMA HealthKept ==
    ASSUME PipelineInv, PipelineInv', \A v \in Workers : HealthInv(v),
           \/ \E w \in Workers : WorkerMove(w)
           \/ Quiet /\ wk' = wk /\ reg' = reg
           \/ \E i \in DOMAIN log : IdleOut(i)
    PROVE  \A v \in Workers : HealthInv(v)'
<1>1. ASSUME NEW v \in Workers, wk'[v] = wk[v], reg'[v] = reg[v],
             \A j \in DOMAIN log' : log'[j].owner = v => j \in DOMAIN log /\ log[j].owner = v
      PROVE  HealthInv(v)'
  BY <1>1 DEF HealthInv, Serving
<1>2. ASSUME NEW v \in Workers, Quiet, NEW j \in DOMAIN log', log'[j].owner = v
      PROVE  j \in DOMAIN log /\ log[j].owner = v
  BY <1>2, InvocationAssumption DEF Quiet
<1>3. ASSUME NEW w \in Workers, WorkerMove(w) PROVE \A v \in Workers : HealthInv(v)'
  <2>1. \A v \in Workers \ {w} : Same(v)
    BY <1>3 DEF WorkerMove
  <2>2. \A v \in Workers \ {w}, j \in DOMAIN log' :
            log'[j].owner = v => j \in DOMAIN log /\ log[j].owner = v
    <3>1. CASE Quiet
      BY <1>2, <3>1
    <3>2. CASE log' = log
      BY <3>2
    <3>3. ASSUME NEW i \in DOMAIN log, Takes(w, i)
          PROVE  \A v \in Workers \ {w}, j \in DOMAIN log' :
                    log'[j].owner = v => j \in DOMAIN log /\ log[j].owner = v
      BY <3>3 DEF Takes
    <3> QED BY <1>3, <3>1, <3>2, <3>3 DEF WorkerMove, Scans, Lists
  <2>3. \A v \in Workers \ {w} : HealthInv(v)'
    BY <1>1, <2>1, <2>2 DEF Same
  <2>4. HealthInv(w)'
    <3>1. Beats(w) /\ HealthInv(w)
      BY <1>3 DEF WorkerMove
    <3>2. wk[w].pc \in {"off", "hello"} =>
            \A j \in DOMAIN log' : log'[j].owner = w => j \in DOMAIN log /\ log[j].owner = w
      <4>1. CASE Quiet
        BY <1>2, <4>1
      <4>2. CASE log' = log
        BY <4>2
      <4>3. CASE \E i \in DOMAIN log : Takes(w, i)
        BY <4>3 DEF Takes, Live
      <4> QED BY <1>3, <4>1, <4>2, <4>3 DEF WorkerMove, Scans, Lists
    <3> QED BY <3>1, <3>2 DEF Beats, HealthInv
  <2> QED BY <2>3, <2>4
<1>4. ASSUME NEW i \in DOMAIN log, IdleOut(i) PROVE \A v \in Workers : HealthInv(v)'
  <2>1. log' = Expire(log, i) /\ wk' = wk /\ reg' = reg /\ log \in Seq(Entries(Requests, Workers))
    BY <1>4 DEF IdleOut, fleet, PipelineInv, TypeOK
  <2>2. DOMAIN Expire(log, i) = DOMAIN log
    BY <2>1, ExpireFacts
  <2>3. \A j \in DOMAIN log : Expire(log, i)[j].owner = log[j].owner
    BY <2>1, ExpireOwner
  <2> QED BY <1>1, <2>1, <2>2, <2>3
<1> QED BY <1>1, <1>2, <1>3, <1>4

\* What XPENDING and the registry told worker w is still true of the entries it can
\* still claim.
ScanInv(w) ==
    /\ \A s \in wk[w].seen : s[1] \in Expired(log) => log[s[1]].owner = s[2]
    /\ \A i \in wk[w].todo : i \in Expired(log) => Leaving(log[i].owner)

ClaimInv == \A w \in Workers : HealthInv(w) /\ ScanInv(w)

\* Live workers are heard of in time, and an entry that a worker lists does not grow
\* idle again, once another one has claimed it, before the lister has dealt with it.
OnTime == ~LateHeartbeats /\ ~SlowSteps /\ ~SlowRuns

\* Lists that do not grow stay true, if no entry on them grows idle.
LEMMA ScanFrame ==
    ASSUME PipelineInv, NEW v \in Workers, ScanInv(v), FewerListed(v),
           \A u \in Workers : Leaving(u) => Leaving(u)',
           \A j \in Expired(log') : j \in Listed(v) =>
               j \in Expired(log) /\ log'[j].owner = log[j].owner
    PROVE  ScanInv(v)'
<1>1. ASSUME NEW s \in wk'[v].seen, s[1] \in Expired(log') PROVE log'[s[1]].owner = s[2]
  <2>1. s \in wk[v].seen /\ s[1] \in Listed(v)
    BY <1>1 DEF FewerListed, Listed
  <2> QED BY <1>1, <2>1 DEF ScanInv
<1>2. ASSUME NEW j \in wk'[v].todo, j \in Expired(log')
      PROVE  wk'[log'[j].owner].pc \in {"dead", "stopped"} \/ wk'[log'[j].owner].stopping
  <2>1. j \in wk[v].todo /\ j \in Listed(v)
    BY <1>2 DEF FewerListed, Listed
  <2>2. j \in Expired(log) /\ log'[j].owner = log[j].owner /\ Leaving(log[j].owner)
    BY <1>2, <2>1 DEF ScanInv
  <2>3. log[j].owner \in Workers
    BY <2>2 DEF Expired, PipelineInv, StreamInv
  <2> QED BY <2>2, <2>3 DEF Leaving
<1> QED BY <1>1, <1>2 DEF ScanInv, Leaving, Expired

\* The listing of the registry: an entry's owner without a fresh heartbeat leaves.
LEMMA ListedLeave ==
    ASSUME PipelineInv, ClaimInv, NEW w \in Workers, NEW s \in wk[w].seen,
           Reclaimable(w, s[2]), s[1] \in Expired(log)
    PROVE  log[s[1]].owner \in Workers /\ Leaving(log[s[1]].owner)
<1> DEFINE i == s[1]
           u == log[i].owner
<1>1. ScanInv(w) /\ i \in Expired(log) /\ u = s[2]
  BY DEF ClaimInv, ScanInv
<1>2. i \in DOMAIN log /\ u \in Workers /\ reg[u].st # "fresh"
  BY <1>1 DEF Expired, PipelineInv, StreamInv, Reclaimable
<1>3. HealthInv(u) /\ wk[u] \in WorkerState
  BY <1>2 DEF ClaimInv, PipelineInv, TypeOK
<1>4. wk[u].pc \in Live \cup {"off", "dead", "stopped"}
  BY <1>3 DEF WorkerState
<1>5. Leaving(u)
  BY <1>2, <1>3, <1>4 DEF HealthInv, Serving, Leaving
<1> QED BY <1>2, <1>5

\* A step of a worker keeps every list true and takes only from those that leave.
LEMMA WorkerClaims ==
    ASSUME PipelineInv, PipelineInv', ClaimInv, NEW w \in Workers, WorkerMove(w)
    PROVE  (\A v \in Workers : ScanInv(v)') /\ Spared
<1>1. Beats(w) /\ \A v \in Workers \ {w} : Same(v) /\ FewerListed(v)
  BY DEF WorkerMove, Same, FewerListed
<1>2. \A u \in Workers : Leaving(u) => Leaving(u)'
  BY <1>1 DEF Beats, Same, Leaving
<1>3. \A v \in Workers : ScanInv(v)
  BY DEF ClaimInv
<1>4. CASE Quiet /\ FewerListed(w)
  <2>1. \A j \in Expired(log') : j \in Expired(log) /\ log'[j].owner = log[j].owner
    BY <1>4 DEF Quiet, Expired
  <2>2. Spared
    BY <1>4 DEF Quiet, Spared
  <2>3. ASSUME NEW v \in Workers PROVE ScanInv(v)'
    BY <1>1, <1>2, <1>3, <1>4, <2>1, ScanFrame
  <2> QED BY <2>2, <2>3
<1>5. CASE log' = log
  <2>1. Spared
    BY <1>5 DEF Spared
  <2>2. ASSUME NEW v \in Workers, v # w PROVE ScanInv(v)'
    BY <1>1, <1>2, <1>3, <1>5, <2>2, ScanFrame
  <2>3. CASE Scans(w)
    <3>1. \A s \in wk'[w].seen : log'[s[1]].owner = s[2]
      BY <1>5, <2>3 DEF Scans
    <3>2. \A i \in wk[w].todo : i \in Expired(log) => log[i].owner \in Workers /\ Leaving(log[i].owner)'
      BY <1>2, <1>3, <1>5 DEF ScanInv, Expired, PipelineInv, StreamInv
    <3>3. wk'[w].todo = wk[w].todo
      BY <2>3 DEF Scans
    <3>4. ScanInv(w)'
      BY <1>5, <3>1, <3>2, <3>3 DEF ScanInv, Leaving, Expired
    <3> QED BY <2>1, <2>2, <3>4
  <2>4. CASE Lists(w)
    <3>1. ASSUME NEW i \in wk'[w].todo, i \in Expired(log)
          PROVE  wk'[log[i].owner].pc \in {"dead", "stopped"} \/ wk'[log[i].owner].stopping
      <4>1. PICK s \in wk[w].seen : i = s[1] /\ Reclaimable(w, s[2])
        BY <2>4, <3>1 DEF Lists
      <4>2. log[i].owner \in Workers /\ Leaving(log[i].owner)
        BY <3>1, <4>1, ListedLeave
      <4> QED BY <1>2, <4>2 DEF Leaving
    <3>2. wk'[w].seen = {}
      BY <2>4 DEF Lists
    <3>3. ScanInv(w)'
      BY <1>5, <3>1, <3>2 DEF ScanInv, Leaving, Expired
    <3> QED BY <2>1, <2>2, <3>3
  <2>5. CASE FewerListed(w)
    <3>1. ScanInv(w)'
      BY <1>2, <1>3, <1>5, <2>5, ScanFrame
    <3> QED BY <2>1, <2>2, <3>1
  <2>6. CASE \E i \in DOMAIN log : Takes(w, i)
    BY <2>5, <2>6 DEF Takes
  <2> QED BY <1>4, <2>3, <2>4, <2>5, <2>6 DEF WorkerMove
<1>6. ASSUME NEW i \in DOMAIN log, Takes(w, i) PROVE (\A v \in Workers : ScanInv(v)') /\ Spared
  <2>1. /\ \A j \in Expired(log') : j \in Expired(log) /\ log'[j].owner = log[j].owner
        /\ log[i].st = "new" => log[i].owner \notin Workers
    BY <1>6, TakenFrom
  <2>2. log[i].owner \in Workers => Leaving(log[i].owner)
    BY <1>3, <1>6, <2>1 DEF Takes, ScanInv
  <2>3. Spared
    BY <1>6, <2>2 DEF Spared, Takes
  <2>4. FewerListed(w)
    BY <1>6 DEF Takes
  <2>5. ASSUME NEW v \in Workers PROVE ScanInv(v)'
    BY <1>1, <1>2, <1>3, <2>1, <2>4, ScanFrame
  <2> QED BY <2>3, <2>5
<1> QED BY <1>4, <1>5, <1>6 DEF WorkerMove, Scans, Lists

\* Every step keeps the claim invariant and takes only from those that leave.
LEMMA ClaimStep ==
    ASSUME OnTime PROVE PipelineInv /\ ClaimInv /\ [Next]_vars => ClaimInv' /\ Spared
<1> SUFFICES ASSUME PipelineInv, ClaimInv, [Next]_vars PROVE ClaimInv' /\ Spared
  OBVIOUS
<1>1. PipelineInv' /\ ~LateHeartbeats
  BY PipelineNext DEF OnTime
<1>2. \/ \E w \in Workers : WorkerMove(w)
      \/ Quiet /\ wk' = wk /\ reg' = reg
      \/ \E i \in DOMAIN log : IdleOut(i)
  BY <1>1, EveryMove
<1>3. \A v \in Workers : HealthInv(v)'
  BY <1>1, <1>2, HealthKept DEF ClaimInv
<1>4. ASSUME wk' = wk, Spared,
             \A v \in Workers, j \in Expired(log') : j \in Listed(v) =>
                j \in Expired(log) /\ log'[j].owner = log[j].owner
      PROVE  ClaimInv' /\ Spared
  <2>1. \A v \in Workers : FewerListed(v) /\ (Leaving(v) => Leaving(v)')
    BY <1>4 DEF FewerListed, Leaving
  <2>2. ASSUME NEW v \in Workers PROVE ScanInv(v)'
    BY <1>4, <2>1, ScanFrame DEF ClaimInv
  <2> QED BY <1>3, <1>4, <2>2 DEF ClaimInv
<1>5. CASE Quiet /\ wk' = wk /\ reg' = reg
  <2>1. /\ \A j \in Expired(log') : j \in Expired(log) /\ log'[j].owner = log[j].owner
        /\ Spared
    BY <1>5 DEF Quiet, Expired, Spared
  <2> QED BY <1>4, <1>5, <2>1
<1>6. ASSUME NEW i \in DOMAIN log, IdleOut(i) PROVE ClaimInv' /\ Spared
  <2>1. /\ \A v \in Workers : i \notin Listed(v)
        /\ log' = Expire(log, i) /\ wk' = wk /\ log \in Seq(Entries(Requests, Workers))
    BY <1>6 DEF IdleOut, OnTime, fleet, PipelineInv, TypeOK
  <2>2. DOMAIN Expire(log, i) = DOMAIN log
    BY <2>1, ExpireFacts
  <2>3. \A j \in DOMAIN log : Expire(log, i)[j].owner = log[j].owner
    BY <2>1, ExpireOwner
  <2>4. \A j \in DOMAIN log : j # i => Expire(log, i)[j] = log[j]
    BY DEF Expire
  <2>5. Spared
    BY <2>1, <2>2, <2>3 DEF Spared
  <2>6. ASSUME NEW v \in Workers, NEW j \in Expired(log'), j \in Listed(v)
        PROVE  j \in Expired(log) /\ log'[j].owner = log[j].owner
    BY <2>1, <2>2, <2>4, <2>6 DEF Expired
  <2> QED BY <1>4, <2>1, <2>5, <2>6
<1>7. ASSUME NEW w \in Workers, WorkerMove(w) PROVE ClaimInv' /\ Spared
  BY <1>1, <1>3, <1>7, WorkerClaims DEF ClaimInv
<1> QED BY <1>2, <1>5, <1>6, <1>7

\* Before any worker has started, nobody owns or lists anything.
LEMMA ClaimInit == Init => ClaimInv
<1> SUFFICES ASSUME Init PROVE ClaimInv
  OBVIOUS
<1>1. NewWorker.pc = "off" /\ ~NewWorker.stopping /\ NewWorker.seen = {} /\ NewWorker.todo = {}
  BY DEF NewWorker
<1>2. log = <<>> /\ DOMAIN log = {} /\ \A w \in Workers : wk[w] = NewWorker
  BY DEF Init
<1> QED BY <1>1, <1>2 DEF ClaimInv, HealthInv, ScanInv, Serving, Live

\* reclaimDeadWorkersMessages takes a message only from a worker whose process is gone
\* or was told to stop, for any batch of XPENDING and any number of workers, deaths, stops
\* and Redis failures: if live workers' heartbeats are in time, and a message that is
\* claimed stays claimed until everybody who had listed it has tried.
THEOREM ClaimOnlyFromTheDead == ASSUME OnTime PROVE Spec => OnlyDeadOwnersRobbed
<1>1. Init => PipelineInv /\ ClaimInv
  BY PipelineInit, ClaimInit
<1>2. PipelineInv /\ ClaimInv /\ [Next]_vars => (PipelineInv /\ ClaimInv)'
  BY PipelineNext, ClaimStep
<1>3. PipelineInv /\ ClaimInv /\ [Next]_vars => [Spared]_vars
  BY ClaimStep
<1> QED BY <1>1, <1>2, <1>3, PTL DEF Spec, OnlyDeadOwnersRobbed, Spared

-----------------------------------------------------------------------------
(* A job is the business of the worker that read it, however stale the     *)
(* lists of the others are.                                                *)

\* Worker w handles a message that it has read from the stream itself.
Keeps(w) == wk[w].pc \in Busy /\ wk[w].src = "read" /\ ~wk[w].stopping

\* Nobody lists or handles a new entry.
SeenInv(v) ==
    /\ \A i \in Listed(v) : i \in DOMAIN log /\ log[i].st # "new"
    /\ wk[v].pc \in Busy => log[wk[v].cur].st # "new"

\* Nobody else handles the message of w, nobody is about to claim it, and whoever has it
\* from XPENDING has it as w's.
KeptInv(w) ==
    Keeps(w) =>
        /\ log[wk[w].cur].owner = w
        /\ \A v \in Workers \ {w} : wk[v].pc \in Busy => wk[v].cur # wk[w].cur
        /\ \A v \in Workers : wk[w].cur \notin wk[v].todo
        /\ \A v \in Workers : \A s \in wk[v].seen : s[1] = wk[w].cur => s[2] = w

FirstHandInv == \A w \in Workers : HealthInv(w) /\ SeenInv(w) /\ KeptInv(w)

\* An entry that is not new stays so.
LEMMA SeenFrame ==
    ASSUME PipelineInv, NEW v \in Workers, SeenInv(v),
           DOMAIN log \subseteq DOMAIN log',
           \A j \in DOMAIN log : log[j].st # "new" => log'[j].st # "new",
           FewerListed(v), Continues(v)
    PROVE  SeenInv(v)'
<1>1. wk[v].pc \in Busy => wk[v].cur \in DOMAIN log
  BY DEF PipelineInv, WorkerInv
<1>2. \A i \in Listed(v)' : i \in Listed(v)
  BY DEF Listed, FewerListed
<1> QED BY <1>1, <1>2 DEF SeenInv, Continues

\* A step in which nobody begins a job or lists anything.
LEMMA KeptFrame ==
    ASSUME PipelineInv, FirstHandInv, NEW w \in Workers, Keeps(w)' => Keeps(w) /\ wk'[w].cur = wk[w].cur,
           Keeps(w)' => log'[wk[w].cur].owner = w,
           \A v \in Workers : FewerListed(v) /\ Continues(v)
    PROVE  KeptInv(w)'
<1> SUFFICES ASSUME Keeps(w)' PROVE KeptInv(w)'
  BY DEF KeptInv
<1>1. KeptInv(w) /\ Keeps(w) /\ wk'[w].cur = wk[w].cur
  BY DEF FirstHandInv
<1>2. \A v \in Workers \ {w} : wk'[v].pc \in Busy => wk'[v].cur # wk[w].cur
  BY <1>1 DEF KeptInv, Continues
<1>3. \A v \in Workers : wk[w].cur \notin wk'[v].todo
  BY <1>1 DEF KeptInv, FewerListed
<1>4. \A v \in Workers : \A s \in wk'[v].seen : s[1] = wk[w].cur => s[2] = w
  BY <1>1 DEF KeptInv, FewerListed
<1> QED BY <1>1, <1>2, <1>3, <1>4 DEF KeptInv

\* A quiet step, of worker u or of nobody: an XACK is of the message its worker handled.
LEMMA QuietKept ==
    ASSUME PipelineInv, FirstHandInv, Quiet, \A v \in Workers : FewerListed(v) /\ Continues(v)
    PROVE  \A w \in Workers : SeenInv(w)' /\ KeptInv(w)'
<1>1. ASSUME NEW w \in Workers PROVE SeenInv(w)'
  <2>1. /\ DOMAIN log \subseteq DOMAIN log'
        /\ \A j \in DOMAIN log : log[j].st # "new" => log'[j].st # "new"
    BY DEF Quiet
  <2> QED BY <2>1, SeenFrame DEF FirstHandInv
<1>2. ASSUME NEW w \in Workers PROVE KeptInv(w)'
  <2>1. Keeps(w)' => Keeps(w) /\ wk'[w].cur = wk[w].cur
    BY DEF Keeps, Continues
  <2>2. Keeps(w)' => log'[wk[w].cur].owner = w
    <3> SUFFICES ASSUME Keeps(w)' PROVE log'[wk[w].cur].owner = w
      OBVIOUS
    <3>1. KeptInv(w) /\ Keeps(w) /\ wk[w].cur \in DOMAIN log
      BY <2>1 DEF FirstHandInv, Keeps, PipelineInv, WorkerInv
    <3>2. \A v \in Workers : wk[v].pc = "ack" /\ wk'[v].pc \notin Busy => wk[v].cur # wk[w].cur
      <4>1. ASSUME NEW v \in Workers, wk[v].pc = "ack", wk'[v].pc \notin Busy PROVE wk[v].cur # wk[w].cur
        <5>1. v # w
          BY <4>1 DEF Keeps
        <5> QED BY <3>1, <4>1, <5>1 DEF KeptInv, Busy
      <4> QED BY <4>1
    <3>3. log'[wk[w].cur] = log[wk[w].cur]
      BY <3>1, <3>2 DEF Quiet
    <3> QED BY <3>1, <3>3 DEF KeptInv
  <2> QED BY <2>1, <2>2, KeptFrame
<1> QED BY <1>1, <1>2

\* An XPENDING of u: it names the present owners of entries that are in a PEL.
LEMMA ScanKept ==
    ASSUME PipelineInv, FirstHandInv, NEW u \in Workers, Scans(u), \A v \in Workers \ {u} : Same(v)
    PROVE  \A w \in Workers : SeenInv(w)' /\ KeptInv(w)'
<1>1. /\ log' = log /\ wk'[u].pc \notin Busy /\ wk'[u].todo = wk[u].todo
      /\ \A s \in wk'[u].seen : s[1] \in Expired(log) /\ s[2] = log[s[1]].owner
  <2>1. \A i \in OldestExpired : i \in Expired(log)
    BY DEF OldestExpired
  <2> QED BY <2>1 DEF Scans
<1>2. ASSUME NEW w \in Workers PROVE SeenInv(w)'
  <2>1. CASE w = u
    <3>1. \A i \in Listed(u)' : i \in DOMAIN log /\ log[i].st # "new"
      BY <1>1 DEF FirstHandInv, SeenInv, Listed, Expired
    <3> QED BY <1>1, <2>1, <3>1 DEF SeenInv
  <2>2. CASE w # u
    BY <1>1, <2>2 DEF Same, FirstHandInv, SeenInv, Listed
  <2> QED BY <2>1, <2>2
<1>3. ASSUME NEW w \in Workers, Keeps(w)' PROVE KeptInv(w)'
  <2>1. w # u /\ wk'[w] = wk[w] /\ Keeps(w) /\ KeptInv(w)
    BY <1>1, <1>3 DEF Keeps, Same, FirstHandInv
  <2>2. \A v \in Workers \ {w} : wk'[v].pc \in Busy => wk'[v].cur # wk[w].cur
    BY <1>1, <2>1 DEF KeptInv, Same
  <2>3. \A v \in Workers : wk[w].cur \notin wk'[v].todo
    BY <1>1, <2>1 DEF KeptInv, Same
  <2>4. \A v \in Workers : \A s \in wk'[v].seen : s[1] = wk[w].cur => s[2] = w
    BY <1>1, <2>1 DEF KeptInv, Same
  <2> QED BY <1>1, <2>1, <2>2, <2>3, <2>4 DEF KeptInv
<1> QED BY <1>2, <1>3 DEF KeptInv

\* u lists what it may claim: the owner of a message that is being handled first hand has
\* a fresh heartbeat.
LEMMA ListKept ==
    ASSUME PipelineInv, FirstHandInv, NEW u \in Workers, Lists(u), \A v \in Workers \ {u} : Same(v)
    PROVE  \A w \in Workers : SeenInv(w)' /\ KeptInv(w)'
<1>1. /\ log' = log /\ wk'[u].pc \notin Busy /\ wk'[u].seen = {}
      /\ \A i \in wk'[u].todo : \E s \in wk[u].seen : i = s[1] /\ Reclaimable(u, s[2])
  BY DEF Lists
<1>2. ASSUME NEW w \in Workers PROVE SeenInv(w)'
  <2>1. CASE w = u
    <3>1. \A i \in Listed(u)' : i \in DOMAIN log /\ log[i].st # "new"
      BY <1>1 DEF FirstHandInv, SeenInv, Listed
    <3> QED BY <1>1, <2>1, <3>1 DEF SeenInv
  <2>2. CASE w # u
    BY <1>1, <2>2 DEF Same, FirstHandInv, SeenInv, Listed
  <2> QED BY <2>1, <2>2
<1>3. ASSUME NEW w \in Workers, Keeps(w)' PROVE KeptInv(w)'
  <2>1. w # u /\ wk'[w] = wk[w] /\ Keeps(w) /\ KeptInv(w) /\ HealthInv(w)
    BY <1>1, <1>3 DEF Keeps, Same, FirstHandInv
  <2>2. reg[w].st = "fresh"
    BY <2>1 DEF Keeps, HealthInv, Serving, Busy, Live
  <2>3. \A v \in Workers \ {w} : wk'[v].pc \in Busy => wk'[v].cur # wk[w].cur
    BY <1>1, <2>1 DEF KeptInv, Same
  <2>4. wk[w].cur \notin wk'[u].todo
    BY <1>1, <2>1, <2>2 DEF KeptInv, Reclaimable
  <2>5. \A v \in Workers : wk[w].cur \notin wk'[v].todo
    BY <2>1, <2>4 DEF KeptInv, Same
  <2>6. \A v \in Workers : \A s \in wk'[v].seen : s[1] = wk[w].cur => s[2] = w
    BY <1>1, <2>1 DEF KeptInv, Same
  <2> QED BY <1>1, <2>1, <2>3, <2>5, <2>6 DEF KeptInv
<1> QED BY <1>2, <1>3 DEF KeptInv

\* A delivery to u: a new entry is in no list, and an entry on u's list is nobody's first
\* hand.
LEMMA TakeKept ==
    ASSUME PipelineInv, FirstHandInv, NEW u \in Workers, NEW i \in DOMAIN log, Takes(u, i),
           \A v \in Workers \ {u} : Same(v)
    PROVE  \A w \in Workers : SeenInv(w)' /\ KeptInv(w)'
<1>1. /\ FewerListed(u) /\ (wk'[u].pc \in Busy => wk'[u].cur = i) /\ DOMAIN log' = DOMAIN log
      /\ log'[i].st = "pending" /\ log'[i].owner = u
      /\ \A j \in DOMAIN log : j # i => log'[j] = log[j]
      /\ \/ log[i].st = "new"
         \/ i \in wk[u].todo /\ (wk'[u].pc \in Busy => wk'[u].src = "claim")
  BY DEF Takes
<1>2. \A j \in DOMAIN log : log[j].st # "new" => log'[j].st # "new"
  BY <1>1
<1>3. ASSUME NEW w \in Workers PROVE SeenInv(w)'
  <2>1. CASE w = u
    <3>1. \A j \in Listed(u)' : j \in Listed(u)
      BY <1>1 DEF Listed, FewerListed
    <3>2. \A j \in Listed(u)' : j \in DOMAIN log' /\ log'[j].st # "new"
      BY <1>1, <1>2, <3>1 DEF FirstHandInv, SeenInv
    <3> QED BY <1>1, <2>1, <3>2 DEF SeenInv
  <2>2. CASE w # u
    <3>1. FewerListed(w) /\ Continues(w)
      BY <2>2 DEF Same, FewerListed, Continues
    <3> QED BY <1>1, <1>2, <3>1, SeenFrame DEF FirstHandInv
  <2> QED BY <2>1, <2>2
<1>4. ASSUME NEW w \in Workers, Keeps(w)' PROVE KeptInv(w)'
  <2>1. CASE w = u
    <3>1. wk'[u].cur = i /\ log[i].st = "new"
      BY <1>1, <1>4, <2>1 DEF Keeps
    <3>2. \A v \in Workers : i \notin Listed(v) /\ (wk[v].pc \in Busy => wk[v].cur # i)
      BY <3>1 DEF FirstHandInv, SeenInv
    <3>3. \A v \in Workers \ {u} : wk'[v].pc \in Busy => wk'[v].cur # i
      BY <3>2 DEF Same
    <3>4. \A v \in Workers : i \notin wk'[v].todo /\ \A s \in wk'[v].seen : s[1] # i
      BY <1>1, <3>2 DEF Same, FewerListed, Listed
    <3> QED BY <1>1, <2>1, <3>1, <3>3, <3>4 DEF KeptInv
  <2>2. CASE w # u
    <3>1. wk'[w] = wk[w] /\ Keeps(w) /\ KeptInv(w) /\ wk[w].cur \in DOMAIN log
      BY <1>4, <2>2 DEF Keeps, Same, FirstHandInv, PipelineInv, WorkerInv
    <3>2. log[wk[w].cur].st # "new"
      BY <3>1 DEF Keeps, FirstHandInv, SeenInv
    <3>3. wk[w].cur # i
      BY <1>1, <3>1, <3>2 DEF KeptInv
    <3>4. log'[wk[w].cur] = log[wk[w].cur]
      BY <1>1, <3>1, <3>3
    <3>5. \A v \in Workers \ {w} : wk'[v].pc \in Busy => wk'[v].cur # wk[w].cur
      BY <1>1, <3>1, <3>3 DEF KeptInv, Same
    <3>6. \A v \in Workers : wk[w].cur \notin wk'[v].todo
      BY <1>1, <3>1 DEF KeptInv, Same, FewerListed
    <3>7. \A v \in Workers : \A s \in wk'[v].seen : s[1] = wk[w].cur => s[2] = w
      BY <1>1, <3>1 DEF KeptInv, Same, FewerListed
    <3> QED BY <3>1, <3>4, <3>5, <3>6, <3>7 DEF KeptInv
  <2> QED BY <2>1, <2>2
<1> QED BY <1>3, <1>4 DEF KeptInv

\* Every step keeps it.
LEMMA FirstHandStep ==
    ASSUME ~LateHeartbeats PROVE PipelineInv /\ FirstHandInv /\ [Next]_vars => FirstHandInv'
<1> SUFFICES ASSUME PipelineInv, FirstHandInv, [Next]_vars PROVE FirstHandInv'
  OBVIOUS
<1>1. \/ \E w \in Workers : WorkerMove(w)
      \/ Quiet /\ wk' = wk /\ reg' = reg
      \/ \E i \in DOMAIN log : IdleOut(i)
  BY EveryMove
<1>2. \A v \in Workers : HealthInv(v)'
  BY <1>1, PipelineNext, HealthKept DEF FirstHandInv
<1>3. ASSUME wk' = wk PROVE \A v \in Workers : FewerListed(v) /\ Continues(v)
  BY <1>3 DEF FewerListed, Continues
<1>4. CASE Quiet /\ wk' = wk
  BY <1>2, <1>3, <1>4, QuietKept DEF FirstHandInv
<1>5. ASSUME NEW i \in DOMAIN log, IdleOut(i) PROVE FirstHandInv'
  <2>1. log' = Expire(log, i) /\ wk' = wk /\ log \in Seq(Entries(Requests, Workers))
    BY <1>5 DEF IdleOut, fleet, PipelineInv, TypeOK
  <2>2. DOMAIN Expire(log, i) = DOMAIN log /\ \A j \in DOMAIN log : Expire(log, i)[j].st = log[j].st
    BY <2>1, ExpireFacts
  <2>3. \A j \in DOMAIN log : Expire(log, i)[j].owner = log[j].owner
    BY <2>1, ExpireOwner
  <2>4. ASSUME NEW w \in Workers PROVE SeenInv(w)'
    BY <1>3, <2>1, <2>2, SeenFrame DEF FirstHandInv
  <2>5. ASSUME NEW w \in Workers PROVE KeptInv(w)'
    <3>1. Keeps(w)' => Keeps(w) /\ wk'[w].cur = wk[w].cur
      BY <2>1 DEF Keeps
    <3>2. Keeps(w) => wk[w].cur \in DOMAIN log /\ log[wk[w].cur].owner = w
      BY DEF Keeps, KeptInv, FirstHandInv, PipelineInv, WorkerInv
    <3>3. Keeps(w)' => log'[wk[w].cur].owner = w
      BY <2>1, <2>3, <3>1, <3>2
    <3> QED BY <1>3, <2>1, <3>1, <3>3, KeptFrame
  <2> QED BY <1>2, <2>4, <2>5 DEF FirstHandInv
<1>6. ASSUME NEW u \in Workers, WorkerMove(u) PROVE FirstHandInv'
  <2>1. \A v \in Workers \ {u} : Same(v) /\ FewerListed(v) /\ Continues(v)
    BY <1>6 DEF WorkerMove, Same, FewerListed, Continues
  <2>2. CASE Quiet /\ FewerListed(u) /\ Continues(u)
    <3>1. \A v \in Workers : FewerListed(v) /\ Continues(v)
      BY <2>1, <2>2
    <3> QED BY <1>2, <2>2, <3>1, QuietKept DEF FirstHandInv
  <2>3. CASE Scans(u)
    BY <1>2, <2>1, <2>3, ScanKept DEF FirstHandInv
  <2>4. CASE Lists(u)
    BY <1>2, <2>1, <2>4, ListKept DEF FirstHandInv
  <2>5. CASE \E i \in DOMAIN log : Takes(u, i)
    BY <1>2, <2>1, <2>5, TakeKept DEF FirstHandInv
  <2> QED BY <1>6, <2>2, <2>3, <2>4, <2>5 DEF WorkerMove
<1> QED BY <1>1, <1>4, <1>5, <1>6

\* While a worker that has not been told to stop handles a job it read from the stream
\* itself, the job stays its own and nobody else runs it: for any batch, any delays of
\* the others between XPENDING and XCLAIM and any failures, provided only that the
\* heartbeats of live workers are in time.
THEOREM FirstHandKept == ASSUME ~LateHeartbeats PROVE Spec => []FirstHandJobsKept
<1>1. Init => PipelineInv /\ FirstHandInv
  <2>1. Init => \A w \in Workers : SeenInv(w) /\ KeptInv(w)
    <3> SUFFICES ASSUME Init PROVE \A w \in Workers : SeenInv(w) /\ KeptInv(w)
      OBVIOUS
    <3>1. NewWorker.pc = "off" /\ NewWorker.seen = {} /\ NewWorker.todo = {}
      BY DEF NewWorker
    <3>2. \A w \in Workers : wk[w] = NewWorker
      BY DEF Init
    <3> QED BY <3>1, <3>2 DEF SeenInv, KeptInv, Keeps, Listed, Busy
  <2> QED BY <2>1, PipelineInit, ClaimInit DEF ClaimInv, FirstHandInv
<1>2. PipelineInv /\ FirstHandInv /\ [Next]_vars => (PipelineInv /\ FirstHandInv)'
  BY PipelineNext, FirstHandStep
<1>3. FirstHandInv => FirstHandJobsKept
  BY DEF FirstHandInv, KeptInv, Keeps, FirstHandJobsKept
<1> QED BY <1>1, <1>2, <1>3, PTL DEF Spec
=============================================================================
