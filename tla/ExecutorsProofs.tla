-------------------------- MODULE ExecutorsProofs --------------------------
(***************************************************************************)
(* Proofs about the in-process executor as it runs in MCExecutors, for any *)
(* number of calls and whatever user code does to the process.             *)
(***************************************************************************)
EXTENDS MCExecutors, TLAPS

ProcState == {"up", "stuck", "crashed", "exited"}
ExecState == Local!ExecState

\* One call of executeFunction: the timer is armed for an open race only, and an
\* open race has not seen handlerPromise settle.
ExecInv(s) ==
    /\ s.timer = "armed" => s.pc = "race"
    /\ s.pc = "race" => s.code \in {"none", "pending"}
    /\ s.pc = "idle" => s.code = "none"

\* While the event loop turns, an open race has its timer: synchronous user code in
\* the module's body can only precede it by blocking or ending the process.
LocalInv ==
    /\ proc \in ProcState
    /\ ex \in [LocalCalls -> ExecState]
    /\ \A c \in LocalCalls : ExecInv(ex[c])
    /\ proc = "up" => \A c \in LocalCalls : ex[c].pc = "race" => ex[c].timer = "armed"
    /\ proc = "exited" => \A c \in LocalCalls : ex[c].pc # "race"
    /\ proc = "crashed" => \E c \in LocalCalls : ex[c].esc

\* The invariant holds of a fresh process.
LEMMA LocalInit == Local!Init => LocalInv
  BY DEF Local!Init, Local!NewExec, Local!ExecState, LocalInv, ExecState, ExecInv, ProcState

\* A turn of the event loop that lets the process run on replaces one record; if the
\* call is open afterwards, its timer is armed.
LEMMA OneTurn ==
    ASSUME LocalInv, NEW c \in LocalCalls, NEW s \in ExecState, ExecInv(s),
           proc = "up", ex' = [ex EXCEPT ![c] = s],
           \/ proc' = "up" /\ (s.pc = "race" => s.timer = "armed")
           \/ proc' = "stuck"
           \/ proc' = "crashed" /\ s.esc
    PROVE  LocalInv'
<1>1. \A d \in LocalCalls : ex'[d] = IF d = c THEN s ELSE ex[d]
  BY DEF LocalInv
<1>2. ex' \in [LocalCalls -> ExecState] /\ proc' \in ProcState
  BY DEF LocalInv, ProcState
<1>3. \A d \in LocalCalls : ExecInv(ex'[d])
  BY <1>1 DEF LocalInv
<1>4. proc' = "up" => \A d \in LocalCalls : ex'[d].pc = "race" => ex'[d].timer = "armed"
  BY <1>1 DEF LocalInv
<1>5. proc' = "crashed" => \E d \in LocalCalls : ex'[d].esc
  BY <1>1
<1> QED BY <1>2, <1>3, <1>4, <1>5 DEF LocalInv

\* Every step keeps the invariant.
LEMMA LocalKeeps ==
    ASSUME LocalInv, Local!Next PROVE LocalInv'
<1>1. ASSUME NEW c \in LocalCalls, Local!LoadFails(c) PROVE LocalInv'
  <2> DEFINE s == [ex[c] EXCEPT !.pc = "done", !.out = "error"]
  <2>1. proc = "up" /\ proc' = proc /\ ex[c].pc = "idle" /\ ex' = [ex EXCEPT ![c] = s]
    BY <1>1 DEF Local!LoadFails, Local!Set
  <2>2. ex[c] \in ExecState /\ ExecInv(ex[c])
    BY DEF LocalInv
  <2>3. s \in ExecState /\ ExecInv(s) /\ s.pc = "done"
    BY <2>1, <2>2 DEF ExecState, Local!ExecState, ExecInv
  <2> QED BY <2>1, <2>3, OneTurn
<1>2. ASSUME NEW c \in LocalCalls, Local!CallHandler(c) PROVE LocalInv'
  <2> DEFINE s == [ex[c] EXCEPT !.pc = "race", !.code = "pending", !.timer = "armed"]
  <2>1. proc = "up" /\ proc' = proc /\ ex' = [ex EXCEPT ![c] = s]
    BY <1>2 DEF Local!CallHandler, Local!Set
  <2>2. ex[c] \in ExecState /\ ExecInv(ex[c])
    BY DEF LocalInv
  <2>3. s \in ExecState /\ ExecInv(s) /\ s.timer = "armed"
    BY <2>2 DEF ExecState, Local!ExecState, ExecInv
  <2> QED BY <2>1, <2>3, OneTurn
<1>3. ASSUME NEW c \in LocalCalls, Local!TimerFires(c) PROVE LocalInv'
  <2> DEFINE s == [ex[c] EXCEPT !.pc = "done", !.timer = "off", !.out = "timeout"]
  <2>1. proc = "up" /\ proc' = proc /\ ex' = [ex EXCEPT ![c] = s]
    BY <1>3 DEF Local!TimerFires, Local!Set, Local!Settled
  <2>2. ex[c] \in ExecState /\ ExecInv(ex[c])
    BY DEF LocalInv
  <2>3. s \in ExecState /\ ExecInv(s) /\ s.pc = "done"
    BY <2>2 DEF ExecState, Local!ExecState, ExecInv
  <2> QED BY <2>1, <2>3, OneTurn
<1>4. ASSUME NEW c \in LocalCalls, Local!Blocks(c) \/ Local!Escapes(c) PROVE LocalInv'
  <2> DEFINE s == [ex[c] EXCEPT !.pc = IF @ = "idle" THEN "race" ELSE @]
             t == [s EXCEPT !.esc = TRUE]
  <2>1. /\ proc = "up"
        /\ \/ proc' = "stuck" /\ ex' = [ex EXCEPT ![c] = s]
           \/ proc' = "crashed" /\ ex' = [ex EXCEPT ![c] = t]
    BY <1>4 DEF Local!Blocks, Local!Escapes, Local!Set, Local!UserCode
  <2>2. ex[c] \in ExecState /\ ExecInv(ex[c])
    BY DEF LocalInv
  <2>3. s \in ExecState /\ ExecInv(s)
    BY <2>2 DEF ExecState, Local!ExecState, ExecInv
  <2> HIDE DEF s
  <2>4. t \in ExecState /\ ExecInv(t) /\ t.esc
    BY <2>3 DEF ExecState, Local!ExecState, ExecInv
  <2> QED BY <2>1, <2>3, <2>4, OneTurn
<1>5. ASSUME NEW c \in LocalCalls, NEW how \in {"returned", "threw"}, Local!HandlerSettles(c, how)
      PROVE  LocalInv'
  <2> DEFINE s == [ex[c] EXCEPT !.code = how]
             o == IF how = "returned" THEN "success" ELSE "error"
             t == [s EXCEPT !.pc = "done", !.timer = "off", !.out = o]
  <2>1. /\ proc = "up" /\ proc' = proc /\ ex[c].code = "pending"
        /\ ex' = [ex EXCEPT ![c] = IF ex[c].pc = "race" THEN t ELSE s]
    BY <1>5 DEF Local!HandlerSettles, Local!Set, Local!Settled
  <2>2. ex[c] \in ExecState /\ ExecInv(ex[c])
    BY DEF LocalInv
  <2>3. s \in ExecState /\ s.pc = ex[c].pc
    BY <2>2 DEF ExecState, Local!ExecState
  <2>4. ex[c].pc # "race" => ExecInv(s)
    BY <2>1, <2>2 DEF ExecState, Local!ExecState, ExecInv
  <2> HIDE DEF s
  <2>5. o \in {"success", "error"}
    OBVIOUS
  <2> HIDE DEF o
  <2>6. t \in ExecState /\ ExecInv(t) /\ t.pc = "done"
    BY <2>3, <2>5 DEF ExecState, Local!ExecState, ExecInv
  <2> HIDE DEF t
  <2> QED BY <2>1, <2>3, <2>4, <2>6, OneTurn
<1>6. CASE Local!Exit
  <2>1. proc = "up" /\ proc' = "exited" /\ ex' = ex /\ \A c \in LocalCalls : ex[c].timer = "off"
    BY <1>6 DEF Local!Exit
  <2>2. \A c \in LocalCalls : ex[c].pc # "race"
    BY <2>1 DEF LocalInv
  <2> QED BY <2>1, <2>2 DEF LocalInv, ProcState
<1> QED BY <1>1, <1>2, <1>3, <1>4, <1>5, <1>6 DEF Local!Next

\* The side-by-side specification takes no other steps of the CLI's process.
LEMMA LocalSide == ExecutorsSpec => Local!Spec
<1>1. ExecutorsInit => Local!Init
  BY DEF ExecutorsInit
<1>2. [ExecutorsNext]_<<vars, proc, ex>> => [Local!Next]_<<proc, ex>>
  BY DEF ExecutorsNext
<1> QED BY <1>1, <1>2, PTL DEF ExecutorsSpec, Local!Spec, Local!vars

\* The inductive invariant of the in-process executor.
THEOREM LocalInvariant == ExecutorsSpec => []LocalInv
<1>1. LocalInv /\ [Local!Next]_(Local!vars) => LocalInv'
  <2> SUFFICES ASSUME LocalInv, [Local!Next]_(Local!vars) PROVE LocalInv'
    OBVIOUS
  <2>1. CASE UNCHANGED Local!vars
    BY <2>1 DEF Local!vars, LocalInv
  <2>2. CASE Local!Next
    BY <2>2, LocalKeeps
  <2> QED BY <2>1, <2>2
<1> QED BY <1>1, LocalInit, LocalSide, PTL DEF Local!Spec

\* A handler that rejects after its call has timed out does not take the CLI's
\* process down: the no-op catch is attached to every handlerPromise.
THEOREM LocalRejectionsHarmless == ExecutorsSpec => []LocalLateRejectionHarmless
<1>1. LocalInv => LocalLateRejectionHarmless
  BY DEF LocalInv, LocalLateRejectionHarmless, Local!LateRejectionHarmless
<1> QED BY <1>1, LocalInvariant, PTL

\* The CLI's process does not end under an open call: the timer keeps the event loop
\* alive even for a handler that waits for nothing.
THEOREM LocalCallsNotAbandoned == ExecutorsSpec => []LocalNoCallAbandoned
<1>1. LocalInv => LocalNoCallAbandoned
  BY DEF LocalInv, LocalNoCallAbandoned, Local!NoCallAbandoned
<1> QED BY <1>1, LocalInvariant, PTL

-----------------------------------------------------------------------------
(* The refinement of ExecutionRuntime, step by step.                       *)

\* How the refinement mapping sees the record of one call.
CallView(s) == CASE s.pc = "idle" -> "idle"
                 [] s.pc = "race" -> "running"
                 [] s.pc = "done" -> s.out
CodeView(s) == IF s.code \in {"returned", "threw"} THEN s.code ELSE "none"

Alive   == proc \in {"up", "stuck"}
AbsCall == [c \in LocalCalls |-> CallView(ex[c])]
AbsCode == [c \in LocalCalls |-> CodeView(ex[c])]

\* A turn that replaces one record changes the abstract state at that call only.
LEMMA ViewOfOneCall ==
    ASSUME LocalInv, NEW c \in LocalCalls, NEW s, ex' = [ex EXCEPT ![c] = s]
    PROVE  /\ AbsCall' = [AbsCall EXCEPT ![c] = CallView(s)]
           /\ AbsCode' = [AbsCode EXCEPT ![c] = CodeView(s)]
           /\ CallView(s) = CallView(ex[c]) => AbsCall' = AbsCall
           /\ CodeView(s) = CodeView(ex[c]) => AbsCode' = AbsCode
<1>1. \A d \in LocalCalls : ex'[d] = IF d = c THEN s ELSE ex[d]
  BY DEF LocalInv
<1>2. /\ AbsCall' = [d \in LocalCalls |-> CallView(ex'[d])]
      /\ AbsCode' = [d \in LocalCalls |-> CodeView(ex'[d])]
  BY DEF AbsCall, AbsCode, CallView, CodeView
<1>3. \A d \in LocalCalls : /\ CallView(ex'[d]) = IF d = c THEN CallView(s) ELSE CallView(ex[d])
                            /\ CodeView(ex'[d]) = IF d = c THEN CodeView(s) ELSE CodeView(ex[d])
  BY <1>1
<1>4. /\ AbsCall' = [AbsCall EXCEPT ![c] = CallView(s)]
      /\ AbsCode' = [AbsCode EXCEPT ![c] = CodeView(s)]
  BY <1>2, <1>3 DEF AbsCall, AbsCode
<1>5. CallView(s) = CallView(ex[c]) => AbsCall' = AbsCall
  BY <1>4 DEF AbsCall
<1>6. CodeView(s) = CodeView(ex[c]) => AbsCode' = AbsCode
  BY <1>4 DEF AbsCode
<1> QED BY <1>4, <1>5, <1>6

\* The abstract values of a call, by its state.
LEMMA ViewFacts ==
    ASSUME NEW s \in ExecState
    PROVE  /\ s.pc = "idle" => CallView(s) = "idle"
           /\ s.pc = "race" => CallView(s) = "running"
           /\ s.pc = "done" => CallView(s) = s.out
           /\ s.code \in {"none", "pending"} => CodeView(s) = "none"
           /\ s.code \in {"returned", "threw"} => CodeView(s) = s.code
  BY DEF ExecState, Local!ExecState, CallView, CodeView

\* The steps of ExecutionRuntime in terms of the abstract state: a call begins, or is
\* refused before any user code runs.
LEMMA AbsBegin ==
    ASSUME NEW c \in LocalCalls, Alive, Alive' = Alive, AbsCall[c] = "idle",
           NEW o \in {"running", "error"},
           AbsCall' = [AbsCall EXCEPT ![c] = o], AbsCode' = AbsCode
    PROVE  Local!Runtime!Next
<1>1. CASE o = "running"
  BY <1>1, Zenon DEF Alive, AbsCall, AbsCode, CallView, CodeView, Local!Runtime!Begin, Local!Runtime!Next
<1>2. CASE o = "error"
  BY <1>2, Zenon DEF Alive, AbsCall, AbsCode, CallView, CodeView, Local!Runtime!Refuse, Local!Runtime!Next
<1> QED BY <1>1, <1>2

\* The user's code ends after the call has given up.
LEMMA AbsCodeEnds ==
    ASSUME NEW c \in LocalCalls, NEW how \in {"returned", "threw"}, Alive' = Alive,
           AbsCall[c] # "idle", AbsCode[c] = "none",
           AbsCall' = AbsCall, AbsCode' = [AbsCode EXCEPT ![c] = how]
    PROVE  Local!Runtime!Next
  BY Zenon DEF Alive, AbsCall, AbsCode, CallView, CodeView, Local!Runtime!CodeEnds, Local!Runtime!Next

\* A call settles with what the code does just now, or has not done by then.
LEMMA AbsSettle ==
    ASSUME NEW c \in LocalCalls, NEW o \in {"success", "error", "timeout"},
           NEW how \in {"none", "returned", "threw"},
           Alive, Alive' = Alive, AbsCall[c] = "running", AbsCode[c] = "none",
           Local!Runtime!Fits(o, how),
           AbsCall' = [AbsCall EXCEPT ![c] = o], AbsCode' = [AbsCode EXCEPT ![c] = how]
    PROVE  Local!Runtime!Next
<1>1. Local!Runtime!Settle(c, o)
  BY Zenon DEF Alive, AbsCall, AbsCode, CallView, CodeView, Local!Runtime!Settle
<1> QED BY <1>1, Zenon DEF Local!Runtime!Next

\* The process ends.
LEMMA AbsDie ==
    ASSUME Alive' = FALSE, AbsCode' = AbsCode,
           \/ AbsCall' = AbsCall
           \/ \E c \in LocalCalls : AbsCall[c] = "idle" /\ AbsCall' = [AbsCall EXCEPT ![c] = "running"]
    PROVE  Local!Runtime!Next
<1>1. Local!Runtime!Die
  BY Zenon DEF Alive, AbsCall, AbsCode, CallView, CodeView, Local!Runtime!Die
<1> QED BY <1>1, Zenon DEF Local!Runtime!Next

\* Nothing happens.
LEMMA AbsStutter ==
    ASSUME Alive' = Alive, AbsCall' = AbsCall, AbsCode' = AbsCode
    PROVE  UNCHANGED Local!Runtime!vars
  BY Zenon DEF Alive, AbsCall, AbsCode, CallView, CodeView, Local!Runtime!vars

\* Every turn of the event loop is a step of ExecutionRuntime, or is not seen.
LEMMA LocalRefines ==
    ASSUME LocalInv, Local!Next PROVE [Local!Runtime!Next]_(Local!Runtime!vars)
<1>1. \A c \in LocalCalls : /\ ex[c] \in ExecState /\ ExecInv(ex[c])
                            /\ AbsCall[c] = CallView(ex[c]) /\ AbsCode[c] = CodeView(ex[c])
  BY DEF LocalInv, AbsCall, AbsCode
<1>2. ASSUME NEW c \in LocalCalls, Local!LoadFails(c) PROVE Local!Runtime!Next
  <2> DEFINE s == [ex[c] EXCEPT !.pc = "done", !.out = "error"]
  <2>1. proc = "up" /\ proc' = proc /\ ex[c].pc = "idle" /\ ex' = [ex EXCEPT ![c] = s]
    BY <1>2 DEF Local!LoadFails, Local!Set
  <2>2. s \in ExecState /\ s.pc = "done" /\ s.out = "error" /\ s.code = ex[c].code
    BY <1>1 DEF ExecState, Local!ExecState
  <2> HIDE DEF s
  <2>3. CallView(s) = "error" /\ CodeView(s) = CodeView(ex[c])
    BY <2>2, ViewFacts DEF CodeView
  <2>4. Alive /\ Alive' = Alive /\ AbsCall[c] = "idle"
    BY <1>1, <2>1, ViewFacts DEF Alive
  <2>5. AbsCall' = [AbsCall EXCEPT ![c] = "error"] /\ AbsCode' = AbsCode
    BY <2>1, <2>3, ViewOfOneCall
  <2> QED BY <2>4, <2>5, AbsBegin
<1>3. ASSUME NEW c \in LocalCalls, Local!CallHandler(c) PROVE Local!Runtime!Next
  <2> DEFINE s == [ex[c] EXCEPT !.pc = "race", !.code = "pending", !.timer = "armed"]
  <2>1. proc = "up" /\ proc' = proc /\ ex[c].pc = "idle" /\ ex' = [ex EXCEPT ![c] = s]
    BY <1>3 DEF Local!CallHandler, Local!Set
  <2>2. s \in ExecState /\ s.pc = "race" /\ s.code = "pending"
    BY <1>1 DEF ExecState, Local!ExecState
  <2> HIDE DEF s
  <2>3. CallView(s) = "running" /\ CodeView(s) = CodeView(ex[c])
    BY <1>1, <2>1, <2>2, ViewFacts DEF ExecInv
  <2>4. Alive /\ Alive' = Alive /\ AbsCall[c] = "idle"
    BY <1>1, <2>1, ViewFacts DEF Alive
  <2>5. AbsCall' = [AbsCall EXCEPT ![c] = "running"] /\ AbsCode' = AbsCode
    BY <2>1, <2>3, ViewOfOneCall
  <2> QED BY <2>4, <2>5, AbsBegin
<1>4. ASSUME NEW c \in LocalCalls, Local!TimerFires(c) PROVE Local!Runtime!Next
  <2> DEFINE s == [ex[c] EXCEPT !.pc = "done", !.timer = "off", !.out = "timeout"]
  <2>1. proc = "up" /\ proc' = proc /\ ex[c].timer = "armed" /\ ex' = [ex EXCEPT ![c] = s]
    BY <1>4 DEF Local!TimerFires, Local!Set, Local!Settled
  <2>2. s \in ExecState /\ s.pc = "done" /\ s.out = "timeout" /\ s.code = ex[c].code
    BY <1>1 DEF ExecState, Local!ExecState
  <2> HIDE DEF s
  <2>3. CallView(ex[c]) = "running" /\ CodeView(ex[c]) = "none"
    BY <1>1, <2>1, ViewFacts DEF ExecInv
  <2>4. CallView(s) = "timeout" /\ CodeView(s) = "none"
    BY <1>1, <2>2, <2>3, ViewFacts DEF CodeView
  <2>5. Local!Runtime!Fits("timeout", "none") /\ Alive /\ Alive' = Alive
    BY <2>1 DEF Local!Runtime!Fits, Alive
  <2>6. AbsCall' = [AbsCall EXCEPT ![c] = "timeout"] /\ AbsCode' = [AbsCode EXCEPT ![c] = "none"]
    <3>1. /\ AbsCall' = [AbsCall EXCEPT ![c] = CallView(s)]
          /\ AbsCode' = [AbsCode EXCEPT ![c] = CodeView(s)]
      BY <2>1, ViewOfOneCall
    <3> QED BY <2>4, <3>1
  <2>7. AbsCall[c] = "running" /\ AbsCode[c] = "none"
    BY <1>1, <2>3
  <2> QED BY <2>5, <2>6, <2>7, AbsSettle
<1>5. ASSUME NEW c \in LocalCalls, Local!Blocks(c) \/ Local!Escapes(c)
      PROVE  [Local!Runtime!Next]_(Local!Runtime!vars)
  <2> DEFINE s == [ex[c] EXCEPT !.pc = IF @ = "idle" THEN "race" ELSE @]
             t == [s EXCEPT !.esc = TRUE]
  <2>1. /\ proc = "up"
        /\ \/ proc' = "stuck" /\ ex' = [ex EXCEPT ![c] = s]
           \/ proc' = "crashed" /\ ex' = [ex EXCEPT ![c] = t]
    BY <1>5 DEF Local!Blocks, Local!Escapes, Local!Set, Local!UserCode
  <2>2. /\ s \in ExecState /\ s.out = ex[c].out /\ s.code = ex[c].code
        /\ s.pc = IF ex[c].pc = "idle" THEN "race" ELSE ex[c].pc
    BY <1>1 DEF ExecState, Local!ExecState
  <2> HIDE DEF s
  <2>3. t.out = s.out /\ t.code = s.code /\ t.pc = s.pc
    BY <2>2 DEF ExecState, Local!ExecState
  <2> HIDE DEF t
  <2>4. CodeView(s) = CodeView(ex[c]) /\ CodeView(t) = CodeView(ex[c]) /\ CallView(t) = CallView(s)
    BY <2>2, <2>3 DEF CodeView, CallView
  <2>5. \/ AbsCall[c] = "idle" /\ CallView(s) = "running"
        \/ CallView(s) = CallView(ex[c])
    BY <1>1, <2>2, ViewFacts DEF CallView
  <2>6. CASE proc' = "stuck" /\ ex' = [ex EXCEPT ![c] = s]
    <3>1. Alive /\ Alive' = Alive
      BY <2>1, <2>6 DEF Alive
    <3>2. /\ AbsCode' = AbsCode
          /\ \/ AbsCall' = AbsCall
             \/ AbsCall[c] = "idle" /\ AbsCall' = [AbsCall EXCEPT ![c] = "running"]
      <4>1. AbsCode' = AbsCode /\ AbsCall' = [AbsCall EXCEPT ![c] = CallView(s)]
        BY <2>4, <2>6, ViewOfOneCall
      <4>2. CallView(s) = CallView(ex[c]) => AbsCall' = AbsCall
        BY <2>4, <2>6, ViewOfOneCall
      <4> QED BY <2>5, <4>1, <4>2
    <3> QED BY <3>1, <3>2, AbsBegin, AbsStutter
  <2>7. CASE proc' = "crashed" /\ ex' = [ex EXCEPT ![c] = t]
    <3>1. Alive' = FALSE
      BY <2>7 DEF Alive
    <3>2. /\ AbsCode' = AbsCode
          /\ \/ AbsCall' = AbsCall
             \/ AbsCall[c] = "idle" /\ AbsCall' = [AbsCall EXCEPT ![c] = "running"]
      <4>1. AbsCode' = AbsCode /\ AbsCall' = [AbsCall EXCEPT ![c] = CallView(s)]
        <5>1. AbsCode' = AbsCode /\ AbsCall' = [AbsCall EXCEPT ![c] = CallView(t)]
          BY <2>4, <2>7, ViewOfOneCall
        <5> QED BY <2>4, <5>1
      <4>2. CallView(s) = CallView(ex[c]) => AbsCall' = AbsCall
        BY <2>4, <2>7, ViewOfOneCall
      <4> QED BY <2>5, <4>1, <4>2
    <3> QED BY <3>1, <3>2, AbsDie
  <2> QED BY <2>1, <2>6, <2>7
<1>6. ASSUME NEW c \in LocalCalls, NEW how \in {"returned", "threw"}, Local!HandlerSettles(c, how)
      PROVE  Local!Runtime!Next
  <2> DEFINE s == [ex[c] EXCEPT !.code = how]
             o == IF how = "returned" THEN "success" ELSE "error"
             t == [s EXCEPT !.pc = "done", !.timer = "off", !.out = o]
  <2>1. /\ proc = "up" /\ proc' = proc /\ ex[c].code = "pending"
        /\ ex' = [ex EXCEPT ![c] = IF ex[c].pc = "race" THEN t ELSE s]
    BY <1>6 DEF Local!HandlerSettles, Local!Set, Local!Settled
  <2>2. s \in ExecState /\ s.pc = ex[c].pc /\ s.out = ex[c].out /\ s.code = how
    BY <1>1 DEF ExecState, Local!ExecState
  <2> HIDE DEF s
  <2>3. o \in {"success", "error"} /\ Local!Runtime!Fits(o, how)
    BY DEF Local!Runtime!Fits
  <2> HIDE DEF o
  <2>4. t \in ExecState /\ t.pc = "done" /\ t.out = o /\ t.code = how
    BY <2>2, <2>3 DEF ExecState, Local!ExecState
  <2> HIDE DEF t
  <2>5. CodeView(s) = how /\ CodeView(t) = how /\ CallView(t) = o /\ CallView(s) = CallView(ex[c])
    BY <2>2, <2>4, ViewFacts DEF CallView
  <2>6. AbsCode[c] = "none" /\ Alive /\ Alive' = Alive
    BY <1>1, <2>1, ViewFacts DEF Alive
  <2>7. CASE ex[c].pc = "race"
    <3>1. AbsCall[c] = "running" /\ ex' = [ex EXCEPT ![c] = t]
      BY <1>1, <2>1, <2>7, ViewFacts
    <3>2. AbsCall' = [AbsCall EXCEPT ![c] = o] /\ AbsCode' = [AbsCode EXCEPT ![c] = how]
      BY <2>5, <3>1, ViewOfOneCall
    <3> QED BY <2>3, <2>6, <3>1, <3>2, AbsSettle
  <2>8. CASE ex[c].pc # "race"
    <3>1. ex[c].pc = "done" /\ ex' = [ex EXCEPT ![c] = s]
      BY <1>1, <2>1, <2>8 DEF ExecState, Local!ExecState, ExecInv
    <3>2. AbsCall[c] # "idle"
      BY <1>1, <3>1, ViewFacts DEF ExecState, Local!ExecState
    <3>3. AbsCall' = AbsCall /\ AbsCode' = [AbsCode EXCEPT ![c] = how]
      BY <2>5, <3>1, ViewOfOneCall
    <3> QED BY <2>6, <3>2, <3>3, AbsCodeEnds
  <2> QED BY <2>7, <2>8
<1>7. CASE Local!Exit
  <2>1. Alive' = FALSE /\ ex' = ex
    BY <1>7 DEF Local!Exit, Alive
  <2>2. AbsCall' = AbsCall /\ AbsCode' = AbsCode
    BY <2>1 DEF AbsCall, AbsCode, CallView, CodeView
  <2> QED BY <2>1, <2>2, AbsDie
<1> QED BY <1>2, <1>3, <1>4, <1>5, <1>6, <1>7 DEF Local!Next

\* executeFunction implements ExecutionRuntime: it settles once, with an outcome that
\* agrees with what handlerPromise did by then, late settlements included.
THEOREM LocalExecutorImplements == ExecutorsSpec => LocalImplementsRuntime
<1>1. Local!Init => Local!Runtime!Init
  <2> SUFFICES ASSUME Local!Init PROVE Local!Runtime!Init
    OBVIOUS
  <2>1. proc = "up" /\ \A c \in LocalCalls : ex[c].pc = "idle" /\ ex[c].code = "none"
    BY DEF Local!Init, Local!NewExec
  <2>2. /\ AbsCall = [c \in LocalCalls |-> "idle"] /\ AbsCode = [c \in LocalCalls |-> "none"]
        /\ Alive = TRUE
    BY <2>1 DEF AbsCall, AbsCode, Alive, CallView, CodeView
  <2> QED BY <2>2, Zenon DEF AbsCall, AbsCode, Alive, CallView, CodeView, Local!Runtime!Init
<1>2. LocalInv /\ [Local!Next]_(Local!vars) => [Local!Runtime!Next]_(Local!Runtime!vars)
  <2> SUFFICES ASSUME LocalInv, [Local!Next]_(Local!vars)
               PROVE  [Local!Runtime!Next]_(Local!Runtime!vars)
    OBVIOUS
  <2>1. CASE UNCHANGED Local!vars
    <3>1. Alive' = Alive /\ AbsCall' = AbsCall /\ AbsCode' = AbsCode
      BY <2>1 DEF Local!vars, Alive, AbsCall, AbsCode, CallView, CodeView
    <3> QED BY <3>1, AbsStutter
  <2>2. CASE Local!Next
    BY <2>2, LocalRefines
  <2> QED BY <2>1, <2>2
<1> QED BY <1>1, <1>2, LocalInvariant, LocalSide, PTL
        DEF Local!Spec, LocalImplementsRuntime, Local!ImplementsRuntime, Local!Runtime!Spec
=============================================================================
