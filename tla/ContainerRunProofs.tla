------------------------- MODULE ContainerRunProofs -------------------------
(***************************************************************************)
(* Proofs about ContainerRun, for any number of calls, slow starts and     *)
(* memory kills included.                                                  *)
(***************************************************************************)
EXTENDS ContainerRun, TLAPS

\* What a settled call looks like (its container has exited, its scratch directory
\* is gone, and its outcome agrees with the result file), and how far the result
\* file is, by what the shim does.
CallInv(s) ==
    /\ s.pc = "done" => s.ctr = "exited" /\ ~s.dir
    /\ s.pc # "done" => s.out = "none"
    /\ s.out = "timeout" => s.file = "absent"
    /\ s.pc = "idle" => s.timer = "off" /\ s.ctr = "none"
    /\ s.ctr = "none" => s.file = "absent"
    /\ s.shim = "handler" => s.file = "absent"
    /\ s.shim = "writing" => s.file = "partial"

ContainerInv == TypeOK /\ \A c \in Calls : CallInv(call[c])

\* A step that replaces the record of one call only has to care for that record.
LEMMA OneCall ==
    ASSUME ContainerInv, NEW c \in Calls, NEW s \in CallState, CallInv(s),
           call' = [call EXCEPT ![c] = s], host' \in {"up", "crashed"}
    PROVE  ContainerInv'
<1>1. call' \in [Calls -> CallState]
  BY DEF ContainerInv, TypeOK
<1>2. \A d \in Calls : call'[d] = IF d = c THEN s ELSE call[d]
  BY DEF ContainerInv, TypeOK
<1>3. \A d \in Calls : CallInv(call'[d])
  BY <1>2 DEF ContainerInv
<1> QED BY <1>1, <1>3 DEF ContainerInv, TypeOK

\* The invariant holds of a fresh host.
LEMMA ContainerInit == Init => ContainerInv
  BY DEF Init, ContainerInv, TypeOK, CallInv, NewCall, CallState

\* The host's steps keep it: only the 'close' handler settles a call, and it
\* does so after the container has exited.
LEMMA HostKeeps ==
    ASSUME ContainerInv, NEW c \in Calls, HostStep(c) PROVE ContainerInv'
<1>1. call[c] \in CallState /\ CallInv(call[c]) /\ host \in {"up", "crashed"}
  BY DEF ContainerInv, TypeOK
<1>2. CASE Begin(c)
  <2> DEFINE s == [call[c] EXCEPT !.pc = "running", !.timer = "armed", !.dir = TRUE]
  <2>1. call[c].pc = "idle" /\ call' = [call EXCEPT ![c] = s] /\ host' = host
    BY <1>2 DEF Begin, Set
  <2>2. s \in CallState /\ CallInv(s)
    BY <1>1, <2>1 DEF CallState, CallInv
  <2> QED BY <1>1, <2>1, <2>2, OneCall
<1>3. CASE SpawnFails(c)
  <2> DEFINE s == [call[c] EXCEPT !.pc = "running", !.dir = TRUE]
  <2>1. call[c].pc = "idle" /\ call' = [call EXCEPT ![c] = s] /\ host' = "crashed"
    BY <1>3 DEF SpawnFails, Set
  <2>2. s \in CallState /\ CallInv(s)
    BY <1>1, <2>1 DEF CallState, CallInv
  <2> QED BY <2>1, <2>2, OneCall
<1>4. CASE TimerFires(c)
  <2> DEFINE s == [call[c] EXCEPT !.timer = "fired", !.kill = "sent"]
  <2>1. call[c].timer = "armed" /\ call' = [call EXCEPT ![c] = s] /\ host' = host
    BY <1>4 DEF TimerFires, Set
  <2>2. s \in CallState /\ CallInv(s)
    BY <1>1, <2>1 DEF CallState, CallInv
  <2> QED BY <1>1, <2>1, <2>2, OneCall
<1>5. CASE Close(c)
  <2> DEFINE s == [call[c] EXCEPT !.timer = IF @ = "armed" THEN "off" ELSE @]
             t == [s EXCEPT !.pc = "done", !.dir = FALSE, !.out = Outcome(s)]
  <2>1. call[c].pc = "running" /\ call[c].ctr = "exited"
    BY <1>5 DEF Close
  <2>2. s \in CallState /\ CallInv(s) /\ s.file = call[c].file /\ s.ctr = "exited"
        /\ s.shim = call[c].shim
    BY <1>1, <2>1 DEF CallState, CallInv
  <2>3. CASE call[c].file = "partial" /\ host' = "crashed" /\ call' = [call EXCEPT ![c] = s]
    BY <2>2, <2>3, OneCall
  <2>4. CASE call[c].file # "partial" /\ host' = host /\ call' = [call EXCEPT ![c] = t]
    <3>1. /\ Outcome(s) \in {"success", "error", "timeout"}
          /\ Outcome(s) = "timeout" => s.file = "absent"
      BY <2>2, <2>4 DEF Outcome, CallState
    <3> HIDE DEF s
    <3>2. t \in CallState
      <4>1. \A o \in {"success", "error", "timeout"} :
              [s EXCEPT !.pc = "done", !.dir = FALSE, !.out = o] \in CallState
        BY <2>2 DEF CallState
      <4> QED BY <3>1, <4>1
    <3>3. /\ t.pc = "done" /\ ~t.dir /\ t.out = Outcome(s)
          /\ t.ctr = s.ctr /\ t.file = s.file /\ t.shim = s.shim
      BY <2>2 DEF CallState
    <3>4. CallInv(t)
      BY <2>2, <3>1, <3>3 DEF CallInv
    <3> QED BY <1>1, <2>4, <3>2, <3>4, OneCall
  <2> QED BY <1>5, <2>3, <2>4 DEF Close, Set
<1> QED BY <1>2, <1>3, <1>4, <1>5 DEF HostStep

\* Docker's and the shim's steps keep it: they touch no settled call, except that
\* a kill which comes too late ends with an error.
LEMMA ContainerKeeps ==
    ASSUME ContainerInv, NEW c \in Calls, DockerStep(c) \/ ShimStep(c) PROVE ContainerInv'
<1>1. call[c] \in CallState /\ CallInv(call[c]) /\ host \in {"up", "crashed"}
  BY DEF ContainerInv, TypeOK
<1>2. CASE Start(c)
  <2> DEFINE s == [call[c] EXCEPT !.ctr = "up", !.shim = "handler"]
             t == [call[c] EXCEPT !.ctr = "exited", !.code = "125"]
  <2>1. call[c].ctr = "none" /\ call[c].timer # "off" /\ host' = host
        /\ (call' = [call EXCEPT ![c] = s] \/ call' = [call EXCEPT ![c] = t])
    BY <1>2 DEF Start, Set
  <2>2. s \in CallState /\ CallInv(s)
    BY <1>1, <2>1 DEF CallState, CallInv
  <2>3. t \in CallState /\ CallInv(t)
    BY <1>1, <2>1 DEF CallState, CallInv
  <2> QED BY <1>1, <2>1, <2>2, <2>3, OneCall
<1>3. CASE Kill(c)
  <2> DEFINE s == [call[c] EXCEPT !.kill = "over", !.ctr = "exited", !.code = "137"]
             t == [call[c] EXCEPT !.kill = "over"]
  <2>1. host' = host /\ ( \/ call[c].ctr = "up" /\ call' = [call EXCEPT ![c] = s]
                          \/ call' = [call EXCEPT ![c] = t])
    BY <1>3 DEF Kill, Set
  <2>2. s \in CallState /\ t \in CallState
    BY <1>1 DEF CallState
  <2>3. call[c].ctr = "up" => CallInv(s)
    BY <1>1 DEF CallState, CallInv
  <2>4. CallInv(t)
    BY <1>1 DEF CallState, CallInv
  <2> QED BY <1>1, <2>1, <2>2, <2>3, <2>4, OneCall
<1>4. CASE OomKill(c)
  <2> DEFINE s == [call[c] EXCEPT !.ctr = "exited", !.code = "137"]
  <2>1. call[c].ctr = "up" /\ host' = host /\ call' = [call EXCEPT ![c] = s]
    BY <1>4 DEF OomKill, Set
  <2>2. s \in CallState /\ CallInv(s)
    BY <1>1, <2>1 DEF CallState, CallInv
  <2> QED BY <1>1, <2>1, <2>2, OneCall
<1>5. CASE BeginWrite(c)
  <2> DEFINE s == [call[c] EXCEPT !.shim = "writing", !.file = "partial"]
  <2>1. call[c].ctr = "up" /\ host' = host /\ call' = [call EXCEPT ![c] = s]
    BY <1>5 DEF BeginWrite, Set
  <2>2. s \in CallState /\ CallInv(s)
    BY <1>1, <2>1 DEF CallState, CallInv
  <2> QED BY <1>1, <2>1, <2>2, OneCall
<1>6. ASSUME NEW status \in {"success", "error"}, EndWrite(c, status) PROVE ContainerInv'
  <2> DEFINE s == [call[c] EXCEPT !.shim = "finished", !.file = status]
  <2>1. call[c].ctr = "up" /\ host' = host /\ call' = [call EXCEPT ![c] = s]
    BY <1>6 DEF EndWrite, Set
  <2>2. s \in CallState /\ CallInv(s)
    BY <1>1, <2>1 DEF CallState, CallInv
  <2> QED BY <1>1, <2>1, <2>2, OneCall
<1>7. CASE ShimExits(c)
  <2> DEFINE s == [call[c] EXCEPT !.ctr = "exited", !.code = "0"]
  <2>1. call[c].ctr = "up" /\ host' = host /\ call' = [call EXCEPT ![c] = s]
    BY <1>7 DEF ShimExits, Set
  <2>2. s \in CallState /\ CallInv(s)
    BY <1>1, <2>1 DEF CallState, CallInv
  <2> QED BY <1>1, <2>1, <2>2, OneCall
<1>8. CASE HandlerExits(c)
  <2>1. PICK code \in {"0", "1"} : call' = [call EXCEPT ![c] = [call[c] EXCEPT !.ctr = "exited", !.code = code]]
    BY <1>8 DEF HandlerExits, Set
  <2> DEFINE s == [call[c] EXCEPT !.ctr = "exited", !.code = code]
  <2>2. call[c].ctr = "up" /\ host' = host
    BY <1>8 DEF HandlerExits
  <2>3. s \in CallState /\ CallInv(s)
    BY <1>1, <2>2 DEF CallState, CallInv
  <2> QED BY <1>1, <2>1, <2>2, <2>3, OneCall
<1> QED BY <1>2, <1>3, <1>4, <1>5, <1>6, <1>7, <1>8 DEF DockerStep, ShimStep

\* The inductive invariant of the container executor.
THEOREM ContainerInvariant == Spec => []ContainerInv
<1>1. ContainerInv /\ [Next]_vars => ContainerInv'
  <2> SUFFICES ASSUME ContainerInv, [Next]_vars PROVE ContainerInv'
    OBVIOUS
  <2>1. CASE UNCHANGED vars
    BY <2>1 DEF vars, ContainerInv, TypeOK
  <2>2. CASE Next
    BY <2>2, HostKeeps, ContainerKeeps DEF Next
  <2> QED BY <2>1, <2>2
<1> QED BY <1>1, ContainerInit, PTL DEF Spec

\* A call that has returned has left neither a running container nor its
\* scratch directory behind, wherever the kill timer fell.
THEOREM ContainerNothingLeftBehind == Spec => []NothingLeftBehind
<1>1. ContainerInv => NothingLeftBehind
  BY DEF ContainerInv, CallInv, NothingLeftBehind
<1> QED BY <1>1, ContainerInvariant, PTL

\* "timeout" is never reported for a call whose handler's result was written.
THEOREM ContainerResultBeatsKill == Spec => []ResultBeatsKill
<1>1. ContainerInv => ResultBeatsKill
  BY DEF ContainerInv, CallInv, ResultBeatsKill
<1> QED BY <1>1, ContainerInvariant, PTL

\* Type correctness: the parts of a call stay within their ranges.
THEOREM ContainerTypeCorrect == Spec => []TypeOK
<1>1. ContainerInv => TypeOK
  BY DEF ContainerInv
<1> QED BY <1>1, ContainerInvariant, PTL

-----------------------------------------------------------------------------
(* The refinement of ExecutionRuntime, step by step.                       *)

\* How the refinement mapping sees the record of one call.
CallView(s) == CASE s.pc = "idle"    -> "idle"
                 [] s.pc = "running" -> "running"
                 [] s.pc = "done"    -> s.out
CodeView(s) == CASE s.file = "success" -> "returned"
                 [] s.file = "error"   -> "threw"
                 [] OTHER              -> "none"

AbsCall == [c \in Calls |-> CallView(call[c])]
AbsCode == [c \in Calls |-> CodeView(call[c])]

\* A step that replaces one record changes the abstract state at that call only.
LEMMA ViewOfOneCall ==
    ASSUME ContainerInv, NEW c \in Calls, NEW s, call' = [call EXCEPT ![c] = s]
    PROVE  /\ AbsCall' = [AbsCall EXCEPT ![c] = CallView(s)]
           /\ AbsCode' = [AbsCode EXCEPT ![c] = CodeView(s)]
           /\ CallView(s) = CallView(call[c]) => AbsCall' = AbsCall
           /\ CodeView(s) = CodeView(call[c]) => AbsCode' = AbsCode
<1>1. \A d \in Calls : call'[d] = IF d = c THEN s ELSE call[d]
  BY DEF ContainerInv, TypeOK
<1>2. /\ AbsCall' = [d \in Calls |-> CallView(call'[d])]
      /\ AbsCode' = [d \in Calls |-> CodeView(call'[d])]
  BY DEF AbsCall, AbsCode, CallView, CodeView
<1>3. \A d \in Calls : /\ CallView(call'[d]) = IF d = c THEN CallView(s) ELSE CallView(call[d])
                       /\ CodeView(call'[d]) = IF d = c THEN CodeView(s) ELSE CodeView(call[d])
  BY <1>1
<1>4. /\ AbsCall' = [AbsCall EXCEPT ![c] = CallView(s)]
      /\ AbsCode' = [AbsCode EXCEPT ![c] = CodeView(s)]
  BY <1>2, <1>3 DEF AbsCall, AbsCode
<1>5. CallView(s) = CallView(call[c]) => AbsCall' = AbsCall
  BY <1>4 DEF AbsCall
<1>6. CodeView(s) = CodeView(call[c]) => AbsCode' = AbsCode
  BY <1>4 DEF AbsCode
<1> QED BY <1>4, <1>5, <1>6

\* A call whose shim has written a whole result file is still a call.
LEMMA ResultWritten ==
    ASSUME NEW r \in CallState, NEW status \in {"success", "error"}
    PROVE  [r EXCEPT !.shim = "finished", !.file = status] \in CallState
<1>1. status \in {"absent", "partial", "success", "error"}
  OBVIOUS
<1>2. \A f \in {"absent", "partial", "success", "error"} :
        [r EXCEPT !.shim = "finished", !.file = f] \in CallState
  BY DEF CallState
<1> QED BY <1>1, <1>2

\* The abstract values of a call, by its state.
LEMMA ViewFacts ==
    ASSUME NEW s \in CallState
    PROVE  /\ s.pc = "idle" => CallView(s) = "idle"
           /\ s.pc = "running" => CallView(s) = "running"
           /\ s.pc = "done" => CallView(s) = s.out
           /\ s.file = "success" => CodeView(s) = "returned"
           /\ s.file = "error" => CodeView(s) = "threw"
           /\ s.file \in {"absent", "partial"} => CodeView(s) = "none"
  BY DEF CallState, CallView, CodeView

\* The steps of ExecutionRuntime in terms of the abstract state: a call begins.
LEMMA AbsBegin ==
    ASSUME NEW c \in Calls, host = "up", host' = host, AbsCall[c] = "idle",
           AbsCall' = [AbsCall EXCEPT ![c] = "running"], AbsCode' = AbsCode
    PROVE  Runtime!Next
  BY Zenon DEF AbsCall, AbsCode, CallView, CodeView, Runtime!Begin, Runtime!Next

\* The user's code ends.
LEMMA AbsCodeEnds ==
    ASSUME NEW c \in Calls, NEW how \in {"returned", "threw"}, host' = host,
           AbsCall[c] # "idle", AbsCode[c] = "none",
           AbsCall' = AbsCall, AbsCode' = [AbsCode EXCEPT ![c] = how]
    PROVE  Runtime!Next
  BY Zenon DEF AbsCall, AbsCode, CallView, CodeView, Runtime!CodeEnds, Runtime!Next

\* A call settles with what the code has done until then.
LEMMA AbsSettle ==
    ASSUME NEW c \in Calls, NEW o \in {"success", "error", "timeout"},
           NEW how \in {"none", "returned", "threw"},
           host = "up", host' = host, AbsCall[c] = "running", AbsCode[c] = how,
           Runtime!Fits(o, how),
           AbsCall' = [AbsCall EXCEPT ![c] = o], AbsCode' = [AbsCode EXCEPT ![c] = how]
    PROVE  Runtime!Next
<1>1. Runtime!Settle(c, o)
  BY Zenon DEF AbsCall, AbsCode, CallView, CodeView, Runtime!Settle
<1> QED BY <1>1, Zenon DEF Runtime!Next

\* The process ends.
LEMMA AbsDie ==
    ASSUME NEW c \in Calls, host' # "up", AbsCode' = AbsCode,
           \/ AbsCall' = AbsCall
           \/ AbsCall[c] = "idle" /\ AbsCall' = [AbsCall EXCEPT ![c] = "running"]
    PROVE  Runtime!Next
<1>1. Runtime!Die
  BY Zenon DEF AbsCall, AbsCode, CallView, CodeView, Runtime!Die
<1> QED BY <1>1, Zenon DEF Runtime!Next

\* Nothing happens.
LEMMA AbsStutter ==
    ASSUME host' = host, AbsCall' = AbsCall, AbsCode' = AbsCode
    PROVE  UNCHANGED Runtime!vars
  BY Zenon DEF AbsCall, AbsCode, CallView, CodeView, Runtime!vars

\* A step that the mapping does not show: the call is not settled, and its result
\* file is opened at most.
LEMMA Hidden ==
    ASSUME ContainerInv, NEW c \in Calls, NEW s, call' = [call EXCEPT ![c] = s], host' = host,
           s.pc = call[c].pc, s.out = call[c].out,
           s.file = call[c].file \/ (call[c].file = "absent" /\ s.file = "partial")
    PROVE  UNCHANGED Runtime!vars
<1>1. CallView(s) = CallView(call[c])
  BY DEF CallView
<1>2. CodeView(s) = CodeView(call[c])
  BY DEF CodeView
<1> QED BY <1>1, <1>2, ViewOfOneCall, AbsStutter

\* The host's steps: Begin begins a call, a failing spawn and a truncated result file
\* end the process, the timer is not seen, and the 'close' handler settles.
LEMMA HostRefines ==
    ASSUME ContainerInv, NEW c \in Calls, HostStep(c) PROVE [Runtime!Next]_(Runtime!vars)
<1>1. call[c] \in CallState /\ CallInv(call[c])
  BY DEF ContainerInv, TypeOK
<1>2. AbsCall[c] = CallView(call[c]) /\ AbsCode[c] = CodeView(call[c])
  BY DEF AbsCall, AbsCode
<1>3. CASE Begin(c)
  <2> DEFINE s == [call[c] EXCEPT !.pc = "running", !.timer = "armed", !.dir = TRUE]
  <2>1. host = "up" /\ call[c].pc = "idle" /\ call' = [call EXCEPT ![c] = s] /\ host' = host
    BY <1>3 DEF Begin, Set
  <2>2. s \in CallState /\ s.pc = "running" /\ s.file = call[c].file
    BY <1>1 DEF CallState
  <2>3. CallView(s) = "running" /\ CodeView(s) = CodeView(call[c]) /\ CallView(call[c]) = "idle"
    BY <1>1, <2>1, <2>2, ViewFacts DEF CodeView
  <2> HIDE DEF s
  <2>4. AbsCall' = [AbsCall EXCEPT ![c] = "running"] /\ AbsCode' = AbsCode
    BY <2>1, <2>3, ViewOfOneCall
  <2> QED BY <1>2, <2>1, <2>3, <2>4, AbsBegin
<1>4. CASE SpawnFails(c)
  <2> DEFINE s == [call[c] EXCEPT !.pc = "running", !.dir = TRUE]
  <2>1. call[c].pc = "idle" /\ call' = [call EXCEPT ![c] = s] /\ host' = "crashed"
    BY <1>4 DEF SpawnFails, Set
  <2>2. s \in CallState /\ s.pc = "running" /\ s.file = call[c].file
    BY <1>1 DEF CallState
  <2>3. CallView(s) = "running" /\ CodeView(s) = CodeView(call[c]) /\ CallView(call[c]) = "idle"
    BY <1>1, <2>1, <2>2, ViewFacts DEF CodeView
  <2> HIDE DEF s
  <2>4. AbsCall' = [AbsCall EXCEPT ![c] = "running"] /\ AbsCode' = AbsCode
    BY <2>1, <2>3, ViewOfOneCall
  <2> QED BY <1>2, <2>1, <2>3, <2>4, AbsDie
<1>5. CASE TimerFires(c)
  <2> DEFINE s == [call[c] EXCEPT !.timer = "fired", !.kill = "sent"]
  <2>1. call' = [call EXCEPT ![c] = s] /\ host' = host
    BY <1>5 DEF TimerFires, Set
  <2>2. s.pc = call[c].pc /\ s.out = call[c].out /\ s.file = call[c].file
    BY <1>1 DEF CallState
  <2> QED BY <2>1, <2>2, Hidden
<1>6. CASE Close(c)
  <2> DEFINE s == [call[c] EXCEPT !.timer = IF @ = "armed" THEN "off" ELSE @]
             t == [s EXCEPT !.pc = "done", !.dir = FALSE, !.out = Outcome(s)]
  <2>1. host = "up" /\ call[c].pc = "running" /\ call[c].ctr = "exited"
    BY <1>6 DEF Close
  <2>2. s \in CallState /\ s.pc = call[c].pc /\ s.out = call[c].out /\ s.file = call[c].file
    BY <1>1 DEF CallState
  <2>3. CallView(s) = CallView(call[c]) /\ CodeView(s) = CodeView(call[c])
    BY <2>2 DEF CallView, CodeView
  <2>4. CASE call[c].file = "partial" /\ host' = "crashed" /\ call' = [call EXCEPT ![c] = s]
    <3>1. AbsCall' = AbsCall /\ AbsCode' = AbsCode
      BY <2>3, <2>4, ViewOfOneCall
    <3> QED BY <2>4, <3>1, AbsDie
  <2>5. CASE call[c].file # "partial" /\ host' = host /\ call' = [call EXCEPT ![c] = t]
    <3>1. PICK o \in {"success", "error", "timeout"}, how \in {"none", "returned", "threw"} :
            o = Outcome(s) /\ how = CodeView(s) /\ Runtime!Fits(o, how)
      BY <2>2, <2>5, ViewFacts DEF Outcome, CallState, Runtime!Fits
    <3> HIDE DEF s
    <3>2. t.pc = "done" /\ t.out = o /\ t.file = s.file
      BY <2>2, <3>1 DEF CallState
    <3>3. CallView(t) = o /\ CodeView(t) = how
      BY <3>1, <3>2 DEF CallView, CodeView
    <3>4. AbsCall' = [AbsCall EXCEPT ![c] = o] /\ AbsCode' = [AbsCode EXCEPT ![c] = how]
      BY <2>5, <3>3, ViewOfOneCall
    <3>5. AbsCall[c] = "running" /\ AbsCode[c] = how
      BY <1>1, <1>2, <2>1, <2>3, <3>1, ViewFacts
    <3> QED BY <2>1, <2>5, <3>1, <3>4, <3>5, AbsSettle
  <2> QED BY <1>6, <2>4, <2>5 DEF Close, Set
<1> QED BY <1>3, <1>4, <1>5, <1>6 DEF HostStep

\* Docker's and the shim's steps: only the end of the write of the result file is
\* seen, as the end of the user's code.
LEMMA ContainerRefines ==
    ASSUME ContainerInv, NEW c \in Calls, DockerStep(c) \/ ShimStep(c)
    PROVE  [Runtime!Next]_(Runtime!vars)
<1>1. call[c] \in CallState /\ CallInv(call[c])
  BY DEF ContainerInv, TypeOK
<1>2. CASE Start(c)
  <2> DEFINE s == [call[c] EXCEPT !.ctr = "up", !.shim = "handler"]
             t == [call[c] EXCEPT !.ctr = "exited", !.code = "125"]
  <2>1. host' = host /\ (call' = [call EXCEPT ![c] = s] \/ call' = [call EXCEPT ![c] = t])
    BY <1>2 DEF Start, Set
  <2>2. s.pc = call[c].pc /\ s.out = call[c].out /\ s.file = call[c].file
    BY <1>1 DEF CallState
  <2>3. t.pc = call[c].pc /\ t.out = call[c].out /\ t.file = call[c].file
    BY <1>1 DEF CallState
  <2> HIDE DEF s, t
  <2> QED BY <2>1, <2>2, <2>3, Hidden
<1>3. CASE Kill(c)
  <2> DEFINE s == [call[c] EXCEPT !.kill = "over", !.ctr = "exited", !.code = "137"]
             t == [call[c] EXCEPT !.kill = "over"]
  <2>1. host' = host /\ (call' = [call EXCEPT ![c] = s] \/ call' = [call EXCEPT ![c] = t])
    BY <1>3 DEF Kill, Set
  <2>2. s.pc = call[c].pc /\ s.out = call[c].out /\ s.file = call[c].file
    BY <1>1 DEF CallState
  <2>3. t.pc = call[c].pc /\ t.out = call[c].out /\ t.file = call[c].file
    BY <1>1 DEF CallState
  <2> HIDE DEF s, t
  <2> QED BY <2>1, <2>2, <2>3, Hidden
<1>4. CASE OomKill(c)
  <2> DEFINE s == [call[c] EXCEPT !.ctr = "exited", !.code = "137"]
  <2>1. host' = host /\ call' = [call EXCEPT ![c] = s]
    BY <1>4 DEF OomKill, Set
  <2>2. s.pc = call[c].pc /\ s.out = call[c].out /\ s.file = call[c].file
    BY <1>1 DEF CallState
  <2> QED BY <2>1, <2>2, Hidden
<1>5. CASE BeginWrite(c)
  <2> DEFINE s == [call[c] EXCEPT !.shim = "writing", !.file = "partial"]
  <2>1. call[c].shim = "handler" /\ host' = host /\ call' = [call EXCEPT ![c] = s]
    BY <1>5 DEF BeginWrite, Set
  <2>2. s.pc = call[c].pc /\ s.out = call[c].out /\ call[c].file = "absent" /\ s.file = "partial"
    BY <1>1, <2>1 DEF CallState, CallInv
  <2> QED BY <2>1, <2>2, Hidden
<1>6. CASE ShimExits(c)
  <2> DEFINE s == [call[c] EXCEPT !.ctr = "exited", !.code = "0"]
  <2>1. host' = host /\ call' = [call EXCEPT ![c] = s]
    BY <1>6 DEF ShimExits, Set
  <2>2. s.pc = call[c].pc /\ s.out = call[c].out /\ s.file = call[c].file
    BY <1>1 DEF CallState
  <2> QED BY <2>1, <2>2, Hidden
<1>7. CASE HandlerExits(c)
  <2>1. PICK code \in {"0", "1"} : call' = [call EXCEPT ![c] = [call[c] EXCEPT !.ctr = "exited", !.code = code]]
    BY <1>7 DEF HandlerExits, Set
  <2> DEFINE s == [call[c] EXCEPT !.ctr = "exited", !.code = code]
  <2>2. host' = host
    BY <1>7 DEF HandlerExits
  <2>3. s.pc = call[c].pc /\ s.out = call[c].out /\ s.file = call[c].file
    BY <1>1 DEF CallState
  <2> QED BY <2>1, <2>2, <2>3, Hidden
<1>8. ASSUME NEW status \in {"success", "error"}, EndWrite(c, status)
      PROVE  [Runtime!Next]_(Runtime!vars)
  <2> DEFINE s == [call[c] EXCEPT !.shim = "finished", !.file = status]
             how == CodeView(s)
  <2>1. call[c].ctr = "up" /\ call[c].shim = "writing" /\ host' = host /\ call' = [call EXCEPT ![c] = s]
    BY <1>8 DEF EndWrite, Set
  <2> HIDE DEF how
  <2>2. s \in CallState
    BY <1>1, <1>8, ResultWritten
  <2>3. s.pc = call[c].pc /\ s.out = call[c].out /\ s.file = status
    BY <1>1 DEF CallState
  <2>4. how \in {"returned", "threw"} /\ CallView(s) = CallView(call[c])
    BY <1>8, <2>2, <2>3, ViewFacts DEF CallView, how
  <2>5. call[c].pc # "idle" /\ call[c].file = "partial"
    BY <1>1, <2>1 DEF CallInv
  <2>6. AbsCall[c] # "idle" /\ AbsCode[c] = "none"
    <3>1. CallView(call[c]) # "idle"
      BY <1>1, <2>5, ViewFacts DEF CallState
    <3> QED BY <1>1, <2>5, <3>1, ViewFacts DEF AbsCall, AbsCode
  <2>7. AbsCall' = AbsCall /\ AbsCode' = [AbsCode EXCEPT ![c] = how]
    BY <2>1, <2>4, ViewOfOneCall DEF how
  <2> QED BY <2>1, <2>4, <2>6, <2>7, AbsCodeEnds
<1> QED BY <1>2, <1>3, <1>4, <1>5, <1>6, <1>7, <1>8 DEF DockerStep, ShimStep

\* runIsolatedContainer implements ExecutionRuntime: it settles once, with an outcome
\* that agrees with what the shim reported, kills and crashes included.
THEOREM ContainerImplementsRuntime == Spec => ImplementsRuntime
<1>1. Init => Runtime!Init
  <2> SUFFICES ASSUME Init PROVE Runtime!Init
    OBVIOUS
  <2>1. \A c \in Calls : call[c].pc = "idle" /\ call[c].file = "absent"
    BY DEF Init, NewCall
  <2>2. AbsCall = [c \in Calls |-> "idle"] /\ AbsCode = [c \in Calls |-> "none"]
    BY <2>1 DEF AbsCall, AbsCode, CallView, CodeView
  <2>3. host = "up"
    BY DEF Init
  <2> QED BY <2>2, <2>3, Zenon DEF AbsCall, AbsCode, CallView, CodeView, Runtime!Init
<1>2. ContainerInv /\ [Next]_vars => [Runtime!Next]_(Runtime!vars)
  <2> SUFFICES ASSUME ContainerInv, [Next]_vars PROVE [Runtime!Next]_(Runtime!vars)
    OBVIOUS
  <2>1. CASE UNCHANGED vars
    <3>1. host' = host /\ AbsCall' = AbsCall /\ AbsCode' = AbsCode
      BY <2>1 DEF vars, AbsCall, AbsCode, CallView, CodeView
    <3> QED BY <3>1, AbsStutter
  <2>2. CASE Next
    BY <2>2, HostRefines, ContainerRefines DEF Next
  <2> QED BY <2>1, <2>2
<1> QED BY <1>1, <1>2, ContainerInvariant, PTL DEF Spec, ImplementsRuntime, Runtime!Spec
=============================================================================
