------------------------- MODULE InProcessExecutor -------------------------
(***************************************************************************)
(* executeFunction of executor.ts: user code runs in the caller's own      *)
(* process, on the caller's event loop, and its promise races a timer.     *)
(* The process is the CLI of run.ts, which makes one call, or a test that  *)
(* makes several.                                                          *)
(*                                                                         *)
(* One action per turn of the event loop: the continuation after           *)
(* Promise.race and its finally block run before the next timer or I/O     *)
(* callback, so they belong to the turn that settles the race.             *)
(***************************************************************************)
CONSTANT Calls

VARIABLES
    proc,   \* "up", "stuck" in synchronous user code, "crashed" or "exited"
    ex      \* ex[c]: the state of one call

vars == <<proc, ex>>

\* `code` is handlerPromise, `esc` whether user code has thrown outside it.
ExecState == [pc    : {"idle", "race", "done"},
              timer : {"off", "armed"},
              code  : {"none", "pending", "returned", "threw"},
              esc   : BOOLEAN,
              out   : {"none", "success", "error", "timeout"}]

NewExec == [pc |-> "idle", timer |-> "off", code |-> "none", esc |-> FALSE, out |-> "none"]

Init == proc = "up" /\ ex = [c \in Calls |-> NewExec]

Set(c, s) == ex' = [ex EXCEPT ![c] = s]

\* return from executeFunction; the finally block clears the timer.
Settled(s, out) == [s EXCEPT !.pc = "done", !.timer = "off", !.out = out]

-----------------------------------------------------------------------------
\* The module does not load, or exports no handler: no user code is called.
LoadFails(c) ==
    /\ proc = "up" /\ ex[c].pc = "idle"
    /\ Set(c, [ex[c] EXCEPT !.pc = "done", !.out = "error"])
    /\ UNCHANGED proc

\* The module loads; the handler is called and the timer armed.
CallHandlerUntimed(c) ==        \* faulty variant: no timer
    /\ proc = "up" /\ ex[c].pc = "idle"
    /\ Set(c, [ex[c] EXCEPT !.pc = "race", !.code = "pending"])
    /\ UNCHANGED proc

CallHandler(c) ==
    /\ proc = "up" /\ ex[c].pc = "idle"
    /\ Set(c, [ex[c] EXCEPT !.pc = "race", !.code = "pending", !.timer = "armed"])
    /\ UNCHANGED proc

\* handlerPromise settles.  It wins the race, or is too late and nobody looks:
\* the no-op catch keeps a late rejection from being an unhandled one.
HandlerSettlesUnguarded(c, how) ==  \* faulty variant: without the no-op catch
    /\ proc = "up" /\ ex[c].code = "pending"
    /\ LET s == [ex[c] EXCEPT !.code = how] IN
       IF ex[c].pc = "race"
       THEN Set(c, Settled(s, IF how = "returned" THEN "success" ELSE "error")) /\ UNCHANGED proc
       ELSE Set(c, s) /\ proc' = IF how = "threw" THEN "crashed" ELSE proc

HandlerSettlesAgain(c, how) ==      \* faulty variant: a late result replaces the outcome
    /\ proc = "up" /\ ex[c].code = "pending"
    /\ Set(c, Settled([ex[c] EXCEPT !.code = how], IF how = "returned" THEN "success" ELSE "error"))
    /\ UNCHANGED proc

HandlerSettles(c, how) ==
    /\ proc = "up" /\ ex[c].code = "pending"
    /\ LET s == [ex[c] EXCEPT !.code = how] IN
       Set(c, IF ex[c].pc = "race"
              THEN Settled(s, IF how = "returned" THEN "success" ELSE "error") ELSE s)
    /\ UNCHANGED proc

\* The timer rejects with a TimeoutMarker, and the handler runs on.
TimerFires(c) ==
    /\ proc = "up" /\ ex[c].timer = "armed"
    /\ Set(c, Settled(ex[c], "timeout"))
    /\ UNCHANGED proc

-----------------------------------------------------------------------------
(* What user code can do to the process it runs in.                        *)

\* It runs in the module's body, which begins the call, or from then on at any time:
\* in the handler, or in callbacks that outlive it.
UserCode(c) == [ex[c] EXCEPT !.pc = IF @ = "idle" THEN "race" ELSE @]

\* A synchronous loop: no timer fires any more.
Blocks(c) ==
    /\ proc = "up"
    /\ Set(c, UserCode(c))
    /\ proc' = "stuck"

\* process.exit, or an exception in a callback outside handlerPromise.
Escapes(c) ==
    /\ proc = "up"
    /\ Set(c, [UserCode(c) EXCEPT !.esc = TRUE])
    /\ proc' = "crashed"

\* Nothing is left on the event loop (user code may keep a handle open, a promise
\* that never settles is none); the CLI also exits at once on bad arguments.
Exit ==
    /\ proc = "up"
    /\ \A c \in Calls : ex[c].timer = "off"
    /\ proc' = "exited"
    /\ UNCHANGED ex

-----------------------------------------------------------------------------
Next ==
    \/ \E c \in Calls :
         \/ LoadFails(c) \/ CallHandler(c) \/ TimerFires(c) \/ Blocks(c) \/ Escapes(c)
         \/ \E how \in {"returned", "threw"} : HandlerSettles(c, how)
    \/ Exit

Spec == Init /\ [][Next]_vars

\* Timers fire while the event loop turns; nothing is assumed of user code.
FairSpec == Spec /\ \A c \in Calls : WF_vars(TimerFires(c))

-----------------------------------------------------------------------------
(* Properties.                                                             *)

\* A handler that rejects after its call has timed out does not take the process
\* down: only an exception outside every promise does.
LateRejectionHarmless ==
    proc = "crashed" => \E c \in Calls : ex[c].esc

\* The process never ends under a call: as long as the race is open the timer is
\* on the event loop, whatever the handler waits for.
NoCallAbandoned ==
    proc = "exited" => \A c \in Calls : ex[c].pc # "race"

\* Every call returns, unless user code blocks the event loop or throws past it.
EveryCallReturns ==
    \A c \in Calls : ex[c].pc = "race" ~> ex[c].pc = "done" \/ proc \in {"stuck", "crashed"}

\* "Contains every way a handler can misbehave: it throws, it hangs past its timeout,
\* it's synchronous": every call returns, whatever the handler does.  One that hangs
\* synchronously keeps the timer from firing, and one that throws in a callback of its
\* own ends the process.
EveryHandlerContained ==
    \A c \in Calls : ex[c].pc = "race" ~> ex[c].pc = "done"

Runtime ==
    INSTANCE ExecutionRuntime WITH
        alive <- proc \in {"up", "stuck"},
        call  <- [c \in Calls |-> CASE ex[c].pc = "idle" -> "idle"
                                    [] ex[c].pc = "race" -> "running"
                                    [] ex[c].pc = "done" -> ex[c].out],
        code  <- [c \in Calls |-> IF ex[c].code \in {"returned", "threw"} THEN ex[c].code ELSE "none"]

\* executeFunction keeps the promise of an execution runtime.
ImplementsRuntime == Runtime!Spec
=============================================================================
