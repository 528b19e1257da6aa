---------------------------- MODULE MCExecutors ----------------------------
(***************************************************************************)
(* The two execution runtimes side by side, each in a process of its own:  *)
(* a worker that calls containers, and a CLI that calls user code in its   *)
(* own process.  Both are to keep the promise of ExecutionRuntime.         *)
(***************************************************************************)
EXTENDS ContainerRun

CONSTANT LocalCalls     \* calls of executeFunction

VARIABLES proc, ex

Local == INSTANCE InProcessExecutor WITH Calls <- LocalCalls

ExecutorsInit == Init /\ Local!Init

ExecutorsNext == \/ Next /\ UNCHANGED <<proc, ex>>
                 \/ Local!Next /\ UNCHANGED vars

\* The fairness of both.
ExecutorsSpec ==
    /\ ExecutorsInit /\ [][ExecutorsNext]_<<vars, proc, ex>>
    /\ \A c \in Calls : /\ WF_vars(TimerFires(c)) /\ WF_vars(Close(c))
                        /\ WF_vars(Start(c)) /\ WF_vars(Kill(c))
    /\ \A c \in LocalCalls : WF_<<proc, ex>>(Local!TimerFires(c))

\* A late rejection of a handler does not take the CLI's process down.
LocalLateRejectionHarmless == Local!LateRejectionHarmless

\* The CLI's process does not end while a call is open.
LocalNoCallAbandoned == Local!NoCallAbandoned

\* executeFunction returns, unless user code blocks or crashes the process.
LocalEveryCallReturns == Local!EveryCallReturns

\* executeFunction implements ExecutionRuntime.
LocalImplementsRuntime == Local!ImplementsRuntime
=============================================================================
