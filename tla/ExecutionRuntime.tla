-------------------------- MODULE ExecutionRuntime --------------------------
(***************************************************************************)
(* What a call of executeFunction or of executeVersionedFunction promises  *)
(* its caller: the promise settles at most once, with an ExecutionOutcome  *)
(* that agrees with what the user's code did.                              *)
(***************************************************************************)
CONSTANT Calls

VARIABLES
    alive,  \* is the calling process up?
    call,   \* call[c]: "idle", "running", or the outcome it settled with
    code    \* code[c]: how the user's code ended, as the caller could know it

vars == <<alive, call, code>>

Init ==
    /\ alive = TRUE
    /\ call = [c \in Calls |-> "idle"]
    /\ code = [c \in Calls |-> "none"]

Begin(c) ==
    /\ alive /\ call[c] = "idle"
    /\ call' = [call EXCEPT ![c] = "running"]
    /\ UNCHANGED <<alive, code>>

\* The handler returns or throws: in time, or after the caller has given up.
CodeEnds(c, how) ==
    /\ call[c] # "idle" /\ code[c] = "none"
    /\ code' = [code EXCEPT ![c] = how]
    /\ UNCHANGED <<alive, call>>

\* A result is what the code returned, and a code that has ended is no timeout.
Fits(outcome, how) ==
    \/ outcome = "success" /\ how = "returned"
    \/ outcome = "error"   /\ how # "returned"
    \/ outcome = "timeout" /\ how = "none"

\* The call settles, with what the code had done until then or does just now.
Settle(c, outcome) ==
    /\ alive /\ call[c] = "running"
    /\ \E how \in {"none", "returned", "threw"} :
         /\ code[c] \in {"none", how}
         /\ Fits(outcome, how)
         /\ code' = [code EXCEPT ![c] = how]
    /\ call' = [call EXCEPT ![c] = outcome]
    /\ UNCHANGED alive

\* A call that fails before any user code runs settles as it begins.
Refuse(c) ==
    /\ alive /\ call[c] = "idle"
    /\ call' = [call EXCEPT ![c] = "error"]
    /\ UNCHANGED <<alive, code>>

\* The process ends, with a call it has just begun or not.
Die ==
    /\ alive' = FALSE
    /\ \/ UNCHANGED call
       \/ \E c \in Calls : call[c] = "idle" /\ call' = [call EXCEPT ![c] = "running"]
    /\ UNCHANGED code

Next ==
    \/ \E c \in Calls :
         \/ Begin(c) \/ Refuse(c)
         \/ \E how \in {"returned", "threw"} : CodeEnds(c, how)
         \/ \E outcome \in {"success", "error", "timeout"} : Settle(c, outcome)
    \/ Die

Spec == Init /\ [][Next]_vars
=============================================================================
