------------------------------ MODULE BuildJob ------------------------------
(***************************************************************************)
(* What the build pipeline promises to a client that submits a build and   *)
(* polls GET /functions/:name/builds/:id and the list of versions: a build *)
(* is PENDING until it either is FAILED or, in one step, is SUCCESS and    *)
(* has the next version number of its function; that outcome is final; and *)
(* builds go only with their function.                                     *)
(***************************************************************************)
EXTENDS Naturals, FiniteSets

CONSTANTS Builds, Fns, NoFn

VARIABLE job    \* job[b]: a build as a client sees it; num 0: no version

Init == job = [b \in Builds |-> [st |-> "none", fn |-> NoFn, num |-> 0]]

Submit(b, f) ==
    /\ job[b].st = "none"
    /\ job' = [job EXCEPT ![b] = [st |-> "PENDING", fn |-> f, num |-> 0]]

VersionsOf(f) == {b \in Builds : job[b].fn = f /\ job[b].st = "SUCCESS"}

Succeed(b) ==
    /\ job[b].st = "PENDING"
    /\ job' = [job EXCEPT ![b] =
                 [@ EXCEPT !.st = "SUCCESS", !.num = Cardinality(VersionsOf(job[b].fn)) + 1]]

Fail(b) ==
    /\ job[b].st = "PENDING"
    /\ job' = [job EXCEPT ![b].st = "FAILED"]

DeleteFunction(f) ==
    job' = [b \in Builds |-> IF job[b].fn = f THEN [st |-> "deleted", fn |-> f, num |-> 0]
                             ELSE job[b]]

Next ==
    \/ \E b \in Builds : Succeed(b) \/ Fail(b) \/ \E f \in Fns : Submit(b, f)
    \/ \E f \in Fns : DeleteFunction(f)

Spec == Init /\ [][Next]_job
=============================================================================
