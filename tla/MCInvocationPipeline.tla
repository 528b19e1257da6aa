------------------------ MODULE MCInvocationPipeline ------------------------
(***************************************************************************)
(* Instances of InvocationPipeline for TLC.                                *)
(***************************************************************************)
EXTENDS InvocationPipeline, TLC

\* One API process serves every request.
OneApi == [r \in Requests |-> CHOOSE a \in Apis : TRUE]

RequestSymmetry == Permutations(Requests)
WorkerSymmetry  == Permutations(Workers)
Symmetry        == RequestSymmetry \cup WorkerSymmetry

\* To find a counterexample faster: only behaviours in which no two requests are in
\* progress at once.
OneAtATime == Cardinality({r \in Requests : InProgress(r)}) <= 1
=============================================================================
