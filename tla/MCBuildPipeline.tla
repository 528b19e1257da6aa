-------------------------- MODULE MCBuildPipeline --------------------------
(***************************************************************************)
(* Instances of BuildPipeline for TLC.  The .cfg files choose the sizes;   *)
(* the functions f1, f2, ... get their names and accounts here.            *)
(***************************************************************************)
EXTENDS BuildPipeline, TLC

CONSTANTS u1, u2, f1, hello

\* All function ids belong to one account and have names of their own.
DistinctNames == [f \in Fns |-> f]
OneUser       == [f \in Fns |-> u1]

\* Every function id has the same name: one registered after the other is removed.
SameName      == [f \in Fns |-> hello]

\* ... or each has an account of its own.
TwoUsers      == [f \in Fns |-> IF f = f1 THEN u1 ELSE u2]

ApiSymmetry == Permutations(Apis)
=============================================================================
