---------------------------- MODULE MCMapReduce ----------------------------
(***************************************************************************)
(* Small deployments of MapReduce for TLC.                                 *)
(***************************************************************************)
EXTENDS MapReduce, TLC

CONSTANTS w1, w2, w3, m1, m2, d1, d2, a1, a2

\* One machine: a common directory and the default address, as in test-mr.sh.
OneDir == [w \in Workers |-> d1]
OneAddr == [w \in Workers |-> a1]

\* One machine for each of two workers, as in the docker deployment.
TwoDirs == (w1 :> d1) @@ (w2 :> d2)
TwoAddrs == (w1 :> a1) @@ (w2 :> a2)

NoTasks == {}
AllTasks == Tasks

Symmetry == Permutations(MapTasks)
WorkerSymmetry == Permutations(MapTasks) \cup Permutations(Workers)
=============================================================================
