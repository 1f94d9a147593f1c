----------------------------- MODULE MRBuckets ------------------------------
(***************************************************************************)
(* The buckets of a MapReduce job (Lab2, package mr): there is one for     *)
(* each reduce task.                                                       *)
(***************************************************************************)
EXTENDS Integers

CONSTANT NReduce  \* nReduceTasks, the number of buckets

Buckets == 0 .. NReduce - 1

ASSUME NReduceAssumption == NReduce \in Nat \ {0}
=============================================================================
