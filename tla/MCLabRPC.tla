------------------------------ MODULE MCLabRPC ------------------------------
(* Bounds of the simulated network and its clusters: see LabRPC.cfg. *)
EXTENDS Cluster

CONSTANTS k1, s1, s2, ck

AllEnds == [of : {s1, s2, ck}, inst : 1 .. MaxInstances, to : {s1, s2}]
=============================================================================
