---------------------------- MODULE MCRaftHarness ---------------------------
(* Bounds of the Raft test harness: see RaftHarness.cfg. *)
EXTENDS RaftHarness, TLC

CommandSymmetry == Permutations(Commands)
=============================================================================
