---------------------------- MODULE MCShardClerk ----------------------------
(* Bounds of the clerks: see ShardClerk.cfg. *)
EXTENDS ShardClerk

CONSTANTS ck, mck, v

\* Group 1 has two servers, group 2 has one.
Sizes == [g \in Gids |-> IF g = 1 THEN 2 ELSE 1]

\* Both groups join, then the shard moves or its group leaves.
Plan == {[name |-> "Join", gids |-> {1, 2}], [name |-> "Move", gids |-> {2}],
         [name |-> "Leave", gids |-> {1}]}
=============================================================================
