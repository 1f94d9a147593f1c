----------------------------- MODULE CtrlerClerk ----------------------------
(***************************************************************************)
(* The clerk of the shard controller (shardctrler/client.go): Query, Join, *)
(* Leave and Move try one server after the other until one that is not the *)
(* wrong leader answers.                                                   *)
(*                                                                         *)
(* The controller is external (its server is a skeleton).  It is modelled  *)
(* as the clerk and the tests use it: a replicated service with a sequence *)
(* of configurations of which one server, the leader, executes operations. *)
(* There is one shard.  A call is what LabRPC shows of one: if it returns  *)
(* true a handler has executed it and this is the handler's reply; if it   *)
(* returns false it was or was not executed, or will be later.             *)
(***************************************************************************)
EXTENDS Naturals, FiniteSets

CONSTANTS
    Clerks,
    NCtrlers,  \* controller servers
    Gids,      \* replica groups, positive numbers
    Asked,     \* what the tests ask of the controller: Join, Leave, Move
    MaxNum,    \* bounds the configurations
    MaxLate    \* bounds the requests that are executed after their call failed

ASSUME CtrlerAssumption ==
    /\ NCtrlers \in Nat \ {0}
    /\ Gids \subseteq Nat \ {0}
    /\ Asked \subseteq [name : {"Join", "Leave", "Move"}, gids : SUBSET Gids]
    /\ MaxNum \in Nat /\ MaxLate \in Nat

VARIABLES
    config,   \* the latest configuration
    stable,   \* the network is reliable, leaders stay
    cleader,  \* the controller's leader, once stable
    late,     \* requests that will be executed although their call failed
    \* for each clerk
    cpc,      \* where it is in the loop
    cop,      \* the operation: what is called, for which groups
    ci,       \* the server it calls
    crpc,     \* the call: "none", "sent" or "answered"
    creply,   \* reply, declared anew for each call
    executed, \* history: the operation was executed since it was begun
    began     \* history: config.num when a Query was begun

serviceVars == <<config, stable, cleader>>
ctrlerVars == <<cpc, cop, ci, crpc, creply, executed, began>>

\* Configuration 0: no groups, the shard belongs to the invalid group 0.
Config0 == [num |-> 0, gid |-> 0, groups |-> {}]
Configs == [num : 0 .. MaxNum, gid : Gids \cup {0}, groups : SUBSET Gids]

\* The zero value of a reply: a WrongLeader that is false.
NoReply == [wrong |-> FALSE, config |-> Config0]

QueryOp == [name |-> "Query", gids |-> {}]

CtrlerInit ==
    /\ config = Config0
    /\ stable = FALSE
    /\ cleader = 1
    /\ late = {}
    /\ cpc = [c \in Clerks |-> "idle"]
    /\ cop = [c \in Clerks |-> QueryOp]
    /\ ci = [c \in Clerks |-> 1]
    /\ crpc = [c \in Clerks |-> "none"]
    /\ creply = [c \in Clerks |-> NoReply]
    /\ executed = [c \in Clerks |-> FALSE]
    /\ began = [c \in Clerks |-> 0]

-----------------------------------------------------------------------------
(* The controller (external).                                              *)

\* The controller chooses the group of the shard among those that are left.
Executed(o, new) ==
    LET groups == CASE o.name = "Join" -> config.groups \cup o.gids
                    [] o.name = "Leave" -> config.groups \ o.gids
                    [] OTHER -> config.groups
    IN  IF o.name = "Query" THEN new = config
        ELSE /\ config.num < MaxNum
             /\ new \in [num : {config.num + 1}, gid : groups \cup {0},
                         groups : {groups}]
             /\ (new.gid = 0) <=> (groups = {})
             /\ o.name = "Move" => new.gid \in o.gids

\* A server handles the call of c.  Until the system is stable, any server
\* may be the leader when it is asked.
CtrlerHandles(c) ==
    /\ crpc[c] = "sent"
    /\ crpc' = [crpc EXCEPT ![c] = "answered"]
    /\ \/ /\ stable => ci[c] = cleader
          /\ \E new \in Configs :
                /\ Executed(cop[c], new)
                /\ config' = new
                /\ creply' = [creply EXCEPT ![c].config =
                                 IF cop[c] = QueryOp THEN new ELSE Config0]
          /\ executed' = [executed EXCEPT ![c] = TRUE]
       \/ /\ stable => ci[c] # cleader
          /\ creply' = [creply EXCEPT ![c].wrong = TRUE]
          /\ UNCHANGED <<config, executed>>
    /\ UNCHANGED <<stable, cleader, late, cpc, cop, ci, began>>

\* What was started on behalf of a call that failed is executed after all.
CtrlerHandlesLate(o) ==
    /\ o \in late
    /\ late' = late \ {o}
    /\ \E new \in Configs : Executed(o, new) /\ config' = new
    /\ UNCHANGED <<stable, cleader, ctrlerVars>>

-----------------------------------------------------------------------------
(* The clerk.                                                              *)

\* srv.Call with a reply of its own.
CtrlerCall(c, i) ==
    /\ cpc' = [cpc EXCEPT ![c] = "call"]
    /\ ci' = [ci EXCEPT ![c] = i]
    /\ crpc' = [crpc EXCEPT ![c] = "sent"]
    /\ creply' = [creply EXCEPT ![c] = NoReply]

\* Query, Join, Leave or Move.
Begin(c, o) ==
    /\ cpc[c] = "idle"
    /\ cop' = [cop EXCEPT ![c] = o]
    /\ CtrlerCall(c, 1)
    /\ executed' = [executed EXCEPT ![c] = FALSE]
    /\ began' = [began EXCEPT ![c] = IF o = QueryOp THEN config.num ELSE 0]
    /\ UNCHANGED <<serviceVars, late>>

\* ok && reply.WrongLeader == false
Accepts_Bug(ok, reply) == reply.wrong = FALSE

Accepts(ok, reply) == ok /\ reply.wrong = FALSE

\* What is in reply when Call has returned ok: it is filled in only if true.
Decoded(ok, reply, zero) == IF ok THEN reply ELSE zero

\* Call returns ok.  The operation returns, or the next server is tried; after
\* the last one the clerk sleeps and begins again with the first.
CtrlerReturns(c, ok) ==
    LET reply == Decoded(ok, creply[c], NoReply)
    IN  /\ cpc[c] = "call"
        /\ ok => crpc[c] = "answered"
        /\ ~ok => ~(stable /\ ci[c] = cleader)
        /\ \/ /\ Accepts(ok, reply)
              /\ cpc' = [cpc EXCEPT ![c] = "returned"]
              /\ crpc' = [crpc EXCEPT ![c] = "none"]
              /\ creply' = [creply EXCEPT ![c] = reply]
              /\ UNCHANGED ci
           \/ /\ ~Accepts(ok, reply)
              /\ CtrlerCall(c, IF ci[c] < NCtrlers THEN ci[c] + 1 ELSE 1)
        /\ \/ UNCHANGED late
           \/ /\ ~ok /\ crpc[c] = "sent" /\ cop[c] # QueryOp
              /\ Cardinality(late) < MaxLate
              /\ late' = late \cup {cop[c]}
        /\ UNCHANGED <<serviceVars, cop, executed, began>>

\* The caller goes on with the result.
CtrlerDone(c) ==
    /\ cpc[c] = "returned"
    /\ cpc' = [cpc EXCEPT ![c] = "idle"]
    /\ cop' = [cop EXCEPT ![c] = QueryOp]
    /\ ci' = [ci EXCEPT ![c] = 1]
    /\ creply' = [creply EXCEPT ![c] = NoReply]
    /\ executed' = [executed EXCEPT ![c] = FALSE]
    /\ began' = [began EXCEPT ![c] = 0]
    /\ UNCHANGED <<serviceVars, late, crpc>>

CtrlerStep(c) ==
    \/ CtrlerHandles(c)
    \/ \E ok \in BOOLEAN : CtrlerReturns(c, ok)
=============================================================================
