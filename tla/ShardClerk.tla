----------------------------- MODULE ShardClerk -----------------------------
(***************************************************************************)
(* The clerk of the sharded key/value service (shardkv/client.go): Get and *)
(* PutAppend look up the group of the key's shard in a configuration that  *)
(* the clerk keeps, try the servers of the group, and ask the controller   *)
(* for the latest configuration when none of them has done it.  The        *)
(* controller's clerk is CtrlerClerk; other clerks change configurations   *)
(* meanwhile, as the tests do (join, leave and Move).                      *)
(*                                                                         *)
(* The groups are external (the server is a skeleton), modelled as the     *)
(* clerk uses them: of each group one server is the leader, and at most    *)
(* one group serves the shard, which follows the configurations with some  *)
(* delay.  There is one key; PutAppend is a write of one value.            *)
(***************************************************************************)
EXTENDS CtrlerClerk

CONSTANTS
    KvClerks,  \* the clerks of the sharded service; the others are the tests'
    NServers,  \* NServers[g]: the number of servers of group g
    Values,    \* what is put
    NoValue    \* the value of a key that does not exist, ""

ASSUME ShardAssumption ==
    /\ KvClerks \subseteq Clerks
    /\ NServers \in [Gids -> Nat \ {0}]
    /\ NoValue \notin Values

VARIABLES
    serving,  \* the group that serves the shard, 0 for none
    leader,   \* the leader of each group, once stable
    value,    \* the value of the key
    \* for each KvClerk
    kpc, op, si, rpc, reply,
    cached,   \* ck.config
    done,     \* history: the operation was executed since it was begun
    held      \* history: the values the key had since a Get was begun

groupVars == <<serving, leader, value>>
clerkVars == <<kpc, op, si, rpc, reply, cached, done, held>>
shardVars == <<serviceVars, late, ctrlerVars, groupVars, clerkVars>>

Get == [name |-> "Get", value |-> NoValue]
Puts == [name : {"PutAppend"}, value : Values]
NoAnswer == [err |-> "", value |-> NoValue]

ShardInit ==
    /\ CtrlerInit
    /\ serving = 0
    /\ leader = [g \in Gids |-> 1]
    /\ value = NoValue
    /\ kpc = [k \in KvClerks |-> "idle"]
    /\ op = [k \in KvClerks |-> Get]
    /\ si = [k \in KvClerks |-> 1]
    /\ rpc = [k \in KvClerks |-> "none"]
    /\ reply = [k \in KvClerks |-> NoAnswer]
    /\ cached = [k \in KvClerks |-> Config0]
    /\ done = [k \in KvClerks |-> FALSE]
    /\ held = [k \in KvClerks |-> {}]

-----------------------------------------------------------------------------
(* The groups (external).                                                  *)

\* The shard moves to the group of the latest configuration, data included.
Handoff ==
    /\ serving # config.gid
    /\ serving' = config.gid
    /\ UNCHANGED <<serviceVars, late, ctrlerVars, leader, value, clerkVars>>

Write(v) ==
    /\ value' = v
    /\ held' = [k \in KvClerks |->
                    IF held[k] = {} THEN {} ELSE held[k] \cup {v}]

Answer(k, err, v) ==
    /\ rpc' = [rpc EXCEPT ![k] = "answered"]
    /\ reply' = [reply EXCEPT ![k] = [err |-> err, value |-> v]]
    /\ UNCHANGED <<serviceVars, late, ctrlerVars, serving, leader, kpc, op,
                   si, cached>>

\* A server of the group handles the call of k: it is the leader and serves
\* the shard, or it does not serve it, or it is not the leader.
ServerExecutes(k) ==
    /\ rpc[k] = "sent"
    /\ serving = cached[k].gid
    /\ stable => si[k] = leader[serving]
    /\ done' = [done EXCEPT ![k] = TRUE]
    /\ \/ /\ op[k].name = "Get"
          /\ Answer(k, IF value = NoValue THEN "ErrNoKey" ELSE "OK", value)
          /\ UNCHANGED <<value, held>>
       \/ /\ op[k].name = "PutAppend"
          /\ Answer(k, "OK", NoValue)
          /\ Write(op[k].value)

ServerRefuses(k) ==
    /\ rpc[k] = "sent"
    /\ \/ /\ serving # cached[k].gid
          /\ Answer(k, "ErrWrongGroup", NoValue)
       \/ /\ stable => si[k] # leader[cached[k].gid]
          /\ Answer(k, "ErrWrongLeader", NoValue)
    /\ UNCHANGED <<value, held, done>>

ServerExecutesLate(o) ==
    /\ o \in late /\ serving # 0
    /\ late' = late \ {o}
    /\ Write(o.value)
    /\ UNCHANGED <<serviceVars, ctrlerVars, serving, leader, kpc, op, si,
                   rpc, reply, cached, done>>

-----------------------------------------------------------------------------
(* The clerk.                                                              *)

\* srv.Call, on the i-th server of the group, with a reply of its own.
Call(k, i) ==
    /\ kpc' = [kpc EXCEPT ![k] = "call"]
    /\ si' = [si EXCEPT ![k] = i]
    /\ rpc' = [rpc EXCEPT ![k] = "sent"]
    /\ reply' = [reply EXCEPT ![k] = NoAnswer]

Sleep(k) ==
    /\ kpc' = [kpc EXCEPT ![k] = "sleep"]
    /\ si' = [si EXCEPT ![k] = 1]
    /\ rpc' = [rpc EXCEPT ![k] = "none"]
    /\ reply' = [reply EXCEPT ![k] = NoAnswer]

\* The loop begins with the shard's group, if configuration c lists it.
Lookup(k, c) == IF c.gid \in c.groups THEN Call(k, 1) ELSE Sleep(k)

\* Get or PutAppend is called.
Invoke(k, o) ==
    /\ kpc[k] = "idle"
    /\ Lookup(k, cached[k])
    /\ op' = [op EXCEPT ![k] = o]
    /\ done' = [done EXCEPT ![k] = FALSE]
    /\ held' = [held EXCEPT ![k] = IF o = Get THEN {value} ELSE {}]
    /\ UNCHANGED <<serviceVars, late, ctrlerVars, groupVars, cached>>

Success(o) == IF o = Get THEN {"OK", "ErrNoKey"} ELSE {"OK"}

\* Call returns ok: the operation returns, or the servers of this group are
\* given up, or the next one is tried.
Returns(k, ok) ==
    LET r == Decoded(ok, reply[k], NoAnswer)
        last == si[k] = NServers[cached[k].gid]
    IN  /\ kpc[k] = "call"
        /\ ok => rpc[k] = "answered"
        /\ ~ok => ~(stable /\ si[k] = leader[cached[k].gid])
        /\ \/ /\ ok /\ r.err \in Success(op[k])
              /\ kpc' = [kpc EXCEPT ![k] = "returned"]
              /\ rpc' = [rpc EXCEPT ![k] = "none"]
              /\ reply' = [reply EXCEPT ![k] = r]
              /\ UNCHANGED si
           \/ ok /\ r.err = "ErrWrongGroup" /\ Sleep(k)
           \/ /\ ~ok \/ r.err \notin Success(op[k]) \cup {"ErrWrongGroup"}
              /\ IF last THEN Sleep(k) ELSE Call(k, si[k] + 1)
        /\ \/ UNCHANGED late
           \/ /\ ~ok /\ rpc[k] = "sent" /\ op[k] # Get
              /\ Cardinality(late) < MaxLate
              /\ late' = late \cup {op[k]}
        /\ UNCHANGED <<serviceVars, ctrlerVars, groupVars, op, cached, done,
                       held>>

\* ck.sm.Query(-1)
Refresh(k) ==
    /\ kpc[k] = "sleep"
    /\ Begin(k, QueryOp)
    /\ kpc' = [kpc EXCEPT ![k] = "query"]
    /\ UNCHANGED <<groupVars, op, si, rpc, reply, cached, done, held>>

\* ck.config = ...
Refreshed_Bug(k) ==
    /\ kpc[k] = "query"
    /\ CtrlerDone(k)
    /\ cached' = IF cached[k].num = 0
                 THEN [cached EXCEPT ![k] = creply[k].config] ELSE cached
    /\ Lookup(k, cached'[k])
    /\ UNCHANGED <<groupVars, op, done, held>>

Refreshed(k) ==
    /\ kpc[k] = "query"
    /\ CtrlerDone(k)
    /\ cached' = [cached EXCEPT ![k] = creply[k].config]
    /\ Lookup(k, cached'[k])
    /\ UNCHANGED <<groupVars, op, done, held>>

\* The caller of Get or PutAppend goes on.
Done(k) ==
    /\ kpc[k] = "returned"
    /\ kpc' = [kpc EXCEPT ![k] = "idle"]
    /\ op' = [op EXCEPT ![k] = Get]
    /\ si' = [si EXCEPT ![k] = 1]
    /\ reply' = [reply EXCEPT ![k] = NoAnswer]
    /\ done' = [done EXCEPT ![k] = FALSE]
    /\ held' = [held EXCEPT ![k] = {}]
    /\ UNCHANGED <<serviceVars, late, ctrlerVars, groupVars, rpc, cached>>

ClerkStep(k) ==
    \/ ServerExecutes(k) \/ ServerRefuses(k)
    \/ \E ok \in BOOLEAN : Returns(k, ok)
    \/ Refresh(k) \/ Refreshed(k)
    \/ CtrlerStep(k) /\ UNCHANGED <<groupVars, clerkVars>>

\* join, leave and Move of the tests; they move a shard to a group that has
\* joined.
Ask(c, o) ==
    /\ o.name = "Move" => o.gids \subseteq config.groups
    /\ config.num < MaxNum
    /\ Begin(c, o)

\* Leaders have been elected and stay, the network is reliable.
Stabilize ==
    /\ ~stable
    /\ stable' = TRUE
    /\ \/ cleader' = 1 /\ leader' = [g \in Gids |-> 1]
       \/ cleader' = NCtrlers /\ leader' = NServers
    /\ UNCHANGED <<config, late, ctrlerVars, serving, value, clerkVars>>

ShardNext ==
    \/ \E k \in KvClerks : \/ \E o \in {Get} \cup Puts : Invoke(k, o)
                           \/ ClerkStep(k) \/ Done(k)
    \/ /\ \E c \in Clerks \ KvClerks :
             \/ \E o \in Asked : Ask(c, o)
             \/ CtrlerStep(c) \/ CtrlerDone(c)
       /\ UNCHANGED <<groupVars, clerkVars>>
    \/ \E o \in late \cap Asked : CtrlerHandlesLate(o) /\ UNCHANGED <<groupVars, clerkVars>>
    \/ \E o \in late \cap Puts : ServerExecutesLate(o)
    \/ Handoff
    \/ Stabilize

ShardSpec == ShardInit /\ [][ShardNext]_shardVars

\* Once stable, handlers return, the clerks run and shards are handed over.
ShardFairSpec ==
    /\ ShardSpec
    /\ WF_shardVars(stable /\ Handoff)
    /\ \A k \in KvClerks : WF_shardVars(stable /\ ClerkStep(k))
-----------------------------------------------------------------------------
(* Properties.                                                             *)

\* Retries, failed calls and servers that are not in charge never count as
\* done: what an operation returns is the result of an execution during the
\* call.  Query returns a configuration no older than the latest at its call,
\* and what the tests asked of the controller has been done; Get returns a
\* value that the key had during the call, and a put has been executed.
ResultsAreReal ==
    /\ \A c \in Clerks : cpc[c] = "returned" =>
          executed[c] /\ creply[c].config.num >= began[c]
    /\ \A k \in KvClerks : kpc[k] = "returned" =>
          /\ done[k]
          /\ op[k] = Get => reply[k].value \in held[k]

\* "keeps trying forever": once leaders stay and calls to them succeed, and
\* some group has the shard for good, an operation returns, however stale the
\* clerk's configuration is and whichever server is the leader.
ClerksReturn ==
    \A k \in KvClerks :
        <>[](stable /\ config.gid # 0) => []<>(kpc[k] \in {"idle", "returned"})
=============================================================================
