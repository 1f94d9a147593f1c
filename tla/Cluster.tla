------------------------------- MODULE Cluster ------------------------------
(***************************************************************************)
(* The clusters in which the tests run the servers of the labs: servers    *)
(* and clerks on the simulated network (LabRPC), as the test harnesses set *)
(* them up, connect, partition, shut down and restart them.                *)
(*                                                                         *)
(* There are three harnesses: "raft" is raft/config.go, "kv" is            *)
(* kvraft/config.go and shardctrler/config.go, which are the same in this  *)
(* respect, and "shard" is shardkv/config.go.  One goroutine, the test,    *)
(* calls them, so that operations do not overlap; a shutdown is several    *)
(* steps as seen from the network.  An operation that enables or disables  *)
(* several ends is one step: a call reads the flag of its own end only.    *)
(***************************************************************************)
EXTENDS LabRPC

CONSTANT Clerks

\* An end belongs to an instance of a server, or to a clerk (instance 1).
ASSUME ClusterAssumption ==
    /\ Ends = [of : Servers \cup Clerks, inst : Instances, to : Servers]
    /\ Servers \cap Clerks = {}

VARIABLES
    harness,    \* which of them
    group,      \* shardkv: the replica group of each server
    connected   \* raft: cfg.connected

clusterVars == <<harness, group, connected>>
allVars == <<rpcVars, clusterVars>>

\* cfg.endnames: the ends of the last instance that was started, to the
\* servers (of its group).
Endnames ==
    {e \in Ends : /\ e.of \in Servers /\ e.inst = instance[e.of]
                  /\ harness = "shard" => group[e.of] = group[e.to]}

Links(i, to) == {e \in Endnames : \/ e.of = i /\ e.to \in to
                                  \/ e.of \in to /\ e.to = i}

EndsOf(x, i) == {e \in Ends : e.of = x /\ e.inst = i}

\* In shardkv the servers may belong to different groups.
Groups == IF harness = "shard" THEN [Servers -> 1 .. 2] ELSE [Servers -> {1}]

\* make_config: all servers are started and connected, there is no clerk.
ClusterInit ==
    /\ RPCInit
    /\ reliable \in BOOLEAN
    /\ harness \in {"raft", "kv", "shard"}
    /\ group \in Groups
    /\ connected = [s \in Servers |-> TRUE]
    /\ connections = [e \in Ends |-> IF e.of \in Servers /\ e.inst = 1
                                     THEN e.to ELSE NoServer]
    /\ enabled = [e \in Ends |-> e.of \in Servers /\ e.inst = 1]

\* The test runs and is not inside a shutdown.
Testing == ~done /\ \A s \in Servers : life[s] \in {"up", "down"}
AllUp == \A s \in Servers : life[s] = "up"

-----------------------------------------------------------------------------
(* Connecting.                                                             *)

\* raft: connect, disconnect.  The tests connect servers that are up, while
\* others may be down.
connect_Bug(i) ==
    /\ harness = "raft" /\ Testing /\ life[i] = "up"
    /\ connected' = [connected EXCEPT ![i] = TRUE]
    /\ Enable(Links(i, Servers), TRUE)
    /\ UNCHANGED <<connections, reliable, longReordering, done, receiving,
                   serverVars, callVars, harness, group>>

connect(i) ==
    /\ harness = "raft" /\ Testing /\ life[i] = "up"
    /\ connected' = [connected EXCEPT ![i] = TRUE]
    /\ Enable(Links(i, {j \in Servers : connected'[j]}), TRUE)
    /\ UNCHANGED <<connections, reliable, longReordering, done, receiving,
                   serverVars, callVars, harness, group>>

disconnect(i) ==
    /\ harness = "raft" /\ Testing /\ life[i] = "up"
    /\ connected' = [connected EXCEPT ![i] = FALSE]
    /\ Enable(Links(i, Servers), FALSE)
    /\ UNCHANGED <<connections, reliable, longReordering, done, receiving,
                   serverVars, callVars, harness, group>>

\* kv: connectUnlocked inside p1 and inside p2, disconnectUnlocked between
\* them.  ConnectAll is the case p1 = all.  The tests do so when all servers
\* are up.
partition(p1) ==
    LET p2 == Servers \ p1
        Side(e) == IF e.of \in p1 THEN p1 ELSE p2
    IN  /\ harness = "kv" /\ Testing /\ AllUp
        /\ enabled' = [e \in Ends |-> IF e \in Endnames THEN e.to \in Side(e)
                                      ELSE enabled[e]]
        /\ UNCHANGED <<connections, reliable, longReordering, done, receiving,
                       serverVars, callVars, clusterVars>>

MakeEnds(es, on) ==
    /\ connections' = [e \in Ends |-> IF e \in es THEN e.to ELSE connections[e]]
    /\ Enable(on, TRUE)

\* kv: makeClient.
makeClient(k, to) ==
    /\ harness = "kv" /\ Testing
    /\ \A e \in EndsOf(k, 1) : connections[e] = NoServer
    /\ MakeEnds(EndsOf(k, 1), {e \in EndsOf(k, 1) : e.to \in to})
    /\ UNCHANGED <<reliable, longReordering, done, receiving, serverVars,
                   callVars, clusterVars>>

\* shard: makeClient.  The ends to the servers are made by make_end, one for
\* each call, and are enabled at once.
makeShardClient(k) ==
    /\ harness = "shard" /\ Testing
    /\ \A e \in EndsOf(k, 1) : connections[e] = NoServer
    /\ MakeEnds(EndsOf(k, 1), EndsOf(k, 1))
    /\ UNCHANGED <<reliable, longReordering, done, receiving, serverVars,
                   callVars, clusterVars>>

\* kv: ConnectClient, DisconnectClient.
ConnectClient(k, to, b) ==
    /\ harness = "kv" /\ Testing
    /\ \A e \in EndsOf(k, 1) : connections[e] # NoServer
    /\ Enable({e \in EndsOf(k, 1) : e.to \in to}, b)
    /\ UNCHANGED <<connections, reliable, longReordering, done, receiving,
                   serverVars, callVars, clusterVars>>

-----------------------------------------------------------------------------
(* Shutting down and restarting.                                           *)

\* The first step of a shutdown disables ends.  DeleteServer and
\* CopyPersister follow.
CutOff(s, es) ==
    /\ Testing /\ life[s] = "up"
    /\ life' = [life EXCEPT ![s] = "disconnected"]
    /\ Enable(es, FALSE)
    /\ UNCHANGED <<connections, reliable, longReordering, done, receiving,
                   instance, persister, callVars, harness, group>>

crash1(i) ==
    /\ harness = "raft"
    /\ CutOff(i, Links(i, Servers))
    /\ connected' = [connected EXCEPT ![i] = FALSE]

ShutdownServer(i) ==
    /\ harness = "kv"
    /\ CutOff(i, Links(i, Servers))
    /\ UNCHANGED connected

\* shard: ShutdownServer disables what the server sends through endnames.
ShutdownShardServer(i) ==
    /\ harness = "shard"
    /\ CutOff(i, {e \in Endnames : e.of = i})
    /\ UNCHANGED connected

\* A new instance with fresh ends.
Restart(s, on) ==
    /\ Testing
    /\ AddServer(s)
    /\ MakeEnds(EndsOf(s, instance[s] + 1), on)
    /\ UNCHANGED <<reliable, longReordering, done, receiving, persister,
                   callVars, clusterVars>>

start1(i) == harness = "raft" /\ Restart(i, {})

StartServer(i) == harness = "kv" /\ Restart(i, {})

\* shard: StartServer enables the ends, and make_end each that it makes.
StartShardServer(i) ==
    harness = "shard" /\ Restart(i, EndsOf(i, instance[i] + 1))

\* raft, kv: cleanup.
cleanup ==
    /\ harness # "shard" /\ Testing
    /\ Cleanup
    /\ UNCHANGED clusterVars

\* shard: cleanup, after the shutdown of all groups.
cleanupShards ==
    /\ harness = "shard" /\ Testing
    /\ \A s \in Servers : life[s] = "down"
    /\ Cleanup
    /\ UNCHANGED clusterVars

Tests ==
    \/ \E s \in Servers :
          \/ connect(s) \/ disconnect(s) \/ crash1(s) \/ start1(s)
          \/ ShutdownServer(s) \/ StartServer(s)
          \/ ShutdownShardServer(s) \/ StartShardServer(s)
    \/ \E to \in SUBSET Servers :
          \/ partition(to)
          \/ \E k \in Clerks : \/ makeClient(k, to)
                               \/ \E b \in BOOLEAN : ConnectClient(k, to, b)
    \/ \E k \in Clerks : makeShardClient(k)
    \/ cleanup \/ cleanupShards
    \/ /\ \/ \E b \in BOOLEAN : /\ harness = "raft" /\ Testing
                                /\ Reliable(b) \/ LongReordering(b)
          \/ \E s \in Servers : DeleteServer(s) \/ CopyPersister(s)
       /\ UNCHANGED clusterVars

-----------------------------------------------------------------------------
\* Any instance calls on its ends, also one that was shut down.
Step(c) ==
    /\ \/ \E e \in Ends : Call(c, e)
       \/ NetworkStep(c) \/ HandlerStep(c)
    /\ UNCHANGED clusterVars

ClusterNext ==
    \/ Tests
    \/ StopReceiving /\ UNCHANGED clusterVars
    \/ \E c \in Calls : Step(c)

ClusterSpec == ClusterInit /\ [][ClusterNext]_allVars

\* The goroutines and timers of the network run; nothing is assumed of the
\* tests or of the handlers.
ClusterFairSpec ==
    /\ ClusterSpec
    /\ \A c \in Calls : WF_allVars(NetworkStep(c) /\ UNCHANGED clusterVars)
-----------------------------------------------------------------------------
(* Properties.                                                             *)

\* The links between servers, through any sequence of partitions, shutdowns
\* and restarts: "so that old crashed instance's ClientEnds can't send", an
\* enabled end belongs to the instance that is running; and two servers that
\* are up can call each other or neither can.  Ends that shardkv's make_end
\* has made are the exception: nothing ever disables them, so an instance
\* that was shut down goes on sending to other groups.
LinksSound ==
    Testing =>
        \A e \in Ends :
            e.of \in Servers /\ group[e.of] = group[e.to] =>
                /\ enabled[e] => e.inst = instance[e.of] /\ life[e.of] = "up"
                /\ e \in Endnames /\ life[e.of] = "up" /\ life[e.to] = "up" =>
                      enabled[e] = enabled[[of |-> e.to,
                                            inst |-> instance[e.to],
                                            to |-> e.of]]
=============================================================================
