--------------------------- MODULE ClusterProofs ----------------------------
(***************************************************************************)
(* Proofs about the simulated network and the clusters on it, for every    *)
(* set of servers, clerks and calls, every number of restarts and each of  *)
(* the three harnesses.                                                    *)
(***************************************************************************)
EXTENDS Cluster, TLAPS

\* What is known of a call before its last isServerDead: the handler runs
\* once, on an instance that was started, and saves into its Persister.
CallSound(c) ==
    /\ pc[c] \in {"idle", "send", "process", "deliver"} => handler[c] = "none"
    /\ pc[c] = "check" => handler[c] = "returned"
    /\ pc[c] \in {"deliver", "wait"} \/ handler[c] # "none"
          => seen[c].inst <= instance[seen[c].server]
    /\ handler[c] \in {"saved", "returned"}
          => c \in persister[seen[c].server][seen[c].inst]

\* The inductive invariant of the calls.
CallInv ==
    /\ RPCTypeOK
    /\ \A c \in Calls : CallSound(c)
    /\ AckedIsSaved

\* The end in the other direction, of the instance that was started last.
Back(e) == [of |-> e.to, inst |-> instance[e.to], to |-> e.of]

\* The ends of the servers to servers of their own group.
Inside(e) == e.of \in Servers /\ group[e.of] = group[e.to]

\* An end of a server that can send belongs to the running instance.
OnlyRunning ==
    \A e \in Ends : Inside(e) /\ enabled[e] =>
        e.inst = instance[e.of] /\ life[e.of] = "up"

\* Servers that are up can call each other, or neither can.
Symmetric ==
    \A e \in Ends :
        /\ Inside(e) /\ e.inst = instance[e.of]
        /\ life[e.of] = "up" /\ life[e.to] = "up"
        => enabled[e] = enabled[Back(e)]

\* raft, kv: no end leads to a server that is down, so that a restarted one
\* starts cut off in both directions.
NoneToDown ==
    harness # "shard" =>
        \A e \in Ends : Inside(e) /\ enabled[e] => life[e.to] = "up"

\* shard: a server that is up can send to its group.
AllInGroup ==
    harness = "shard" =>
        \A e \in Ends :
            Inside(e) /\ e.inst = instance[e.of] /\ life[e.of] = "up"
            => enabled[e]

\* raft: cfg.connected is only about servers that are up.
ConnectedUp ==
    harness = "raft" => \A s \in Servers : connected[s] => life[s] = "up"

\* The types of the harness's own state.
ClusterTypeOK ==
    /\ harness \in {"raft", "kv", "shard"}
    /\ group \in [Servers -> 1 .. 2]
    /\ harness # "shard" => \A s \in Servers : group[s] = 1
    /\ connected \in [Servers -> BOOLEAN]

\* The inductive invariant of the links.
LinkInv ==
    /\ ClusterTypeOK
    /\ OnlyRunning
    /\ Symmetric
    /\ NoneToDown
    /\ AllInGroup
    /\ ConnectedUp

-----------------------------------------------------------------------------
(* The calls: steps of the network and of the handlers.                    *)

\* A step of one call, in which what the servers have saved can only grow,
\* leaves the other calls as they are.
LEMMA OneCall ==
    ASSUME CallInv, RPCTypeOK', NEW c \in Calls,
           UNCHANGED <<life, instance>>,
           \A s \in Servers : \A i \in 1 .. MaxInstances + 1 :
              persister[s][i] \subseteq persister'[s][i],
           \A d \in Calls \ {c} :
              pc'[d] = pc[d] /\ handler'[d] = handler[d] /\ seen'[d] = seen[d],
           CallSound(c)',
           pc'[c] \in {"late", "ok"} => c \in Saved(seen[c].server)'
    PROVE  CallInv'
<1>1. \A d \in Calls \ {c} :
         pc[d] \in {"deliver", "wait", "check", "late", "ok"}
            \/ handler[d] # "none"
         => seen[d].server \in Servers /\ seen[d].inst \in Instances
  BY DEF CallInv, RPCTypeOK
<1>2. Instances \subseteq 1 .. MaxInstances + 1
  BY RPCAssumption DEF RPCAssumption, Instances
<1>3. \A d \in Calls \ {c} : CallSound(d)'
  <2> SUFFICES ASSUME NEW d \in Calls \ {c} PROVE CallSound(d)'
    OBVIOUS
  <2>1. CallSound(d)
    BY DEF CallInv
  <2>2. \/ seen[d].server \in Servers /\ seen[d].inst \in 1 .. MaxInstances + 1
        \/ handler[d] = "none"
    BY <1>1, <1>2
  <2> QED
    BY <2>1, <2>2 DEF CallSound
<1>4. \A d \in Calls \ {c} :
         pc'[d] \in {"late", "ok"} => d \in Saved(seen[d].server)'
  <2> SUFFICES ASSUME NEW d \in Calls \ {c}, pc[d] \in {"late", "ok"}
               PROVE  d \in Saved(seen[d].server)'
    OBVIOUS
  <2> DEFINE s == seen[d].server
             i == IF life[s] = "down" THEN instance[s] + 1 ELSE instance[s]
  <2>1. s \in Servers /\ s = seen'[d].server
    BY <1>1
  <2>2. i \in 1 .. MaxInstances + 1
    BY <2>1, RPCAssumption DEF RPCAssumption, CallInv, RPCTypeOK, Instances
  <2>3. d \in persister[s][i]
    BY DEF CallInv, AckedIsSaved, Saved
  <2> QED
    BY <2>1, <2>2, <2>3 DEF Saved
<1>5. AckedIsSaved'
  BY <1>4 DEF AckedIsSaved
<1> QED
  BY <1>3, <1>5 DEF CallInv

\* A step that is about the progress of one call only: it keeps the types if
\* the call has met a server by the time it is delivered.
LEMMA ProgressTypes ==
    ASSUME RPCTypeOK, NEW c \in Calls, NEW p \in PCs, Goto(c, p),
           UNCHANGED <<netVars, serverVars, handler, end, seen>>,
           p \in {"deliver", "wait", "check", "late", "ok"} =>
              seen[c].server \in Servers /\ seen[c].inst \in Instances
    PROVE  RPCTypeOK'
BY DEF RPCTypeOK, Goto, netVars, serverVars

\* The steps of processReq and Call up to the last isServerDead.
LEMMA ProgressKeeps ==
    ASSUME CallInv, NEW c \in Calls,
           \/ \E e \in Ends : Call(c, e)
           \/ Transmit(c) \/ Process(c) \/ Deliver(c) \/ Poll(c)
           \/ HandlerReply(c)
    PROVE  CallInv'
<1> USE DEF Goto
<1>1. UNCHANGED serverVars
  BY DEF Call, Transmit, Process, Deliver, Poll, HandlerReply
<1>2. /\ pc \in [Calls -> PCs] /\ end \in [Calls -> Ends]
      /\ handler \in [Calls -> {"none", "running", "saved", "returned"}]
      /\ seen \in [Calls -> [server : Servers \cup {NoServer},
                             inst : 0 .. MaxInstances,
                             reliable : BOOLEAN, reorder : BOOLEAN]]
  BY DEF CallInv, RPCTypeOK
<1>3. CallSound(c)
  BY DEF CallInv
<1>4. CASE \E e \in Ends : Call(c, e)
  <2>1. RPCTypeOK'
    BY <1>4 DEF CallInv, RPCTypeOK, Call, PCs, netVars, serverVars
  <2>2. CallSound(c)' /\ pc'[c] \notin {"late", "ok"}
    BY <1>1, <1>2, <1>3, <1>4 DEF Call, CallSound, serverVars
  <2>3. \A d \in Calls \ {c} :
           pc'[d] = pc[d] /\ handler'[d] = handler[d] /\ seen'[d] = seen[d]
    BY <1>2, <1>4 DEF Call
  <2> QED
    BY <1>1, <2>1, <2>2, <2>3, OneCall DEF serverVars
<1>5. CASE Transmit(c)
  <2>1. RPCTypeOK'
    BY <1>5, ProgressTypes DEF CallInv, Transmit, PCs, Returned
  <2>2. CallSound(c)' /\ pc'[c] \notin {"late", "ok"}
    BY <1>1, <1>2, <1>3, <1>5 DEF Transmit, CallSound, serverVars
  <2>3. \A d \in Calls \ {c} :
           pc'[d] = pc[d] /\ handler'[d] = handler[d] /\ seen'[d] = seen[d]
    BY <1>2, <1>5 DEF Transmit
  <2> QED
    BY <1>1, <2>1, <2>2, <2>3, OneCall DEF serverVars
<1>6. CASE Process(c)
  <2>1. CASE /\ Goto(c, "failed")
             /\ UNCHANGED <<netVars, serverVars, handler, end, seen>>
    <3>1. RPCTypeOK'
      BY <2>1, ProgressTypes DEF CallInv, PCs, Returned
    <3>2. CallSound(c)' /\ pc'[c] \notin {"late", "ok"}
      BY <1>1, <1>2, <1>3, <1>6, <2>1 DEF Process, CallSound, serverVars
    <3>3. \A d \in Calls \ {c} :
             pc'[d] = pc[d] /\ handler'[d] = handler[d] /\ seen'[d] = seen[d]
      BY <1>2, <2>1
    <3> QED
      BY <1>1, <3>1, <3>2, <3>3, OneCall DEF serverVars
  <2>2. CASE \E s \in Servers \cup {NoServer} :
                /\ s = connections[end[c]] /\ Registered(s) # 0
                /\ seen' = [seen EXCEPT ![c] =
                              [server |-> s, inst |-> Registered(s),
                               reliable |-> reliable,
                               reorder |-> longReordering]]
                /\ Goto(c, "deliver")
                /\ UNCHANGED <<netVars, serverVars, handler, end>>
    <3>1. PICK s \in Servers \cup {NoServer} :
                /\ Registered(s) # 0
                /\ seen' = [seen EXCEPT ![c] =
                              [server |-> s, inst |-> Registered(s),
                               reliable |-> reliable,
                               reorder |-> longReordering]]
                /\ Goto(c, "deliver")
                /\ UNCHANGED <<netVars, serverVars, handler, end>>
      BY <2>2
    <3>2. /\ s \in Servers /\ Registered(s) = instance[s]
          /\ instance[s] \in Instances
      BY <3>1 DEF Registered, CallInv, RPCTypeOK
    <3>3. [server |-> s, inst |-> Registered(s), reliable |-> reliable,
           reorder |-> longReordering]
             \in [server : Servers \cup {NoServer}, inst : 0 .. MaxInstances,
                  reliable : BOOLEAN, reorder : BOOLEAN]
      BY <3>2 DEF Instances, CallInv, RPCTypeOK
    <3>4. /\ seen'[c].server = s /\ seen'[c].inst = instance[s]
          /\ \A d \in Calls \ {c} : seen'[d] = seen[d]
      BY <1>2, <3>1, <3>2
    <3>5. RPCTypeOK'
      BY <3>1, <3>2, <3>3, <3>4
         DEF CallInv, RPCTypeOK, PCs, netVars, serverVars
    <3>6. CallSound(c)' /\ pc'[c] \notin {"late", "ok"}
      <4>1. pc'[c] = "deliver" /\ handler'[c] = "none"
        BY <1>2, <1>3, <1>6, <3>1 DEF Process, CallSound
      <4>2. seen'[c].inst <= instance'[seen'[c].server]
        BY <1>1, <3>2, <3>4 DEF serverVars, Instances
      <4> QED
        BY <4>1, <4>2 DEF CallSound
    <3>7. \A d \in Calls \ {c} :
             pc'[d] = pc[d] /\ handler'[d] = handler[d] /\ seen'[d] = seen[d]
      BY <1>2, <3>1, <3>4
    <3> QED
      BY <1>1, <3>5, <3>6, <3>7, OneCall DEF serverVars
  <2>3. connections[end[c]] \in Servers \cup {NoServer}
    BY <1>2 DEF CallInv, RPCTypeOK
  <2> QED
    BY <1>6, <2>1, <2>2, <2>3 DEF Process
<1>7. CASE Deliver(c)
  <2>1. /\ pc[c] = "deliver"
        /\ seen[c].server \in Servers /\ seen[c].inst \in Instances
    BY <1>7 DEF Deliver, CallInv, RPCTypeOK
  <2>2. RPCTypeOK'
    BY <1>7, <2>1
       DEF CallInv, RPCTypeOK, Deliver, PCs, Returned, netVars, serverVars
  <2>3. CallSound(c)' /\ pc'[c] \notin {"late", "ok"}
    BY <1>1, <1>2, <1>3, <1>7 DEF Deliver, CallSound, serverVars
  <2>4. \A d \in Calls \ {c} :
           pc'[d] = pc[d] /\ handler'[d] = handler[d] /\ seen'[d] = seen[d]
    BY <1>2, <1>7 DEF Deliver
  <2> QED
    BY <1>1, <2>2, <2>3, <2>4, OneCall DEF serverVars
<1>8. CASE Poll(c) \/ HandlerReply(c)
  <2>1. /\ pc[c] = "wait"
        /\ seen[c].server \in Servers /\ seen[c].inst \in Instances
    BY <1>8 DEF Poll, HandlerReply, CallInv, RPCTypeOK
  <2>2. RPCTypeOK'
    BY <1>8, <2>1, ProgressTypes
       DEF CallInv, Poll, HandlerReply, PCs, Returned
  <2>3. CallSound(c)' /\ pc'[c] \notin {"late", "ok"}
    BY <1>1, <1>2, <1>3, <1>8 DEF Poll, HandlerReply, CallSound, serverVars
  <2>4. \A d \in Calls \ {c} :
           pc'[d] = pc[d] /\ handler'[d] = handler[d] /\ seen'[d] = seen[d]
    BY <1>2, <1>8 DEF Poll, HandlerReply
  <2> QED
    BY <1>1, <2>2, <2>3, <2>4, OneCall DEF serverVars
<1> QED
  BY <1>4, <1>5, <1>6, <1>7, <1>8

\* The last isServerDead: the call is acknowledged only if the instance that
\* has executed it is still registered, so that its Persister is the one the
\* server's next instance will be given.
LEMMA CheckKeeps ==
    ASSUME CallInv, NEW c \in Calls, Check(c) \/ LateReply(c)
    PROVE  CallInv'
<1> USE DEF Goto
<1>1. UNCHANGED serverVars
  BY DEF Check, LateReply
<1>2. /\ pc \in [Calls -> PCs] /\ CallSound(c)
      /\ pc[c] \in {"check", "late"}
      /\ seen[c].server \in Servers /\ seen[c].inst \in Instances
  BY DEF CallInv, RPCTypeOK, Check, LateReply
<1>3. RPCTypeOK'
  BY <1>2, ProgressTypes DEF CallInv, Check, LateReply, PCs, Returned
<1>4. CallSound(c)'
  BY <1>1, <1>2 DEF Check, LateReply, CallSound, serverVars
<1>5. ASSUME pc'[c] \in {"late", "ok"} PROVE c \in Saved(seen[c].server)'
  <2>1. seen' = seen
    BY DEF Check, LateReply
  <2>2. CASE Check(c)
    <3>1. handler[c] = "returned" /\ ~Dead(c)
      BY <1>2, <1>5, <2>2 DEF Check, CallSound
    <3>2. c \in persister[seen[c].server][seen[c].inst]
      BY <1>2, <3>1 DEF CallSound
    <3>3. /\ life[seen[c].server] \in {"up", "disconnected"}
          /\ instance[seen[c].server] = seen[c].inst
      BY <1>2, <3>1 DEF Dead, Registered, Instances
    <3> QED
      BY <1>1, <2>1, <3>2, <3>3 DEF Saved, serverVars
  <2>3. CASE LateReply(c)
    BY <1>1, <2>1, <2>3 DEF LateReply, CallInv, AckedIsSaved, Saved, serverVars
  <2> QED
    BY <2>2, <2>3
<1>6. \A d \in Calls \ {c} :
         pc'[d] = pc[d] /\ handler'[d] = handler[d] /\ seen'[d] = seen[d]
  BY <1>2 DEF Check, LateReply
<1> QED
  BY <1>1, <1>3, <1>4, <1>5, <1>6, OneCall DEF serverVars

\* The handler saves into the Persister of the instance it was started for,
\* which is not the server's any more if the server was restarted.
LEMMA HandlerKeeps ==
    ASSUME CallInv, NEW c \in Calls, HandlerStep(c)
    PROVE  CallInv'
<1>1. /\ pc' = pc /\ seen' = seen /\ end' = end /\ UNCHANGED <<life, instance>>
      /\ UNCHANGED netVars
  BY DEF HandlerStep, HandlerSaves, HandlerReturns, serverVars
<1>2. /\ handler \in [Calls -> {"none", "running", "saved", "returned"}]
      /\ persister \in [Servers -> [1 .. MaxInstances + 1 -> SUBSET Calls]]
      /\ CallSound(c) /\ handler[c] \in {"running", "saved"}
      /\ seen[c].server \in Servers /\ seen[c].inst \in Instances
  BY DEF CallInv, RPCTypeOK, HandlerStep, HandlerSaves, HandlerReturns
<1>3. Instances \subseteq 1 .. MaxInstances + 1
  BY RPCAssumption DEF RPCAssumption, Instances
<1> DEFINE s == seen[c].server
           i == seen[c].inst
<1>4. /\ persister' \in [Servers -> [1 .. MaxInstances + 1 -> SUBSET Calls]]
      /\ \A t \in Servers : \A j \in 1 .. MaxInstances + 1 :
            persister[t][j] \subseteq persister'[t][j]
      /\ handler'[c] \in {"saved", "returned"} => c \in persister'[s][i]
  <2>1. CASE HandlerSaves(c)
    <3>1. persister' = [persister EXCEPT ![s] =
                          [persister[s] EXCEPT ![i] = persister[s][i] \cup {c}]]
      BY <2>1 DEF HandlerSaves
    <3>2. persister[s] \in [1 .. MaxInstances + 1 -> SUBSET Calls]
          /\ i \in 1 .. MaxInstances + 1
      BY <1>2, <1>3
    <3>3. [persister[s] EXCEPT ![i] = persister[s][i] \cup {c}]
             \in [1 .. MaxInstances + 1 -> SUBSET Calls]
      BY <3>2
    <3> QED
      BY <1>2, <3>1, <3>2, <3>3
  <2>2. CASE HandlerReturns(c)
    BY <1>2, <2>2 DEF HandlerReturns, serverVars, CallSound
  <2> QED
    BY <2>1, <2>2 DEF HandlerStep
<1>5. /\ handler' \in [Calls -> {"none", "running", "saved", "returned"}]
      /\ \A d \in Calls \ {c} : handler'[d] = handler[d]
      /\ handler'[c] # "none"
  BY <1>2 DEF HandlerStep, HandlerSaves, HandlerReturns
<1>6. RPCTypeOK'
  BY <1>1, <1>2, <1>4, <1>5 DEF CallInv, RPCTypeOK, netVars
<1>7. CallSound(c)'
  <2>1. handler'[c] # "running"
    BY <1>2 DEF HandlerStep, HandlerSaves, HandlerReturns
  <2>2. handler'[c] \in {"saved", "returned"}
    BY <1>5, <2>1
  <2>3. pc[c] # "check"
    BY <1>2 DEF CallSound, HandlerStep, HandlerSaves, HandlerReturns
  <2> QED
    BY <1>1, <1>2, <1>4, <2>2, <2>3 DEF CallSound
<1>8. ASSUME pc'[c] \in {"late", "ok"} PROVE c \in Saved(seen[c].server)'
  <2> DEFINE n == IF life[s] = "down" THEN instance[s] + 1 ELSE instance[s]
  <2>1. n \in 1 .. MaxInstances + 1
    BY <1>2, RPCAssumption DEF RPCAssumption, CallInv, RPCTypeOK, Instances
  <2>2. c \in persister[s][n]
    BY <1>1, <1>8 DEF CallInv, AckedIsSaved, Saved
  <2> QED
    BY <1>1, <1>2, <1>4, <2>1, <2>2 DEF Saved
<1> QED
  BY <1>1, <1>4, <1>5, <1>6, <1>7, <1>8, OneCall

-----------------------------------------------------------------------------
(* The calls: what the tests do to the servers.                            *)

\* A step of the tests leaves every call where it is.  It keeps the
\* invariant if instances are only added, if the Persisters of the instances
\* started before stay as they are, and if the Persister that has a server's
\* state still has all that it had.
LEMMA ServersMove ==
    ASSUME CallInv, RPCTypeOK', UNCHANGED callVars,
           \A s \in Servers :
              /\ instance[s] <= instance'[s]
              /\ \A i \in 1 .. instance[s] : persister'[s][i] = persister[s][i]
              /\ Saved(s) \subseteq Saved(s)'
    PROVE  CallInv'
<1>1. \A c \in Calls : CallSound(c)'
  <2> SUFFICES ASSUME NEW c \in Calls PROVE CallSound(c)'
    OBVIOUS
  <2>1. CallSound(c)
    BY DEF CallInv
  <2>2. pc[c] \in {"deliver", "wait"} \/ handler[c] # "none" =>
           /\ seen[c].server \in Servers
           /\ seen[c].inst \in 1 .. instance[seen[c].server]
           /\ instance[seen[c].server] \in Nat
           /\ instance'[seen[c].server] \in Nat
    BY <2>1 DEF CallInv, RPCTypeOK, CallSound, Instances
  <2> QED
    BY <2>1, <2>2 DEF CallSound, callVars
<1>2. AckedIsSaved'
  <2> SUFFICES ASSUME NEW c \in Calls, pc[c] \in {"late", "ok"}
               PROVE  c \in Saved(seen[c].server)'
    BY DEF AckedIsSaved, callVars
  <2>1. c \in Saved(seen[c].server) /\ seen[c].server \in Servers
    BY DEF CallInv, AckedIsSaved, RPCTypeOK
  <2>2. Saved(seen[c].server) \subseteq Saved(seen[c].server)'
    BY <2>1 DEF callVars, Saved
  <2> QED
    BY <2>1, <2>2
<1> QED
  BY <1>1, <1>2 DEF CallInv

\* A step of the tests that only configures the network.
LEMMA NetworkSet ==
    ASSUME CallInv, UNCHANGED <<serverVars, callVars>>,
           enabled' \in [Ends -> BOOLEAN],
           connections' \in [Ends -> Servers \cup {NoServer}],
           reliable' \in BOOLEAN, longReordering' \in BOOLEAN,
           done' \in BOOLEAN, receiving' \in BOOLEAN, receiving' \/ done'
    PROVE  CallInv'
<1>1. RPCTypeOK'
  BY DEF CallInv, RPCTypeOK, serverVars, callVars
<1>2. \A s \in Servers :
         /\ instance[s] <= instance'[s]
         /\ \A i \in 1 .. instance[s] : persister'[s][i] = persister[s][i]
         /\ Saved(s) \subseteq Saved(s)'
  BY DEF CallInv, RPCTypeOK, Instances, serverVars, Saved
<1> QED
  BY <1>1, <1>2, ServersMove

\* The first step of a shutdown disables ends; what is saved stays where it
\* is.
LEMMA CutOffKeeps ==
    ASSUME CallInv, NEW s \in Servers, NEW es, CutOff(s, es)
    PROVE  CallInv'
<1>1. RPCTypeOK'
  BY DEF CallInv, RPCTypeOK, CutOff, Enable, callVars
<1>2. \A t \in Servers :
         /\ instance[t] <= instance'[t]
         /\ \A i \in 1 .. instance[t] : persister'[t][i] = persister[t][i]
         /\ Saved(t) \subseteq Saved(t)'
  BY DEF CallInv, RPCTypeOK, Instances, CutOff, Saved
<1> QED
  BY <1>1, <1>2, ServersMove DEF CutOff

\* Network.DeleteServer: the server is unregistered, which makes the calls
\* that are under way fail.
LEMMA DeleteKeeps ==
    ASSUME CallInv, NEW s \in Servers, DeleteServer(s)
    PROVE  CallInv'
<1>1. RPCTypeOK'
  BY DEF CallInv, RPCTypeOK, DeleteServer, netVars, callVars
<1>2. \A t \in Servers :
         /\ instance[t] <= instance'[t]
         /\ \A i \in 1 .. instance[t] : persister'[t][i] = persister[t][i]
         /\ Saved(t) \subseteq Saved(t)'
  BY DEF CallInv, RPCTypeOK, Instances, DeleteServer, Saved
<1> QED
  BY <1>1, <1>2, ServersMove DEF DeleteServer

\* persister.Copy: from here on the copy is the Persister that has the
\* server's state, and it starts with all that was acknowledged.
LEMMA CopyKeeps ==
    ASSUME CallInv, NEW s \in Servers, CopyPersister(s)
    PROVE  CallInv'
<1> DEFINE n == instance[s]
<1>1. /\ persister \in [Servers -> [1 .. MaxInstances + 1 -> SUBSET Calls]]
      /\ life \in [Servers -> {"up", "disconnected", "deleted", "down"}]
      /\ instance \in [Servers -> Instances]
      /\ instance' = instance
      /\ life[s] = "deleted" /\ life' = [life EXCEPT ![s] = "down"]
  BY DEF CallInv, RPCTypeOK, CopyPersister
<1>2. n \in Nat /\ n \in 1 .. MaxInstances + 1 /\ n + 1 \in 1 .. MaxInstances + 1
  BY <1>1, RPCAssumption DEF RPCAssumption, Instances
<1>3. persister' = [persister EXCEPT ![s] =
                      [persister[s] EXCEPT ![n + 1] = persister[s][n]]]
  BY DEF CopyPersister
<1>4. [persister[s] EXCEPT ![n + 1] = persister[s][n]]
         \in [1 .. MaxInstances + 1 -> SUBSET Calls]
  <2>1. /\ persister[s] \in [1 .. MaxInstances + 1 -> SUBSET Calls]
        /\ persister[s][n] \in SUBSET Calls
    BY <1>1, <1>2
  <2> HIDE DEF n
  <2> QED
    BY <1>2, <2>1
<1>5. /\ persister' \in [Servers -> [1 .. MaxInstances + 1 -> SUBSET Calls]]
      /\ persister'[s][n + 1] = persister[s][n]
      /\ \A i \in 1 .. n : persister'[s][i] = persister[s][i]
      /\ \A t \in Servers \ {s} : persister'[t] = persister[t]
  BY <1>1, <1>2, <1>3, <1>4
<1>6. RPCTypeOK'
  BY <1>1, <1>5 DEF CallInv, RPCTypeOK, CopyPersister, netVars, callVars
<1>7. \A t \in Servers : Saved(t) \subseteq Saved(t)'
  BY <1>1, <1>2, <1>5 DEF Saved
<1>8. \A t \in Servers :
         /\ instance[t] <= instance'[t]
         /\ \A i \in 1 .. instance[t] : persister'[t][i] = persister[t][i]
  BY <1>1, <1>5 DEF Instances
<1> QED
  BY <1>6, <1>7, <1>8, ServersMove DEF CopyPersister

\* A restart: the new instance has the copy that was taken when the old one
\* was shut down.
LEMMA RestartKeeps ==
    ASSUME CallInv, NEW s \in Servers, NEW on, Restart(s, on)
    PROVE  CallInv'
<1>1. /\ life \in [Servers -> {"up", "disconnected", "deleted", "down"}]
      /\ instance \in [Servers -> Instances]
      /\ persister' = persister
      /\ life[s] = "down" /\ life' = [life EXCEPT ![s] = "up"]
      /\ instance[s] < MaxInstances
      /\ instance' = [instance EXCEPT ![s] = instance[s] + 1]
  BY DEF CallInv, RPCTypeOK, Restart, AddServer
<1>2. instance' \in [Servers -> Instances]
  BY <1>1, RPCAssumption DEF RPCAssumption, Instances
<1>3. /\ enabled' \in [Ends -> BOOLEAN]
      /\ connections' \in [Ends -> Servers \cup {NoServer}]
  BY ClusterAssumption
     DEF ClusterAssumption, CallInv, RPCTypeOK, Restart, MakeEnds, Enable
<1>4. RPCTypeOK'
  BY <1>1, <1>2, <1>3 DEF CallInv, RPCTypeOK, Restart, callVars
<1>5. \A t \in Servers :
         /\ instance[t] <= instance'[t]
         /\ \A i \in 1 .. instance[t] : persister'[t][i] = persister[t][i]
         /\ Saved(t) \subseteq Saved(t)'
  BY <1>1 DEF Instances, Saved
<1> QED
  BY <1>4, <1>5, ServersMove DEF Restart

\* partition leaves every end enabled or disabled.
LEMMA PartitionTypes ==
    ASSUME enabled \in [Ends -> BOOLEAN], NEW p1 \in SUBSET Servers,
           partition(p1)
    PROVE  enabled' \in [Ends -> BOOLEAN]
<1> DEFINE On(e) == IF e \in Endnames
                    THEN e.to \in (IF e.of \in p1 THEN p1 ELSE Servers \ p1)
                    ELSE enabled[e]
<1>1. enabled' = [e \in Ends |-> On(e)]
  BY DEF partition
<1>2. \A e \in Ends : On(e) \in BOOLEAN
  <2> TAKE e \in Ends
  <2>1. CASE e \in Endnames
    BY <2>1
  <2>2. CASE e \notin Endnames
    BY <2>2
  <2> QED
    BY <2>1, <2>2
<1> HIDE DEF On
<1> QED
  BY <1>1, <1>2

\* Every step of the tests keeps what is known of the calls.
LEMMA TestsKeepCalls ==
    ASSUME CallInv, Tests
    PROVE  CallInv'
<1>1. /\ enabled \in [Ends -> BOOLEAN]
      /\ connections \in [Ends -> Servers \cup {NoServer}]
      /\ reliable \in BOOLEAN /\ longReordering \in BOOLEAN
      /\ done \in BOOLEAN /\ receiving \in BOOLEAN /\ (receiving \/ done)
  BY DEF CallInv, RPCTypeOK
<1>2. \A e \in Ends : e.to \in Servers
  BY ClusterAssumption DEF ClusterAssumption
<1>3. ASSUME NEW s \in Servers, connect(s) \/ disconnect(s) PROVE CallInv'
  BY <1>1, <1>3, NetworkSet DEF connect, disconnect, Enable
<1>4. ASSUME NEW s \in Servers,
             crash1(s) \/ ShutdownServer(s) \/ ShutdownShardServer(s)
      PROVE  CallInv'
  BY <1>4, CutOffKeeps DEF crash1, ShutdownServer, ShutdownShardServer
<1>5. ASSUME NEW s \in Servers,
             start1(s) \/ StartServer(s) \/ StartShardServer(s)
      PROVE  CallInv'
  BY <1>5, RestartKeeps DEF start1, StartServer, StartShardServer
<1>6. ASSUME NEW to \in SUBSET Servers, partition(to) PROVE CallInv'
  <2>1. enabled' \in [Ends -> BOOLEAN]
    BY <1>1, <1>6, PartitionTypes
  <2> QED
    BY <1>1, <1>6, <2>1, NetworkSet DEF partition
<1>7. ASSUME NEW k \in Clerks, NEW to \in SUBSET Servers,
             \/ makeClient(k, to) \/ makeShardClient(k)
             \/ \E b \in BOOLEAN : ConnectClient(k, to, b)
      PROVE  CallInv'
  <2>1. enabled' \in [Ends -> BOOLEAN]
    BY <1>1, <1>7
       DEF makeClient, makeShardClient, ConnectClient, MakeEnds, Enable
  <2>2. connections' \in [Ends -> Servers \cup {NoServer}]
    BY <1>1, <1>2, <1>7
       DEF makeClient, makeShardClient, ConnectClient, MakeEnds
  <2>3. UNCHANGED <<reliable, longReordering, done, receiving, serverVars,
                    callVars>>
    BY <1>7 DEF makeClient, makeShardClient, ConnectClient
  <2> QED
    BY <1>1, <2>1, <2>2, <2>3, NetworkSet
<1>8. CASE cleanup \/ cleanupShards
  BY <1>1, <1>8, NetworkSet DEF cleanup, cleanupShards, Cleanup
<1>9. ASSUME NEW b \in BOOLEAN, Reliable(b) \/ LongReordering(b) PROVE CallInv'
  BY <1>1, <1>9, NetworkSet DEF Reliable, LongReordering
<1>10. ASSUME NEW s \in Servers, DeleteServer(s) \/ CopyPersister(s)
       PROVE  CallInv'
  BY <1>10, DeleteKeeps, CopyKeeps
<1>11. {} \in SUBSET Servers
  OBVIOUS
<1> QED
  BY <1>3, <1>4, <1>5, <1>6, <1>7, <1>8, <1>9, <1>10, <1>11 DEF Tests

\* Every step of a cluster keeps what is known of the calls.
LEMMA CallsKept ==
    ASSUME CallInv, [ClusterNext]_allVars
    PROVE  CallInv'
<1>1. CASE Tests
  BY <1>1, TestsKeepCalls
<1>2. CASE StopReceiving
  <2>1. /\ UNCHANGED <<enabled, connections, reliable, longReordering, done,
                       serverVars, callVars>>
        /\ done /\ receiving' = FALSE
    BY <1>2 DEF StopReceiving
  <2> QED
    BY <2>1, NetworkSet DEF CallInv, RPCTypeOK
<1>3. ASSUME NEW c \in Calls, Step(c) PROVE CallInv'
  BY <1>3, ProgressKeeps, CheckKeeps, HandlerKeeps DEF Step, NetworkStep
<1>4. CASE UNCHANGED allVars
  <2>1. UNCHANGED <<netVars, serverVars, callVars>>
    BY <1>4 DEF allVars, rpcVars
  <2> QED
    BY <2>1, NetworkSet DEF netVars, CallInv, RPCTypeOK
<1> QED
  BY <1>1, <1>2, <1>3, <1>4 DEF ClusterNext

-----------------------------------------------------------------------------
(* The links.                                                              *)

\* What an end is, and that the end in the other direction is one too.
LEMMA EndFacts ==
    ASSUME RPCTypeOK, NEW e \in Ends
    PROVE  /\ e.of \in Servers \cup Clerks
           /\ e.inst \in Instances
           /\ e.to \in Servers
           /\ e.of \in Servers => Back(e) \in Ends
           /\ Back(e).of = e.to
           /\ Back(e).inst = instance[e.to]
           /\ Back(e).to = e.of
BY ClusterAssumption DEF ClusterAssumption, RPCTypeOK, Back

\* A step that starts or stops no server and leaves the ends of the servers
\* alone, whatever it does to those of the clerks.
LEMMA LinksKept ==
    ASSUME RPCTypeOK, LinkInv, UNCHANGED <<instance, clusterVars>>,
           \A s \in Servers : life'[s] = "up" <=> life[s] = "up",
           \A e \in Ends : e.of \in Servers => enabled'[e] = enabled[e]
    PROVE  LinkInv'
<1> USE EndFacts
<1>1. ClusterTypeOK' /\ ConnectedUp'
  BY DEF LinkInv, ClusterTypeOK, ConnectedUp, clusterVars
<1>2. OnlyRunning'
  BY DEF LinkInv, OnlyRunning, Inside, clusterVars
<1>3. Symmetric'
  <2> SUFFICES ASSUME NEW e \in Ends, Inside(e), e.inst = instance[e.of],
                      life[e.of] = "up", life[e.to] = "up"
               PROVE  enabled'[e] = enabled'[Back(e)]
    BY DEF Symmetric, Inside, Back, clusterVars
  <2> QED
    BY DEF LinkInv, Symmetric, Inside
<1>4. NoneToDown' /\ AllInGroup'
  BY DEF LinkInv, NoneToDown, AllInGroup, Inside, clusterVars
<1> QED
  BY <1>1, <1>2, <1>3, <1>4 DEF LinkInv

\* raft: connect enables the links of a server with those that are connected,
\* in both directions; disconnect disables all of them.
LEMMA ConnectLinks ==
    ASSUME RPCTypeOK, LinkInv, NEW i \in Servers, connect(i) \/ disconnect(i)
    PROVE  LinkInv'
<1> USE EndFacts
<1>1. /\ harness = "raft" /\ life[i] = "up"
      /\ UNCHANGED <<life, instance, harness, group>>
  BY DEF connect, disconnect, serverVars
<1>2. PICK C \in SUBSET Servers, b \in BOOLEAN :
         /\ \A e \in Ends :
               enabled'[e] = IF e \in Links(i, C) THEN b ELSE enabled[e]
         /\ b => \A j \in C : life[j] = "up"
  <2>1. CASE connect(i)
    <3>1. \A j \in Servers : connected'[j] => life[j] = "up"
      BY <1>1, <2>1
         DEF connect, LinkInv, ConnectedUp, ClusterTypeOK
    <3> QED
      BY <2>1, <3>1 DEF connect, Enable
  <2>2. CASE disconnect(i)
    BY <2>2 DEF disconnect, Enable
  <2> QED
    BY <2>1, <2>2
<1>3. \A e \in Ends : e \in Links(i, C) <=>
         /\ e.of \in Servers /\ e.inst = instance[e.of]
         /\ (e.of = i /\ e.to \in C) \/ (e.of \in C /\ e.to = i)
  BY <1>1 DEF Links, Endnames
<1>4. ClusterTypeOK' /\ ConnectedUp'
  BY <1>1 DEF LinkInv, ClusterTypeOK, ConnectedUp, connect, disconnect
<1>5. OnlyRunning'
  BY <1>1, <1>2, <1>3 DEF LinkInv, OnlyRunning, Inside
<1>6. Symmetric'
  <2> SUFFICES ASSUME NEW e \in Ends, Inside(e), e.inst = instance[e.of],
                      life[e.of] = "up", life[e.to] = "up"
               PROVE  enabled'[e] = enabled'[Back(e)]
    BY <1>1 DEF Symmetric, Inside, Back
  <2>1. Back(e) \in Links(i, C) <=> e \in Links(i, C)
    BY <1>3 DEF Inside
  <2>2. enabled[e] = enabled[Back(e)]
    BY DEF LinkInv, Symmetric
  <2> QED
    BY <1>2, <2>1, <2>2 DEF Inside
<1>7. NoneToDown' /\ AllInGroup'
  BY <1>1, <1>2, <1>3 DEF LinkInv, NoneToDown, AllInGroup, Inside
<1> QED
  BY <1>4, <1>5, <1>6, <1>7 DEF LinkInv

\* kv: partition connects two servers if they are on the same side.
LEMMA PartitionLinks ==
    ASSUME RPCTypeOK, LinkInv, NEW p1 \in SUBSET Servers, partition(p1)
    PROVE  LinkInv'
<1> USE EndFacts
<1>1. /\ harness = "kv" /\ \A s \in Servers : life[s] = "up"
      /\ UNCHANGED <<life, instance, clusterVars>>
  BY DEF partition, serverVars, AllUp
<1>2. \A e \in Ends : e.of \in Servers =>
         (enabled'[e] <=> IF e.inst = instance[e.of]
                          THEN (e.of \in p1 <=> e.to \in p1) ELSE enabled[e])
  <2> SUFFICES ASSUME NEW e \in Ends, e.of \in Servers
               PROVE  enabled'[e] <=> IF e.inst = instance[e.of]
                          THEN (e.of \in p1 <=> e.to \in p1) ELSE enabled[e]
    OBVIOUS
  <2>1. e \in Endnames <=> e.inst = instance[e.of]
    BY <1>1 DEF Endnames
  <2>2. e.to \in (IF e.of \in p1 THEN p1 ELSE Servers \ p1)
           <=> (e.of \in p1 <=> e.to \in p1)
    OBVIOUS
  <2> QED
    BY <2>1, <2>2 DEF partition
<1>3. ClusterTypeOK' /\ ConnectedUp'
  BY <1>1 DEF LinkInv, ClusterTypeOK, ConnectedUp, clusterVars
<1>4. OnlyRunning'
  BY <1>1, <1>2 DEF LinkInv, OnlyRunning, Inside, clusterVars
<1>5. Symmetric'
  <2> SUFFICES ASSUME NEW e \in Ends, Inside(e), e.inst = instance[e.of]
               PROVE  enabled'[e] = enabled'[Back(e)]
    BY <1>1 DEF Symmetric, Inside, Back, clusterVars
  <2>1. e.of \in Servers /\ Back(e) \in Ends
    BY DEF Inside
  <2>2. enabled'[e] <=> (e.of \in p1 <=> e.to \in p1)
    BY <1>2, <2>1
  <2>3. enabled'[Back(e)] <=> (e.to \in p1 <=> e.of \in p1)
    BY <1>2, <2>1
  <2>4. enabled'[e] \in BOOLEAN /\ enabled'[Back(e)] \in BOOLEAN
    BY <2>1, PartitionTypes DEF RPCTypeOK
  <2> QED
    BY <2>2, <2>3, <2>4
<1>6. NoneToDown' /\ AllInGroup'
  BY <1>1 DEF NoneToDown, AllInGroup, clusterVars
<1> QED
  BY <1>3, <1>4, <1>5, <1>6 DEF LinkInv

\* raft, kv: the first step of a shutdown disables the server's links in both
\* directions.
LEMMA ShutdownLinks ==
    ASSUME RPCTypeOK, LinkInv, NEW i \in Servers,
           crash1(i) \/ ShutdownServer(i)
    PROVE  LinkInv'
<1> USE EndFacts
<1>1. /\ harness # "shard" /\ life \in [Servers -> {"up", "disconnected", "deleted", "down"}]
      /\ life' = [life EXCEPT ![i] = "disconnected"]
      /\ UNCHANGED <<instance, harness, group>>
  BY DEF crash1, ShutdownServer, CutOff, RPCTypeOK
<1>2. /\ harness = "raft" => connected' = [connected EXCEPT ![i] = FALSE]
      /\ harness # "raft" => connected' = connected
  BY DEF crash1, ShutdownServer
<1>3. \A e \in Ends :
         enabled'[e] = IF /\ e.of \in Servers /\ e.inst = instance[e.of]
                          /\ e.of = i \/ e.to = i
                       THEN FALSE ELSE enabled[e]
  <2>1. \A e \in Ends : e \in Links(i, Servers) <=>
           /\ e.of \in Servers /\ e.inst = instance[e.of]
           /\ e.of = i \/ e.to = i
    BY <1>1 DEF Links, Endnames
  <2> QED
    BY <2>1 DEF crash1, ShutdownServer, CutOff, Enable
<1>4. ClusterTypeOK' /\ ConnectedUp'
  BY <1>1, <1>2 DEF LinkInv, ClusterTypeOK, ConnectedUp
<1>5. OnlyRunning' /\ NoneToDown' /\ AllInGroup'
  BY <1>1, <1>3 DEF LinkInv, OnlyRunning, NoneToDown, AllInGroup, Inside
<1>6. Symmetric'
  <2> SUFFICES ASSUME NEW e \in Ends, Inside(e), e.inst = instance[e.of],
                      life'[e.of] = "up", life'[e.to] = "up"
               PROVE  enabled'[e] = enabled'[Back(e)]
    BY <1>1 DEF Symmetric, Inside, Back
  <2>1. e.of # i /\ e.to # i /\ life[e.of] = "up" /\ life[e.to] = "up"
    BY <1>1 DEF Inside
  <2>2. enabled[e] = enabled[Back(e)]
    BY <2>1 DEF LinkInv, Symmetric
  <2> QED
    BY <1>3, <2>1, <2>2 DEF Inside
<1> QED
  BY <1>4, <1>5, <1>6 DEF LinkInv

\* shard: the first step of a shutdown disables the ends the server has to
\* its group; the others of the group can still send to it.
LEMMA ShutdownShardLinks ==
    ASSUME RPCTypeOK, LinkInv, NEW i \in Servers, ShutdownShardServer(i)
    PROVE  LinkInv'
<1> USE EndFacts
<1>1. /\ harness = "shard"
      /\ life \in [Servers -> {"up", "disconnected", "deleted", "down"}]
      /\ life' = [life EXCEPT ![i] = "disconnected"]
      /\ UNCHANGED <<instance, clusterVars>>
  BY DEF ShutdownShardServer, CutOff, RPCTypeOK, clusterVars
<1>2. \A e \in Ends : Inside(e) =>
         enabled'[e] = IF e.inst = instance[e.of] /\ e.of = i
                       THEN FALSE ELSE enabled[e]
  BY <1>1 DEF ShutdownShardServer, CutOff, Enable, Endnames, Inside
<1>3. ClusterTypeOK' /\ ConnectedUp' /\ NoneToDown'
  BY <1>1 DEF LinkInv, ClusterTypeOK, ConnectedUp, NoneToDown, clusterVars
<1>4. OnlyRunning' /\ AllInGroup'
  BY <1>1, <1>2 DEF LinkInv, OnlyRunning, AllInGroup, Inside, clusterVars
<1>5. Symmetric'
  <2> SUFFICES ASSUME NEW e \in Ends, Inside(e), e.inst = instance[e.of],
                      life'[e.of] = "up", life'[e.to] = "up"
               PROVE  enabled'[e] = enabled'[Back(e)]
    BY <1>1 DEF Symmetric, Inside, Back, clusterVars
  <2>1. e.of # i /\ e.to # i /\ life[e.of] = "up" /\ life[e.to] = "up"
    BY <1>1 DEF Inside
  <2>2. enabled[e] = enabled[Back(e)] /\ Inside(Back(e))
    BY <2>1 DEF LinkInv, Symmetric, Inside
  <2> QED
    BY <1>2, <2>1, <2>2 DEF Inside
<1> QED
  BY <1>3, <1>4, <1>5 DEF LinkInv

\* raft, kv: the new instance of a server has no end enabled yet, and no
\* other server can send to it.
LEMMA RestartLinks ==
    ASSUME RPCTypeOK, RPCTypeOK', LinkInv, NEW i \in Servers,
           start1(i) \/ StartServer(i)
    PROVE  LinkInv'
<1> USE EndFacts
<1>1. /\ harness # "shard" /\ UNCHANGED clusterVars
      /\ life \in [Servers -> {"up", "disconnected", "deleted", "down"}]
      /\ instance \in [Servers -> Instances]
      /\ life[i] = "down" /\ life' = [life EXCEPT ![i] = "up"]
      /\ instance' = [instance EXCEPT ![i] = instance[i] + 1]
  BY DEF start1, StartServer, Restart, AddServer, RPCTypeOK
<1>2. \A e \in Ends : enabled'[e] = enabled[e]
  BY DEF start1, StartServer, Restart, MakeEnds, Enable
<1>3. \A e \in Ends : Inside(e) /\ enabled[e] => e.of # i /\ e.to # i
  BY <1>1 DEF LinkInv, OnlyRunning, NoneToDown, Inside
<1>4. ClusterTypeOK' /\ ConnectedUp' /\ AllInGroup'
  BY <1>1 DEF LinkInv, ClusterTypeOK, ConnectedUp, AllInGroup, clusterVars
<1>5. OnlyRunning' /\ NoneToDown'
  BY <1>1, <1>2, <1>3
     DEF LinkInv, OnlyRunning, NoneToDown, Inside, clusterVars
<1>6. Symmetric'
  <2> SUFFICES ASSUME NEW e \in Ends, Inside(e), e.inst = instance'[e.of],
                      life'[e.of] = "up", life'[e.to] = "up"
               PROVE  enabled[e] = enabled[Back(e)']
    <3>1. ASSUME NEW e \in Ends, e.of \in Servers PROVE Back(e)' \in Ends
      BY <3>1, <1>1, ClusterAssumption
         DEF ClusterAssumption, RPCTypeOK, Back
    <3> QED
      BY <1>1, <1>2, <3>1 DEF Symmetric, Inside, clusterVars
  <2>1. e.of \in Servers /\ e.to \in Servers /\ group[e.of] = group[e.to]
    BY DEF Inside
  <2>2. CASE e.of # i /\ e.to # i
    <3>1. Back(e)' = Back(e)
      BY <1>1, <2>1, <2>2 DEF Back
    <3>2. e.inst = instance[e.of] /\ life[e.of] = "up" /\ life[e.to] = "up"
      BY <1>1, <2>1, <2>2
    <3> QED
      BY <3>1, <3>2 DEF LinkInv, Symmetric
  <2>3. CASE e.of = i \/ e.to = i
    <3>1. Back(e)'.of = e.to /\ Back(e)'.to = e.of
      BY DEF Back
    <3>2. Back(e)' \in Ends
      BY <1>1, <2>1, ClusterAssumption
         DEF ClusterAssumption, RPCTypeOK, Back
    <3>3. ~enabled[e] /\ ~enabled[Back(e)']
      BY <1>3, <2>1, <2>3, <3>1, <3>2 DEF Inside
    <3>4. enabled[e] \in BOOLEAN /\ enabled[Back(e)'] \in BOOLEAN
      BY <3>2 DEF RPCTypeOK
    <3> QED
      BY <3>3, <3>4
  <2> QED
    BY <2>2, <2>3
<1> QED
  BY <1>4, <1>5, <1>6 DEF LinkInv

\* shard: the new instance has all its ends enabled, and its group could
\* always send to it.
LEMMA RestartShardLinks ==
    ASSUME RPCTypeOK, RPCTypeOK', LinkInv, NEW i \in Servers,
           StartShardServer(i)
    PROVE  LinkInv'
<1> USE EndFacts
<1>1. /\ harness = "shard" /\ UNCHANGED clusterVars
      /\ life \in [Servers -> {"up", "disconnected", "deleted", "down"}]
      /\ instance \in [Servers -> Instances]
      /\ life[i] = "down" /\ life' = [life EXCEPT ![i] = "up"]
      /\ instance' = [instance EXCEPT ![i] = instance[i] + 1]
  BY DEF StartShardServer, Restart, AddServer, RPCTypeOK
<1>2. \A e \in Ends :
         enabled'[e] = IF e.of = i /\ e.inst = instance'[i]
                       THEN TRUE ELSE enabled[e]
  BY <1>1 DEF StartShardServer, Restart, MakeEnds, Enable, EndsOf
<1>3. ClusterTypeOK' /\ ConnectedUp' /\ NoneToDown'
  BY <1>1 DEF LinkInv, ClusterTypeOK, ConnectedUp, NoneToDown, clusterVars
<1>4. OnlyRunning'
  <2>1. \A e \in Ends : Inside(e) /\ e.of = i => ~enabled[e]
    BY <1>1 DEF LinkInv, OnlyRunning, Inside
  <2> QED
    BY <1>1, <1>2, <2>1 DEF LinkInv, OnlyRunning, Inside, clusterVars
<1>5. AllInGroup'
  BY <1>1, <1>2 DEF LinkInv, AllInGroup, Inside, clusterVars
<1>6. Symmetric'
  <2> SUFFICES ASSUME NEW e \in Ends, Inside(e), e.inst = instance'[e.of],
                      life'[e.of] = "up", life'[e.to] = "up"
               PROVE  enabled'[e] = enabled'[Back(e)']
    BY <1>1 DEF Symmetric, Inside, clusterVars
  <2>1. e.of \in Servers /\ e.to \in Servers /\ group[e.of] = group[e.to]
    BY DEF Inside
  <2>2. /\ Back(e)' \in Ends
        /\ Back(e)'.of = e.to /\ Back(e)'.to = e.of
        /\ Back(e)'.inst = instance'[e.to]
    BY <2>1, ClusterAssumption DEF ClusterAssumption, RPCTypeOK, Back
  <2>3. enabled'[e] /\ enabled'[Back(e)']
    BY <1>1, <1>5, <2>1, <2>2 DEF AllInGroup, Inside, clusterVars
  <2>4. enabled'[e] \in BOOLEAN /\ enabled'[Back(e)'] \in BOOLEAN
    BY <2>2 DEF RPCTypeOK
  <2> QED
    BY <2>3, <2>4
<1> QED
  BY <1>3, <1>4, <1>5, <1>6 DEF LinkInv

\* The operations on the ends of a clerk do not touch those of the servers.
LEMMA ClerkLinks ==
    ASSUME RPCTypeOK, LinkInv, NEW k \in Clerks, NEW to \in SUBSET Servers,
           \/ makeClient(k, to) \/ makeShardClient(k)
           \/ \E b \in BOOLEAN : ConnectClient(k, to, b)
    PROVE  LinkInv'
<1>1. UNCHANGED <<life, instance, clusterVars>>
  BY DEF makeClient, makeShardClient, ConnectClient, serverVars
<1>2. \A e \in Ends : e.of \in Servers => enabled'[e] = enabled[e]
  <2>1. k \notin Servers
    BY ClusterAssumption DEF ClusterAssumption
  <2>2. \A e \in EndsOf(k, 1) : e.of = k
    BY DEF EndsOf
  <2> QED
    BY <2>1, <2>2
       DEF makeClient, makeShardClient, ConnectClient, MakeEnds, Enable
<1> QED
  BY <1>1, <1>2, LinksKept

\* Every step of the tests keeps the links sound.
LEMMA TestsKeepLinks ==
    ASSUME CallInv, CallInv', LinkInv, Tests
    PROVE  LinkInv'
<1>1. RPCTypeOK /\ RPCTypeOK'
  BY DEF CallInv
<1>2. ASSUME NEW s \in Servers, connect(s) \/ disconnect(s) PROVE LinkInv'
  BY <1>1, <1>2, ConnectLinks
<1>3. ASSUME NEW s \in Servers,
             crash1(s) \/ ShutdownServer(s) \/ ShutdownShardServer(s)
      PROVE  LinkInv'
  BY <1>1, <1>3, ShutdownLinks, ShutdownShardLinks
<1>4. ASSUME NEW s \in Servers,
             start1(s) \/ StartServer(s) \/ StartShardServer(s)
      PROVE  LinkInv'
  BY <1>1, <1>4, RestartLinks, RestartShardLinks
<1>5. ASSUME NEW to \in SUBSET Servers, partition(to) PROVE LinkInv'
  BY <1>1, <1>5, PartitionLinks
<1>6. ASSUME NEW k \in Clerks, NEW to \in SUBSET Servers,
             \/ makeClient(k, to) \/ makeShardClient(k)
             \/ \E b \in BOOLEAN : ConnectClient(k, to, b)
      PROVE  LinkInv'
  BY <1>1, <1>6, ClerkLinks
<1>7. CASE cleanup \/ cleanupShards
  <2>1. UNCHANGED <<enabled, life, instance, clusterVars>>
    BY <1>7 DEF cleanup, cleanupShards, Cleanup, serverVars
  <2> QED
    BY <1>1, <2>1, LinksKept
<1>8. ASSUME NEW b \in BOOLEAN, Reliable(b) \/ LongReordering(b),
             UNCHANGED clusterVars
      PROVE  LinkInv'
  <2>1. UNCHANGED <<enabled, life, instance>>
    BY <1>8 DEF Reliable, LongReordering, serverVars
  <2> QED
    BY <1>1, <1>8, <2>1, LinksKept
<1>9. ASSUME NEW s \in Servers, DeleteServer(s) \/ CopyPersister(s),
             UNCHANGED clusterVars
      PROVE  LinkInv'
  <2>1. UNCHANGED <<enabled, instance>>
    BY <1>9 DEF DeleteServer, CopyPersister, netVars
  <2>2. \A t \in Servers : life'[t] = "up" <=> life[t] = "up"
    BY <1>1, <1>9 DEF DeleteServer, CopyPersister, RPCTypeOK
  <2> QED
    BY <1>1, <1>9, <2>1, <2>2, LinksKept
<1>10. {} \in SUBSET Servers
  OBVIOUS
<1> QED
  BY <1>2, <1>3, <1>4, <1>5, <1>6, <1>7, <1>8, <1>9, <1>10 DEF Tests

-----------------------------------------------------------------------------
(* The invariants, and the properties that follow from them.               *)

\* make_config starts with every server up and linked to every other.
LEMMA ClusterInitOK == ClusterInit => CallInv /\ LinkInv
<1> SUFFICES ASSUME ClusterInit PROVE CallInv /\ LinkInv
  OBVIOUS
<1>1. \A e \in Ends : e.to \in Servers /\ (e.of \in Servers => Back(e) \in Ends)
  BY ClusterAssumption, RPCAssumption
     DEF ClusterAssumption, RPCAssumption, Back, ClusterInit, RPCInit, Instances
<1>2. enabled \in [Ends -> BOOLEAN]
  <2> DEFINE On(e) == e.of \in Servers /\ e.inst = 1
  <2>1. enabled = [e \in Ends |-> On(e)]
    BY DEF ClusterInit
  <2>2. \A e \in Ends : On(e) \in BOOLEAN
    OBVIOUS
  <2> HIDE DEF On
  <2> QED
    BY <2>1, <2>2
<1>3. connections \in [Ends -> Servers \cup {NoServer}]
  BY <1>1 DEF ClusterInit
<1>4. /\ end \in [Calls -> Ends]
      /\ seen \in [Calls -> [server : Servers \cup {NoServer},
                             inst : 0 .. MaxInstances,
                             reliable : BOOLEAN, reorder : BOOLEAN]]
  BY RPCAssumption DEF RPCAssumption, ClusterInit, RPCInit, Nothing
<1>5. RPCTypeOK
  <2>1. /\ reliable \in BOOLEAN /\ longReordering \in BOOLEAN
        /\ done \in BOOLEAN /\ receiving \in BOOLEAN /\ (receiving \/ done)
    BY DEF ClusterInit, RPCInit
  <2>2. /\ life \in [Servers -> {"up", "disconnected", "deleted", "down"}]
        /\ instance \in [Servers -> Instances]
    BY RPCAssumption DEF RPCAssumption, ClusterInit, RPCInit, Instances
  <2>3. persister \in [Servers -> [1 .. MaxInstances + 1 -> SUBSET Calls]]
    BY DEF ClusterInit, RPCInit
  <2>4. /\ pc \in [Calls -> PCs]
        /\ handler \in [Calls -> {"none", "running", "saved", "returned"}]
        /\ \A c \in Calls : pc[c] = "idle" /\ handler[c] = "none"
    BY DEF ClusterInit, RPCInit, PCs
  <2> QED
    BY <1>2, <1>3, <1>4, <2>1, <2>2, <2>3, <2>4 DEF RPCTypeOK
<1>6. CallInv
  BY <1>5 DEF CallInv, CallSound, AckedIsSaved, ClusterInit, RPCInit
<1>7. ClusterTypeOK /\ ConnectedUp
  BY DEF ClusterTypeOK, ConnectedUp, ClusterInit, RPCInit, Groups
<1>8. /\ \A e \in Ends : enabled[e] <=> e.of \in Servers /\ e.inst = 1
      /\ \A s \in Servers : life[s] = "up" /\ instance[s] = 1
  BY DEF ClusterInit, RPCInit
<1>9. OnlyRunning /\ NoneToDown /\ AllInGroup
  BY <1>1, <1>8 DEF OnlyRunning, NoneToDown, AllInGroup, Inside
<1>10. Symmetric
  <2> SUFFICES ASSUME NEW e \in Ends, Inside(e), e.inst = instance[e.of]
               PROVE  enabled[e] = enabled[Back(e)]
    BY DEF Symmetric
  <2>1. enabled[e] /\ enabled[Back(e)]
    BY <1>1, <1>5, <1>8, EndFacts DEF Inside
  <2>2. enabled[e] \in BOOLEAN /\ enabled[Back(e)] \in BOOLEAN
    BY <1>1, <1>2 DEF Inside
  <2> QED
    BY <2>1, <2>2
<1> QED
  BY <1>6, <1>7, <1>9, <1>10 DEF LinkInv

\* The two inductive invariants hold in every reachable state.
LEMMA ClusterInvariant == ClusterSpec => [](CallInv /\ LinkInv)
<1>1. CallInv /\ LinkInv /\ [ClusterNext]_allVars => (CallInv /\ LinkInv)'
  <2> SUFFICES ASSUME CallInv, LinkInv, [ClusterNext]_allVars
               PROVE  CallInv' /\ LinkInv'
    OBVIOUS
  <2>1. CallInv'
    BY CallsKept
  <2>2. CASE Tests
    BY <2>1, <2>2, TestsKeepLinks
  <2>3. CASE \/ StopReceiving /\ UNCHANGED clusterVars
             \/ \E c \in Calls : Step(c)
             \/ UNCHANGED allVars
    <3>1. UNCHANGED <<enabled, life, instance, clusterVars>>
      <4>1. CASE StopReceiving /\ UNCHANGED clusterVars
        BY <4>1 DEF StopReceiving, serverVars
      <4>2. ASSUME NEW c \in Calls, Step(c)
            PROVE  UNCHANGED <<enabled, life, instance, clusterVars>>
        <5>1. CASE \E e \in Ends : Call(c, e)
          BY <4>2, <5>1 DEF Step, Call, netVars, serverVars
        <5>2. CASE NetworkStep(c)
          BY <4>2, <5>2
             DEF Step, NetworkStep, Transmit, Process, Deliver, Poll,
                 HandlerReply, Check, LateReply, netVars, serverVars
        <5>3. CASE HandlerStep(c)
          BY <4>2, <5>3
             DEF Step, HandlerStep, HandlerSaves, HandlerReturns, netVars,
                 serverVars
        <5> QED
          BY <4>2, <5>1, <5>2, <5>3 DEF Step
      <4>3. CASE UNCHANGED allVars
        BY <4>3 DEF allVars, rpcVars, netVars, serverVars
      <4> QED
        BY <2>3, <4>1, <4>2, <4>3
    <3> QED
      BY <2>1, <3>1, LinksKept DEF CallInv
  <2> QED
    BY <2>1, <2>2, <2>3 DEF ClusterNext
<1> QED
  BY <1>1, ClusterInitOK, PTL DEF ClusterSpec

\* The type invariant: a call that has been delivered was delivered to an
\* instance of a server that was started.
THEOREM ClusterTypes == ClusterSpec => []RPCTypeOK
<1>1. CallInv => RPCTypeOK
  BY DEF CallInv
<1> QED
  BY <1>1, ClusterInvariant, PTL

\* A call that returns true has been executed, and what its handler saved is
\* in the Persister that the server's next instance is given, however the
\* call overlaps with shutdowns and restarts, on a reliable network or not.
THEOREM ClusterAcked == ClusterSpec => []AckedIsSaved
<1>1. CallInv => AckedIsSaved
  BY DEF CallInv
<1> QED
  BY <1>1, ClusterInvariant, PTL

\* Through any sequence of partitions, shutdowns and restarts: an enabled
\* end of a server belongs to the instance that is running, and two servers
\* that are up can call each other or neither can.
THEOREM ClusterLinks == ClusterSpec => []LinksSound
<1>1. LinkInv => LinksSound
  BY DEF LinkInv, OnlyRunning, Symmetric, Inside, Back, LinksSound, Endnames
<1> QED
  BY <1>1, ClusterInvariant, PTL
=============================================================================
