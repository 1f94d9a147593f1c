------------------------------- MODULE LabRPC -------------------------------
(***************************************************************************)
(* The simulated network of the Raft labs (labrpc/labrpc.go) and what the  *)
(* servers on it save (raft/persister.go).  Cluster has the test harnesses *)
(* that connect, shut down and restart the servers.                        *)
(*                                                                         *)
(* A server is restarted as a new instance with a copy of the old one's    *)
(* Persister.  The old instance cannot be stopped: its handlers run on and *)
(* save into the old Persister.  What a handler does is to save one fact,  *)
(* the call it executes, and to return.                                    *)
(***************************************************************************)
EXTENDS Naturals

CONSTANTS
    Calls,        \* executions of ClientEnd.Call
    Ends,         \* the ClientEnds
    Servers,      \* the names of servers
    NoServer,
    MaxInstances  \* how often a server is started

ASSUME RPCAssumption ==
    /\ NoServer \notin Servers
    /\ Ends # {}
    /\ MaxInstances \in Nat \ {0}

VARIABLES
    \* struct Network
    enabled, connections, reliable, longReordering,
    done,      \* Cleanup was called
    receiving, \* the goroutine that MakeNetwork starts is in its loop
    \* the servers
    life,      \* how far its shutdown is
    instance,  \* the instance last added to Network.servers
    persister, \* persister[s][i]: what instance i of s was given and saved
    \* Call, processReq and the handler, per call
    pc, handler,
    end,       \* the ClientEnd of the call
    seen       \* what readEndnameInfo returned

netVars == <<enabled, connections, reliable, longReordering, done,
             receiving>>
serverVars == <<life, instance, persister>>
callVars == <<pc, handler, end, seen>>
rpcVars == <<netVars, serverVars, callVars>>

Instances == 1 .. MaxInstances
Nothing == [server |-> NoServer, inst |-> 0, reliable |-> TRUE,
            reorder |-> FALSE]
Returned == {"ok", "failed"}

\* Network.servers[s], 0 for nil.
Registered(s) ==
    IF s \in Servers /\ life[s] \in {"up", "disconnected"}
    THEN instance[s] ELSE 0

\* cfg.saved[s]: the Persister that has the server's state.
Saved(s) ==
    persister[s][IF life[s] = "down" THEN instance[s] + 1 ELSE instance[s]]

\* MakeNetwork, and the instances of the servers that are registered first.
RPCInit ==
    /\ longReordering = FALSE
    /\ done = FALSE
    /\ receiving = TRUE
    /\ life = [s \in Servers |-> "up"]
    /\ instance = [s \in Servers |-> 1]
    /\ persister = [s \in Servers |-> [i \in 1 .. MaxInstances + 1 |-> {}]]
    /\ pc = [c \in Calls |-> "idle"]
    /\ handler = [c \in Calls |-> "none"]
    /\ end = [c \in Calls |-> CHOOSE e \in Ends : TRUE]
    /\ seen = [c \in Calls |-> Nothing]

-----------------------------------------------------------------------------
(* The tests configure the network.                                        *)

\* Enable, for a set of ends.
Enable(es, b) == enabled' = [e \in Ends |-> IF e \in es THEN b ELSE enabled[e]]

Reliable(yes) ==
    /\ reliable' = yes
    /\ UNCHANGED <<enabled, connections, longReordering, done, receiving,
                   serverVars, callVars>>

LongReordering(yes) ==
    /\ longReordering' = yes
    /\ UNCHANGED <<enabled, connections, reliable, done, receiving, serverVars,
                   callVars>>

Cleanup ==
    /\ ~done
    /\ done' = TRUE
    /\ UNCHANGED <<enabled, connections, reliable, longReordering, receiving,
                   serverVars, callVars>>

\* The loop of MakeNetwork sees that done is closed.  Until then its select
\* may still choose a request.
StopReceiving ==
    /\ done /\ receiving
    /\ receiving' = FALSE
    /\ UNCHANGED <<enabled, connections, reliable, longReordering, done,
                   serverVars, callVars>>

-----------------------------------------------------------------------------
(* Removing and adding a server.                                           *)

DeleteServer(s) ==
    /\ life[s] = "disconnected"
    /\ life' = [life EXCEPT ![s] = "deleted"]
    /\ UNCHANGED <<netVars, instance, persister, callVars>>

\* cfg.saved[i].Copy(): the copy belongs to the next instance.  The further
\* copies that the harnesses take are copies of this one.
CopyPersister(s) ==
    /\ life[s] = "deleted"
    /\ life' = [life EXCEPT ![s] = "down"]
    /\ persister' = [persister EXCEPT ![s][instance[s] + 1] =
                                          persister[s][instance[s]]]
    /\ UNCHANGED <<netVars, instance, callVars>>

AddServer(s) ==
    /\ life[s] = "down" /\ instance[s] < MaxInstances
    /\ life' = [life EXCEPT ![s] = "up"]
    /\ instance' = [instance EXCEPT ![s] = @ + 1]

-----------------------------------------------------------------------------
(* ClientEnd.Call and Network.processReq.                                  *)

Goto(c, p) == pc' = [pc EXCEPT ![c] = p]

\* Call, on an end that was made, reaches its select.
Call(c, e) ==
    /\ pc[c] = "idle"
    /\ connections[e] # NoServer
    /\ Goto(c, "send")
    /\ end' = [end EXCEPT ![c] = e]
    /\ UNCHANGED <<netVars, serverVars, handler, seen>>

\* The network's goroutine receives the request, or the network is gone.
Transmit_Bug(c) ==
    /\ pc[c] = "send"
    /\ receiving
    /\ Goto(c, "process")
    /\ UNCHANGED <<netVars, serverVars, handler, end, seen>>

Transmit(c) ==
    /\ pc[c] = "send"
    /\ \/ receiving /\ Goto(c, "process")
       \/ done /\ Goto(c, "failed")
    /\ UNCHANGED <<netVars, serverVars, handler, end, seen>>

\* readEndnameInfo.  Without a server the call fails after a delay.
Process_Bug(c) ==
    LET e == end[c]
        s == connections[e]
    IN  /\ pc[c] = "process"
        /\ \/ /\ enabled[e] /\ s # NoServer
              /\ seen' = [seen EXCEPT ![c] =
                            [server |-> s, inst |-> Registered(s),
                             reliable |-> reliable, reorder |-> longReordering]]
              /\ Goto(c, "deliver")
           \/ /\ ~(enabled[e] /\ s # NoServer)
              /\ Goto(c, "failed")
              /\ UNCHANGED seen
        /\ UNCHANGED <<netVars, serverVars, handler, end>>

Process(c) ==
    LET e == end[c]
        s == connections[e]
    IN  /\ pc[c] = "process"
        /\ \/ /\ enabled[e] /\ Registered(s) # 0
              /\ seen' = [seen EXCEPT ![c] =
                            [server |-> s, inst |-> Registered(s),
                             reliable |-> reliable, reorder |-> longReordering]]
              /\ Goto(c, "deliver")
           \/ /\ ~(enabled[e] /\ Registered(s) # 0)
              /\ Goto(c, "failed")
              /\ UNCHANGED seen
        /\ UNCHANGED <<netVars, serverVars, handler, end>>

\* The request is dropped, or the handler is started in its own goroutine.
Deliver(c) ==
    /\ pc[c] = "deliver"
    /\ \/ /\ ~seen[c].reliable
          /\ Goto(c, "failed")
          /\ UNCHANGED handler
       \/ /\ Goto(c, "wait")
          /\ handler' = [handler EXCEPT ![c] = "running"]
    /\ UNCHANGED <<netVars, serverVars, end, seen>>

\* isServerDead
Dead(c) ==
    \/ ~enabled[end[c]]
    \/ Registered(seen[c].server) # seen[c].inst

\* The poll every 100 ms; the handler is left to itself.
Poll(c) ==
    /\ pc[c] = "wait"
    /\ Dead(c)
    /\ Goto(c, "failed")
    /\ UNCHANGED <<netVars, serverVars, handler, end, seen>>

\* reply = <-ech
HandlerReply(c) ==
    /\ pc[c] = "wait"
    /\ handler[c] = "returned"
    /\ Goto(c, "check")
    /\ UNCHANGED <<netVars, serverVars, handler, end, seen>>

\* The server is dead after all, the reply is dropped or delayed, or it is
\* returned.
Check_Bug(c) ==
    /\ pc[c] = "check"
    /\ \/ ~seen[c].reliable /\ Goto(c, "failed")
       \/ seen[c].reorder /\ Goto(c, "late")
       \/ Goto(c, "ok")
    /\ UNCHANGED <<netVars, serverVars, handler, end, seen>>

Check(c) ==
    /\ pc[c] = "check"
    /\ \/ Dead(c) /\ Goto(c, "failed")
       \/ ~Dead(c) /\ ~seen[c].reliable /\ Goto(c, "failed")
       \/ ~Dead(c) /\ seen[c].reorder /\ Goto(c, "late")
       \/ ~Dead(c) /\ Goto(c, "ok")
    /\ UNCHANGED <<netVars, serverVars, handler, end, seen>>

\* The timer of a delayed reply.
LateReply(c) ==
    /\ pc[c] = "late"
    /\ Goto(c, "ok")
    /\ UNCHANGED <<netVars, serverVars, handler, end, seen>>

-----------------------------------------------------------------------------
(* The handler, on the instance it was started for.                        *)

\* persister.Save of that instance.
HandlerSaves(c) ==
    /\ handler[c] = "running"
    /\ handler' = [handler EXCEPT ![c] = "saved"]
    /\ persister' = [persister EXCEPT
                        ![seen[c].server][seen[c].inst] = @ \cup {c}]
    /\ UNCHANGED <<netVars, life, instance, pc, end, seen>>

HandlerReturns(c) ==
    /\ handler[c] = "saved"
    /\ handler' = [handler EXCEPT ![c] = "returned"]
    /\ UNCHANGED <<netVars, serverVars, pc, end, seen>>

-----------------------------------------------------------------------------
NetworkStep(c) ==
    \/ Transmit(c) \/ Process(c) \/ Deliver(c) \/ Poll(c) \/ HandlerReply(c)
    \/ Check(c) \/ LateReply(c)

HandlerStep(c) == HandlerSaves(c) \/ HandlerReturns(c)
-----------------------------------------------------------------------------
(* Properties.                                                             *)

PCs == {"idle", "send", "process", "deliver", "wait", "check", "late"}
       \cup Returned

\* The type invariant.
RPCTypeOK ==
    /\ enabled \in [Ends -> BOOLEAN]
    /\ connections \in [Ends -> Servers \cup {NoServer}]
    /\ reliable \in BOOLEAN
    /\ longReordering \in BOOLEAN
    /\ done \in BOOLEAN
    /\ receiving \in BOOLEAN /\ (receiving \/ done)
    /\ life \in [Servers -> {"up", "disconnected", "deleted", "down"}]
    /\ instance \in [Servers -> Instances]
    /\ persister \in [Servers -> [1 .. MaxInstances + 1 -> SUBSET Calls]]
    /\ pc \in [Calls -> PCs]
    /\ handler \in [Calls -> {"none", "running", "saved", "returned"}]
    /\ end \in [Calls -> Ends]
    /\ seen \in [Calls -> [server : Servers \cup {NoServer},
                           inst : 0 .. MaxInstances,
                           reliable : BOOLEAN, reorder : BOOLEAN]]
    /\ \A c \in Calls :
          pc[c] \in {"deliver", "wait", "check", "late", "ok"}
             \/ handler[c] # "none"
          => seen[c].server \in Servers /\ seen[c].inst \in Instances

\* The reason for the last isServerDead of processReq: a call that returns
\* true has been executed, and what its handler saved is in the Persister
\* that the server's next instance is given, however the call overlaps with
\* a crash.  "We cannot really kill" the old instance, so its handlers may
\* save after the copy was taken: such a call returns false.
AckedIsSaved ==
    \A c \in Calls :
        pc[c] \in {"late", "ok"} => c \in Saved(seen[c].server)

\* Call() is guaranteed to return, except if the handler function on the
\* server side does not return; and even then it does if the server stays
\* crashed or cut off.
CallsReturn ==
    \A c \in Calls :
        <>[](pc[c] \notin Returned \cup {"idle"}) =>
            /\ <>[](handler[c] \in {"running", "saved"})
            /\ []<>~Dead(c)
=============================================================================
