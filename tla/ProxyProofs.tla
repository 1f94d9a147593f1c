---------------------------- MODULE ProxyProofs -----------------------------
(***************************************************************************)
(* Proofs about the proxy, for every set of connections and every capacity *)
(* of server.connections.  The library's part of the invariant comes from  *)
(* the lemmas of HttpServerProofs; what is new is the outgoing connections *)
(* and the proxy's connections to itself.                                  *)
(***************************************************************************)
EXTENDS Proxy, HttpServerProofs

\* An outgoing connection belongs to a handler that is running.
PeersServed == \A c \in Conns : peer[c] # NoPeer => conn[c] = "handle"

\* A connection the proxy has opened to itself is open on both sides: the
\* library has not finished with it, and one handler waits for it.
HopsSound ==
    \A c \in Conns : peer[c] \in Conns =>
        /\ conn[peer[c]] \notin {"idle", "release"}
        /\ \A b \in Conns : peer[b] = peer[c] => b = c

\* The inductive invariant of the proxy.
ProxyInv ==
    /\ HttpInv
    /\ ProxyTypeOK
    /\ PeersServed
    /\ HopsSound

-----------------------------------------------------------------------------
(* Steps that leave the outgoing connections alone.                        *)

\* Such a step keeps the proxy's part of the invariant if no handler returns
\* in it, and if the connection whose library ends with it is not one of the
\* proxy's own.
LEMMA HopsUntouched ==
    ASSUME ProxyInv, HttpInv', UNCHANGED hopVars,
           \A c \in Conns : conn[c] = "handle" => conn'[c] = "handle",
           \A d \in Conns :
              /\ FromProxy(d)
              /\ conn[d] \notin {"idle", "release"}
              => conn'[d] \notin {"idle", "release"}
    PROVE  ProxyInv'
<1>1. ProxyTypeOK'
  BY DEF ProxyInv, ProxyTypeOK, HttpInv, hopVars
<1>2. PeersServed'
  BY DEF ProxyInv, PeersServed, hopVars
<1>3. HopsSound'
  BY DEF ProxyInv, HopsSound, hopVars, FromProxy
<1> QED
  BY <1>1, <1>2, <1>3 DEF ProxyInv

\* A step of the accept loop.
LEMMA ProxyAcceptKeeps ==
    ASSUME ProxyInv, ProxyAccept
    PROVE  ProxyInv'
<1>1. HttpInv'
  BY AcceptKeeps DEF ProxyInv, ProxyAccept
<1>2. /\ Head(backlog) \in Conns /\ conn[Head(backlog)] = "queued"
      /\ conn \in [Conns -> Stages]
      /\ conn' = [conn EXCEPT ![Head(backlog)] = "held"]
  BY DEF ProxyInv, HttpInv, HttpTypeOK, QueueSound, ProxyAccept, Accept
<1>3. UNCHANGED hopVars
  BY DEF ProxyAccept
<1> QED
  BY <1>1, <1>2, <1>3, HopsUntouched

\* A step of a client that is not the proxy itself.
LEMMA ProxyClientKeeps ==
    ASSUME ProxyInv, NEW c \in Conns, Client(c)
    PROVE  ProxyInv'
<1>1. HttpInv'
  BY ConnectKeeps, ClientKeeps DEF ProxyInv, Client, ClientStep
<1>2. UNCHANGED hopVars
  BY DEF Client
<1>3. \/ conn' = conn
      \/ conn[c] = "idle" /\ conn' = [conn EXCEPT ![c] = "queued"]
  <2>1. CASE \E r \in Requests : Connect(c, r)
    BY <2>1 DEF Connect
  <2>2. CASE Send(c) \/ SendBody(c) \/ Close(c)
    BY <2>2 DEF Send, SendBody, Close
  <2> QED
    BY <2>1, <2>2 DEF Client, ClientStep
<1>4. conn \in [Conns -> Stages]
  BY DEF ProxyInv, HttpInv, HttpTypeOK
<1> QED
  BY <1>1, <1>2, <1>3, <1>4, HopsUntouched

\* What the library does on its own.  Release(d) is only reached once the
\* response has been written, when no handler has d as its peer any more.
LEMMA ProxyLibraryKeeps ==
    ASSUME ProxyInv, NEW c \in Conns, UNCHANGED hopVars,
           \/ Admit(c) \/ ReadFails(c) \/ Dispatch(c) \/ Release(c)
           \/ ReplyToClient(c)
    PROVE  ProxyInv'
<1>1. HttpInv'
  BY AdmitKeeps, ServeKeeps, ReleaseKeeps DEF ProxyInv, ReplyToClient
<1>2. conn \in [Conns -> Stages]
  BY DEF ProxyInv, HttpInv, HttpTypeOK
<1>3. conn[c] # "handle" /\ \E s \in Stages :
         /\ conn' = [conn EXCEPT ![c] = s]
         /\ \/ s \notin {"idle", "release"}
            \/ conn[c] = "release"
            \/ ~FromProxy(c)
  BY DEF Admit, ReadFails, Dispatch, Release, ReplyToClient, WriteResponse,
         Respond, Stages, Admitted
<1> QED
  BY <1>1, <1>2, <1>3, HopsUntouched

-----------------------------------------------------------------------------
(* The handler.                                                            *)

\* A handler that returns closes its outgoing connection.
LEMMA FinishKeeps ==
    ASSUME ProxyInv, NEW c \in Conns, NEW s \in Statuses, Finish(c, s)
    PROVE  ProxyInv'
<1>1. HttpInv'
  BY ServeKeeps DEF ProxyInv, Finish
<1>2. /\ conn \in [Conns -> Stages]
      /\ peer \in [Conns -> Conns \cup {Origin, Closed, NoPeer}]
      /\ conn[c] = "handle" /\ conn' = [conn EXCEPT ![c] = "write"]
      /\ peer' = [peer EXCEPT ![c] = NoPeer]
  BY DEF ProxyInv, ProxyTypeOK, HttpTypeOK, Finish, Answer, Respond
<1>3. ProxyTypeOK'
  BY <1>1 DEF ProxyInv, ProxyTypeOK, HttpInv, Finish
<1>4. PeersServed'
  BY <1>2 DEF ProxyInv, PeersServed
<1>5. HopsSound'
  BY <1>2, ProxyAssumption DEF ProxyAssumption, ProxyInv, HopsSound
<1> QED
  BY <1>1, <1>3, <1>4, <1>5 DEF ProxyInv

\* The handler returns with 400 or 500, or with the status it was sent.
LEMMA HandlerEnds ==
    ASSUME ProxyInv, NEW c \in Conns, NoHost(c) \/ HopFails(c) \/ Relay(c)
    PROVE  ProxyInv'
<1>1. \E s \in Statuses : Finish(c, s)
  BY HttpAssumption
     DEF HttpAssumption, NoHost, HopFails, Relay, ProxyInv, ProxyTypeOK
<1> QED
  BY <1>1, FinishKeeps

\* net.Dial to a server elsewhere, and that server's answer: the handler's
\* peer becomes something that is not a connection of the proxy.
LEMMA PeerElsewhere ==
    ASSUME ProxyInv, NEW c \in Conns, Dial(c) \/ OriginReplies(c)
    PROVE  ProxyInv'
<1>1. UNCHANGED httpVars
  BY DEF Dial, OriginReplies
<1>2. HttpInv'
  BY <1>1, HttpStutters DEF ProxyInv
<1>3. ProxyTypeOK'
  BY <1>2 DEF ProxyInv, ProxyTypeOK, HttpInv, Dial, OriginReplies
<1>4. /\ conn' = conn /\ conn[c] = "handle"
      /\ peer \in [Conns -> Conns \cup {Origin, Closed, NoPeer}]
      /\ \E p \in {Origin, Closed} : peer' = [peer EXCEPT ![c] = p]
  BY <1>1 DEF ProxyInv, ProxyTypeOK, httpVars, At, Dial, OriginReplies
<1>5. PeersServed'
  BY <1>4 DEF ProxyInv, PeersServed
<1>6. HopsSound'
  BY <1>4, ProxyAssumption DEF ProxyAssumption, ProxyInv, HopsSound
<1> QED
  BY <1>2, <1>3, <1>5, <1>6 DEF ProxyInv

\* net.Dial to the proxy itself takes a connection that was idle, so that no
\* other handler has it.
LEMMA DialSelfKeeps ==
    ASSUME ProxyInv, NEW c \in Conns, NEW d \in Conns, DialSelf(c, d)
    PROVE  ProxyInv'
<1>1. request[c] \in Requests \cup {NoRequest}
  BY DEF ProxyInv, HttpInv, HttpTypeOK
<1>2. HttpInv'
  BY <1>1, ConnectKeeps DEF ProxyInv, DialSelf
<1>3. ProxyTypeOK'
  BY <1>2 DEF ProxyInv, ProxyTypeOK, HttpInv, DialSelf
<1>4. /\ conn \in [Conns -> Stages]
      /\ peer \in [Conns -> Conns \cup {Origin, Closed, NoPeer}]
      /\ conn[c] = "handle" /\ conn[d] = "idle"
      /\ conn' = [conn EXCEPT ![d] = "queued"]
      /\ peer' = [peer EXCEPT ![c] = d]
  BY DEF ProxyInv, ProxyTypeOK, HttpTypeOK, DialSelf, At, Connect
<1>5. PeersServed'
  BY <1>4 DEF ProxyInv, PeersServed
<1>6. HopsSound'
  <2>1. \A b \in Conns : peer[b] # d
    BY <1>4 DEF ProxyInv, HopsSound
  <2> QED
    BY <1>4, <2>1 DEF ProxyInv, HopsSound
<1> QED
  BY <1>2, <1>3, <1>5, <1>6 DEF ProxyInv

\* request.Write, to the proxy itself or elsewhere: the head and the body.
LEMMA ForwardKeeps ==
    ASSUME ProxyInv, NEW c \in Conns, Forward(c) \/ ForwardBody(c)
    PROVE  ProxyInv'
<1>1. HttpInv'
  BY ClientKeeps, HttpStutters DEF ProxyInv, Forward, ForwardBody
<1>2. conn' = conn /\ peer' = peer
  BY DEF Forward, ForwardBody, Send, SendBody, httpVars
<1>3. ProxyTypeOK'
  BY <1>1 DEF ProxyInv, ProxyTypeOK, HttpInv, Forward, ForwardBody
<1>4. PeersServed' /\ HopsSound'
  BY <1>2 DEF ProxyInv, PeersServed, HopsSound
<1> QED
  BY <1>1, <1>3, <1>4 DEF ProxyInv

\* A body that breaks off: the handler closes its connection to the proxy
\* itself, which is nobody's peer from then on.
LEMMA BodyFailsKeeps ==
    ASSUME ProxyInv, NEW c \in Conns, BodyFails(c)
    PROVE  ProxyInv'
<1>1. HttpInv'
  BY ClientKeeps DEF ProxyInv, BodyFails
<1>2. ProxyTypeOK'
  BY <1>1, HttpAssumption
     DEF HttpAssumption, ProxyInv, ProxyTypeOK, HttpInv, BodyFails
<1>3. /\ conn' = conn /\ conn[c] = "handle"
      /\ peer \in [Conns -> Conns \cup {Origin, Closed, NoPeer}]
      /\ peer' = [peer EXCEPT ![c] = Closed]
  BY DEF ProxyInv, ProxyTypeOK, BodyFails, At, Close
<1>4. PeersServed'
  BY <1>3 DEF ProxyInv, PeersServed
<1>5. HopsSound'
  BY <1>3, ProxyAssumption DEF ProxyAssumption, ProxyInv, HopsSound
<1> QED
  BY <1>1, <1>2, <1>4, <1>5 DEF ProxyInv

\* The library's answer to a request that the proxy sent to itself reaches
\* the handler that waits for it, and leaves nobody else waiting.
LEMMA ReplyToKeeps ==
    ASSUME ProxyInv, NEW c \in Conns, NEW d \in Conns, ReplyTo(c, d)
    PROVE  ProxyInv'
<1>1. HttpInv'
  BY ServeKeeps DEF ProxyInv, ReplyTo
<1>2. status[d] \in Statuses \cup {0}
  BY DEF ProxyInv, HttpInv, HttpTypeOK
<1>3. ProxyTypeOK'
  BY <1>1, <1>2 DEF ProxyInv, ProxyTypeOK, HttpInv, ReplyTo
<1>4. /\ conn \in [Conns -> Stages]
      /\ peer \in [Conns -> Conns \cup {Origin, Closed, NoPeer}]
      /\ peer[c] = d /\ conn[d] = "write"
      /\ conn' = [conn EXCEPT ![d] = "release"]
      /\ peer' = [peer EXCEPT ![c] = Closed]
  BY DEF ProxyInv, ProxyTypeOK, HttpTypeOK, ReplyTo, WriteResponse
<1>5. PeersServed'
  BY <1>4, ProxyAssumption DEF ProxyAssumption, ProxyInv, PeersServed
<1>6. HopsSound'
  <2>1. \A b \in Conns : b # c => peer[b] # d
    BY <1>4 DEF ProxyInv, HopsSound
  <2> QED
    BY <1>4, <2>1, ProxyAssumption DEF ProxyAssumption, ProxyInv, HopsSound
<1> QED
  BY <1>1, <1>3, <1>5, <1>6 DEF ProxyInv

-----------------------------------------------------------------------------
(* The invariant, and the properties that follow from it.                  *)

\* The inductive invariant holds in every reachable state of the proxy.
LEMMA ProxyInvariant == ProxySpec => []ProxyInv
<1>1. ProxyInit => ProxyInv
  BY HttpInitOK, ProxyAssumption
     DEF ProxyAssumption, ProxyInit, ProxyInv, ProxyTypeOK, HttpInv,
         PeersServed, HopsSound
<1>2. ProxyInv /\ [ProxyNext]_proxyVars => ProxyInv'
  <2> SUFFICES ASSUME ProxyInv, [ProxyNext]_proxyVars PROVE ProxyInv'
    OBVIOUS
  <2>1. CASE ProxyAccept
    BY <2>1, ProxyAcceptKeeps
  <2>2. ASSUME NEW c \in Conns, Client(c) PROVE ProxyInv'
    BY <2>2, ProxyClientKeeps
  <2>3. ASSUME NEW c \in Conns, Library(c) \/ ReplyToClient(c)
        PROVE  ProxyInv'
    BY <2>3, ProxyLibraryKeeps, ReplyToKeeps DEF Library, ReplyToClient
  <2>4. ASSUME NEW c \in Conns, Handler(c) \/ OriginReplies(c)
        PROVE  ProxyInv'
    BY <2>4, HandlerEnds, PeerElsewhere, DialSelfKeeps, ForwardKeeps,
       BodyFailsKeeps DEF Handler
  <2>5. CASE UNCHANGED proxyVars
    <3>1. HttpInv'
      BY <2>5, HttpStutters DEF ProxyInv, proxyVars
    <3>2. UNCHANGED hopVars /\ conn' = conn
      BY <2>5 DEF proxyVars, httpVars
    <3> QED
      BY <3>1, <3>2, HopsUntouched
  <2> QED
    BY <2>1, <2>2, <2>3, <2>4, <2>5 DEF ProxyNext
<1> QED
  BY <1>1, <1>2, PTL DEF ProxySpec

\* The type invariant of the proxy: every variable of the library and of the
\* handlers keeps its type, whatever status another server answers with.
THEOREM ProxyTypes == ProxySpec => []ProxyTypeOK
<1>1. ProxyInv => ProxyTypeOK
  BY DEF ProxyInv
<1> QED
  BY <1>1, ProxyInvariant, PTL

\* Listen's bookkeeping holds for the proxy, whose handlers open connections
\* to the proxy itself while they keep their slots.
THEOREM ProxySlots == ProxySpec => [](SlotsMatch /\ ConnectionLimit)
<1>1. ProxyInv => SlotsMatch /\ ConnectionLimit
  BY HttpInvImplies DEF ProxyInv
<1> QED
  BY <1>1, ProxyInvariant, PTL

\* The proxy has at most maxConnections outgoing connections: each belongs
\* to a handler that holds a slot, and the deferred Close ends it.
THEOREM ProxyOutgoing == ProxySpec => []OutgoingLimit
<1>1. ProxyInv => OutgoingLimit
  <2> SUFFICES ASSUME ProxyInv PROVE OutgoingLimit
    OBVIOUS
  <2>1. {c \in Conns : peer[c] # NoPeer} \subseteq In(Admitted)
    BY DEF ProxyInv, PeersServed, In, Admitted
  <2>2. Cardinality({c \in Conns : peer[c] # NoPeer})
           <= Cardinality(In(Admitted))
    BY <2>1, InFinite, FS_Subset
  <2>3. Cardinality(In(Admitted)) <= MaxConnections
    BY HttpInvImplies DEF ProxyInv, ConnectionLimit
  <2>4. /\ Cardinality(In(Admitted)) \in Nat
        /\ Cardinality({c \in Conns : peer[c] # NoPeer}) \in Nat
    BY <2>1, InFinite, FS_Subset, FS_CardinalityType
  <2> QED
    BY <2>2, <2>3, <2>4, HttpAssumption DEF HttpAssumption, OutgoingLimit
<1> QED
  BY <1>1, ProxyInvariant, PTL

\* A request the proxy sends to itself is answered to the one handler that
\* sent it: no two handlers wait for one connection, and the library never
\* ends a connection while a handler of the proxy still waits for it.
THEOREM ProxyHops == ProxySpec => []HopsSound
<1>1. ProxyInv => HopsSound
  BY DEF ProxyInv
<1> QED
  BY <1>1, ProxyInvariant, PTL
=============================================================================
