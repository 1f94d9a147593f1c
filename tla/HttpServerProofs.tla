-------------------------- MODULE HttpServerProofs --------------------------
(***************************************************************************)
(* Proofs about the HTTP library, for every set of connections and every   *)
(* capacity of server.connections.  Each action of the library has a lemma *)
(* of its own, so that the programs built on the library, which compose    *)
(* these actions with their own state, can cite them (ProxyProofs,         *)
(* FileServerProofs).                                                      *)
(***************************************************************************)
EXTENDS HttpServer, FiniteSetTheorems, TLAPS

\* The backlog holds the connections that wait to be accepted, each once.
QueueSound ==
    /\ \A i \in 1..Len(backlog) : conn[backlog[i]] = "queued"
    /\ \A i, j \in 1..Len(backlog) : backlog[i] = backlog[j] => i = j

\* The accept loop has one connection in its hands at most.
OneHeld == \A c, d \in Conns : conn[c] = "held" /\ conn[d] = "held" => c = d

\* The inductive invariant of the library.
HttpInv ==
    /\ HttpTypeOK
    /\ SlotsMatch
    /\ channel <= MaxConnections
    /\ QueueSound
    /\ OneHeld

-----------------------------------------------------------------------------
(* Counting the goroutines.                                                *)

\* The connections in any stages are finitely many, so that their number is
\* a natural number.
LEMMA InFinite ==
    ASSUME NEW S
    PROVE  IsFiniteSet(In(S)) /\ Cardinality(In(S)) \in Nat
<1>1. In(S) \subseteq Conns
  BY DEF In
<1>2. IsFiniteSet(In(S))
  BY <1>1, HttpAssumption, FS_Subset DEF HttpAssumption
<1> QED
  BY <1>2, FS_CardinalityType

\* A step that moves one connection into the goroutines' stages starts one
\* goroutine: the send to server.connections in Listen.
LEMMA OneStarts ==
    ASSUME NEW c \in Conns, NEW s \in Admitted, conn[c] \notin Admitted,
           conn \in [Conns -> Stages], conn' = [conn EXCEPT ![c] = s]
    PROVE  Cardinality(In(Admitted)') = Cardinality(In(Admitted)) + 1
<1>1. In(Admitted)' = In(Admitted) \cup {c}
  BY DEF In
<1>2. c \notin In(Admitted)
  BY DEF In
<1> QED
  BY <1>1, <1>2, InFinite, FS_AddElement

\* A step that moves one connection out of those stages ends one goroutine:
\* the receive at the end of handleConnection.
LEMMA OneEnds ==
    ASSUME NEW c \in Conns, NEW s \in Stages \ Admitted, conn[c] \in Admitted,
           conn \in [Conns -> Stages], conn' = [conn EXCEPT ![c] = s]
    PROVE  Cardinality(In(Admitted)') = Cardinality(In(Admitted)) - 1
<1>1. In(Admitted)' = In(Admitted) \ {c}
  BY DEF In
<1>2. c \in In(Admitted)
  BY DEF In
<1> QED
  BY <1>1, <1>2, InFinite, FS_RemoveElement

\* A step that moves one connection within those stages, or within the
\* others, starts and ends no goroutine.
LEMMA NoneMoves ==
    ASSUME NEW c \in Conns, NEW s \in Stages,
           conn[c] \in Admitted <=> s \in Admitted,
           conn \in [Conns -> Stages], conn' = [conn EXCEPT ![c] = s]
    PROVE  In(Admitted)' = In(Admitted)
BY DEF In

-----------------------------------------------------------------------------
(* One lemma per action of the library.                                    *)

\* The backlog is only about connections in stage "queued": a step that
\* leaves it alone, and moves no connection into or out of that stage,
\* leaves it sound.
LEMMA QueueKept ==
    ASSUME HttpTypeOK, QueueSound, backlog' = backlog,
           NEW c \in Conns, NEW s \in Stages, conn[c] # "queued",
           conn' = [conn EXCEPT ![c] = s]
    PROVE  QueueSound'
<1>1. \A i \in 1..Len(backlog) : backlog[i] \in Conns
  BY DEF HttpTypeOK
<1> QED
  BY <1>1 DEF QueueSound, HttpTypeOK

\* A step of one goroutine from one stage to another of its own, with the
\* channel and the backlog left alone, keeps the invariant.
LEMMA GoroutineStep ==
    ASSUME HttpInv, NEW c \in Conns, NEW s \in Admitted, conn[c] \in Admitted,
           conn' = [conn EXCEPT ![c] = s], UNCHANGED <<backlog, channel>>,
           HttpTypeOK'
    PROVE  HttpInv'
<1> USE DEF Admitted, Stages
<1>1. SlotsMatch'
  <2>1. In(Admitted)' = In(Admitted)
    BY NoneMoves DEF HttpInv, HttpTypeOK
  <2> QED
    BY <2>1 DEF HttpInv, SlotsMatch
<1>2. QueueSound'
  BY QueueKept DEF HttpInv
<1>3. OneHeld'
  BY DEF HttpInv, OneHeld, HttpTypeOK
<1> QED
  BY <1>1, <1>2, <1>3 DEF HttpInv

\* The client's side of a connection is none of the invariant's business:
\* Send, SendBody and Close keep it.
LEMMA ClientKeeps ==
    ASSUME HttpInv, NEW c \in Conns, Send(c) \/ SendBody(c) \/ Close(c)
    PROVE  HttpInv'
<1>1. HttpTypeOK'
  BY DEF HttpInv, HttpTypeOK, Send, SendBody, Close
<1>2. UNCHANGED <<conn, backlog, channel>>
  BY DEF Send, SendBody, Close
<1> QED
  BY <1>1, <1>2 DEF HttpInv, SlotsMatch, QueueSound, OneHeld, In

\* A new connection goes to the end of the backlog, where it was not before.
LEMMA ConnectKeeps ==
    ASSUME HttpInv, NEW c \in Conns, NEW r \in Requests \cup {NoRequest},
           Connect(c, r)
    PROVE  HttpInv'
<1> USE DEF Admitted, Stages
<1>1. HttpTypeOK'
  BY DEF HttpInv, HttpTypeOK, Connect
<1>2. SlotsMatch'
  <2>1. In(Admitted)' = In(Admitted)
    BY NoneMoves DEF HttpInv, HttpTypeOK, Connect
  <2> QED
    BY <2>1 DEF HttpInv, SlotsMatch, Connect
<1>3. QueueSound'
  <2>1. /\ Len(backlog') = Len(backlog) + 1
        /\ backlog'[Len(backlog) + 1] = c
        /\ \A i \in 1..Len(backlog) : backlog'[i] = backlog[i]
    BY DEF HttpInv, HttpTypeOK, Connect
  <2>2. \A i \in 1..Len(backlog) :
           backlog[i] \in Conns /\ conn[backlog[i]] = "queued" /\ backlog[i] # c
    BY DEF HttpInv, HttpTypeOK, QueueSound, Connect
  <2>3. conn'[c] = "queued" /\ \A d \in Conns : d # c => conn'[d] = conn[d]
    BY DEF HttpInv, HttpTypeOK, Connect
  <2>4. Len(backlog) \in Nat
    BY DEF HttpInv, HttpTypeOK
  <2>5. \A i \in 1..Len(backlog') : conn'[backlog'[i]] = "queued"
    BY <2>1, <2>2, <2>3, <2>4
  <2>6. \A i, j \in 1..Len(backlog') : backlog'[i] = backlog'[j] => i = j
    BY <2>1, <2>2, <2>4 DEF HttpInv, QueueSound
  <2> QED
    BY <2>5, <2>6 DEF QueueSound
<1>4. OneHeld'
  BY DEF HttpInv, OneHeld, HttpTypeOK, Connect
<1>5. UNCHANGED channel
  BY DEF Connect
<1> QED
  BY <1>1, <1>2, <1>3, <1>4, <1>5 DEF HttpInv

\* Accept takes the head of the backlog, which is nowhere else in it, only
\* when the loop holds no connection.
LEMMA AcceptKeeps ==
    ASSUME HttpInv, Accept
    PROVE  HttpInv'
<1> USE DEF Admitted, Stages
<1> DEFINE c == Head(backlog)
<1>1. /\ backlog \in Seq(Conns) /\ backlog # <<>>
      /\ Len(backlog) \in Nat /\ Len(backlog) > 0
      /\ c = backlog[1] /\ c \in Conns /\ conn[c] = "queued"
      /\ conn' = [conn EXCEPT ![c] = "held"]
  BY DEF HttpInv, HttpTypeOK, QueueSound, Accept
<1>2. HttpTypeOK'
  BY <1>1 DEF HttpInv, HttpTypeOK, Accept
<1>3. SlotsMatch'
  <2>1. In(Admitted)' = In(Admitted)
    BY <1>1, NoneMoves DEF HttpInv, HttpTypeOK
  <2> QED
    BY <2>1 DEF HttpInv, SlotsMatch, Accept
<1>4. QueueSound'
  <2>1. /\ Len(backlog') = Len(backlog) - 1
        /\ \A i \in 1..Len(backlog') : backlog'[i] = backlog[i + 1]
    BY <1>1 DEF Accept
  <2>2. \A i \in 1..Len(backlog') : i + 1 \in 1..Len(backlog) /\ i + 1 # 1
    BY <1>1, <2>1
  <2>3. \A i \in 1..Len(backlog') : backlog'[i] # c /\ backlog'[i] \in Conns
    <3>1. TAKE i \in 1..Len(backlog')
    <3>2. backlog'[i] = backlog[i + 1] /\ backlog[i + 1] \in Conns
      BY <1>1, <2>1, <2>2
    <3>3. 1 \in 1..Len(backlog) /\ (backlog[1] = backlog[i + 1] => 1 = i + 1)
      BY <1>1, <2>2 DEF HttpInv, QueueSound
    <3> QED
      BY <1>1, <2>2, <3>2, <3>3
  <2>4. \A d \in Conns : d # c => conn'[d] = conn[d]
    BY <1>1 DEF HttpInv, HttpTypeOK
  <2>5. \A i \in 1..Len(backlog') : conn'[backlog'[i]] = "queued"
    BY <2>1, <2>2, <2>3, <2>4 DEF HttpInv, QueueSound
  <2>6. \A i, j \in 1..Len(backlog') : backlog'[i] = backlog'[j] => i = j
    BY <1>1, <2>1, <2>2 DEF HttpInv, QueueSound
  <2> QED
    BY <2>5, <2>6 DEF QueueSound
<1>5. OneHeld'
  <2>1. \A d \in Conns : conn[d] # "held"
    BY DEF Accept, In
  <2> QED
    BY <1>1, <2>1 DEF OneHeld, HttpInv, HttpTypeOK
<1>6. UNCHANGED channel
  BY DEF Accept
<1> QED
  BY <1>2, <1>3, <1>4, <1>5, <1>6 DEF HttpInv

\* Admit starts a goroutine and puts one entry into the channel, which had
\* room for it.
LEMMA AdmitKeeps ==
    ASSUME HttpInv, NEW c \in Conns, Admit(c)
    PROVE  HttpInv'
<1> USE DEF Admitted, Stages
<1>1. HttpTypeOK'
  BY DEF HttpInv, HttpTypeOK, Admit
<1>2. SlotsMatch'
  <2>1. Cardinality(In(Admitted)') = Cardinality(In(Admitted)) + 1
    BY OneStarts DEF HttpInv, HttpTypeOK, Admit
  <2> QED
    BY <2>1 DEF HttpInv, SlotsMatch, Admit
<1>3. channel' <= MaxConnections
  BY HttpAssumption DEF HttpAssumption, HttpInv, HttpTypeOK, Admit
<1>4. QueueSound'
  BY QueueKept DEF HttpInv, Admit
<1>5. OneHeld'
  BY DEF HttpInv, OneHeld, HttpTypeOK, Admit
<1> QED
  BY <1>1, <1>2, <1>3, <1>4, <1>5 DEF HttpInv

\* The response of a connection that is being served is decided.
LEMMA RespondKeeps ==
    ASSUME HttpInv, NEW c \in Conns, conn[c] \in Admitted,
           NEW s \in Statuses, Respond(c, s)
    PROVE  HttpInv'
<1>1. HttpTypeOK'
  BY DEF HttpInv, HttpTypeOK, Respond, Stages, Admitted
<1> QED
  BY <1>1, GoroutineStep DEF Respond, Admitted

\* What handleConnection does up to its response keeps the invariant: a
\* request that cannot be read, one that is dispatched, a handler's answer
\* and the writing of the response.
LEMMA ServeKeeps ==
    ASSUME HttpInv, NEW c \in Conns,
           \/ ReadFails(c) \/ Dispatch(c) \/ WriteResponse(c)
           \/ \E s \in Statuses : Answer(c, s)
    PROVE  HttpInv'
<1>1. CASE ReadFails(c)
  BY <1>1, RespondKeeps, HttpAssumption DEF HttpAssumption, ReadFails, Admitted
<1>2. CASE \E s \in Statuses : Answer(c, s)
  BY <1>2, RespondKeeps DEF Answer, Admitted
<1>3. CASE Dispatch(c)
  <2>1. conn[c] \in Admitted
    BY <1>3 DEF Dispatch, Admitted
  <2>2. CASE \E s \in Statuses : Respond(c, s)
    BY <2>1, <2>2, RespondKeeps
  <2>3. CASE /\ conn' = [conn EXCEPT ![c] = "handle"]
             /\ UNCHANGED <<backlog, channel, client, request, status>>
    <3>1. HttpTypeOK'
      BY <2>3 DEF HttpInv, HttpTypeOK, Stages, Admitted
    <3> QED
      BY <2>1, <2>3, <3>1, GoroutineStep DEF Admitted
  <2> QED
    BY <1>3, <2>2, <2>3, HttpAssumption DEF HttpAssumption, Dispatch
<1>4. CASE WriteResponse(c)
  <2>1. HttpTypeOK'
    BY <1>4 DEF HttpInv, HttpTypeOK, WriteResponse, Stages, Admitted
  <2> QED
    BY <1>4, <2>1, GoroutineStep DEF WriteResponse, Admitted
<1> QED
  BY <1>1, <1>2, <1>3, <1>4

\* Release ends a goroutine and takes one entry out of the channel.
LEMMA ReleaseKeeps ==
    ASSUME HttpInv, NEW c \in Conns, Release(c)
    PROVE  HttpInv'
<1> USE DEF Admitted, Stages
<1>1. HttpTypeOK'
  BY DEF HttpInv, HttpTypeOK, Release
<1>2. SlotsMatch'
  <2>1. Cardinality(In(Admitted)') = Cardinality(In(Admitted)) - 1
    BY OneEnds DEF HttpInv, HttpTypeOK, Release
  <2> QED
    BY <2>1 DEF HttpInv, SlotsMatch, Release
<1>3. channel' <= MaxConnections
  BY HttpAssumption DEF HttpAssumption, HttpInv, HttpTypeOK, Release
<1>4. QueueSound'
  BY QueueKept DEF HttpInv, Release
<1>5. OneHeld'
  BY DEF HttpInv, OneHeld, HttpTypeOK, Release
<1> QED
  BY <1>1, <1>2, <1>3, <1>4, <1>5 DEF HttpInv

-----------------------------------------------------------------------------
(* The invariant, and the properties that follow from it.                  *)

\* Listen starts with an empty channel and an empty backlog.
LEMMA HttpInitOK == HttpInit => HttpInv
<1> SUFFICES ASSUME HttpInit PROVE HttpInv
  OBVIOUS
<1>1. HttpTypeOK
  BY DEF HttpInit, HttpTypeOK, Stages
<1>2. SlotsMatch
  <2>1. In(Admitted) = {}
    BY DEF HttpInit, In, Admitted
  <2> QED
    BY <2>1, FS_EmptySet DEF HttpInit, SlotsMatch
<1>3. channel <= MaxConnections
  BY HttpAssumption DEF HttpAssumption, HttpInit
<1>4. QueueSound
  BY DEF HttpInit, QueueSound
<1>5. OneHeld
  BY DEF HttpInit, OneHeld
<1> QED
  BY <1>1, <1>2, <1>3, <1>4, <1>5 DEF HttpInv

\* The invariant is about the library's variables only.
LEMMA HttpStutters == HttpInv /\ UNCHANGED httpVars => HttpInv'
BY DEF HttpInv, httpVars, HttpTypeOK, SlotsMatch, QueueSound, OneHeld, In

\* The invariant gives the limits that Listen promises: at most one
\* goroutine per entry of the channel, and one connection in the loop.
LEMMA HttpInvImplies == HttpInv => SlotsMatch /\ ConnectionLimit
<1> SUFFICES ASSUME HttpInv PROVE ConnectionLimit
  BY DEF HttpInv
<1>1. Cardinality(In(Admitted)) <= MaxConnections
  BY DEF HttpInv, SlotsMatch
<1>2. Cardinality(In({"held"})) <= 1
  <2>1. CASE In({"held"}) = {}
    BY <2>1, FS_EmptySet
  <2>2. CASE \E c \in Conns : In({"held"}) = {c}
    BY <2>2, FS_Singleton
  <2>3. In({"held"}) = {} \/ \E c \in Conns : In({"held"}) = {c}
    BY DEF In, HttpInv, OneHeld
  <2> QED
    BY <2>1, <2>2, <2>3
<1> QED
  BY <1>1, <1>2 DEF ConnectionLimit

\* Whatever the handlers do with their requests, the library's invariant
\* holds in every reachable state.
LEMMA HttpInvariant == HttpSpec => []HttpInv
<1>1. HttpInv /\ [HttpNext]_httpVars => HttpInv'
  <2> SUFFICES ASSUME HttpInv, [HttpNext]_httpVars PROVE HttpInv'
    OBVIOUS
  <2>1. CASE Accept
    BY <2>1, AcceptKeeps
  <2>2. ASSUME NEW c \in Conns, ClientStep(c) \/ SendBody(c) PROVE HttpInv'
    BY <2>2, ConnectKeeps, ClientKeeps DEF ClientStep
  <2>3. ASSUME NEW c \in Conns, ServerStep(c) PROVE HttpInv'
    BY <2>3, AdmitKeeps, ServeKeeps, ReleaseKeeps DEF ServerStep
  <2>4. ASSUME NEW c \in Conns, HandlerReturns(c) PROVE HttpInv'
    BY <2>4, ServeKeeps DEF HandlerReturns
  <2>5. CASE UNCHANGED httpVars
    BY <2>5, HttpStutters
  <2> QED
    BY <2>1, <2>2, <2>3, <2>4, <2>5 DEF HttpNext
<1> QED
  BY <1>1, HttpInitOK, PTL DEF HttpSpec

\* Listen and handleConnection with any handlers: the number of entries in
\* server.connections is the number of goroutines handleConnection, although
\* a goroutine takes out an entry that need not be its own.
THEOREM HttpSlots == HttpSpec => []SlotsMatch
BY HttpInvariant, HttpInvImplies, PTL

\* Listen's promise, with any handlers: at most maxConnections connections
\* are being served, and the accept loop holds one more at most.
THEOREM HttpLimit == HttpSpec => []ConnectionLimit
BY HttpInvariant, HttpInvImplies, PTL
=============================================================================
