------------------------------- MODULE Proxy --------------------------------
(***************************************************************************)
(* The HTTP proxy of Lab 1 (Lab1/proxy/proxy.go): the GET handler that     *)
(* opens a connection to the host named in the request, forwards it and    *)
(* relays the response.  The handler keeps its slot of the HTTP library    *)
(* while it waits, without a timeout, for the rest of the client's request *)
(* and for the response.                                                   *)
(*                                                                         *)
(* A request has a host: "none" (neither URL.Host nor Host), "origin" (a   *)
(* server elsewhere) or "self" (the address the proxy listens at, so that  *)
(* the forwarded request is a new connection to the proxy itself).         *)
(***************************************************************************)
EXTENDS HttpServer

CONSTANTS
    Origin,   \* a server elsewhere
    Closed,   \* the other end has answered and closed
    NoPeer    \* there is no outgoing connection

ASSUME ProxyAssumption == {Origin, Closed, NoPeer} \cap Conns = {}

VARIABLES
    step,   \* where the handler of each connection is
    peer,   \* the other end of its outgoing connection
    reply   \* the status of the response on that connection, 0 if none yet

hopVars == <<step, peer, reply>>
proxyVars == <<httpVars, hopVars>>

ProxyInit ==
    /\ HttpInit
    /\ step = [c \in Conns |-> "start"]
    /\ peer = [c \in Conns |-> NoPeer]
    /\ reply = [c \in Conns |-> 0]

At(c, p) == conn[c] = "handle" /\ step[c] = p

\* The handler returns; its deferred calls close the outgoing connection.
Finish_Bug(c, s) ==
    /\ Answer(c, s)
    /\ step' = [step EXCEPT ![c] = "start"]
    /\ reply' = [reply EXCEPT ![c] = 0]
    /\ UNCHANGED peer

Finish(c, s) ==
    /\ Answer(c, s)
    /\ step' = [step EXCEPT ![c] = "start"]
    /\ peer' = [peer EXCEPT ![c] = NoPeer]
    /\ reply' = [reply EXCEPT ![c] = 0]

-----------------------------------------------------------------------------
(* handleProxyRequest.                                                     *)

NoHost(c) == At(c, "start") /\ request[c].host = "none" /\ Finish(c, 400)

\* net.Dial to a server elsewhere.
Dial(c) ==
    /\ At(c, "start")
    /\ request[c].host = "origin"
    /\ step' = [step EXCEPT ![c] = "write"]
    /\ peer' = [peer EXCEPT ![c] = Origin]
    /\ UNCHANGED <<httpVars, reply>>

\* net.Dial to the proxy's own address: the kernel completes the connection
\* d whether or not the accept loop is ready for it.
DialSelf(c, d) ==
    /\ At(c, "start")
    /\ request[c].host = "self"
    /\ Connect(d, request[c])
    /\ step' = [step EXCEPT ![c] = "write"]
    /\ peer' = [peer EXCEPT ![c] = d]
    /\ UNCHANGED reply

\* request.Write flushes the head before it turns to the body.
Forward(c) ==
    /\ At(c, "write")
    /\ step' = [step EXCEPT ![c] = "body"]
    /\ IF peer[c] \in Conns THEN Send(peer[c]) ELSE UNCHANGED httpVars
    /\ UNCHANGED <<peer, reply>>

\* request.Write copies the body from the client, once it has it all.  A
\* client that closed had sent all of it, or not (BodyFails).
ForwardBody(c) ==
    /\ At(c, "body")
    /\ client[c] \in {"whole", "closed"}
    /\ step' = [step EXCEPT ![c] = "await"]
    /\ IF peer[c] \in Conns THEN SendBody(peer[c]) ELSE UNCHANGED httpVars
    /\ UNCHANGED <<peer, reply>>

\* net.Dial or request.Write returns an error.  The proxy does not close the
\* connection of a request that it has not answered, so that writing to
\* itself works until then.
HopFails_Bug(c) ==
    /\ \/ At(c, "start") /\ request[c].host # "none"
       \/ At(c, "write") /\ peer[c] = Origin
       \/ At(c, "body") /\ peer[c] \in {Origin, Closed}
    /\ Finish(c, 502)

HopFails(c) ==
    /\ \/ At(c, "start") /\ request[c].host # "none"
       \/ At(c, "write") /\ peer[c] = Origin
       \/ At(c, "body") /\ peer[c] \in {Origin, Closed}
    /\ Finish(c, 500)

\* request.Write to the proxy itself fails because the client has gone in the
\* middle of its body.  The deferred Close leaves that connection without its
\* client, before the handler returns with status 500.
BodyFails(c) ==
    /\ At(c, "body")
    /\ client[c] = "closed"
    /\ peer[c] \in Conns
    /\ Close(peer[c])
    /\ step' = [step EXCEPT ![c] = "await"]
    /\ peer' = [peer EXCEPT ![c] = Closed]
    /\ reply' = [reply EXCEPT ![c] = 500]

\* http.ReadResponse and io.ReadAll return: the status is passed on.
Relay_Bug(c) ==
    /\ At(c, "await")
    /\ reply[c] = 200
    /\ Finish(c, reply[c])

Relay(c) ==
    /\ At(c, "await")
    /\ reply[c] # 0
    /\ Finish(c, reply[c])

-----------------------------------------------------------------------------
(* The server the request was forwarded to.                                *)

\* It answers, with any status and whether or not it has read the body, or
\* the connection breaks, which the handler answers with 500.
OriginReplies(c) ==
    /\ At(c, "body") \/ At(c, "await")
    /\ peer[c] = Origin
    /\ \E s \in Statuses : reply' = [reply EXCEPT ![c] = s]
    /\ peer' = [peer EXCEPT ![c] = Closed]
    /\ UNCHANGED <<httpVars, step>>

\* WriteResponse on a connection that the proxy itself has opened.
ReplyTo(c, d) ==
    /\ peer[c] = d
    /\ WriteResponse(d)
    /\ reply' = [reply EXCEPT ![c] = status[d]]
    /\ peer' = [peer EXCEPT ![c] = Closed]
    /\ UNCHANGED step

\* The client of d is one of the proxy's own handlers.
FromProxy(d) == \E c \in Conns : peer[c] = d

-----------------------------------------------------------------------------
Client(c) ==
    /\ ~FromProxy(c)
    /\ ClientStep(c) \/ SendBody(c)
    /\ UNCHANGED hopVars

\* WriteResponse on a connection that somebody else has opened.
ReplyToClient(c) == ~FromProxy(c) /\ WriteResponse(c) /\ UNCHANGED hopVars

Library(c) ==
    \/ /\ Admit(c) \/ ReadFails(c) \/ Dispatch(c) \/ Release(c)
       /\ UNCHANGED hopVars
    \/ \E d \in Conns : ReplyTo(d, c)

Handler(c) ==
    \/ NoHost(c)
    \/ Dial(c)
    \/ \E d \in Conns : DialSelf(c, d)
    \/ Forward(c)
    \/ ForwardBody(c)
    \/ HopFails(c)
    \/ BodyFails(c)
    \/ Relay(c)

ProxyAccept == Accept /\ UNCHANGED hopVars

ProxyNext ==
    \/ ProxyAccept
    \/ \E c \in Conns :
          \/ Client(c)
          \/ Library(c)
          \/ ReplyToClient(c)
          \/ Handler(c)
          \/ OriginReplies(c)

ProxySpec == ProxyInit /\ [][ProxyNext]_proxyVars

\* The proxy's goroutines run.  Neither clients nor servers elsewhere need do
\* anything: a write to a client is owed only when its connection is closed,
\* and a handler owes nothing while the other end of its outgoing connection
\* has not answered, or while it waits for a body.  The answer of the proxy to
\* itself (ReplyTo) is an error, which fits into the buffers of a socket and
\* does not wait for its reader.
ProxyFairness ==
    /\ WF_proxyVars(ProxyAccept)
    /\ \A c \in Conns :
          /\ WF_proxyVars(Library(c))
          /\ WF_proxyVars(client[c] = "closed" /\ ReplyToClient(c))
          /\ WF_proxyVars(/\ peer[c] \in {NoPeer, Closed}
                          /\ ~(At(c, "body") /\ client[c] = "sent")
                          /\ Handler(c))

ProxyFairSpec == ProxySpec /\ ProxyFairness
-----------------------------------------------------------------------------
(* Properties.                                                             *)

\* The type invariant of the proxy's own state.
ProxyTypeOK ==
    /\ HttpTypeOK
    /\ step \in [Conns -> {"start", "write", "body", "await"}]
    /\ peer \in [Conns -> Conns \cup {Origin, Closed, NoPeer}]
    /\ reply \in [Conns -> Statuses \cup {0}]

\* The proxy's outgoing connections are limited like the incoming ones: each
\* belongs to a request that holds a slot, and none is left open by it.
OutgoingLimit ==
    Cardinality({c \in Conns : peer[c] # NoPeer}) <= MaxConnections

\* A connection keeps its slot because of somebody else.
Stuck(c) ==
    \/ conn[c] = "read" /\ client[c] = "silent"
    \/ At(c, "body") /\ client[c] = "sent"
    \/ conn[c] = "write" /\ client[c] # "closed" /\ ~FromProxy(c)
    \/ conn[c] = "handle" /\ peer[c] = Origin
    \/ conn[c] = "handle" /\ request[c].host = "self"

\* There are no timeouts.  A client keeps its slot if it sends nothing, stops
\* in the middle of the body that request.Write copies or does not read its
\* response; a server elsewhere, if it does not read or answer; and a request
\* for the proxy's own address is forwarded until it waits for a slot it
\* holds itself.  The proxy starves nobody on its own account: a connection
\* that waits forever to be accepted or admitted waits for slots that are all
\* kept in one of these ways, forever.
StarvedOnlyByStuck ==
    \A c \in Conns :
        <>[](conn[c] \in {"queued", "held"})
            => <>[](Cardinality({d \in Conns : Stuck(d)}) >= MaxConnections)
=============================================================================
