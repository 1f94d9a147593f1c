----------------------------- MODULE HttpServer -----------------------------
(***************************************************************************)
(* The HTTP library of Lab 1 (Lab1/http): the accept loop of Listen, one   *)
(* goroutine handleConnection per connection, and the buffered channel     *)
(* server.connections whose capacity limits how many of them there are.    *)
(*                                                                         *)
(* The handlers registered with Get and Post belong to the programs that   *)
(* use the library (FileServer, Proxy).  Here a handler is whatever ends   *)
(* with some status: HandlerReturns.                                       *)
(***************************************************************************)
EXTENDS Naturals, Sequences, FiniteSets

CONSTANTS
    Conns,           \* TCP connections; one is used again after it ended
    MaxConnections,  \* the argument of Listen
    Requests,        \* the requests clients send: records with a method
    Registered,      \* the methods with a handler
    Statuses,        \* the statuses of responses
    NoRequest

ASSUME HttpAssumption ==
    /\ IsFiniteSet(Conns)
    /\ MaxConnections \in Nat
    /\ NoRequest \notin Requests
    /\ {400, 500, 501} \subseteq Statuses \ {0}

VARIABLES
    conn,     \* where each connection is
    backlog,  \* connections the kernel has completed, not accepted yet
    channel,  \* the number of entries in server.connections
    client,   \* what the client has done with its side of the connection
    request,  \* what it sends
    status    \* the status of the response, 0 if there is none yet

httpVars == <<conn, backlog, channel, client, request, status>>

\* HTTPMethod.IsValid
ValidMethods == {"GET", "HEAD", "OPTIONS", "TRACE", "PUT", "DELETE", "POST",
                 "PATCH", "CONNECT"}

\* The "method" of bytes that http.ReadRequest cannot parse.
Malformed == "malformed"

\* A goroutine handleConnection runs for connections in these stages.
Admitted == {"read", "handle", "write", "release"}
Stages == {"idle", "queued", "held"} \cup Admitted

In(S) == {c \in Conns : conn[c] \in S}

HttpInit ==
    /\ conn = [c \in Conns |-> "idle"]
    /\ backlog = <<>>
    /\ channel = 0
    /\ client = [c \in Conns |-> "closed"]
    /\ request = [c \in Conns |-> NoRequest]
    /\ status = [c \in Conns |-> 0]

-----------------------------------------------------------------------------
(* The clients.                                                            *)

\* The kernel completes the handshake, with or without the program.
Connect(c, r) ==
    /\ conn[c] = "idle"
    /\ conn' = [conn EXCEPT ![c] = "queued"]
    /\ backlog' = Append(backlog, c)
    /\ client' = [client EXCEPT ![c] = "silent"]
    /\ request' = [request EXCEPT ![c] = r]
    /\ UNCHANGED <<channel, status>>

\* The head of the request is under way.
Send(c) ==
    /\ client[c] = "silent"
    /\ client' = [client EXCEPT ![c] = "sent"]
    /\ UNCHANGED <<conn, backlog, channel, request, status>>

\* The rest of the request, its body, follows: at once, later or never.
SendBody(c) ==
    /\ client[c] = "sent"
    /\ client' = [client EXCEPT ![c] = "whole"]
    /\ UNCHANGED <<conn, backlog, channel, request, status>>

\* The client gives up, before or after it has sent something.
Close(c) ==
    /\ client[c] # "closed"
    /\ client' = [client EXCEPT ![c] = "closed"]
    /\ UNCHANGED <<conn, backlog, channel, request, status>>

-----------------------------------------------------------------------------
(* The loop of Listen.                                                     *)

Accept ==
    /\ In({"held"}) = {}
    /\ backlog # <<>>
    /\ conn' = [conn EXCEPT ![Head(backlog)] = "held"]
    /\ backlog' = Tail(backlog)
    /\ UNCHANGED <<channel, client, request, status>>

\* The send blocks while the channel is full; then go handleConnection.
Admit_Bug(c) ==
    /\ conn[c] = "held"
    /\ channel <= MaxConnections
    /\ channel' = channel + 1
    /\ conn' = [conn EXCEPT ![c] = "read"]
    /\ UNCHANGED <<backlog, client, request, status>>

Admit(c) ==
    /\ conn[c] = "held"
    /\ channel < MaxConnections
    /\ channel' = channel + 1
    /\ conn' = [conn EXCEPT ![c] = "read"]
    /\ UNCHANGED <<backlog, client, request, status>>

-----------------------------------------------------------------------------
(* handleConnection.                                                       *)

\* The response is decided: writeResponse is next.
Respond(c, s) ==
    /\ conn' = [conn EXCEPT ![c] = "write"]
    /\ status' = [status EXCEPT ![c] = s]
    /\ UNCHANGED <<backlog, channel, client, request>>

\* The goroutine returns at once.
ReadFails_Bug(c) ==
    /\ conn[c] = "read"
    /\ client[c] = "closed"
    /\ conn' = [conn EXCEPT ![c] = "idle"]
    /\ request' = [request EXCEPT ![c] = NoRequest]
    /\ UNCHANGED <<backlog, channel, client, status>>

\* http.ReadRequest returns an error.  Of a client that closed, the request
\* may or may not have come before the end of the stream.
ReadFails(c) ==
    /\ conn[c] = "read"
    /\ \/ client[c] \in {"sent", "whole"} /\ request[c].method = Malformed
       \/ client[c] = "closed"
    /\ Respond(c, 400)

\* http.ReadRequest returns a request; handleRequest looks up its handler.
Dispatch(c) ==
    LET method == request[c].method
    IN  /\ conn[c] = "read"
        /\ client[c] # "silent"
        /\ method # Malformed
        /\ \/ method \notin ValidMethods /\ Respond(c, 400)
           \/ method \in ValidMethods \ Registered /\ Respond(c, 501)
           \/ /\ method \in ValidMethods \cap Registered
              /\ conn' = [conn EXCEPT ![c] = "handle"]
              /\ UNCHANGED <<backlog, channel, client, request, status>>

\* The handler returns: a response, or an error whose status becomes one.
Answer(c, s) == conn[c] = "handle" /\ Respond(c, s)

\* writeResponse, whose error is dropped, and connection.Close().  Whether
\* connection.Write returns is up to the client: it has no deadline, and a
\* large response needs somebody who reads it, or a connection that breaks.
WriteResponse(c) ==
    /\ conn[c] = "write"
    /\ conn' = [conn EXCEPT ![c] = "release"]
    /\ client' = [client EXCEPT ![c] = "closed"]
    /\ request' = [request EXCEPT ![c] = NoRequest]
    /\ status' = [status EXCEPT ![c] = 0]
    /\ UNCHANGED <<backlog, channel>>

\* <-server.connections: the goroutine takes an entry, whose ever it is and
\* whatever the connection in it, and ends.
Release(c) ==
    /\ conn[c] = "release"
    /\ channel > 0
    /\ channel' = channel - 1
    /\ conn' = [conn EXCEPT ![c] = "idle"]
    /\ UNCHANGED <<backlog, client, request, status>>

-----------------------------------------------------------------------------
\* A client, as far as the library itself is concerned.
ClientStep(c) == (\E r \in Requests : Connect(c, r)) \/ Send(c) \/ Close(c)

\* What the library does for connection c, on its own.
ServerStep(c) ==
    \/ Admit(c)
    \/ ReadFails(c)
    \/ Dispatch(c)
    \/ WriteResponse(c)
    \/ Release(c)

\* Any handler, as the library sees it.
HandlerReturns(c) == \E s \in Statuses : Answer(c, s)

HttpNext ==
    \/ Accept
    \/ \E c \in Conns :
          ClientStep(c) \/ SendBody(c) \/ ServerStep(c) \/ HandlerReturns(c)

HttpSpec == HttpInit /\ [][HttpNext]_httpVars
-----------------------------------------------------------------------------
(* Properties.                                                             *)

\* The type invariant of the library's state.
HttpTypeOK ==
    /\ conn \in [Conns -> Stages]
    /\ backlog \in Seq(Conns)
    /\ channel \in Nat
    /\ client \in [Conns -> {"silent", "sent", "whole", "closed"}]
    /\ request \in [Conns -> Requests \cup {NoRequest}]
    /\ status \in [Conns -> Statuses \cup {0}]

\* A goroutine frees a slot by taking whatever entry is oldest, so the entries
\* are not the connections being served.  Their number is still the number
\* of goroutines: no path through handleConnection keeps or frees a slot too
\* many.
SlotsMatch == channel = Cardinality(In(Admitted))

\* Listen's promise: at most maxConnections connections are served at a time,
\* and only the accept loop holds one more open.
ConnectionLimit ==
    /\ Cardinality(In(Admitted)) <= MaxConnections
    /\ Cardinality(In({"held"})) <= 1
=============================================================================
