-------------------------- MODULE FileServerProofs --------------------------
(***************************************************************************)
(* Proofs about the file server, for every set of connections, requests    *)
(* and bodies and any number of chunks: the types, that no upload- file    *)
(* outlives its handler, the library's limits with crashes added, and that *)
(* the server implements the atomic store of FileStore.                    *)
(***************************************************************************)
EXTENDS FileServer, HttpServerProofs

\* A connection in the hands of the library or of a handler has a request,
\* and a handler only one it was registered for.
RequestsKept ==
    \A c \in Conns :
        /\ conn[c] \notin {"idle", "release"} => request[c] \in Requests
        /\ conn[c] = "handle" => request[c] \in Handled

\* How far the handler of c is, and what that says about the request and
\* the upload- file.
StepSound(c) ==
    LET r == request[c]
        f == Target[request[c]]
    IN  /\ step[c] # "start" => conn[c] = "handle"
        /\ step[c] = "open" => r.method = "GET" /\ Exists(f)
        /\ step[c] \in {"copy", "sync", "rename"} =>
              /\ r.method = "POST" /\ Storable(f)
              /\ temp[c] \in Contents /\ temp[c].body = r.body
        /\ step[c] \in {"sync", "rename"} => temp[c].n = NChunks
        /\ step[c] = "rename" => temp[c].synced

StepsSound == \A c \in Conns : StepSound(c)

\* What the directory may hold: whole files, with their data on the disk.
Stable == {NoFile} \cup {Whole(b) : b \in Bodies}

FilesWhole == \A f \in Files : files[f] \in Stable /\ disk[f] \subseteq Stable

\* What was stored can be served: it has a name that the checks of both
\* handlers accept.
Servable(f) == f \in FirstFiles \/ (Storable(f) /\ \E x : f = <<x>>)

OnlyServable ==
    \A f \in Files :
        ~Servable(f) => files[f] = NoFile /\ disk[f] = {NoFile}

\* The inductive invariant of the file server.
FileInv ==
    /\ HttpInv
    /\ FileTypeOK
    /\ TempsRemoved
    /\ RequestsKept
    /\ StepsSound
    /\ FilesWhole
    /\ OnlyServable

\* The statuses the library and the file server respond with.
LEMMA StatusesOK == {200, 201, 400, 404, 500, 501} \subseteq Statuses
BY HttpAssumption, FileAssumption DEF HttpAssumption, FileAssumption

-----------------------------------------------------------------------------
(* Paths.                                                                  *)

\* Any set of natural numbers that has a bound has a maximum.
LEMMA BoundedMax ==
    ASSUME NEW n \in Nat, NEW S \in SUBSET (1 .. n), S # {}
    PROVE  Max(S) \in S
<1> DEFINE T == {n - k : k \in S}
<1>1. T \in SUBSET Nat /\ T # {}
  <2>1. PICK k \in S : TRUE
    OBVIOUS
  <2>2. n - k \in T
    OBVIOUS
  <2>3. \A i \in S : n - i \in Nat
    OBVIOUS
  <2>4. T \subseteq Nat
    BY <2>3
  <2> HIDE DEF T
  <2> QED BY <2>2, <2>4
<1>2. PICK x \in T : \A y \in T : ~(<<y, x>> \in OpToRel(<, Nat))
  <2> HIDE DEF T
  <2> QED BY <1>1, WFMin, NatLessThanWellFounded
<1>3. PICK k \in S : x = n - k
  BY <1>2
<1>4. ASSUME NEW y \in S PROVE k >= y
  <2>1. n - y \in T /\ n - y \in Nat /\ x \in Nat
    BY <1>1, <1>2
  <2>2. ~(n - y < x)
    BY <1>2, <2>1 DEF OpToRel
  <2>3. k \in Nat /\ y \in Nat
    OBVIOUS
  <2> QED BY <1>3, <2>2, <2>3
<1>5. \E z \in S : \A y \in S : z >= y
  BY <1>4
<1> QED BY <1>5 DEF Max

\* filepath.Base is one segment or nothing.
LEMMA BaseName ==
    ASSUME NEW path
    PROVE  Base(path) = <<>> \/ \E x : Base(path) = <<x>>
BY DEF Base

\* What writeFile takes a path for is in public/, or refused.
LEMMA BaseBelow ==
    ASSUME NEW path \in Seq(Segments)
    PROVE  Refused(Base(path)) \/ \A k \in DOMAIN Base(path) :
                                     Base(path)[k] \notin {"", ".", ".."}
<1> DEFINE named == {k \in DOMAIN path : path[k] # ""}
           x == path[Max(named)]
<1>1. CASE Base(path) = <<>>
  BY <1>1
<1>2. CASE Base(path) # <<>>
  <2>1. named # {} /\ x # "." /\ Base(path) = <<x>>
    BY <1>2 DEF Base
  <2>2. Len(path) \in Nat /\ DOMAIN path = 1 .. Len(path)
    OBVIOUS
  <2>3. named \in SUBSET (1 .. Len(path))
    BY <2>2
  <2>4. Max(named) \in named
    <3> HIDE DEF named
    <3> QED BY <2>1, <2>2, <2>3, BoundedMax
  <2>5. x # ""
    BY <2>4
  <2> HIDE DEF x
  <2>6. CASE x = ".."
    <3>1. Head(<<x>>) = ".." /\ <<x>> # <<>>
      BY <2>6
    <3> QED BY <2>1, <3>1 DEF Refused
  <2>7. CASE x # ".."
    <3>1. DOMAIN <<x>> = {1} /\ <<x>>[1] = x
      OBVIOUS
    <3> QED BY <2>1, <2>5, <2>7, <3>1
  <2> QED BY <2>6, <2>7
<1> QED BY <1>1, <1>2

\* The directories that path.Clean goes through.
IsWalk(w, path) ==
    w = [k \in 0 .. Len(path) |-> IF k = 0 THEN <<>> ELSE Enter(w[k - 1], path[k])]
WalkOf(path) == CHOOSE w : IsWalk(w, path)

LEMMA CleanWalk ==
    ASSUME NEW path
    PROVE  Clean(path) = WalkOf(path)[Len(path)]
BY DEF Clean, WalkOf, IsWalk

\* w is what path.Clean does with the first n segments.
WalksUpto(w, path, n) ==
    w[0] = <<>> /\ \A k \in 1 .. n : w[k] = Enter(w[k - 1], path[k])

LEMMA WalkExists ==
    ASSUME NEW path, Len(path) \in Nat
    PROVE  \E w : IsWalk(w, path)
<1> DEFINE T == {n \in Nat : ~\E w : WalksUpto(w, path, n)}
<1>1. T = {}
  <2> SUFFICES ASSUME T # {} PROVE FALSE
    OBVIOUS
  <2>1. PICK n \in T : \A m \in T : ~(<<m, n>> \in OpToRel(<, Nat))
    BY WFMin, NatLessThanWellFounded
  <2>2. n \in Nat
    BY <2>1
  <2>3. n # 0
    <3> DEFINE w == [k \in {0} |-> <<>>]
    <3>1. WalksUpto(w, path, 0)
      BY DEF WalksUpto
    <3> HIDE DEF w
    <3> QED BY <2>1, <3>1
  <2>4. n - 1 \in Nat /\ n - 1 < n
    BY <2>2, <2>3
  <2>5. n - 1 \notin T
    <3>1. n - 1 \in T => ~(<<n - 1, n>> \in OpToRel(<, Nat))
      BY <2>1
    <3>2. <<n - 1, n>> \in OpToRel(<, Nat)
      BY <2>2, <2>4 DEF OpToRel
    <3> QED BY <3>1, <3>2
  <2>6. PICK v : WalksUpto(v, path, n - 1)
    BY <2>4, <2>5
  <2> DEFINE new == Enter(v[n - 1], path[n])
             w == [k \in 0 .. n |-> IF k = n THEN new ELSE v[k]]
  <2>7. WalksUpto(w, path, n)
    <3>1. w[0] = <<>>
      <4>1. 0 \in 0 .. n /\ 0 # n
        BY <2>2, <2>3
      <4>2. w[0] = v[0]
        BY <4>1
      <4> HIDE DEF w
      <4> QED BY <2>6, <4>2 DEF WalksUpto
    <3>2. ASSUME NEW k \in 1 .. n PROVE w[k] = Enter(w[k - 1], path[k])
      <4>1. w[k - 1] = v[k - 1]
        BY <2>2
      <4>2. CASE k = n
        <5>1. w[k] = new
          BY <4>2
        <5> HIDE DEF w
        <5> QED BY <4>1, <4>2, <5>1
      <4>3. CASE k # n
        <5>1. k \in 1 .. n - 1
          BY <2>2, <4>3
        <5>2. w[k] = v[k]
          BY <4>3
        <5> HIDE DEF w
        <5> QED BY <2>6, <4>1, <5>1, <5>2 DEF WalksUpto
      <4> QED BY <4>2, <4>3
    <3> HIDE DEF w
    <3> QED BY <3>1, <3>2 DEF WalksUpto
  <2> HIDE DEF w
  <2> QED BY <2>1, <2>7
<1>2. PICK v : WalksUpto(v, path, Len(path))
  BY <1>1
<1> DEFINE w == [k \in 0 .. Len(path) |-> v[k]]
<1>3. ASSUME NEW k \in 0 .. Len(path)
      PROVE  w[k] = IF k = 0 THEN <<>> ELSE Enter(w[k - 1], path[k])
  <2>1. CASE k = 0
    BY <1>2, <2>1 DEF WalksUpto
  <2>2. CASE k # 0
    <3>1. k \in 1 .. Len(path) /\ k - 1 \in 0 .. Len(path)
      BY <2>2
    <3>2. w[k] = v[k] /\ w[k - 1] = v[k - 1]
      BY <3>1
    <3> HIDE DEF w
    <3> QED BY <1>2, <2>2, <3>1, <3>2 DEF WalksUpto
  <2> QED BY <2>1, <2>2
<1>4. IsWalk(w, path)
  BY <1>3 DEF IsWalk
<1> QED BY <1>4

LEMMA WalkSteps ==
    ASSUME NEW path, Len(path) \in Nat
    PROVE  /\ WalkOf(path)[0] = <<>>
           /\ \A k \in 1 .. Len(path) :
                 WalkOf(path)[k] = Enter(WalkOf(path)[k - 1], path[k])
<1> DEFINE w == WalkOf(path)
<1>1. IsWalk(w, path)
  BY WalkExists DEF WalkOf
<1> HIDE DEF w
<1>2. w[0] = <<>>
  BY <1>1 DEF IsWalk
<1>3. ASSUME NEW k \in 1 .. Len(path) PROVE w[k] = Enter(w[k - 1], path[k])
  <2>1. k \in 0 .. Len(path) /\ k # 0
    OBVIOUS
  <2> QED BY <1>1, <2>1 DEF IsWalk
<1> QED BY <1>2, <1>3 DEF w

\* The segments that lead further down.
Below == Segments \ {"", ".", ".."}

LEMMA EnterBelow ==
    ASSUME NEW d \in Seq(Below), NEW s \in Segments
    PROVE  Enter(d, s) \in Seq(Below)
<1>1. CASE s \in {"", "."}
  BY <1>1 DEF Enter
<1>2. CASE s = ".."
  <2>1. Enter(d, s) = IF d = <<>> THEN <<>> ELSE Front(d)
    BY <1>2 DEF Enter
  <2>2. d # <<>> => Front(d) \in Seq(Below)
    BY DEF Front
  <2> QED BY <2>1, <2>2
<1>3. CASE s \notin {"", ".", ".."}
  <2>1. Enter(d, s) = Append(d, s) /\ s \in Below
    BY <1>3 DEF Enter, Below
  <2> HIDE DEF Below
  <2> QED BY <2>1
<1> QED BY <1>1, <1>2, <1>3

\* What path.Clean returns leads down from public/, segment by segment.
LEMMA CleanBelow ==
    ASSUME NEW path \in Seq(Segments)
    PROVE  Clean(path) \in Seq(Below)
<1> DEFINE w == WalkOf(path)
           N == Len(path)
           T == {k \in 0 .. N : w[k] \notin Seq(Below)}
<1>1. N \in Nat /\ \A k \in 1 .. N : path[k] \in Segments
  OBVIOUS
<1>2. w[0] = <<>> /\ \A k \in 1 .. N : w[k] = Enter(w[k - 1], path[k])
  BY <1>1, WalkSteps
<1> HIDE DEF w, N
<1>3. T \in SUBSET Nat
  BY <1>1
<1>4. T = {}
  <2> SUFFICES ASSUME T # {} PROVE FALSE
    OBVIOUS
  <2>1. PICK n \in T : \A m \in T : ~(<<m, n>> \in OpToRel(<, Nat))
    <3> HIDE DEF T
    <3> QED BY <1>3, WFMin, NatLessThanWellFounded
  <2>2. n \in Nat /\ n \in 0 .. N /\ w[n] \notin Seq(Below)
    <3>1. n \in 0 .. N /\ w[n] \notin Seq(Below)
      OBVIOUS
    <3>2. n \in Nat
      BY <1>3
    <3> QED BY <3>1, <3>2
  <2>3. n # 0
    <3>1. <<>> \in Seq(Below)
      OBVIOUS
    <3> HIDE DEF T
    <3> QED BY <1>2, <2>2, <3>1
  <2>4. n - 1 \in Nat /\ n - 1 \in 0 .. N /\ n \in 1 .. N /\ n - 1 < n
    BY <1>1, <2>2, <2>3
  <2>5. n - 1 \notin T
    <3>1. n - 1 \in T => ~(<<n - 1, n>> \in OpToRel(<, Nat))
      BY <2>1
    <3>2. <<n - 1, n>> \in OpToRel(<, Nat)
      BY <2>2, <2>4 DEF OpToRel
    <3> QED BY <3>1, <3>2
  <2>6. w[n - 1] \in Seq(Below)
    BY <2>4, <2>5
  <2> QED BY <1>1, <1>2, <2>2, <2>4, <2>6, EnterBelow
<1>5. N \in 0 .. N
  BY <1>1
<1>6. w[N] \in Seq(Below)
  BY <1>4, <1>5
<1> QED BY <1>6, CleanWalk DEF w, N

\* A name with an extension is its own path.
LEMMA CleanName ==
    ASSUME NEW x \in TextNames
    PROVE  Clean(<<x>>) = <<x>>
<1> DEFINE path == <<x>>
           w == WalkOf(path)
<1>1. Len(path) = 1 /\ path[1] = x
  OBVIOUS
<1> HIDE DEF path
<1>2. w[0] = <<>> /\ \A k \in 1 .. 1 : w[k] = Enter(w[k - 1], path[k])
  BY <1>1, WalkSteps
<1> HIDE DEF w
<1>3. w[1] = Enter(<<>>, x)
  <2>1. 1 \in 1 .. 1 /\ 1 - 1 = 0
    OBVIOUS
  <2> QED BY <1>1, <1>2, <2>1
<1>4. x \notin {"", ".", ".."}
  BY PathAssumption, Zenon DEF PathAssumption
<1>5. Enter(<<>>, x) = Append(<<>>, x)
  BY <1>4, Zenon DEF Enter
<1>6. Append(<<>>, x) = <<x>>
  OBVIOUS
<1> QED BY <1>1, <1>3, <1>5, <1>6, CleanWalk DEF w, path

-----------------------------------------------------------------------------
(* Contents.                                                               *)

\* No body is the content of a file that does not exist, so that a file's
\* content tells whether it exists.
LEMMA ContentsOK ==
    /\ NoFile \notin Contents
    /\ \A b \in Bodies : Whole(b) \in Contents
    /\ \A x \in Contents : x.n = NChunks /\ x.synced => x = Whole(x.body)
    /\ Stable \subseteq Contents \cup {NoFile}
<1>1. NoFile \notin Contents
  BY FileAssumption DEF FileAssumption, NoFile, Contents
<1>2. \A b \in Bodies : Whole(b) \in Contents
  BY FileAssumption DEF FileAssumption, Whole, Contents
<1>3. \A x \in Contents : x.n = NChunks /\ x.synced => x = Whole(x.body)
  BY DEF Contents, Whole
<1> QED
  BY <1>1, <1>2, <1>3 DEF Stable

\* What is left of a file that is whole and synced is that file.
LEMMA DurableWhole ==
    ASSUME NEW x, x.synced
    PROVE  Durable(x) = {x}
BY DEF Durable

\* The abstract store sees the body of a whole file.
LEMMA StableBodies ==
    /\ AsBody(NoFile) = NoBody
    /\ \A b \in Bodies : AsBody(Whole(b)) = b
    /\ \A x \in Stable : /\ AsBody(x) \in Bodies \cup {NoBody}
                         /\ AsBody(x) = NoBody => x = NoFile
<1>1. AsBody(NoFile) = NoBody
  BY DEF AsBody
<1>2. \A b \in Bodies : AsBody(Whole(b)) = b
  <2> TAKE b \in Bodies
  <2>1. Whole(b) # NoFile
    BY ContentsOK
  <2> QED
    BY <2>1 DEF AsBody, Whole
<1> QED
  BY <1>1, <1>2, FileAssumption DEF Stable, FileAssumption

\* A request that a handler is given names a method that is registered.
LEMMA HandledOK ==
    ASSUME NEW r \in Handled
    PROVE  /\ r \in Requests /\ r.method \in {"GET", "POST"}
           /\ r.method = "POST" => r.body \in Bodies
           /\ Target[r] \notin Directories \cup {<<>>} => Target[r] \in Files
BY FileAssumption DEF FileAssumption, Handled, Files
-----------------------------------------------------------------------------
(* The library.                                                            *)

\* A step that leaves the directory, the upload- files and the handlers
\* alone, and takes no request from a handler, keeps the invariant.
LEMMA HandlersUntouched ==
    ASSUME FileInv, HttpInv', RequestsKept',
           UNCHANGED <<step, temp, files, disk>>,
           body' \in [Conns -> Contents \cup {NoFile}],
           \A c \in Conns :
              conn[c] = "handle" => conn'[c] = "handle" /\ request'[c] = request[c]
    PROVE  FileInv'
<1>1. FileTypeOK'
  BY DEF FileInv, FileTypeOK, HttpInv
<1>2. TempsRemoved'
  BY DEF FileInv, TempsRemoved
<1>3. StepsSound'
  <2>1. SUFFICES ASSUME NEW c \in Conns PROVE StepSound(c)'
    BY DEF StepsSound
  <2>2. StepSound(c)
    BY DEF FileInv, StepsSound
  <2>3. step[c] # "start" => conn'[c] = "handle" /\ request'[c] = request[c]
    BY <2>2 DEF StepSound
  <2> QED
    BY <2>2, <2>3 DEF StepSound, Exists
<1>4. FilesWhole' /\ OnlyServable'
  BY DEF FileInv, FilesWhole, OnlyServable
<1> QED
  BY <1>1, <1>2, <1>3, <1>4 DEF FileInv

\* A step that moves one connection c to another stage keeps the requests if
\* c keeps its own, or has one if it needs one.
LEMMA RequestsStep ==
    ASSUME FileInv, NEW c \in Conns, NEW s \in Stages,
           conn' = [conn EXCEPT ![c] = s],
           \A d \in Conns \ {c} : request'[d] = request[d],
           s \notin {"idle", "release"} => request'[c] \in Requests,
           s = "handle" => request'[c] \in Handled
    PROVE  RequestsKept'
<1>1. conn \in [Conns -> Stages]
  BY DEF FileInv, HttpInv, HttpTypeOK
<1> QED
  BY <1>1 DEF FileInv, RequestsKept

\* The accept loop.
LEMMA FileAcceptKeeps ==
    ASSUME FileInv, Accept, UNCHANGED fileVars
    PROVE  FileInv'
<1>1. HttpInv'
  BY AcceptKeeps DEF FileInv
<1>2. /\ Head(backlog) \in Conns /\ conn[Head(backlog)] = "queued"
      /\ conn \in [Conns -> Stages] /\ "held" \in Stages
      /\ conn' = [conn EXCEPT ![Head(backlog)] = "held"]
      /\ request' = request
  BY DEF FileInv, HttpInv, HttpTypeOK, QueueSound, Accept, Stages
<1>3. request[Head(backlog)] \in Requests
  BY <1>2 DEF FileInv, RequestsKept
<1>4. RequestsKept'
  BY <1>2, <1>3, RequestsStep
<1>5. UNCHANGED <<step, temp, files, disk>>
      /\ body' \in [Conns -> Contents \cup {NoFile}]
  BY DEF fileVars, FileInv, FileTypeOK
<1>6. \A c \in Conns :
         conn[c] = "handle" => conn'[c] = "handle" /\ request'[c] = request[c]
  BY <1>2
<1> QED
  BY <1>1, <1>4, <1>5, <1>6, HandlersUntouched

\* What the clients and the library do on their own: a request comes with
\* its connection, stays until the response is written, and Dispatch gives
\* a handler only what is registered.
LEMMA LibraryKeeps ==
    ASSUME FileInv, NEW c \in Conns, Library(c)
    PROVE  FileInv'
<1>1. HttpInv'
  BY ConnectKeeps, ClientKeeps, AdmitKeeps, ServeKeeps, ReleaseKeeps
     DEF FileInv, Library, ClientStep
<1>2. UNCHANGED <<step, temp, files, disk>>
      /\ body' \in [Conns -> Contents \cup {NoFile}]
  BY DEF Library, fileVars, FileInv, FileTypeOK
<1>3. conn \in [Conns -> Stages] /\ request \in [Conns -> Requests \cup {NoRequest}]
  BY DEF FileInv, HttpInv, HttpTypeOK
<1>4. CASE \E r \in Requests : Connect(c, r)
  <2>1. PICK r \in Requests : Connect(c, r)
    BY <1>4
  <2>2. /\ conn[c] = "idle" /\ conn' = [conn EXCEPT ![c] = "queued"]
        /\ request' = [request EXCEPT ![c] = r] /\ "queued" \in Stages
    BY <2>1 DEF Connect, Stages
  <2>3. RequestsKept'
    BY <1>3, <2>2, RequestsStep
  <2>4. \A d \in Conns :
           conn[d] = "handle" => conn'[d] = "handle" /\ request'[d] = request[d]
    BY <1>3, <2>2
  <2> QED
    BY <1>1, <1>2, <2>3, <2>4, HandlersUntouched
<1>5. CASE Send(c) \/ Close(c)
  <2>1. conn' = conn /\ request' = request
    BY <1>5 DEF Send, Close
  <2>2. RequestsKept'
    BY <2>1 DEF FileInv, RequestsKept
  <2> QED
    BY <1>1, <1>2, <2>1, <2>2, HandlersUntouched
<1>6. CASE Admit(c) \/ ReadFails(c) \/ Dispatch(c) \/ Release(c)
  <2>1. request' = request /\ conn[c] # "handle" /\ conn[c] # "idle"
    BY <1>6 DEF Admit, ReadFails, Dispatch, Release, Respond
  <2>2. \E s \in Stages :
           /\ conn' = [conn EXCEPT ![c] = s]
           /\ s \notin {"idle", "release"} => conn[c] # "release"
           /\ s = "handle" => request[c].method \in Registered
    BY <1>6 DEF Admit, ReadFails, Dispatch, Release, Respond, Stages, Admitted
  <2>3. PICK s \in Stages :
           /\ conn' = [conn EXCEPT ![c] = s]
           /\ s \notin {"idle", "release"} => conn[c] # "release"
           /\ s = "handle" => request[c].method \in Registered
    BY <2>2
  <2>4. s \notin {"idle", "release"} => request'[c] \in Requests
    BY <2>1, <2>3 DEF FileInv, RequestsKept
  <2>5. s = "handle" => request'[c] \in Handled
    BY <2>1, <2>3, <2>4 DEF Handled
  <2>6. RequestsKept'
    BY <2>1, <2>3, <2>4, <2>5, RequestsStep
  <2>7. \A d \in Conns :
           conn[d] = "handle" => conn'[d] = "handle" /\ request'[d] = request[d]
    BY <1>3, <2>1, <2>3
  <2> QED
    BY <1>1, <1>2, <2>6, <2>7, HandlersUntouched
<1> QED
  BY <1>4, <1>5, <1>6 DEF Library, ClientStep

\* The response is written.
LEMMA ReplyKeeps ==
    ASSUME FileInv, NEW c \in Conns, Reply(c)
    PROVE  FileInv'
<1>1. HttpInv'
  BY ServeKeeps DEF FileInv, Reply
<1>2. UNCHANGED <<step, temp, files, disk>>
      /\ body' \in [Conns -> Contents \cup {NoFile}]
  BY DEF Reply, FileInv, FileTypeOK
<1>3. /\ conn \in [Conns -> Stages] /\ request \in [Conns -> Requests \cup {NoRequest}]
      /\ conn[c] = "write" /\ conn' = [conn EXCEPT ![c] = "release"]
      /\ request' = [request EXCEPT ![c] = NoRequest] /\ "release" \in Stages
  BY DEF FileInv, HttpInv, HttpTypeOK, Reply, WriteResponse, Stages, Admitted
<1>4. RequestsKept'
  BY <1>3, RequestsStep
<1>5. \A d \in Conns :
         conn[d] = "handle" => conn'[d] = "handle" /\ request'[d] = request[d]
  BY <1>3
<1> QED
  BY <1>1, <1>2, <1>4, <1>5, HandlersUntouched
-----------------------------------------------------------------------------
(* The handlers.                                                           *)

\* A handler that returns removes its upload- file.  The other handlers are
\* where they were, and no file they found has gone.
LEMMA FinishKeeps ==
    ASSUME FileInv, NEW c \in Conns, NEW s \in Statuses, Finish(c, s),
           body' \in [Conns -> Contents \cup {NoFile}],
           files' \in [Files -> Contents \cup {NoFile}],
           disk' \in [Files -> SUBSET (Contents \cup {NoFile})],
           \A f \in Files : files[f] # NoFile => files'[f] # NoFile,
           FilesWhole', OnlyServable'
    PROVE  FileInv'
<1>1. HttpInv'
  BY ServeKeeps DEF FileInv, Finish
<1>2. /\ conn \in [Conns -> Stages] /\ "write" \in Stages
      /\ step \in [Conns -> {"start", "open", "copy", "sync", "rename"}]
      /\ temp \in [Conns -> Contents \cup {NoFile}]
      /\ conn[c] = "handle" /\ conn' = [conn EXCEPT ![c] = "write"]
      /\ step' = [step EXCEPT ![c] = "start"]
      /\ temp' = [temp EXCEPT ![c] = NoFile]
      /\ request' = request
  BY DEF FileInv, FileTypeOK, HttpTypeOK, Finish, Answer, Respond, Stages,
         Admitted
<1>3. FileTypeOK'
  BY <1>1, <1>2 DEF FileTypeOK, HttpInv
<1>4. TempsRemoved'
  BY <1>2 DEF FileInv, TempsRemoved
<1>5. RequestsKept'
  <2>1. request[c] \in Requests
    BY <1>2 DEF FileInv, RequestsKept
  <2> QED
    BY <1>2, <2>1, RequestsStep
<1>6. StepsSound'
  <2>1. SUFFICES ASSUME NEW d \in Conns PROVE StepSound(d)'
    BY DEF StepsSound
  <2>2. StepSound(d)
    BY DEF FileInv, StepsSound
  <2>3. CASE d = c
    BY <1>2, <2>3 DEF StepSound
  <2>4. CASE d # c
    <3>1. /\ conn'[d] = conn[d] /\ step'[d] = step[d] /\ temp'[d] = temp[d]
          /\ request'[d] = request[d]
      BY <1>2, <2>4
    <3>2. ASSUME NEW f, Exists(f) PROVE Exists(f)'
      BY <3>2 DEF Exists
    <3> QED
      BY <2>2, <3>1, <3>2 DEF StepSound
  <2> QED
    BY <2>3, <2>4
<1> QED
  BY <1>1, <1>3, <1>4, <1>5, <1>6 DEF FileInv

\* A handler that returns without a file written.
LEMMA FinishReadOnly ==
    ASSUME FileInv, NEW c \in Conns, NEW s \in Statuses, Finish(c, s),
           body' \in [Conns -> Contents \cup {NoFile}], UNCHANGED <<files, disk>>
    PROVE  FileInv'
<1>1. /\ files' \in [Files -> Contents \cup {NoFile}]
      /\ disk' \in [Files -> SUBSET (Contents \cup {NoFile})]
  BY DEF FileInv, FileTypeOK
<1>2. FilesWhole' /\ OnlyServable'
  BY DEF FileInv, FilesWhole, OnlyServable
<1> QED
  BY <1>1, <1>2, FinishKeeps

\* A step within the handler of c: its upload- file becomes x, and it goes on
\* at p.
LEMMA WithinHandler ==
    ASSUME FileInv, NEW c \in Conns, conn[c] = "handle",
           NEW p \in {"start", "open", "copy", "sync", "rename"},
           NEW x \in Contents \cup {NoFile},
           step' = [step EXCEPT ![c] = p], temp' = [temp EXCEPT ![c] = x],
           UNCHANGED <<httpVars, body, files, disk>>, StepSound(c)'
    PROVE  FileInv'
<1>1. HttpInv'
  BY HttpStutters DEF FileInv
<1>2. /\ step \in [Conns -> {"start", "open", "copy", "sync", "rename"}]
      /\ temp \in [Conns -> Contents \cup {NoFile}]
      /\ conn' = conn /\ request' = request
  BY DEF FileInv, FileTypeOK, httpVars
<1>3. FileTypeOK'
  BY <1>1, <1>2 DEF FileInv, FileTypeOK, HttpInv
<1>4. TempsRemoved'
  BY <1>2 DEF FileInv, TempsRemoved
<1>5. RequestsKept'
  BY <1>2 DEF FileInv, RequestsKept
<1>6. StepsSound'
  <2>1. SUFFICES ASSUME NEW d \in Conns, d # c PROVE StepSound(d)'
    BY DEF StepsSound
  <2>2. StepSound(d)
    BY DEF FileInv, StepsSound
  <2>3. step'[d] = step[d] /\ temp'[d] = temp[d]
    BY <1>2, <2>1
  <2> QED
    BY <1>2, <2>2, <2>3 DEF StepSound, Exists
<1>7. FilesWhole' /\ OnlyServable'
  BY DEF FileInv, FilesWhole, OnlyServable
<1> QED
  BY <1>1, <1>3, <1>4, <1>5, <1>6, <1>7 DEF FileInv

\* The GET handler: os.Stat found the file that os.ReadFile opens.
LEMMA GetKeeps ==
    ASSUME FileInv, NEW c \in Conns,
           Stat(c) \/ ReadFile(c) \/ ReadFileFails(c)
    PROVE  FileInv'
<1>1. /\ conn[c] = "handle" /\ request[c].method = "GET"
      /\ step \in [Conns -> {"start", "open", "copy", "sync", "rename"}]
      /\ temp \in [Conns -> Contents \cup {NoFile}]
      /\ body \in [Conns -> Contents \cup {NoFile}]
      /\ files \in [Files -> Contents \cup {NoFile}]
  BY DEF Stat, ReadFile, ReadFileFails, At, FileInv, FileTypeOK
<1>2. CASE Stat(c)
  <2>1. UNCHANGED <<body, files, disk>>
    BY <1>2 DEF Stat
  <2>2. CASE \E s \in Statuses : Finish(c, s)
    BY <1>1, <2>1, <2>2, FinishReadOnly
  <2>3. CASE /\ Exists(Target[request[c]])
             /\ Goto(c, "open") /\ UNCHANGED temp
    <3>1. /\ step' = [step EXCEPT ![c] = "open"]
          /\ temp' = [temp EXCEPT ![c] = temp[c]]
          /\ temp[c] \in Contents \cup {NoFile}
          /\ UNCHANGED <<httpVars, body, files, disk>>
          /\ conn' = conn /\ request' = request
      BY <1>1, <2>1, <2>3 DEF Goto, httpVars
    <3>2. StepSound(c)'
      BY <1>1, <2>1, <2>3, <3>1 DEF StepSound, Exists
    <3> QED
      BY <1>1, <3>1, <3>2, WithinHandler
  <2> QED
    BY <1>2, <2>2, <2>3, StatusesOK DEF Stat
<1>3. CASE ReadFile(c)
  <2>1. Exists(Target[request[c]])
    BY <1>3 DEF ReadFile, At, FileInv, StepsSound, StepSound
  <2>2. /\ body' \in [Conns -> Contents \cup {NoFile}]
        /\ UNCHANGED <<files, disk>> /\ Finish(c, 200) /\ 200 \in Statuses
    BY <1>1, <1>3, <2>1, StatusesOK DEF ReadFile, Exists
  <2> QED
    BY <2>2, FinishReadOnly
<1>4. CASE ReadFileFails(c)
  <2>1. PICK s \in OSErrors : Finish(c, s) /\ UNCHANGED <<body, files, disk>>
    BY <1>4 DEF ReadFileFails
  <2>2. s \in Statuses
    BY FileAssumption, StatusesOK DEF FileAssumption
  <2> QED
    BY <1>1, <2>1, <2>2, FinishReadOnly
<1> QED
  BY <1>2, <1>3, <1>4

\* The POST handler up to the rename: the upload- file grows chunk by chunk
\* until it holds the body, and is synced then.
LEMMA UploadKeeps ==
    ASSUME FileInv, NEW c \in Conns,
           CreateTemp(c) \/ Copy(c) \/ Sync(c)
    PROVE  FileInv'
<1>1. /\ conn[c] = "handle" /\ request[c].method = "POST"
      /\ step \in [Conns -> {"start", "open", "copy", "sync", "rename"}]
      /\ temp \in [Conns -> Contents \cup {NoFile}]
      /\ body \in [Conns -> Contents \cup {NoFile}]
      /\ UNCHANGED <<body, files, disk>>
  BY DEF CreateTemp, Copy, Sync, At, FileInv, FileTypeOK
<1>2. request[c] \in Handled /\ request[c].body \in Bodies
  BY <1>1, HandledOK DEF FileInv, RequestsKept
<1>3. StepSound(c)
  BY DEF FileInv, StepsSound
<1>4. CASE CreateTemp(c)
  <2> DEFINE x == [body |-> request[c].body, n |-> 0, synced |-> FALSE]
  <2>1. CASE Finish(c, 400)
    BY <1>1, <2>1, FinishReadOnly, StatusesOK
  <2>2. CASE /\ Storable(Target[request[c]]) /\ Goto(c, "copy")
             /\ temp' = [temp EXCEPT ![c] = x]
    <3>1. x \in Contents
      BY <1>2, FileAssumption DEF FileAssumption, Contents
    <3>2. /\ step' = [step EXCEPT ![c] = "copy"]
          /\ UNCHANGED <<httpVars, body, files, disk>>
          /\ conn' = conn /\ request' = request
      BY <1>1, <2>2 DEF Goto, httpVars
    <3>3. temp'[c] = x /\ step'[c] = "copy"
      BY <1>1, <2>2, <3>2
    <3>4. StepSound(c)'
      BY <1>1, <2>2, <3>1, <3>2, <3>3 DEF StepSound
    <3> HIDE DEF x
    <3> QED
      BY <1>1, <2>2, <3>1, <3>2, <3>4, WithinHandler
  <2> QED
    BY <1>4, <2>1, <2>2 DEF CreateTemp
<1>5. CASE Copy(c)
  <2>1. /\ step[c] = "copy" /\ temp[c] \in Contents /\ temp[c].n \in 0 .. NChunks
        /\ temp[c].body = request[c].body /\ Storable(Target[request[c]])
    BY <1>3, <1>5 DEF Copy, At, StepSound, Contents
  <2>2. CASE temp[c].n < NChunks
    <3> DEFINE x == [temp[c] EXCEPT !.n = @ + 1]
    <3>1. /\ temp' = [temp EXCEPT ![c] = x] /\ step' = step
          /\ UNCHANGED <<httpVars, body, files, disk>>
          /\ conn' = conn /\ request' = request
      BY <1>1, <1>5, <2>2 DEF Copy, httpVars
    <3>2. x \in Contents /\ x.body = request[c].body
      BY <2>1, <2>2, FileAssumption DEF FileAssumption, Contents
    <3>3. temp'[c] = x /\ step' = [step EXCEPT ![c] = "copy"] /\ step'[c] = "copy"
      BY <1>1, <2>1, <3>1
    <3> HIDE DEF x
    <3>4. StepSound(c)'
      BY <1>1, <2>1, <3>1, <3>2, <3>3 DEF StepSound
    <3> QED
      BY <1>1, <3>1, <3>2, <3>3, <3>4, WithinHandler
  <2>3. CASE ~(temp[c].n < NChunks)
    <3>1. /\ step' = [step EXCEPT ![c] = "sync"]
          /\ temp' = [temp EXCEPT ![c] = temp[c]]
          /\ UNCHANGED <<httpVars, body, files, disk>>
          /\ conn' = conn /\ request' = request
      BY <1>1, <1>5, <2>3 DEF Copy, Goto, httpVars
    <3>2. temp[c].n = NChunks
      BY <2>1, <2>3, FileAssumption DEF FileAssumption
    <3>3. temp'[c] = temp[c] /\ step'[c] = "sync"
      BY <1>1, <3>1
    <3>4. StepSound(c)'
      BY <1>1, <2>1, <3>1, <3>2, <3>3 DEF StepSound
    <3> QED
      BY <1>1, <2>1, <3>1, <3>4, WithinHandler
  <2> QED
    BY <2>2, <2>3
<1>6. CASE Sync(c)
  <2> DEFINE x == [temp[c] EXCEPT !.synced = TRUE]
  <2>1. /\ step[c] = "sync" /\ temp[c] \in Contents /\ temp[c].n = NChunks
        /\ temp[c].body = request[c].body /\ Storable(Target[request[c]])
    BY <1>3, <1>6 DEF Sync, At, StepSound
  <2>2. /\ temp' = [temp EXCEPT ![c] = x] /\ step' = [step EXCEPT ![c] = "rename"]
        /\ UNCHANGED <<httpVars, body, files, disk>>
        /\ conn' = conn /\ request' = request
    BY <1>1, <1>6 DEF Sync, Goto, httpVars
  <2>3. x \in Contents /\ x.body = request[c].body /\ x.n = NChunks /\ x.synced
    BY <2>1 DEF Contents
  <2> HIDE DEF x
  <2>4. temp'[c] = x /\ step'[c] = "rename"
    BY <1>1, <2>2
  <2>5. StepSound(c)'
    BY <1>1, <2>1, <2>2, <2>3, <2>4 DEF StepSound
  <2> QED
    BY <1>1, <2>2, <2>3, <2>5, WithinHandler
<1> QED
  BY <1>4, <1>5, <1>6

\* What os.Rename puts into the directory: the whole body, synced, under a
\* name that can be served.
LEMMA RenameWhole ==
    ASSUME FileInv, NEW c \in Conns, At(c, "POST", "rename")
    PROVE  /\ request[c] \in Handled /\ request[c].body \in Bodies
           /\ temp[c] = Whole(request[c].body)
           /\ Durable(temp[c]) = {temp[c]}
           /\ Storable(Target[request[c]])
           /\ Target[request[c]] \notin Directories => Target[request[c]] \in Files
<1>1. request[c] \in Handled /\ request[c].method = "POST"
  BY DEF FileInv, RequestsKept, At
<1>2. StepSound(c) /\ step[c] = "rename"
  BY DEF FileInv, StepsSound, At
<1>3. /\ temp[c] \in Contents /\ temp[c].body = request[c].body
      /\ temp[c].n = NChunks /\ temp[c].synced /\ Storable(Target[request[c]])
  BY <1>2 DEF StepSound
<1>4. Target[request[c]] # <<>>
  BY <1>3 DEF Storable
<1> QED
  BY <1>1, <1>3, <1>4, ContentsOK, DurableWhole, HandledOK

\* The POST handler's ways out.
LEMMA PostEndKeeps ==
    ASSUME FileInv, NEW c \in Conns, Rename(c) \/ SaveFails(c)
    PROVE  FileInv'
<1> DEFINE f == Target[request[c]]
<1>1. /\ body \in [Conns -> Contents \cup {NoFile}]
      /\ files \in [Files -> Contents \cup {NoFile}]
      /\ disk \in [Files -> SUBSET (Contents \cup {NoFile})]
      /\ body' = body
  BY DEF FileInv, FileTypeOK, Rename, SaveFails
<1>2. CASE SaveFails(c)
  <2>1. PICK s \in OSErrors : Finish(c, s) /\ UNCHANGED <<body, files, disk>>
    BY <1>2 DEF SaveFails
  <2>2. s \in Statuses
    BY FileAssumption, StatusesOK DEF FileAssumption
  <2> QED
    BY <1>1, <2>1, <2>2, FinishReadOnly
<1>3. CASE Rename(c) /\ f \in Directories
  <2>1. Finish(c, 500) /\ UNCHANGED <<files, disk>> /\ 500 \in Statuses
    BY <1>3, StatusesOK DEF Rename
  <2> QED
    BY <1>1, <2>1, FinishReadOnly
<1>4. CASE Rename(c) /\ f \notin Directories
  <2> DEFINE w == Whole(request[c].body)
  <2>1. /\ Finish(c, 201) /\ 201 \in Statuses /\ At(c, "POST", "rename")
        /\ files' = [files EXCEPT ![f] = temp[c]]
        /\ disk' = [disk EXCEPT ![f] = @ \cup Durable(temp[c])]
    BY <1>4, StatusesOK DEF Rename
  <2>2. /\ temp[c] = w /\ Durable(temp[c]) = {w} /\ Storable(f) /\ f \in Files
        /\ w \in Stable /\ w \in Contents /\ w # NoFile
    BY <1>4, <2>1, RenameWhole, ContentsOK DEF Stable
  <2> HIDE DEF w
  <2>3. /\ files' = [files EXCEPT ![f] = w]
        /\ disk' = [disk EXCEPT ![f] = disk[f] \cup {w}]
    BY <1>1, <2>1, <2>2
  <2>4. /\ files' \in [Files -> Contents \cup {NoFile}]
        /\ disk' \in [Files -> SUBSET (Contents \cup {NoFile})]
    BY <1>1, <2>2, <2>3
  <2>5. FilesWhole'
    BY <1>1, <2>2, <2>3 DEF FileInv, FilesWhole
  <2>6. Servable(f)
    <3>1. request[c] \in Handled /\ request[c].method = "POST"
      BY <2>1 DEF FileInv, RequestsKept, At
    <3>2. f = Base(request[c].path)
      BY <3>1 DEF Target
    <3> QED
      BY <2>2, <3>2, BaseName DEF Servable, Storable
  <2>7. OnlyServable'
    BY <1>1, <2>2, <2>3, <2>6 DEF FileInv, OnlyServable
  <2>8. \A g \in Files : files[g] # NoFile => files'[g] # NoFile
    BY <1>1, <2>2, <2>3
  <2> QED
    BY <1>1, <2>1, <2>4, <2>5, <2>7, <2>8, FinishKeeps
<1> QED
  BY <1>2, <1>3, <1>4 DEF Rename

-----------------------------------------------------------------------------
(* Init and the deaths.                                                    *)

\* A process that is gone leaves the library as Listen finds it.
LEMMA DieStartsOver == Die => HttpInv'
<1>1. Die => HttpInit'
  BY DEF Die, HttpInit
<1>2. HttpInit' => HttpInv'
  BY HttpInitOK, PTL
<1> QED
  BY <1>1, <1>2

\* After a death no handler is running and no upload- file is open; what the
\* directory holds is whole if every content the disk may have is.
LEMMA DieKeeps ==
    ASSUME FileInv, Die,
           files' \in [Files -> Contents \cup {NoFile}],
           disk' \in [Files -> SUBSET (Contents \cup {NoFile})],
           FilesWhole', OnlyServable'
    PROVE  FileInv'
<1>1. HttpInv'
  BY DieStartsOver
<1>2. FileTypeOK'
  BY <1>1 DEF FileTypeOK, HttpInv, Die
<1>3. TempsRemoved' /\ RequestsKept'
  BY DEF Die, TempsRemoved, RequestsKept
<1>4. StepsSound'
  BY DEF Die, StepsSound, StepSound
<1> QED
  BY <1>1, <1>2, <1>3, <1>4 DEF FileInv

\* The process or the machine dies.
LEMMA DeathsKeep ==
    ASSUME FileInv, ProcessDies \/ MachineDies
    PROVE  FileInv'
<1>1. /\ files \in [Files -> Contents \cup {NoFile}]
      /\ disk \in [Files -> SUBSET (Contents \cup {NoFile})]
  BY DEF FileInv, FileTypeOK
<1>2. CASE ProcessDies
  <2>1. Die /\ UNCHANGED <<files, disk>>
    BY <1>2 DEF ProcessDies
  <2>2. FilesWhole' /\ OnlyServable'
    BY <2>1 DEF FileInv, FilesWhole, OnlyServable
  <2> QED
    BY <1>1, <2>1, <2>2, DieKeeps
<1>3. CASE MachineDies
  <2>1. /\ Die
        /\ files' \in [Files -> UNION {disk[f] : f \in Files}]
        /\ \A f \in Files : files'[f] \in disk[f]
        /\ disk' = [f \in Files |-> {files'[f]}]
    BY <1>3 DEF MachineDies
  <2>2. /\ files' \in [Files -> Contents \cup {NoFile}]
        /\ disk' \in [Files -> SUBSET (Contents \cup {NoFile})]
    BY <1>1, <2>1
  <2>3. FilesWhole'
    BY <2>1 DEF FileInv, FilesWhole
  <2>4. OnlyServable'
    BY <2>1 DEF FileInv, OnlyServable
  <2> QED
    BY <2>1, <2>2, <2>3, <2>4, DieKeeps
<1> QED
  BY <1>2, <1>3

\* public/ as the server finds it.
LEMMA FileInitOK == FileInit => FileInv
<1> SUFFICES ASSUME FileInit PROVE FileInv
  OBVIOUS
<1>1. HttpInv
  BY HttpInitOK DEF FileInit
<1>2. /\ files = [f \in Files |->
                    IF f \in FirstFiles THEN Whole(FirstBody) ELSE NoFile]
      /\ disk = [f \in Files |-> {files[f]}]
  BY DEF FileInit
<1>3. /\ FirstBody \in Bodies /\ Whole(FirstBody) \in Contents
      /\ Whole(FirstBody) \in Stable /\ NoFile \in Stable
  BY FileAssumption, ContentsOK DEF FileAssumption, Stable
<1>4. FileTypeOK
  BY <1>1, <1>2, <1>3 DEF FileInit, FileTypeOK, HttpInv
<1>5. TempsRemoved /\ RequestsKept
  BY DEF FileInit, HttpInit, TempsRemoved, RequestsKept
<1>6. StepsSound
  BY DEF FileInit, StepsSound, StepSound
<1>7. FilesWhole /\ OnlyServable
  BY <1>2, <1>3 DEF FilesWhole, OnlyServable, Servable
<1> QED
  BY <1>1, <1>4, <1>5, <1>6, <1>7 DEF FileInv

\* Every step keeps the invariant.
LEMMA FileStepKeeps ==
    ASSUME FileInv, [FileNext]_serverVars
    PROVE  FileInv'
<1>1. CASE Accept /\ UNCHANGED fileVars
  BY <1>1, FileAcceptKeeps
<1>2. ASSUME NEW c \in Conns, Library(c) \/ Reply(c) \/ Handler(c)
      PROVE  FileInv'
  BY <1>2, LibraryKeeps, ReplyKeeps, GetKeeps, UploadKeeps, PostEndKeeps
     DEF Handler
<1>3. CASE ProcessDies \/ MachineDies
  BY <1>3, DeathsKeep
<1>4. CASE UNCHANGED serverVars
  <2>1. HttpInv' /\ UNCHANGED fileVars /\ UNCHANGED httpVars
    BY <1>4, HttpStutters DEF FileInv, serverVars
  <2>2. RequestsKept'
    BY <2>1 DEF FileInv, RequestsKept, httpVars
  <2> QED
    BY <2>1, <2>2, HandlersUntouched DEF FileInv, FileTypeOK, fileVars, httpVars
<1> QED
  BY <1>1, <1>2, <1>3, <1>4 DEF FileNext

\* The invariant holds in every reachable state of the file server.
LEMMA FileInvariant == FileSpec => []FileInv
<1>1. FileInv /\ [FileNext]_serverVars => FileInv'
  BY FileStepKeeps
<1> QED
  BY <1>1, FileInitOK, PTL DEF FileSpec
-----------------------------------------------------------------------------
(* The properties that follow from the invariant.                          *)

\* The state of the file server is well typed: an upload- file never holds
\* more than the body, and every handler is at a step that exists.
THEOREM FileTypes == FileSpec => []FileTypeOK
<1>1. FileInv => FileTypeOK
  BY DEF FileInv
<1> QED
  BY <1>1, FileInvariant, PTL

\* saveUploadedFile: however an upload ends, its handler leaves no upload-
\* file behind.
THEOREM FileTemps == FileSpec => []TempsRemoved
<1>1. FileInv => TempsRemoved
  BY DEF FileInv
<1> QED
  BY <1>1, FileInvariant, PTL

\* Listen's promises hold for the file server too, whose process may die and
\* be started again at any time.
THEOREM FileSlots == FileSpec => [](SlotsMatch /\ ConnectionLimit)
<1>1. FileInv => HttpInv
  BY DEF FileInv
<1> QED
  BY <1>1, FileInvariant, HttpInvImplies, PTL

\* writeFile and the checks of the GET handler agree: a file that was not
\* there at the start has a supported extension and a name resolvePath does
\* not refuse, after any crash.
THEOREM FileServable ==
    FileSpec => [](\A f \in Files : Exists(f) => Servable(f))
<1>1. FileInv => \A f \in Files : Exists(f) => Servable(f)
  BY DEF FileInv, OnlyServable, Exists
<1> QED
  BY <1>1, FileInvariant, PTL

\* The files that public/ holds at the start can be fetched.
FirstServable == \A f \in FirstFiles : Supported(f) /\ ~Refused(f) /\ Clean(f) = f

\* Whatever a path contains, GET and POST take it for a file in public/, and
\* what POST stores GET can find, after any crash.
THEOREM FilePaths == FirstServable => (FileSpec => []PathsSound)
<1>1. ResolvesBelow
  <2> SUFFICES ASSUME NEW p \in Paths
               PROVE  \A f \in {Clean(p), Base(p)} :
                         Refused(f) \/ \A k \in DOMAIN f : f[k] \notin {"", ".", ".."}
    BY DEF ResolvesBelow
  <2>1. p \in Seq(Segments)
    BY PathAssumption, Zenon DEF PathAssumption
  <2>2. \A k \in DOMAIN Clean(p) : Clean(p)[k] \in Below
    <3>1. Clean(p) \in Seq(Below)
      BY <2>1, CleanBelow
    <3> QED BY <3>1
  <2> QED BY <2>1, <2>2, BaseBelow DEF Below
<1>2. ASSUME FirstServable, FileInv PROVE PathsSound
  <2>1. ASSUME NEW f \in Files, Exists(f)
        PROVE  Supported(f) /\ ~Refused(f) /\ Clean(f) = f
    <3>1. Servable(f)
      BY <1>2, <2>1 DEF FileInv, OnlyServable, Exists
    <3>2. CASE f \in FirstFiles
      BY <1>2, <3>2 DEF FirstServable
    <3>3. CASE Storable(f) /\ \E x : f = <<x>>
      <4>1. PICK x : f = <<x>>
        BY <3>3
      <4>2. Last(f) = x
        BY <4>1 DEF Last
      <4>3. x \in TextNames
        BY <3>3, <4>2 DEF Storable, Supported
      <4>4. Clean(f) = f
        BY <4>1, <4>3, CleanName
      <4> QED BY <3>3, <4>4 DEF Storable
    <3> QED BY <3>1, <3>2, <3>3 DEF Servable
  <2> QED BY <1>1, <2>1 DEF PathsSound
<1>3. FirstServable /\ FileInv => PathsSound
  BY <1>2
<1>4. FirstServable => []FirstServable
  OBVIOUS
<1> QED BY <1>3, <1>4, FileInvariant, PTL

-----------------------------------------------------------------------------
(* The refinement mapping.                                                 *)

StoreOf == [f \in Files |-> AsBody(files[f])]
PastOf == [f \in Files |-> {AsBody(x) : x \in disk[f]}]
OpsOf == [c \in Conns |-> OpOf(c)]
mapped == <<StoreOf, PastOf, OpsOf>>

\* The operation that request r asks for, and what an error makes of it.
About(r) == r \in Handled /\ Target[r] \in Files
NoOp == [state |-> "idle"]
Failed == [state |-> "failed"]
Asked(r) ==
    IF ~About(r) THEN NoOp
    ELSE IF r.method = "GET" THEN [state |-> "get", file |-> Target[r]]
    ELSE [state |-> "put", file |-> Target[r], body |-> r.body]

\* The operation of a connection, stage by stage.
LEMMA OpStages ==
    ASSUME NEW c \in Conns
    PROVE  /\ conn[c] \notin {"read", "handle", "write"} => OpOf(c) = NoOp
           /\ conn[c] \in {"read", "handle"} => OpOf(c) = Asked(request[c])
           /\ conn[c] = "write" /\ status[c] = 200
              => OpOf(c) = [state |-> "got", body |-> AsBody(body[c])]
           /\ conn[c] = "write" /\ status[c] = 201
              => OpOf(c) = [state |-> "stored"]
           /\ conn[c] = "write" /\ status[c] \notin {200, 201}
              => OpOf(c) = IF About(request[c]) THEN Failed ELSE NoOp
BY DEF OpOf, Asked, About, NoOp, Failed

\* The same after a step.
LEMMA OpStagesNext ==
    ASSUME NEW c \in Conns
    PROVE  /\ conn'[c] \notin {"read", "handle", "write"} => OpOf(c)' = NoOp
           /\ conn'[c] \in {"read", "handle"} => OpOf(c)' = Asked(request'[c])
           /\ conn'[c] = "write" /\ status'[c] = 200
              => OpOf(c)' = [state |-> "got", body |-> AsBody(body'[c])]
           /\ conn'[c] = "write" /\ status'[c] = 201
              => OpOf(c)' = [state |-> "stored"]
           /\ conn'[c] = "write" /\ status'[c] \notin {200, 201}
              => OpOf(c)' = IF About(request'[c]) THEN Failed ELSE NoOp
BY DEF OpOf, AsBody, Asked, About, NoOp, Failed

\* What a request asks for is an operation of the store, or nothing.
LEMMA AskedOK ==
    ASSUME NEW r
    PROVE  /\ About(r) => Asked(r) \in Store!Ops /\ Asked(r).state \in {"get", "put"}
           /\ ~About(r) => Asked(r) = NoOp
<1>1. CASE About(r)
  <2>1. r \in Handled /\ Target[r] \in Files
    BY <1>1 DEF About
  <2>2. r.method \in {"GET", "POST"} /\ (r.method = "POST" => r.body \in Bodies)
    BY <2>1, HandledOK
  <2>3. CASE r.method = "GET"
    BY <1>1, <2>1, <2>3 DEF Asked, Store!Ops
  <2>4. CASE r.method = "POST"
    BY <1>1, <2>1, <2>2, <2>4 DEF Asked, Store!Ops
  <2> QED
    BY <2>2, <2>3, <2>4
<1> QED
  BY <1>1 DEF Asked

\* A step that touches one connection changes one operation.
LEMMA OneOp ==
    ASSUME NEW c \in Conns,
           \A d \in Conns \ {c} :
              /\ conn'[d] = conn[d] /\ request'[d] = request[d]
              /\ status'[d] = status[d] /\ body'[d] = body[d]
    PROVE  OpsOf' = [OpsOf EXCEPT ![c] = OpOf(c)']
<1>1. ASSUME NEW d \in Conns, d # c PROVE OpOf(d)' = OpOf(d)
  BY <1>1 DEF OpOf, AsBody
<1> QED
  BY <1>1 DEF OpsOf

\* A step that leaves the directory alone leaves the store alone.
LEMMA SameStore ==
    ASSUME UNCHANGED <<files, disk>>
    PROVE  StoreOf' = StoreOf /\ PastOf' = PastOf
BY DEF StoreOf, PastOf, AsBody

\* The steps of the store that change no file.
LEMMA OpStep ==
    ASSUME NEW c \in Conns, UNCHANGED <<files, disk>>,
           OpsOf' = [OpsOf EXCEPT ![c] = OpOf(c)'],
           \/ OpOf(c)' = OpOf(c)
           \/ OpOf(c) = NoOp /\ OpOf(c)' \in Store!Ops
           \/ OpOf(c).state \in {"get", "put"} /\ OpOf(c)' = Failed
           \/ OpOf(c).state \in {"got", "stored", "failed"} /\ OpOf(c)' = NoOp
    PROVE  [Store!StoreNext]_mapped
<1>1. UNCHANGED <<StoreOf, PastOf>>
  BY SameStore
<1>2. OpsOf[c] = OpOf(c) /\ OpsOf'[c] = OpOf(c)'
  BY DEF OpsOf
<1>3. CASE OpOf(c)' = OpOf(c)
  <2>1. OpsOf' = OpsOf
    BY <1>3 DEF OpsOf
  <2> QED
    BY <1>1, <2>1 DEF mapped
<1>4. CASE OpOf(c) = NoOp /\ OpOf(c)' \in Store!Ops
  <2>1. Store!Begin(c)
    BY <1>1, <1>2, <1>4 DEF Store!Begin, Store!Idle, NoOp, StoreOf, PastOf, OpsOf
  <2> QED
    BY <2>1 DEF Store!StoreNext
<1>5. CASE OpOf(c).state \in {"get", "put"} /\ OpOf(c)' = Failed
  <2>1. Store!Fail(c)
    BY <1>1, <1>2, <1>5 DEF Store!Fail, Failed, StoreOf, PastOf, OpsOf
  <2> QED
    BY <2>1 DEF Store!StoreNext
<1>6. CASE OpOf(c).state \in {"got", "stored", "failed"} /\ OpOf(c)' = NoOp
  <2>1. Store!End(c)
    BY <1>1, <1>2, <1>6 DEF Store!End, Store!Idle, NoOp, StoreOf, PastOf, OpsOf
  <2> QED
    BY <2>1 DEF Store!StoreNext
<1> QED
  BY <1>3, <1>4, <1>5, <1>6
-----------------------------------------------------------------------------
(* One lemma per kind of step.                                             *)

\* A connection that moves between stages outside read, handle and write has
\* no operation before and after.
LEMMA QuietStep ==
    ASSUME FileInv, NEW c \in Conns, NEW s, UNCHANGED <<body, files, disk>>,
           conn' = [conn EXCEPT ![c] = s],
           {conn[c], s} \cap {"read", "handle", "write"} = {},
           \A d \in Conns \ {c} : request'[d] = request[d],
           UNCHANGED status
    PROVE  [Store!StoreNext]_mapped
<1>1. conn \in [Conns -> Stages]
  BY DEF FileInv, HttpInv, HttpTypeOK
<1>2. OpOf(c) = NoOp /\ OpOf(c)' = NoOp
  BY <1>1, OpStages, OpStagesNext
<1>3. OpsOf' = [OpsOf EXCEPT ![c] = OpOf(c)']
  BY <1>1, OneOp
<1> QED
  BY <1>2, <1>3, OpStep

\* A connection whose request is answered with an error: the operation it
\* asked for, if any, has failed.
LEMMA ErrorStep ==
    ASSUME FileInv, NEW c \in Conns, NEW s \in Statuses \ {200, 201},
           conn[c] \in {"read", "handle"}, Respond(c, s),
           UNCHANGED <<body, files, disk>>
    PROVE  [Store!StoreNext]_mapped
<1>1. /\ conn \in [Conns -> Stages] /\ status \in [Conns -> Statuses \cup {0}]
      /\ conn' = [conn EXCEPT ![c] = "write"] /\ request' = request
      /\ status' = [status EXCEPT ![c] = s]
  BY DEF FileInv, HttpInv, HttpTypeOK, Respond
<1>2. OpOf(c) = Asked(request[c])
  BY OpStages
<1>3. OpOf(c)' = IF About(request[c]) THEN Failed ELSE NoOp
  <2>1. conn'[c] = "write" /\ status'[c] = s /\ request'[c] = request[c]
    BY <1>1
  <2> QED
    BY <2>1, OpStagesNext
<1>4. OpsOf' = [OpsOf EXCEPT ![c] = OpOf(c)']
  BY <1>1, OneOp
<1> QED
  BY <1>2, <1>3, <1>4, AskedOK, OpStep

\* The library: Admit is where an operation begins.
LEMMA LibraryRefines ==
    ASSUME FileInv, NEW c \in Conns, Library(c)
    PROVE  [Store!StoreNext]_mapped
<1>1. UNCHANGED <<body, files, disk>>
  BY DEF Library, fileVars
<1>2. conn \in [Conns -> Stages] /\ request \in [Conns -> Requests \cup {NoRequest}]
  BY DEF FileInv, HttpInv, HttpTypeOK
<1>3. CASE \E r \in Requests : Connect(c, r)
  <2>1. /\ conn[c] = "idle" /\ conn' = [conn EXCEPT ![c] = "queued"]
        /\ \A d \in Conns \ {c} : request'[d] = request[d]
        /\ UNCHANGED status
    BY <1>2, <1>3 DEF Connect
  <2> QED
    BY <1>1, <2>1, QuietStep
<1>4. CASE Send(c) \/ Close(c)
  <2>1. UNCHANGED <<conn, request, status>>
    BY <1>4 DEF Send, Close
  <2>2. OpsOf' = [OpsOf EXCEPT ![c] = OpOf(c)'] /\ OpOf(c)' = OpOf(c)
    BY <1>1, <2>1, OneOp DEF OpOf, AsBody
  <2> QED
    BY <1>1, <2>2, OpStep
<1>5. CASE Admit(c)
  <2>1. /\ conn[c] = "held" /\ conn' = [conn EXCEPT ![c] = "read"]
        /\ UNCHANGED <<request, status>>
    BY <1>5 DEF Admit
  <2>2. OpsOf' = [OpsOf EXCEPT ![c] = OpOf(c)']
    BY <1>1, <1>2, <2>1, OneOp
  <2>3. OpOf(c) = NoOp /\ OpOf(c)' = Asked(request[c])
    BY <1>2, <2>1, OpStages, OpStagesNext
  <2> QED
    BY <1>1, <2>2, <2>3, AskedOK, OpStep
<1>6. CASE ReadFails(c)
  BY <1>1, <1>6, ErrorStep, StatusesOK DEF ReadFails
<1>7. CASE Dispatch(c)
  <2>1. conn[c] = "read"
    BY <1>7 DEF Dispatch
  <2>2. CASE Respond(c, 400) \/ Respond(c, 501)
    BY <1>1, <2>1, <2>2, ErrorStep, StatusesOK
  <2>3. CASE /\ conn' = [conn EXCEPT ![c] = "handle"]
             /\ UNCHANGED <<backlog, channel, client, request, status>>
    <3>1. OpsOf' = [OpsOf EXCEPT ![c] = OpOf(c)']
      BY <1>1, <1>2, <2>3, OneOp
    <3>2. OpOf(c)' = OpOf(c)
      BY <1>2, <2>1, <2>3, OpStages, OpStagesNext
    <3> QED
      BY <1>1, <3>1, <3>2, OpStep
  <2> QED
    BY <1>7, <2>2, <2>3 DEF Dispatch
<1>8. CASE Release(c)
  <2>1. /\ conn[c] = "release" /\ conn' = [conn EXCEPT ![c] = "idle"]
        /\ UNCHANGED <<request, status>>
    BY <1>8 DEF Release
  <2> QED
    BY <1>1, <2>1, QuietStep
<1> QED
  BY <1>3, <1>4, <1>5, <1>6, <1>7, <1>8 DEF Library, ClientStep

\* The accept loop does nothing to the store.
LEMMA AcceptRefines ==
    ASSUME FileInv, Accept, UNCHANGED fileVars
    PROVE  [Store!StoreNext]_mapped
<1>1. /\ Head(backlog) \in Conns /\ conn[Head(backlog)] = "queued"
      /\ conn' = [conn EXCEPT ![Head(backlog)] = "held"]
      /\ UNCHANGED <<request, status, body, files, disk>>
  BY DEF FileInv, HttpInv, HttpTypeOK, QueueSound, Accept, fileVars
<1> QED
  BY <1>1, QuietStep

\* The response is written: the operation ends.
LEMMA ReplyRefines ==
    ASSUME FileInv, NEW c \in Conns, Reply(c)
    PROVE  [Store!StoreNext]_mapped
<1>1. /\ conn \in [Conns -> Stages] /\ status \in [Conns -> Statuses \cup {0}]
      /\ request \in [Conns -> Requests \cup {NoRequest}]
      /\ body \in [Conns -> Contents \cup {NoFile}]
      /\ conn[c] = "write" /\ conn' = [conn EXCEPT ![c] = "release"]
      /\ request' = [request EXCEPT ![c] = NoRequest]
      /\ status' = [status EXCEPT ![c] = 0]
      /\ body' = [body EXCEPT ![c] = NoFile]
      /\ UNCHANGED <<files, disk>>
  BY DEF FileInv, FileTypeOK, HttpTypeOK, Reply, WriteResponse
<1>2. OpsOf' = [OpsOf EXCEPT ![c] = OpOf(c)']
  BY <1>1, OneOp
<1>3. OpOf(c)' = NoOp
  BY <1>1, OpStagesNext
<1>4. OpOf(c).state \in {"got", "stored", "failed"} \/ OpOf(c) = NoOp
  BY <1>1, OpStages DEF Failed
<1> QED
  BY <1>1, <1>2, <1>3, <1>4, OpStep

\* A handler that returns an error.
LEMMA FailRefines ==
    ASSUME FileInv, NEW c \in Conns, NEW s \in Statuses \ {200, 201},
           Finish(c, s), UNCHANGED <<body, files, disk>>
    PROVE  [Store!StoreNext]_mapped
BY ErrorStep DEF Finish, Answer

\* A step within a handler is not visible.
LEMMA InvisibleStep ==
    ASSUME UNCHANGED <<httpVars, body, files, disk>>
    PROVE  UNCHANGED mapped
<1>1. ASSUME NEW d \in Conns PROVE OpOf(d)' = OpOf(d)
  BY DEF OpOf, AsBody, httpVars
<1> QED
  BY <1>1, SameStore DEF mapped, OpsOf

\* The GET handler reads the whole file, which has not gone since os.Stat.
LEMMA GetRefines ==
    ASSUME FileInv, NEW c \in Conns,
           Stat(c) \/ ReadFile(c) \/ ReadFileFails(c)
    PROVE  [Store!StoreNext]_mapped
<1>1. CASE Stat(c)
  <2>1. UNCHANGED <<body, files, disk>>
    BY <1>1 DEF Stat
  <2>2. CASE \E s \in Statuses \ {200, 201} : Finish(c, s)
    BY <2>1, <2>2, FailRefines
  <2>3. CASE Goto(c, "open")
    BY <2>1, <2>3, InvisibleStep DEF Goto
  <2> QED
    BY <1>1, <2>2, <2>3, StatusesOK DEF Stat
<1>2. CASE ReadFileFails(c)
  <2>1. PICK s \in OSErrors : Finish(c, s) /\ UNCHANGED <<body, files, disk>>
    BY <1>2 DEF ReadFileFails
  <2>2. s \in Statuses \ {200, 201}
    BY FileAssumption, StatusesOK DEF FileAssumption
  <2> QED
    BY <2>1, <2>2, FailRefines
<1>3. CASE ReadFile(c)
  <2> DEFINE r == request[c]
             f == Target[r]
  <2>1. /\ conn \in [Conns -> Stages] /\ status \in [Conns -> Statuses \cup {0}]
        /\ body \in [Conns -> Contents \cup {NoFile}]
        /\ conn[c] = "handle" /\ step[c] = "open" /\ r.method = "GET"
        /\ conn' = [conn EXCEPT ![c] = "write"] /\ request' = request
        /\ status' = [status EXCEPT ![c] = 200]
        /\ body' = [body EXCEPT ![c] = files[f]]
        /\ UNCHANGED <<files, disk>>
    BY <1>3 DEF FileInv, FileTypeOK, HttpTypeOK, ReadFile, At, Finish, Answer,
                Respond
  <2>2. /\ r \in Handled /\ f \in Files /\ files[f] # NoFile /\ About(r)
        /\ files[f] \in Stable
    BY <2>1 DEF FileInv, RequestsKept, StepsSound, StepSound, Exists, About,
                FilesWhole
  <2>3. OpOf(c) = [state |-> "get", file |-> f]
    BY <2>1, <2>2, OpStages DEF Asked
  <2>4. OpOf(c)' = [state |-> "got", body |-> AsBody(files[f])]
    <3>1. conn'[c] = "write" /\ status'[c] = 200 /\ body'[c] = files[f]
      BY <2>1
    <3> QED
      BY <3>1, OpStagesNext
  <2>5. AsBody(files[f]) # NoBody
    BY <2>2, StableBodies
  <2>6. OpsOf' = [OpsOf EXCEPT ![c] = OpOf(c)']
    BY <2>1, OneOp
  <2>7. UNCHANGED <<StoreOf, PastOf>>
    BY <2>1, SameStore
  <2>8. OpsOf[c] = OpOf(c) /\ StoreOf[f] = AsBody(files[f])
    BY <2>2 DEF OpsOf, StoreOf
  <2>9. /\ OpsOf[c].state = "get" /\ StoreOf[OpsOf[c].file] # NoBody
        /\ OpsOf' = [OpsOf EXCEPT
                        ![c] = [state |-> "got", body |-> StoreOf[OpsOf[c].file]]]
        /\ UNCHANGED <<StoreOf, PastOf>>
    <3>1. /\ OpsOf[c].state = "get" /\ OpsOf[c].file = f
          /\ StoreOf[OpsOf[c].file] = AsBody(files[f])
      BY <2>3, <2>8
    <3>2. OpOf(c)' = [state |-> "got", body |-> StoreOf[OpsOf[c].file]]
      BY <2>4, <3>1
    <3> QED
      BY <2>5, <2>6, <2>7, <3>1, <3>2
  <2>10. Store!Get(c)
    BY <2>9 DEF Store!Get, StoreOf, PastOf, OpsOf
  <2> QED
    BY <2>10 DEF Store!StoreNext
<1> QED
  BY <1>1, <1>2, <1>3

\* The POST handler replaces the file by the whole body in os.Rename, and
\* nothing of it is visible before.
LEMMA PostRefines ==
    ASSUME FileInv, NEW c \in Conns,
           CreateTemp(c) \/ Copy(c) \/ Sync(c) \/ Rename(c) \/ SaveFails(c)
    PROVE  [Store!StoreNext]_mapped
<1> DEFINE r == request[c]
           f == Target[r]
<1>1. CASE CreateTemp(c) \/ Copy(c) \/ Sync(c)
  <2>1. UNCHANGED <<body, files, disk>>
    BY <1>1 DEF CreateTemp, Copy, Sync
  <2>2. Finish(c, 400) \/ UNCHANGED httpVars
    BY <1>1 DEF CreateTemp, Copy, Sync, Goto
  <2> QED
    BY <2>1, <2>2, InvisibleStep, FailRefines, StatusesOK
<1>2. CASE SaveFails(c)
  <2>1. PICK s \in OSErrors : Finish(c, s) /\ UNCHANGED <<body, files, disk>>
    BY <1>2 DEF SaveFails
  <2>2. s \in Statuses \ {200, 201}
    BY FileAssumption, StatusesOK DEF FileAssumption
  <2> QED
    BY <2>1, <2>2, FailRefines
<1>3. CASE Rename(c) /\ f \in Directories
  BY <1>3, FailRefines, StatusesOK DEF Rename
<1>4. CASE Rename(c) /\ f \notin Directories
  <2> DEFINE w == Whole(r.body)
  <2>1. At(c, "POST", "rename")
    BY <1>4 DEF Rename
  <2>2. /\ r \in Handled /\ r.body \in Bodies /\ f \in Files
        /\ temp[c] = w /\ Durable(temp[c]) = {w} /\ AsBody(w) = r.body
    BY <1>4, <2>1, RenameWhole, StableBodies
  <2> HIDE DEF w
  <2>3. /\ conn \in [Conns -> Stages] /\ status \in [Conns -> Statuses \cup {0}]
        /\ files \in [Files -> Contents \cup {NoFile}]
        /\ disk \in [Files -> SUBSET (Contents \cup {NoFile})]
        /\ conn[c] = "handle" /\ r.method = "POST"
        /\ conn' = [conn EXCEPT ![c] = "write"] /\ request' = request
        /\ status' = [status EXCEPT ![c] = 201] /\ body' = body
        /\ files' = [files EXCEPT ![f] = w]
        /\ disk' = [disk EXCEPT ![f] = disk[f] \cup {w}]
    BY <1>4, <2>1, <2>2 DEF FileInv, FileTypeOK, HttpTypeOK, Rename, At,
                            Finish, Answer, Respond
  <2>4. OpOf(c) = [state |-> "put", file |-> f, body |-> r.body]
    BY <2>2, <2>3, OpStages DEF Asked, About
  <2>5. OpOf(c)' = [state |-> "stored"]
    <3>1. conn'[c] = "write" /\ status'[c] = 201
      BY <2>3
    <3> QED
      BY <3>1, OpStagesNext
  <2>6. OpsOf' = [OpsOf EXCEPT ![c] = OpOf(c)'] /\ OpsOf[c] = OpOf(c)
    BY <2>3, OneOp DEF OpsOf
  <2>7. StoreOf' = [StoreOf EXCEPT ![f] = r.body]
    <3>1. ASSUME NEW g \in Files
          PROVE  AsBody(files[g])' = IF g = f THEN r.body ELSE AsBody(files[g])
      BY <2>2, <2>3 DEF AsBody
    <3> QED
      BY <3>1 DEF StoreOf
  <2>8. PastOf' = [PastOf EXCEPT ![f] = PastOf[f] \cup {r.body}]
    <3>1. ASSUME NEW g \in Files, g # f
          PROVE  {AsBody(x) : x \in disk'[g]} = {AsBody(x) : x \in disk[g]}
      BY <2>2, <2>3, <3>1
    <3>2. {AsBody(x) : x \in disk'[f]} = {AsBody(x) : x \in disk[f]} \cup {r.body}
      BY <2>2, <2>3
    <3>3. \A x : AsBody(x)' = AsBody(x)
      BY DEF AsBody
    <3> QED
      BY <2>2, <3>1, <3>2, <3>3 DEF PastOf
  <2>9. /\ OpsOf[c].state = "put"
        /\ StoreOf' = [StoreOf EXCEPT ![OpsOf[c].file] = OpsOf[c].body]
        /\ PastOf' = [PastOf EXCEPT ![OpsOf[c].file] = @ \cup {OpsOf[c].body}]
        /\ OpsOf' = [OpsOf EXCEPT ![c] = [state |-> "stored"]]
    BY <2>4, <2>5, <2>6, <2>7, <2>8
  <2>10. Store!Put(c)
    BY <2>9 DEF Store!Put, StoreOf, PastOf, OpsOf
  <2> QED
    BY <2>10 DEF Store!StoreNext
<1> QED
  BY <1>1, <1>2, <1>3, <1>4 DEF Rename

\* A death ends all operations.  After a power loss each file is one of the
\* bodies it may have been, and whole.
LEMMA DeathRefines ==
    ASSUME FileInv, ProcessDies \/ MachineDies
    PROVE  [Store!StoreNext]_mapped
<1>1. OpsOf' = [c \in Conns |-> NoOp]
  <2>1. Die
    BY DEF ProcessDies, MachineDies
  <2>2. ASSUME NEW c \in Conns PROVE OpOf(c)' = NoOp
    BY <2>1, OpStagesNext DEF Die
  <2> QED
    BY <2>2 DEF OpsOf
<1>2. CASE ProcessDies
  <2>1. UNCHANGED <<StoreOf, PastOf>>
    BY <1>2, SameStore DEF ProcessDies
  <2>2. Store!Restart
    BY <1>1, <2>1 DEF Store!Restart, Store!Idle, NoOp, StoreOf, PastOf, OpsOf
  <2> QED
    BY <2>2 DEF Store!StoreNext
<1>3. CASE MachineDies
  <2>1. /\ \A f \in Files : files'[f] \in disk[f] /\ disk[f] \subseteq Stable
        /\ disk' = [f \in Files |-> {files'[f]}]
    BY <1>3 DEF MachineDies, FileInv, FilesWhole
  <2>2. \A x : AsBody(x)' = AsBody(x)
    BY DEF AsBody
  <2>3. StoreOf' = [f \in Files |-> AsBody(files'[f])]
    BY DEF StoreOf, AsBody
  <2>4. StoreOf' \in [Files -> Bodies \cup {NoBody}]
    BY <2>1, <2>3, StableBodies
  <2>5. \A f \in Files : StoreOf'[f] \in PastOf[f]
    BY <2>1, <2>3 DEF PastOf
  <2>6. PastOf' = [f \in Files |-> {StoreOf'[f]}]
    <3>1. PastOf' = [f \in Files |-> {AsBody(x) : x \in disk'[f]}]
      BY DEF PastOf, AsBody
    <3>2. ASSUME NEW f \in Files
          PROVE  {AsBody(x) : x \in disk'[f]} = {StoreOf'[f]}
      BY <2>1, <2>3
    <3> QED
      BY <3>1, <3>2
  <2>7. Store!Outage
    BY <1>1, <2>4, <2>5, <2>6
       DEF Store!Outage, Store!Idle, NoOp, StoreOf, PastOf, OpsOf
  <2> QED
    BY <2>7 DEF Store!StoreNext
<1> QED
  BY <1>2, <1>3

\* Every step of the server is a step of the store, or none.
LEMMA FileStepRefines ==
    ASSUME FileInv, [FileNext]_serverVars
    PROVE  [Store!StoreNext]_mapped
<1>1. CASE Accept /\ UNCHANGED fileVars
  BY <1>1, AcceptRefines
<1>2. ASSUME NEW c \in Conns, Library(c) \/ Reply(c) \/ Handler(c)
      PROVE  [Store!StoreNext]_mapped
  BY <1>2, LibraryRefines, ReplyRefines, GetRefines, PostRefines DEF Handler
<1>3. CASE ProcessDies \/ MachineDies
  BY <1>3, DeathRefines
<1>4. CASE UNCHANGED serverVars
  BY <1>4, InvisibleStep DEF serverVars, fileVars
<1> QED
  BY <1>1, <1>2, <1>3, <1>4 DEF FileNext

\* The server starts as the store does, with whole files or none.
LEMMA FileInitRefines == FileInit => Store!StoreInit
<1> SUFFICES ASSUME FileInit PROVE Store!StoreInit
  OBVIOUS
<1>1. FilesWhole /\ disk = [f \in Files |-> {files[f]}]
  BY FileInitOK DEF FileInv, FileInit
<1>2. StoreOf \in [Files -> Bodies \cup {NoBody}]
  BY <1>1, StableBodies DEF FilesWhole, StoreOf
<1>3. PastOf = [f \in Files |-> {StoreOf[f]}]
  <2>1. ASSUME NEW f \in Files
        PROVE  {AsBody(x) : x \in disk[f]} = {StoreOf[f]}
    BY <1>1 DEF StoreOf
  <2> QED
    BY <2>1 DEF PastOf
<1>4. OpsOf = [c \in Conns |-> NoOp]
  <2>1. ASSUME NEW c \in Conns PROVE OpOf(c) = NoOp
    BY OpStages DEF FileInit, HttpInit
  <2> QED
    BY <2>1 DEF OpsOf
<1> QED
  BY <1>2, <1>3, <1>4
     DEF Store!StoreInit, Store!Idle, NoOp, StoreOf, PastOf, OpsOf

\* The file server implements the atomic store, for all requests, bodies and
\* chunks: a download answered 200 is a whole file as it was at one moment
\* of the request, an upload answered 201 replaced the whole file at one such
\* moment, any other answer changed nothing, and a power loss leaves every
\* file as it was at some time.
THEOREM FileImplementsStore == FileSpec => ImplementsStore
<1>1. FileInv /\ [FileNext]_serverVars => [Store!StoreNext]_mapped
  BY FileStepRefines
<1>2. [Store!StoreNext]_mapped <=>
         [Store!StoreNext]_<<[f \in Files |-> AsBody(files[f])],
                             [f \in Files |-> {AsBody(x) : x \in disk[f]}],
                             [c \in Conns |-> OpOf(c)]>>
  BY DEF mapped, StoreOf, PastOf, OpsOf
<1> QED
  BY <1>1, <1>2, FileInitRefines, FileInvariant, PTL
     DEF FileSpec, ImplementsStore, Store!StoreSpec
=============================================================================
