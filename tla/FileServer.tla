----------------------------- MODULE FileServer -----------------------------
(***************************************************************************)
(* The file server of Lab 1 (Lab1/http_server): the GET and POST handlers  *)
(* registered with the HTTP library, the directory public/ they share, and *)
(* the deaths of the process and of the machine.                           *)
(*                                                                         *)
(* A path is the sequence of its segments: "/a/../f.txt" is                *)
(* <<"a", "..", "f.txt">>, "/" is <<"">> and no path at all is <<>>.  The  *)
(* content of a file is the body it comes from and how many of the body's  *)
(* chunks it holds.                                                        *)
(***************************************************************************)
EXTENDS HttpServer, SequencesExt

CONSTANTS
    TextNames,    \* names with an extension in allowedContentTypes
    DotNames,     \* names that start with two dots and have more
    Segments,     \* the segments of paths
    Paths,        \* the paths PathsSound is about
    Directories,  \* the directories in public/, as resolved paths
    FirstFiles,   \* the files in public/ at the start, as resolved paths
    Bodies,       \* the contents of files and of POST requests
    FirstBody,    \* what the first files hold
    NoBody,       \* the content of a file that does not exist
    NChunks,      \* the reads of io.Copy until a body is complete
    OSErrors,     \* what statusFromFileError makes of the errors of the
                  \* operating system: 400, 404 and 500, or some of them
    Deaths        \* subset of {"process", "machine"}

ASSUME FileAssumption ==
    /\ Registered = {"GET", "POST"}
    /\ \A r \in Requests : r.method = "POST" => r.body \in Bodies
    /\ FirstBody \in Bodies
    /\ NoBody \notin Bodies
    /\ NChunks \in Nat
    /\ OSErrors \subseteq {400, 404, 500}
    /\ {200, 201, 404} \subseteq Statuses

ASSUME PathAssumption ==
    /\ Paths \subseteq Seq(Segments)
    /\ TextNames \cap {"", ".", ".."} = {}

VARIABLES
    step,   \* where the handler of each connection is
    temp,   \* the upload- file of each connection
    body,   \* response.Body of each connection
    files,  \* the directory: a content for each resolved path
    disk    \* what the directory may name after a power loss

fileVars == <<step, temp, body, files, disk>>
serverVars == <<httpVars, fileVars>>

-----------------------------------------------------------------------------
(* Paths (files.go).                                                       *)

\* contentTypeForPath: filepath.Ext looks at the last segment only.
Supported(path) == path # <<>> /\ Last(path) \in TextNames

\* path.Clean: what a segment makes of the directory reached before it.
Enter(dir, s) ==
    CASE s \in {"", "."} -> dir
      [] s = ".." -> IF dir = <<>> THEN <<>> ELSE Front(dir)
      [] OTHER -> Append(dir, s)

\* path.Clean("/" + p) without the leading slash.
Clean(path) ==
    LET walk[k \in 0 .. Len(path)] ==  \* after k segments
            IF k = 0 THEN <<>> ELSE Enter(walk[k - 1], path[k])
    IN  walk[Len(path)]

\* strings.HasPrefix(rel, ".."): the check of resolvePath against paths that
\* leave public/ also refuses names that merely start so.
Refused(file) == file # <<>> /\ Head(file) \in DotNames \cup {".."}

\* filepath.Base: the last segment that is not empty, as a path; <<>> for
\* the results "." and "/" that writeFile refuses.
Base(path) ==
    LET named == {k \in DOMAIN path : path[k] # ""}
        last == path[Max(named)]
    IN  IF named = {} \/ last = "." THEN <<>> ELSE <<last>>

Handled == {r \in Requests : r.method \in Registered}

\* The file a request is about.
Target ==
    [r \in Handled |-> IF r.method = "GET" THEN Clean(r.path) ELSE Base(r.path)]

Files ==
    (FirstFiles \cup {Target[r] : r \in Handled}) \ (Directories \cup {<<>>})

-----------------------------------------------------------------------------
(* Contents.                                                               *)

Contents == [body : Bodies, n : 0 .. NChunks, synced : BOOLEAN]
NoFile == [body |-> NoBody, n |-> 0, synced |-> TRUE]
Whole(b) == [body |-> b, n |-> NChunks, synced |-> TRUE]

\* What may be left of a file after a power loss.
Durable(x) ==
    IF x.synced THEN {x} ELSE {[x EXCEPT !.n = k] : k \in 0 .. x.n}

Exists(f) == f \in Files /\ files[f] # NoFile

\* os.Stat fails with ENOTDIR.
BelowFile(f) == \E i \in 1 .. Len(f) - 1 : Exists(SubSeq(f, 1, i))

FileInit ==
    /\ HttpInit
    /\ step = [c \in Conns |-> "start"]
    /\ temp = [c \in Conns |-> NoFile]
    /\ body = [c \in Conns |-> NoFile]
    /\ files = [f \in Files |->
                  IF f \in FirstFiles THEN Whole(FirstBody) ELSE NoFile]
    /\ disk = [f \in Files |-> {files[f]}]

\* The handler of c is at point p.
At(c, method, p) ==
    conn[c] = "handle" /\ request[c].method = method /\ step[c] = p

Goto(c, p) == step' = [step EXCEPT ![c] = p] /\ UNCHANGED httpVars

\* The handler of c returns; its deferred calls remove the upload- file.
Finish(c, s) ==
    /\ Answer(c, s)
    /\ step' = [step EXCEPT ![c] = "start"]
    /\ temp' = [temp EXCEPT ![c] = NoFile]

-----------------------------------------------------------------------------
(* The GET handler.                                                        *)

\* contentTypeForPath, resolvePath and os.Stat, with statusFromFileError for
\* what they return: ErrNotExist is 404, ErrPermission and ErrInvalid are
\* 400, and any other error (ENOTDIR) is 500.
Stat(c) ==
    LET f == Target[request[c]]
        valid == Supported(request[c].path) /\ ~Refused(f)
    IN  /\ At(c, "GET", "start")
        /\ \/ ~valid /\ Finish(c, 400)
           \/ valid /\ f \in Directories /\ Finish(c, 400)
           \/ valid /\ BelowFile(f) /\ Finish(c, 500)
           \/ /\ valid
              /\ f \notin Directories /\ ~Exists(f) /\ ~BelowFile(f)
              /\ Finish(c, 404)
           \/ valid /\ Exists(f) /\ Goto(c, "open") /\ UNCHANGED temp
        /\ UNCHANGED <<body, files, disk>>

\* os.ReadFile opens the file and reads it to the end.  An upload replaces
\* the directory entry, never the contents of the file that is open.
ReadFile(c) ==
    /\ At(c, "GET", "open")
    /\ body' = [body EXCEPT ![c] = files[Target[request[c]]]]
    /\ Finish(c, 200)
    /\ UNCHANGED <<files, disk>>

\* os.ReadFile fails.
ReadFileFails(c) ==
    /\ At(c, "GET", "open")
    /\ \E s \in OSErrors : Finish(c, s)
    /\ UNCHANGED <<body, files, disk>>

-----------------------------------------------------------------------------
(* The POST handler: writeFile and saveUploadedFile.                       *)

\* The checks of writeFile.
Storable(f) == f # <<>> /\ Supported(f) /\ ~Refused(f)

\* writeFile; then os.CreateTemp, whose names are fresh.
CreateTemp_Bug(c) ==
    LET f == Target[request[c]]
    IN  /\ At(c, "POST", "start")
        /\ \/ ~Supported(f) /\ Finish(c, 400)
           \/ /\ Supported(f)
              /\ Goto(c, "copy")
              /\ temp' = [temp EXCEPT ![c] = [body |-> request[c].body,
                                             n |-> 0, synced |-> FALSE]]
        /\ UNCHANGED <<body, files, disk>>

CreateTemp(c) ==
    LET f == Target[request[c]]
    IN  /\ At(c, "POST", "start")
        /\ \/ ~Storable(f) /\ Finish(c, 400)
           \/ /\ Storable(f)
              /\ Goto(c, "copy")
              /\ temp' = [temp EXCEPT ![c] = [body |-> request[c].body,
                                             n |-> 0, synced |-> FALSE]]
        /\ UNCHANGED <<body, files, disk>>

\* io.Copy: another chunk, which the client sends when it likes, or the end
\* of the body.
Copy_Bug(c) ==
    /\ At(c, "POST", "copy")
    /\ \/ temp' = [temp EXCEPT ![c].n = @ + 1] /\ UNCHANGED <<step, httpVars>>
       \/ Goto(c, "sync") /\ UNCHANGED temp
    /\ UNCHANGED <<body, files, disk>>

Copy(c) ==
    /\ At(c, "POST", "copy")
    /\ IF temp[c].n < NChunks
       THEN temp' = [temp EXCEPT ![c].n = @ + 1] /\ UNCHANGED <<step, httpVars>>
       ELSE Goto(c, "sync") /\ UNCHANGED temp
    /\ UNCHANGED <<body, files, disk>>

\* tmp.Sync() and tmp.Close().
Sync_Bug(c) ==
    /\ At(c, "POST", "sync")
    /\ Goto(c, "rename")
    /\ UNCHANGED <<temp, body, files, disk>>

Sync(c) ==
    /\ At(c, "POST", "sync")
    /\ temp' = [temp EXCEPT ![c].synced = TRUE]
    /\ Goto(c, "rename")
    /\ UNCHANGED <<body, files, disk>>

\* os.Rename replaces a file, but no directory.  public/ itself is not
\* synced: until some later time the disk has the old entry or the new one.
Rename(c) ==
    LET f == Target[request[c]]
    IN  /\ At(c, "POST", "rename")
        /\ \/ /\ f \in Directories
              /\ Finish(c, 500)
              /\ UNCHANGED <<files, disk>>
           \/ /\ f \notin Directories
              /\ Finish(c, 201)
              /\ files' = [files EXCEPT ![f] = temp[c]]
              /\ disk' = [disk EXCEPT ![f] = @ \cup Durable(temp[c])]
        /\ UNCHANGED body

\* The client breaks the connection during the body, or a call of the
\* operating system fails.
SaveFails_Bug(c) ==
    /\ conn[c] = "handle" /\ request[c].method = "POST"
    /\ step[c] # "start" \/ Storable(Target[request[c]])
    /\ \E s \in OSErrors : Answer(c, s)
    /\ step' = [step EXCEPT ![c] = "start"]
    /\ UNCHANGED <<temp, body, files, disk>>

SaveFails(c) ==
    /\ conn[c] = "handle" /\ request[c].method = "POST"
    /\ step[c] # "start" \/ Storable(Target[request[c]])
    /\ \E s \in OSErrors : Finish(c, s)
    /\ UNCHANGED <<body, files, disk>>

-----------------------------------------------------------------------------
\* The kernel closes the connections of a process that is gone.  Its upload-
\* files stay behind, under names that no request reads or writes.
Die ==
    /\ conn' = [c \in Conns |-> "idle"]
    /\ backlog' = <<>>
    /\ channel' = 0
    /\ client' = [c \in Conns |-> "closed"]
    /\ request' = [c \in Conns |-> NoRequest]
    /\ status' = [c \in Conns |-> 0]
    /\ step' = [c \in Conns |-> "start"]
    /\ temp' = [c \in Conns |-> NoFile]
    /\ body' = [c \in Conns |-> NoFile]

\* A signal, or log.Fatal because Accept fails; somebody starts it again.
ProcessDies == "process" \in Deaths /\ Die /\ UNCHANGED <<files, disk>>

MachineDies ==
    /\ "machine" \in Deaths
    /\ Die
    /\ files' \in [Files -> UNION {disk[f] : f \in Files}]
    /\ \A f \in Files : files'[f] \in disk[f]
    /\ disk' = [f \in Files |-> {files'[f]}]

-----------------------------------------------------------------------------
Library(c) ==
    /\ \/ ClientStep(c) \/ Admit(c) \/ ReadFails(c) \/ Dispatch(c)
       \/ Release(c)
    /\ UNCHANGED fileVars

\* The response is on its way.
Reply(c) ==
    /\ WriteResponse(c)
    /\ body' = [body EXCEPT ![c] = NoFile]
    /\ UNCHANGED <<step, temp, files, disk>>

Handler(c) ==
    \/ Stat(c) \/ ReadFile(c) \/ ReadFileFails(c)
    \/ CreateTemp(c) \/ Copy(c) \/ Sync(c) \/ Rename(c) \/ SaveFails(c)

FileNext ==
    \/ Accept /\ UNCHANGED fileVars
    \/ \E c \in Conns : Library(c) \/ Reply(c) \/ Handler(c)
    \/ ProcessDies
    \/ MachineDies

FileSpec == FileInit /\ [][FileNext]_serverVars
-----------------------------------------------------------------------------
(* Properties.                                                             *)

\* The type invariant of the server's own state.
FileTypeOK ==
    /\ HttpTypeOK
    /\ step \in [Conns -> {"start", "open", "copy", "sync", "rename"}]
    /\ temp \in [Conns -> Contents \cup {NoFile}]
    /\ body \in [Conns -> Contents \cup {NoFile}]
    /\ files \in [Files -> Contents \cup {NoFile}]
    /\ disk \in [Files -> SUBSET (Contents \cup {NoFile})]

\* Every way out of saveUploadedFile removes the upload- file: none outlives
\* the handler that created it, except when the process dies.
TempsRemoved == \A c \in Conns : temp[c] # NoFile => conn[c] = "handle"

\* Whatever the path of a request contains, the file that GET and POST take
\* it for is public/ or below it: a segment leads elsewhere only if the check
\* of resolvePath refuses it.
ResolvesBelow ==
    \A p \in Paths : \A f \in {Clean(p), Base(p)} :
        Refused(f) \/ \A k \in DOMAIN f : f[k] \notin {"", ".", ".."}

\* A file that can be stored can be fetched: writeFile accepts no name that
\* the checks of the GET handler refuse, for the file's own path.  And no
\* path leads out of public/ (ResolvesBelow).
PathsSound ==
    /\ \A f \in Files :
          Exists(f) => Supported(f) /\ ~Refused(f) /\ Clean(f) = f
    /\ ResolvesBelow

\* A partial file, seen from the abstract store, is no body at all.
AsBody(x) ==
    IF x = NoFile THEN NoBody ELSE IF x.n = NChunks THEN x.body ELSE x

\* The operation on the store that connection c stands for.
OpOf(c) ==
    LET r == request[c]
        idle == [state |-> "idle"]
        about == r \in Handled /\ Target[r] \in Files
    IN  CASE conn[c] \in {"read", "handle"} ->
               IF ~about THEN idle
               ELSE IF r.method = "GET"
               THEN [state |-> "get", file |-> Target[r]]
               ELSE [state |-> "put", file |-> Target[r], body |-> r.body]
          [] conn[c] = "write" ->
               CASE status[c] = 200 -> [state |-> "got", body |-> AsBody(body[c])]
                 [] status[c] = 201 -> [state |-> "stored"]
                 [] OTHER -> IF about THEN [state |-> "failed"] ELSE idle
          [] OTHER -> idle

Store == INSTANCE FileStore WITH
        Users <- Conns,
        store <- [f \in Files |-> AsBody(files[f])],
        past <- [f \in Files |-> {AsBody(x) : x \in disk[f]}],
        op <- [c \in Conns |-> OpOf(c)]

\* The server implements the abstract store: uploads and downloads of one
\* file may overlap, break off or be cut by a crash, and still nobody reads
\* a partial file, a 201 means that the file was replaced, and a failed
\* upload leaves it alone.  After a power loss a file is as it was at some
\* time, never in part.
ImplementsStore == Store!StoreSpec
=============================================================================
