------------------------------- MODULE Worker -------------------------------
(***************************************************************************)
(* The worker processes (mr/worker.go, mr/bucket.go, mr/worker_rpc.go) and *)
(* the directories they work in.                                           *)
(*                                                                         *)
(* A worker is the sequential program Worker(): ask for a task, execute    *)
(* it, report it.  The actions are the steps of that program between two   *)
(* effects another process can see: an RPC, a rename, a truncation, the    *)
(* write of a line.  The steps that are one side of an RPC (they begin or  *)
(* end a call) are joined with the other side in MapReduce.                *)
(*                                                                         *)
(* Data: the lines of an output file are described by the set of map tasks *)
(* whose intermediate pairs they were reduced from.  A correct mr-out-b    *)
(* has NLines lines, each reduced from all of MapTasks.                    *)
(***************************************************************************)
EXTENDS MRTypes

CONSTANTS
    Workers,  \* the worker processes
    Addr,     \* Addr[w]: the workerAddress w announces
    Dirs,     \* directories; workers on one machine share theirs
    Dir,      \* Dir[w]: the working directory of w
    NLines    \* the lines of one mr-out-b (the writes of Fprintf)

ASSUME WorkerAssumption ==
    /\ Addr \in [Workers -> Addresses]
    /\ Dir \in [Workers -> Dirs]
    /\ NLines \in Nat \ {0}

VARIABLES
    pc,     \* where the program of each worker is
    task,   \* reply.Task
    snap,   \* reply.ReduceData.MapTaskOutputs, as it was encoded
    left,   \* the entries of it not fetched yet; at "missing", the one that
            \* could not be fetched, at "hung", the one being fetched
    pos,    \* the next bucket to write (map) or the lines written (reduce)
    files,  \* files[d]: the pairs <<m, b>> such that mr-m-b exists in d
    out     \* out[d][b][i]: what line i of mr-out-b in d was reduced from,
            \* {} if there is no such line

progVars == <<pc, task, snap, left, pos>>
workerVars == <<progVars, files, out>>

\* The worker takes part: it runs, or at least serves FetchBucket.
Live == {"ask", "encode", "map", "fetch", "hung", "missing", "write", "report",
         "wait"}
PCs == Live \cup {"exited", "crashed", "stopped"}

Lines == 1 .. NLines

NoLines == [i \in Lines |-> {}]

Complete == [i \in Lines |-> MapTasks]

WorkerInit ==
    /\ pc = [w \in Workers |-> "ask"]
    /\ task = [w \in Workers |-> NoTask]
    /\ snap = [w \in Workers |-> NoOutputs]
    /\ left = [w \in Workers |-> {}]
    /\ pos = [w \in Workers |-> 0]
    /\ files = [d \in Dirs |-> {}]
    /\ out = [d \in Dirs |-> [b \in Buckets |-> NoLines]]

\* The worker drops its task and goes to point p of its program.
Drop(w, p) ==
    /\ pc' = [pc EXCEPT ![w] = p]
    /\ task' = [task EXCEPT ![w] = NoTask]
    /\ snap' = [snap EXCEPT ![w] = NoOutputs]
    /\ left' = [left EXCEPT ![w] = {}]
    /\ pos' = [pos EXCEPT ![w] = 0]

\* The worker stays in its task and goes to point p of its program.
Goto(w, p) == pc' = [pc EXCEPT ![w] = p] /\ UNCHANGED <<task, snap>>

\* mr-m-b is in d for every bucket b: map task m has been executed there.
MappedIn(m, d) == \A b \in Buckets : <<m, b>> \in files[d]

-----------------------------------------------------------------------------
(* The ends of askCoordinatorForTask.                                      *)

BeginMap(w, m) ==
    /\ pc[w] = "ask"
    /\ pc' = [pc EXCEPT ![w] = "map"]
    /\ task' = [task EXCEPT ![w] = m]
    /\ UNCHANGED <<snap, left, pos, files, out>>

\* net/rpc encodes the reply after the handler has returned.
BeginReduce(w, b) ==
    /\ pc[w] = "ask"
    /\ pc' = [pc EXCEPT ![w] = "encode"]
    /\ task' = [task EXCEPT ![w] = b]
    /\ UNCHANGED <<snap, left, pos, files, out>>

\* "Wait" is taken for "no more work".
BeginWait_Bug(w) ==
    /\ pc[w] = "ask"
    /\ Goto(w, "exited")
    /\ UNCHANGED <<left, pos, files, out>>

BeginWait(w) ==
    /\ pc[w] = "ask"
    /\ Goto(w, "wait")
    /\ UNCHANGED <<left, pos, files, out>>

\* The keys of a MapTaskOutputs.
Entries(f) == {m \in MapTasks : f[m] # NoAddress}

\* The reply is encoded when MapTaskOutputs is f, and received.
\* runReduceTask iterates over what it received.
ReceiveReduce(w, f) ==
    /\ pc[w] = "encode"
    /\ pc' = [pc EXCEPT ![w] = "fetch"]
    /\ snap' = [snap EXCEPT ![w] = f]
    /\ left' = [left EXCEPT ![w] = Entries(f)]
    /\ UNCHANGED <<task, pos, files, out>>

-----------------------------------------------------------------------------
(* runMapTask: mapf, bucketContents, and the bucket files one by one, each *)
(* renamed into place from a temporary file.                               *)

\* One bucket too many.
WriteBucket_Bug(w) ==
    /\ pc[w] = "map"
    /\ files' = [files EXCEPT ![Dir[w]] = @ \cup {<<task[w], pos[w]>>}]
    /\ pos' = [pos EXCEPT ![w] = @ + 1]
    /\ Goto(w, IF pos[w] = NReduce THEN "report" ELSE "map")
    /\ UNCHANGED <<left, out>>

WriteBucket(w) ==
    /\ pc[w] = "map"
    /\ files' = [files EXCEPT ![Dir[w]] = @ \cup {<<task[w], pos[w]>>}]
    /\ pos' = [pos EXCEPT ![w] = @ + 1]
    /\ Goto(w, IF pos[w] + 1 = NReduce THEN "report" ELSE "map")
    /\ UNCHANGED <<left, out>>

-----------------------------------------------------------------------------
(* runReduceTask: an entry is read from the own directory if the producer  *)
(* has this worker's address, else fetched from a live worker that answers *)
(* at that address (WorkerData.FetchBucket, served while it lives).        *)

Source(w, m) ==
    IF snap[w][m] = Addr[w]
    THEN {w}
    ELSE {v \in Workers : Addr[v] = snap[w][m] /\ pc[v] \in Live}

Available(w, m) ==
    \E v \in Source(w, m) : <<m, task[w]>> \in files[Dir[v]]

\* A stopped process still has its port: connecting to it succeeds, and
\* CallWorker, which sets no time limit, waits for an answer.
Silent(w, m) ==
    /\ snap[w][m] # Addr[w]
    /\ \E v \in Workers : Addr[v] = snap[w][m] /\ pc[v] = "stopped"

FetchHangs(w, m) ==
    /\ pc[w] = "fetch"
    /\ m \in left[w]
    /\ Silent(w, m)
    /\ Goto(w, "hung")
    /\ left' = [left EXCEPT ![w] = {m}]
    /\ UNCHANGED <<pos, files, out>>

Fetch(w, m) ==
    /\ pc[w] = "fetch"
    /\ m \in left[w]
    /\ Available(w, m)
    /\ left' = [left EXCEPT ![w] = @ \ {m}]
    /\ UNCHANGED <<pc, task, snap, pos, files, out>>

\* The file or the producer is not there, or (faulty) the call failed.
FetchFails(w, m, faulty) ==
    /\ pc[w] \in {"fetch", "hung"}
    /\ m \in left[w]
    /\ faulty \/ (~Available(w, m) /\ ~Silent(w, m))
    /\ Goto(w, "missing")
    /\ left' = [left EXCEPT ![w] = {m}]
    /\ UNCHANGED <<pos, files, out>>

\* Everything is fetched, grouped and reduced.
AllFetched(w) == pc[w] = "fetch" /\ left[w] = {}

\* os.Create truncates the file if it exists.
CreateOutput(w) ==
    /\ AllFetched(w)
    /\ out' = [out EXCEPT ![Dir[w]][task[w]] = NoLines]
    /\ Goto(w, "write")
    /\ UNCHANGED <<left, pos, files>>

\* One Fprintf; its error, if it meets one, is ignored.
WriteLine(w, faulty) ==
    /\ pc[w] = "write"
    /\ pos' = [pos EXCEPT ![w] = @ + 1]
    /\ out' = IF faulty
              THEN out
              ELSE [out EXCEPT ![Dir[w]][task[w]][pos[w] + 1] = Entries(snap[w])]
    /\ Goto(w, IF pos[w] + 1 = NLines THEN "report" ELSE "write")
    /\ UNCHANGED <<left, files>>

-----------------------------------------------------------------------------
(* The rest of the loop.                                                   *)

WakeUp(w) ==
    /\ pc[w] = "wait"
    /\ Drop(w, "ask")
    /\ UNCHANGED <<files, out>>

\* executeTask returns an error that Worker() only logs.
TaskFails(w) ==
    /\ pc[w] = "map" \/ AllFetched(w)
    /\ Drop(w, "ask")
    /\ UNCHANGED <<files, out>>

\* The process dies; what it renamed or wrote stays on disk.
Dies(w) ==
    /\ pc[w] \in Live
    /\ Drop(w, "crashed")
    /\ UNCHANGED <<files, out>>

\* The process is stopped for good, but not ended (SIGSTOP, docker pause).
Stops(w) ==
    /\ pc[w] \in Live
    /\ Drop(w, "stopped")
    /\ UNCHANGED <<files, out>>

\* A stopped process is killed before it is started again.
Restart(w) ==
    /\ pc[w] \notin Live
    /\ Drop(w, "ask")
    /\ UNCHANGED <<files, out>>

\* The steps a worker takes by itself when nothing fails.
WorkerStep(w) ==
    \/ WriteBucket(w)
    \/ \E m \in MapTasks :
          Fetch(w, m) \/ FetchHangs(w, m) \/ FetchFails(w, m, FALSE)
    \/ CreateOutput(w)
    \/ WriteLine(w, FALSE)
    \/ WakeUp(w)
-----------------------------------------------------------------------------
(* Invariants of the workers alone.                                        *)

\* The type invariant: which task a worker holds follows from where it is.
WorkerTypeOK ==
    /\ pc \in [Workers -> PCs]
    /\ task \in [Workers -> Tasks \cup {NoTask}]
    /\ snap \in [Workers -> Outputs]
    /\ left \in [Workers -> SUBSET MapTasks]
    /\ pos \in [Workers -> Nat]
    /\ files \in [Dirs -> SUBSET (MapTasks \X Buckets)]
    /\ out \in [Dirs -> [Buckets -> [Lines -> SUBSET MapTasks]]]
    /\ \A w \in Workers :
          /\ pc[w] = "map" => task[w] \in MapTasks /\ pos[w] < NReduce
          /\ pc[w] \in {"encode", "fetch", "hung", "missing", "write"}
                => task[w] \in Buckets
          /\ pc[w] \in {"ask", "encode", "fetch", "hung"} => pos[w] = 0
          /\ pc[w] = "write" => pos[w] < NLines
          /\ pc[w] = "report" => task[w] \in Tasks

\* A map task in progress has written the buckets before pos.
MapProgress ==
    \A w \in Workers : pc[w] = "map" =>
        \A b \in Buckets : b < pos[w] => <<task[w], b>> \in files[Dir[w]]

\* A worker that reports a map task has written all of it.
ReportsMapped ==
    \A w \in Workers : pc[w] = "report" /\ task[w] \in MapTasks =>
        MappedIn(task[w], Dir[w])

WorkerInv == WorkerTypeOK /\ MapProgress /\ ReportsMapped
=============================================================================
