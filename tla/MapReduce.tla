----------------------------- MODULE MapReduce -----------------------------
(***************************************************************************)
(* The MapReduce system: one coordinator and its workers, the RPCs between *)
(* them, and the failures the code is written to survive.                  *)
(*                                                                         *)
(* An RPC to the coordinator is made of the caller waiting at "ask",       *)
(* "report" or "missing", and of one action for its handler and the return *)
(* to the caller.  If the caller dies or loses the connection meanwhile,   *)
(* its request is orphaned: the coordinator may still handle it, at any    *)
(* later time, or never.                                                   *)
(***************************************************************************)
EXTENDS Coordinator, Worker

CONSTANTS
    FaultKinds,  \* the failures that happen, see Fault
    MaxFaults,   \* how many of them, in total
    Slow         \* the tasks that may take longer than taskTimeout

VARIABLES
    late,    \* orphaned requests
    faults   \* the failures so far

vars == <<coordVars, workerVars, late, faults>>

AllFaultKinds ==
    {"crash",    \* a worker process is killed, at any point
     "stop",     \* a worker process is stopped, but does not end
     "app",      \* mapf or reducef exits the process (mrapps/crash.go)
     "call",     \* a connection breaks during an RPC
     "io",       \* reading an input or writing a file fails with an error
     "silent",   \* a write of an output line fails, its error is ignored
     "race",     \* the unsynchronised accesses to MapTaskOutputs collide
     "restart"}  \* workers that ended are started again (not counted)

ASSUME FaultAssumption ==
    /\ FaultKinds \subseteq AllFaultKinds
    /\ MaxFaults \in Nat
    /\ Slow \subseteq Tasks

Init ==
    /\ CoordInit
    /\ WorkerInit
    /\ late = {}
    /\ faults = 0

Fault(kind) ==
    /\ kind \in FaultKinds
    /\ faults < MaxFaults
    /\ faults' = faults + 1

-----------------------------------------------------------------------------
(* RPCs to the coordinator.                                                *)

\* The arguments of the request w is waiting for an answer to: a TaskID, or
\* NoTask for RequestTask.
Pending(w) ==
    CASE pc[w] = "ask" -> {NoTask}
      [] pc[w] = "report" -> {task[w]}
      [] pc[w] = "missing" -> left[w]
      [] OTHER -> {}

\* The requests that can be orphaned.
Requests == [id : Nat, call : {"ask", "report", "missing"},
             task : Tasks \cup {NoTask}, addr : Addresses]

\* The caller is gone, its request is on its way.
Orphan(w) ==
    late' = late \cup {[id |-> faults, call |-> pc[w], task |-> t,
                        addr |-> Addr[w]] : t \in Pending(w)}

RequestTask(w) ==
    /\ \/ \E m \in MapTasks : AssignMap(m) /\ BeginMap(w, m)
       \/ \E b \in Buckets : AssignReduce(b) /\ BeginReduce(w, b)
       \/ AnswerWait /\ BeginWait(w)
    /\ UNCHANGED <<late, faults>>

\* os.ReadFile fails: the task is already marked Running, the RPC returns an
\* error, and the worker takes any failed RequestTask for the end of the job.
ReadInputFails(w) ==
    /\ Fault("io")
    /\ pc[w] = "ask"
    /\ \E m \in MapTasks : AssignMap(m)
    /\ Drop(w, "exited")
    /\ UNCHANGED <<files, out, late>>

\* reply.ReduceData.MapTaskOutputs is the coordinator's own Go map.  net/rpc
\* encodes it after RequestTask has released c.mu, with what it then holds.
EncodeReply(w) ==
    /\ Serving
    /\ pc[w] = "encode"
    /\ ReceiveReduce(w, outputs[task[w]])
    /\ UNCHANGED <<coordVars, late, faults>>

ReportCompletion(w) ==
    /\ pc[w] = "report"
    /\ ReportTaskCompletion(task[w], Addr[w])
    /\ Drop(w, "ask")
    /\ UNCHANGED <<files, out, late, faults>>

ReportMissing(w) ==
    /\ pc[w] = "missing"
    /\ \E m \in left[w] : ReportMissingMapOutputs(m)
    /\ Drop(w, "ask")
    /\ UNCHANGED <<files, out, late, faults>>

HandleLate(r) ==
    /\ r \in late
    /\ late' = late \ {r}
    /\ \/ /\ r.call = "ask"
          /\ \/ \E m \in MapTasks : AssignMap(m)
             \/ \E b \in Buckets : AssignReduce(b)
             \/ AnswerWait
       \/ r.call = "report" /\ ReportTaskCompletion(r.task, r.addr)
       \/ r.call = "missing" /\ ReportMissingMapOutputs(r.task)
    /\ UNCHANGED <<workerVars, faults>>

\* A worker that cannot reach the coordinator asks again.
CallFails_Bug(w) ==
    /\ pc[w] \in {"ask", "encode", "report", "missing"}
    /\ Drop(w, "ask")
    /\ UNCHANGED <<coordVars, files, out>>

\* A failed RequestTask ends the worker; the result of a report is ignored.
CallFails(w) ==
    /\ pc[w] \in {"ask", "encode", "report", "missing"}
    /\ Drop(w, IF pc[w] \in {"ask", "encode"} THEN "exited" ELSE "ask")
    /\ UNCHANGED <<coordVars, files, out>>

CallLost(w) == Fault("call") /\ Orphan(w) /\ CallFails(w)

CoordinatorGone(w) == ~Serving /\ CallFails(w) /\ UNCHANGED <<late, faults>>

-----------------------------------------------------------------------------
(* The data race on MapTaskOutputs: ReportMissingMapOutputs deletes an     *)
(* entry and ReportTaskCompletion inserts one under c.mu, the encoder      *)
(* iterates without it.                                                    *)

Deleting(m) ==
    /\ state[m] = "Done"
    /\ \/ \E v \in Workers : pc[v] = "missing" /\ m \in left[v]
       \/ \E r \in late : r.call = "missing" /\ r.task = m

Inserting(m) ==
    /\ state[m] # "Done"
    /\ \/ \E v \in Workers : pc[v] = "report" /\ task[v] = m
       \/ \E r \in late : r.call = "report" /\ r.task = m

\* The Go runtime may stop the coordinator ("concurrent map iteration and
\* map write"), or the reply is garbled: the worker fails to decode it and
\* exits, or drops a task with an entry it cannot resolve.
Collide(w) ==
    /\ "race" \in FaultKinds
    /\ Serving
    /\ pc[w] = "encode"
    /\ \E m \in MapTasks : Deleting(m) \/ Inserting(m)
    /\ \/ main' = "aborted" /\ UNCHANGED <<progVars>>
       \/ main' = main /\ Drop(w, "exited")
       \/ main' = main /\ Drop(w, "ask")
    /\ UNCHANGED <<state, timedOut, outputs, files, out, late, faults>>

-----------------------------------------------------------------------------
(* Steps of one side only.                                                 *)

Work(w) == WorkerStep(w) /\ UNCHANGED <<coordVars, late, faults>>

FetchCallFails(w) ==
    /\ Fault("call")
    /\ \E m \in left[w] : FetchFails(w, m, TRUE)
    /\ UNCHANGED <<coordVars, late>>

FileError(w) ==
    /\ Fault("io")
    /\ TaskFails(w)
    /\ UNCHANGED <<coordVars, late>>

LostLine(w) ==
    /\ Fault("silent")
    /\ WriteLine(w, TRUE)
    /\ UNCHANGED <<coordVars, late>>

Crash(w) ==
    /\ Fault("crash")
    /\ Orphan(w)
    /\ Dies(w)
    /\ UNCHANGED coordVars

StopWorker(w) ==
    /\ Fault("stop")
    /\ Orphan(w)
    /\ Stops(w)
    /\ UNCHANGED coordVars

\* mapf runs before the first bucket is written, reducef before os.Create.
AppCrash(w) ==
    /\ Fault("app")
    /\ (pc[w] = "map" /\ pos[w] = 0) \/ AllFetched(w)
    /\ Dies(w)
    /\ UNCHANGED <<coordVars, late>>

StartAgain(w) ==
    /\ "restart" \in FaultKinds
    /\ Restart(w)
    /\ UNCHANGED <<coordVars, late, faults>>

\* A task that is not Slow times out only if it is abandoned, or hangs.
TimesOut(t) ==
    /\ t \in Slow \/ \A w \in Workers : task[w] = t => pc[w] = "hung"
    /\ TaskTimesOut(t)
    /\ UNCHANGED <<workerVars, late, faults>>

MainStep == (PollDone \/ Exit) /\ UNCHANGED <<workerVars, late, faults>>

\* No worker will take another step: it has ended, or waits for a stopped one.
NobodyRuns == \A w \in Workers : pc[w] \notin Live \ {"hung"}

\* A coordinator nobody calls has ended, or goes on polling Done().
Ended == NobodyRuns /\ UNCHANGED vars

-----------------------------------------------------------------------------
Rpc(w) ==
    \/ RequestTask(w)
    \/ EncodeReply(w)
    \/ ReportCompletion(w)
    \/ ReportMissing(w)
    \/ CoordinatorGone(w)

Failure(w) ==
    \/ ReadInputFails(w)
    \/ CallLost(w)
    \/ Collide(w)
    \/ FetchCallFails(w)
    \/ FileError(w)
    \/ LostLine(w)
    \/ Crash(w)
    \/ StopWorker(w)
    \/ AppCrash(w)
    \/ StartAgain(w)

Next ==
    \/ \E w \in Workers : Rpc(w) \/ Work(w) \/ Failure(w)
    \/ \E r \in late : HandleLate(r)
    \/ \E t \in Tasks : TimesOut(t)
    \/ MainStep
    \/ Ended

Spec == Init /\ [][Next]_vars

\* What the operating system and the Go scheduler give every process that
\* lives: it runs, its RPCs return, time passes.  No failure is fair.
Fairness ==
    /\ \A w \in Workers : WF_vars(Rpc(w)) /\ WF_vars(Work(w))
    /\ \A t \in Tasks : WF_vars(TimesOut(t))
    /\ WF_vars(MainStep)

FairSpec == Spec /\ Fairness
-----------------------------------------------------------------------------
(* Properties.                                                             *)

\* The type invariant of the system: that of its parts, and well-formed
\* orphaned requests.
TypeOK ==
    /\ CoordTypeOK
    /\ WorkerTypeOK
    /\ late \subseteq Requests
    /\ \A r \in late :
          /\ r.call = "report" => r.task \in Tasks
          /\ r.call = "missing" => r.task \in MapTasks
    /\ faults \in 0 .. MaxFaults

\* Whatever crashes, is lost or is handled late: while the coordinator names
\* a producer for a map task, some worker with that address has written every
\* bucket of the task, because the report leaves after the last rename.
ProducersHoldOutputs ==
    \A m \in MapTasks, b \in Buckets :
        outputs[b][m] # NoAddress =>
            \E w \in Workers :
                Addr[w] = outputs[b][m] /\ MappedIn(m, Dir[w])

\* The map tasks that have been executed completely, in some directory.
Mapped == {m \in MapTasks : \E d \in Dirs : MappedIn(m, d)}

\* The completion of a map task that an orphaned report announces has been
\* executed in the directory of a worker with the address in the report.
LateIsMapped ==
    \A r \in late : r.call = "report" /\ r.task \in MapTasks =>
        \E w \in Workers : Addr[w] = r.addr /\ MappedIn(r.task, Dir[w])

\* A trace of a reduce task: it was handed out, or is reported.
ReduceSeen ==
    \/ \E b \in Buckets : state[b] # "Unassigned"
    \/ \E w \in Workers : task[w] \in Buckets
    \/ \E r \in late : r.task \in Buckets

\* The map barrier of RequestTask: once there is a trace of any reduce task,
\* at the coordinator, at a worker or in an orphaned report, all buckets of
\* every map task have been written on some disk.  Unlike "all map tasks are
\* Done" it survives a report of missing outputs, crashes between two buckets
\* and duplicate executions.
MapBarrier == ReduceSeen => Mapped = MapTasks

\* The inductive invariant behind ImplementsJob and ProducersHoldOutputs: what
\* connects the coordinator's records with the files on the workers' disks,
\* through the programs of the workers and the requests under way.
IndInv ==
    /\ TypeOK
    /\ CoordInv
    /\ WorkerInv
    /\ ProducersHoldOutputs
    /\ LateIsMapped
    /\ MapBarrier

J == INSTANCE Job WITH
        mapped <- Mapped,
        reduced <- {b \in Buckets : state[b] = "Done"},
        finished <- main = "exited"

\* The system implements the abstract job: duplicate executions, orphaned
\* reports, rescheduled map tasks and crashes never complete a reduce task
\* before all map tasks were executed, never undo one, and never let main()
\* return before all are complete.
ImplementsJob == J!JobSpec

\* The file mr-out-b is complete as soon as the coordinator counts reduce
\* task b as Done.
DoneIsWritten ==
    \A b \in Buckets : state[b] = "Done" => \E d \in Dirs : out[d][b] = Complete

\* When the coordinator has exited, the outputs are those of a sequential
\* run of the same job (test-mr.sh compares the two).
OutputsCorrectAtExit ==
    main = "exited" => \A b \in Buckets : \E d \in Dirs : out[d][b] = Complete

\* Nobody touches an output once the coordinator has exited (the early_exit
\* test: the output is finalized when the first process exits).
OutputsFinal == [][main = "exited" => out' = out]_vars

\* A worker exits only when the coordinator is gone.
NoEarlyExit == (\E w \in Workers : pc[w] = "exited") => ~Serving

\* A worker was stopped that the coordinator sends reducers to, for the output
\* of some map task.
StoppedProducer ==
    \E w \in Workers :
        /\ pc[w] = "stopped"
        /\ \E m \in MapTasks, b \in Buckets : outputs[b][m] = Addr[w]

\* The job is finished: crashed workers, abandoned tasks and outputs lost
\* with a crashed producer are all made up for.  The one failure that the
\* workers do not get over is a producer that is stopped but not dead: a call
\* to it never returns, so its outputs are never reported missing.
JobFinishes == <>(main = "exited") \/ <>[]StoppedProducer

\* Every worker that survives stops when the job is over, unless a call to a
\* stopped worker keeps it.
WorkersStop == <>(main = "exited") => <>[]NobodyRuns
=============================================================================
