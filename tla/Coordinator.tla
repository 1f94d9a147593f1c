---------------------------- MODULE Coordinator ----------------------------
(***************************************************************************)
(* The MapReduce coordinator (mr/coordinator.go, mr/task.go and the main   *)
(* loop of main/mrcoordinator.go).                                         *)
(*                                                                         *)
(* Every RPC handler holds c.mu from its first to its last statement, so a *)
(* handler is one action.  The definitions whose names end in _Bug are     *)
(* plausible mistakes in the code; the properties are tested against them. *)
(*                                                                         *)
(* CoordSpec leaves the environment open: any RPC may arrive at any time,  *)
(* with any task and any address, as it may from workers that are slow,    *)
(* restarted or left over.                                                 *)
(***************************************************************************)
EXTENDS MRTypes

VARIABLES
    state,     \* Task.State of every task
    timedOut,  \* the Running tasks assigned at least taskTimeout ago
    outputs,   \* MapTaskOutputs of every reduce task
    main       \* where main() is: "polling" Done(), "draining" (the last
               \* Sleep), "exited", or "aborted" by the Go runtime

coordVars == <<state, timedOut, outputs, main>>

MainStates == {"polling", "draining", "exited", "aborted"}

CoordInit ==
    /\ state = [t \in Tasks |-> "Unassigned"]
    /\ timedOut = {}
    /\ outputs = [b \in Buckets |-> NoOutputs]
    /\ main = "polling"

\* The process is alive, and with it the goroutine that serves RPCs.
Serving == main \in {"polling", "draining"}

-----------------------------------------------------------------------------
(* The predicates of the handlers.  A Go map is iterated in random order,  *)
(* so pick...Locked returns any task that may be assigned.                 *)

shouldAssignTask(t) ==
    \/ state[t] = "Unassigned"
    \/ state[t] = "Running" /\ t \in timedOut

pickMapTask == {m \in MapTasks : shouldAssignTask(m)}

pickReduceTask == {b \in Buckets : shouldAssignTask(b)}

allMapTasksDone == \A m \in MapTasks : state[m] = "Done"

allReduceTasksDone == \A b \in Buckets : state[b] = "Done"

Done_Bug == allMapTasksDone

Done == allMapTasksDone /\ allReduceTasksDone

-----------------------------------------------------------------------------
(* RequestTask has three outcomes: a map task, a reduce task, or "wait".   *)

\* AssignedAt is set anew.
MarkRunning(t) ==
    /\ state' = [state EXCEPT ![t] = "Running"]
    /\ timedOut' = timedOut \ {t}

AssignMap(m) ==
    /\ Serving
    /\ m \in pickMapTask
    /\ MarkRunning(m)
    /\ UNCHANGED <<outputs, main>>

\* "No map task is left to assign" is taken for "all map tasks are Done".
AssignReduce_Bug(b) ==
    /\ Serving
    /\ pickMapTask = {}
    /\ b \in pickReduceTask
    /\ MarkRunning(b)
    /\ UNCHANGED <<outputs, main>>

\* A task that timed out is handed out again without asking for the map tasks.
AssignReduce_Bug2(b) ==
    /\ Serving
    /\ pickMapTask = {}
    /\ allMapTasksDone \/ b \in timedOut
    /\ b \in pickReduceTask
    /\ MarkRunning(b)
    /\ UNCHANGED <<outputs, main>>

AssignReduce(b) ==
    /\ Serving
    /\ pickMapTask = {}
    /\ allMapTasksDone
    /\ b \in pickReduceTask
    /\ MarkRunning(b)
    /\ UNCHANGED <<outputs, main>>

AnswerWait ==
    /\ Serving
    /\ pickMapTask = {}
    /\ allMapTasksDone => pickReduceTask = {}
    /\ UNCHANGED coordVars

(* The state of a task that is not Running makes its age irrelevant, so    *)
(* timedOut forgets a task that leaves Running; MarkRunning would reset    *)
(* its AssignedAt before it is read again.                                 *)

\* The last report wins: State # Done is not checked.
ReportMapCompletion_Bug(m, a) ==
    /\ Serving
    /\ state' = [state EXCEPT ![m] = "Done"]
    /\ timedOut' = timedOut \ {m}
    /\ outputs' = [b \in Buckets |-> [outputs[b] EXCEPT ![m] = a]]
    /\ UNCHANGED main

\* The address in the report is not used.
ReportMapCompletion_Bug2(m, a) ==
    /\ Serving
    /\ state[m] # "Done"
    /\ state' = [state EXCEPT ![m] = "Done"]
    /\ timedOut' = timedOut \ {m}
    /\ outputs' = [b \in Buckets |-> [outputs[b] EXCEPT
                     ![m] = CHOOSE x \in Addresses : TRUE]]
    /\ UNCHANGED main

ReportMapCompletion(m, a) ==
    /\ Serving
    /\ IF state[m] = "Done"
       THEN UNCHANGED <<state, timedOut, outputs>>
       ELSE /\ state' = [state EXCEPT ![m] = "Done"]
            /\ timedOut' = timedOut \ {m}
            /\ outputs' = [b \in Buckets |-> [outputs[b] EXCEPT ![m] = a]]
    /\ UNCHANGED main

ReportReduceCompletion(b) ==
    /\ Serving
    /\ state' = [state EXCEPT ![b] = "Done"]
    /\ timedOut' = timedOut \ {b}
    /\ UNCHANGED <<outputs, main>>

\* A TaskID that is not in the coordinator's maps (exists = false) is ignored.
UnknownTask(t) == Serving /\ t \notin Tasks /\ UNCHANGED coordVars

ReportTaskCompletion(t, a) ==
    \/ t \in MapTasks /\ ReportMapCompletion(t, a)
    \/ t \in Buckets /\ ReportReduceCompletion(t)
    \/ UnknownTask(t)

\* The output is forgotten, the task stays Done.
RescheduleMap_Bug(m) ==
    /\ Serving
    /\ outputs' = [b \in Buckets |-> [outputs[b] EXCEPT ![m] = NoAddress]]
    /\ UNCHANGED <<state, timedOut, main>>

\* All reduce tasks start again too.
RescheduleMap_Bug2(m) ==
    /\ Serving
    /\ state' = [t \in Tasks |-> IF t = m \/ t \in Buckets
                                 THEN "Unassigned" ELSE state[t]]
    /\ timedOut' = timedOut \ (Buckets \cup {m})
    /\ outputs' = [b \in Buckets |-> [outputs[b] EXCEPT ![m] = NoAddress]]
    /\ UNCHANGED main

\* The report is ignored.
RescheduleMap_Bug3(m) == Serving /\ UNCHANGED coordVars

RescheduleMap(m) ==
    /\ Serving
    /\ IF state[m] = "Done"
       THEN /\ state' = [state EXCEPT ![m] = "Unassigned"]
            /\ outputs' = [b \in Buckets |->
                             [outputs[b] EXCEPT ![m] = NoAddress]]
       ELSE UNCHANGED <<state, outputs>>
    /\ UNCHANGED <<timedOut, main>>

ReportMissingMapOutputs(m) ==
    \/ m \in MapTasks /\ RescheduleMap(m)
    \/ UnknownTask(m)

-----------------------------------------------------------------------------
(* Time, and the main goroutine.                                           *)

TaskTimesOut(t) ==
    /\ Serving
    /\ state[t] = "Running"
    /\ t \notin timedOut
    /\ timedOut' = timedOut \cup {t}
    /\ UNCHANGED <<state, outputs, main>>

\* for m.Done() == false { time.Sleep(time.Second) }
PollDone ==
    /\ main = "polling"
    /\ main' = IF Done THEN "draining" ELSE "polling"
    /\ UNCHANGED <<state, timedOut, outputs>>

Exit ==
    /\ main = "draining"
    /\ main' = "exited"
    /\ UNCHANGED <<state, timedOut, outputs>>

CoordEnded == ~Serving /\ UNCHANGED coordVars

CoordNext ==
    \/ \E m \in MapTasks : AssignMap(m)
    \/ \E b \in Buckets : AssignReduce(b)
    \/ AnswerWait
    \/ \E t \in Tasks \cup {NoTask}, a \in Addresses : ReportTaskCompletion(t, a)
    \/ \E m \in MapTasks \cup {NoTask} : ReportMissingMapOutputs(m)
    \/ \E t \in Tasks : TaskTimesOut(t)
    \/ PollDone
    \/ Exit
    \/ CoordEnded

CoordSpec == CoordInit /\ [][CoordNext]_coordVars

-----------------------------------------------------------------------------
(* Properties.                                                             *)

\* The type invariant: a task that has timed out is a Running one, and the
\* main goroutine is in one of its states.
CoordTypeOK ==
    /\ state \in [Tasks -> TaskStates]
    /\ timedOut \subseteq {t \in Tasks : state[t] = "Running"}
    /\ outputs \in [Buckets -> Outputs]
    /\ main \in MainStates

\* Task.State and the MapTaskOutputs of all reduce tasks, which different
\* handlers write, always agree: a reduce task knows a producer for a map
\* task exactly while that map task is Done.  RequestTask relies on it: it
\* checks the states and hands out the outputs.
OutputsAgree ==
    \A m \in MapTasks, b \in Buckets :
        state[m] = "Done" <=> outputs[b][m] # NoAddress

\* Every reduce task is handed out under one and the same set of producers.
\* A reducer of bucket 0 and one of bucket 1 never read the output of two
\* different executions of a map task because of what the coordinator stores.
OneProducer ==
    \A b, c \in Buckets : outputs[b] = outputs[c]

\* The last Sleep of main() is entered from a Done() whose answer may be
\* stale: a late report can still undo a map task, but never a reduce task,
\* so the outputs of the job exist once main() has seen Done().
DrainedIsReduced == main \in {"draining", "exited"} => allReduceTasksDone

\* The conjunction of the invariants of the coordinator; it is inductive.
CoordInv ==
    CoordTypeOK /\ OutputsAgree /\ OneProducer /\ DrainedIsReduced

\* The step hands out reduce task b, for the first time or once more.
Assigned(b) ==
    /\ state'[b] = "Running"
    /\ state[b] = "Running" => b \in timedOut /\ b \notin timedOut'

SeesAllOutputs ==
    \A b \in Buckets : Assigned(b) =>
        \A m \in MapTasks : outputs[b][m] \in Addresses

\* When RequestTask decides to hand out a reduce task, for the first time or
\* once more, the task's MapTaskOutputs has a producer of every map task,
\* after any sequence of completions and of reports of missing outputs.  That
\* is what the handler sees under c.mu: what the reducer receives is encoded
\* later and may be less.
ReduceSeesAllOutputs == [][SeesAllOutputs]_coordVars

KeepsFinishedReduce ==
    \A b \in Buckets : state[b] = "Done" => state'[b] = "Done"

\* A reduce task that is Done is never handed out again, whatever
\* RequestTask, late reports and timeouts do later.
FinishedReduceStays == [][KeepsFinishedReduce]_coordVars

KeepsProducer ==
    \A b \in Buckets, m \in MapTasks :
        outputs[b][m] # NoAddress /\ outputs'[b][m] # outputs[b][m]
            => outputs'[b][m] = NoAddress /\ state'[m] = "Unassigned"

\* The producer of a Done map task is not replaced by that of a later,
\* duplicate completion: it only disappears when its output is reported
\* missing, which makes the map task Unassigned again.
ProducerStays == [][KeepsProducer]_coordVars
=============================================================================
