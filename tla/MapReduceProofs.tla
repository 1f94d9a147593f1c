-------------------------- MODULE MapReduceProofs --------------------------
(***************************************************************************)
(* The coordinator keeps its promises in any environment (CoordSpec), and  *)
(* the system built on it has the invariant IndInv and implements Job: for *)
(* any tasks, workers, directories and addresses, any kinds and number of  *)
(* failures, and any tasks that outlast their timeout.  What does depend   *)
(* on the deployment is proved at the end, from named hypotheses on the    *)
(* constants: when workers exit, and that the outputs are complete.        *)
(* The last part is about what the tasks compute (MRData): the output of   *)
(* the job is that of the sequential program.                              *)
(***************************************************************************)
EXTENDS MapReduce, MRData, FiniteSetTheorems, TLAPS

-----------------------------------------------------------------------------
(* The coordinator.                                                        *)

\* Map tasks and buckets are different tasks, and there is a bucket.
LEMMA TaskFacts ==
    /\ MapTasks \subseteq Tasks
    /\ Buckets \subseteq Tasks
    /\ \A m \in MapTasks : m \notin Buckets
    /\ 0 \in Buckets
    /\ NoTask \notin MapTasks /\ NoTask \notin Buckets
BY NReduceAssumption, MapTasksAssumption, NoTaskAssumption DEF Tasks, Buckets

\* MakeCoordinator establishes the invariant.
LEMMA CoordInitInv == CoordInit => CoordInv
BY TaskFacts, NoAddressAssumption
   DEF CoordInit, CoordInv, CoordTypeOK, OutputsAgree, OneProducer,
       DrainedIsReduced, TaskStates, Outputs, NoOutputs, MainStates

\* MarkRunning keeps the types.
LEMMA MarkRunningType ==
    ASSUME NEW t \in Tasks, CoordTypeOK, MarkRunning(t), UNCHANGED <<outputs, main>>
    PROVE  CoordTypeOK'
BY DEF CoordTypeOK, MarkRunning, TaskStates

\* Every answer of RequestTask keeps the invariant.
LEMMA AssignMapInv ==
    ASSUME NEW m \in MapTasks, CoordInv, AssignMap(m)
    PROVE  CoordInv'
<1>1. CoordTypeOK'
  BY TaskFacts, MarkRunningType DEF CoordInv, AssignMap
<1>2. OutputsAgree'
  BY TaskFacts DEF CoordInv, CoordTypeOK, OutputsAgree, AssignMap, MarkRunning,
                   pickMapTask, shouldAssignTask
<1>3. OneProducer' /\ DrainedIsReduced'
  BY TaskFacts DEF CoordInv, CoordTypeOK, OneProducer, DrainedIsReduced,
                   allReduceTasksDone, AssignMap, MarkRunning
<1> QED BY <1>1, <1>2, <1>3 DEF CoordInv

LEMMA AssignReduceInv ==
    ASSUME NEW b \in Buckets, CoordInv, AssignReduce(b)
    PROVE  CoordInv'
<1>1. CoordTypeOK'
  BY TaskFacts, MarkRunningType DEF CoordInv, AssignReduce
<1>2. OutputsAgree' /\ OneProducer'
  BY TaskFacts DEF CoordInv, CoordTypeOK, OutputsAgree, OneProducer,
                   AssignReduce, MarkRunning
<1>3. DrainedIsReduced'
  BY TaskFacts DEF CoordInv, CoordTypeOK, DrainedIsReduced, allReduceTasksDone,
                   AssignReduce, MarkRunning, pickReduceTask, shouldAssignTask
<1> QED BY <1>1, <1>2, <1>3 DEF CoordInv

\* Both kinds of completion reports keep the invariant.
LEMMA CompletionInv ==
    ASSUME NEW t, NEW a \in Addresses, CoordInv, ReportTaskCompletion(t, a)
    PROVE  CoordInv'
<1>1. CASE t \in MapTasks /\ ReportMapCompletion(t, a)
  <2>1. CoordTypeOK'
    <3>1. CASE state[t] # "Done"
      <4>1. state' \in [Tasks -> TaskStates]
        BY <1>1, <3>1, TaskFacts
           DEF CoordInv, CoordTypeOK, ReportMapCompletion, TaskStates
      <4>2. timedOut' \subseteq {u \in Tasks : state'[u] = "Running"}
        BY <1>1, <3>1, TaskFacts DEF CoordInv, CoordTypeOK, ReportMapCompletion
      <4>3. outputs' \in [Buckets -> Outputs]
        BY <1>1, <3>1 DEF CoordInv, CoordTypeOK, ReportMapCompletion, Outputs
      <4> QED BY <1>1, <4>1, <4>2, <4>3
              DEF CoordInv, CoordTypeOK, ReportMapCompletion
    <3>2. CASE state[t] = "Done"
      BY <1>1, <3>2 DEF CoordInv, CoordTypeOK, ReportMapCompletion
    <3> QED BY <3>1, <3>2
  <2>2. OutputsAgree'
    BY <1>1, TaskFacts, NoAddressAssumption
       DEF CoordInv, CoordTypeOK, OutputsAgree, ReportMapCompletion, Outputs
  <2>3. OneProducer' /\ DrainedIsReduced'
    BY <1>1, TaskFacts
       DEF CoordInv, CoordTypeOK, OneProducer, DrainedIsReduced, Outputs,
           allReduceTasksDone, ReportMapCompletion
  <2> QED BY <2>1, <2>2, <2>3 DEF CoordInv
<1>2. CASE t \in Buckets /\ ReportReduceCompletion(t)
  <2>1. CoordTypeOK'
    BY <1>2, TaskFacts
       DEF CoordInv, CoordTypeOK, ReportReduceCompletion, TaskStates
  <2>2. OutputsAgree' /\ OneProducer' /\ DrainedIsReduced'
    BY <1>2, TaskFacts
       DEF CoordInv, CoordTypeOK, OutputsAgree, OneProducer, DrainedIsReduced,
           allReduceTasksDone, ReportReduceCompletion
  <2> QED BY <2>1, <2>2 DEF CoordInv
<1>3. CASE UnknownTask(t)
  BY <1>3 DEF UnknownTask, coordVars, CoordInv, CoordTypeOK, OutputsAgree,
              OneProducer, DrainedIsReduced, allReduceTasksDone
<1> QED BY <1>1, <1>2, <1>3 DEF ReportTaskCompletion

\* A report of missing outputs takes back a state and all its records.
LEMMA MissingInv ==
    ASSUME NEW m, CoordInv, ReportMissingMapOutputs(m)
    PROVE  CoordInv'
<1>1. CASE m \in MapTasks /\ RescheduleMap(m)
  <2>1. CoordTypeOK'
    <3>1. CASE state[m] = "Done"
      <4>1. state' = [state EXCEPT ![m] = "Unassigned"] /\ timedOut' = timedOut
        BY <1>1, <3>1 DEF RescheduleMap
      <4>2. state' \in [Tasks -> TaskStates]
        BY <1>1, <4>1, TaskFacts DEF CoordInv, CoordTypeOK, TaskStates
      <4>3. timedOut' \subseteq {t \in Tasks : state'[t] = "Running"}
        BY <1>1, <3>1, <4>1, TaskFacts DEF CoordInv, CoordTypeOK
      <4>4. outputs' \in [Buckets -> Outputs]
        BY <1>1, <3>1 DEF CoordInv, CoordTypeOK, RescheduleMap, Outputs
      <4> QED BY <1>1, <4>2, <4>3, <4>4 DEF CoordInv, CoordTypeOK, RescheduleMap
    <3>2. CASE state[m] # "Done"
      BY <1>1, <3>2 DEF CoordInv, CoordTypeOK, RescheduleMap
    <3> QED BY <3>1, <3>2
  <2>2. OutputsAgree'
    BY <1>1, TaskFacts
       DEF CoordInv, CoordTypeOK, OutputsAgree, RescheduleMap, Outputs
  <2>3. OneProducer' /\ DrainedIsReduced'
    BY <1>1, TaskFacts
       DEF CoordInv, CoordTypeOK, OneProducer, DrainedIsReduced, Outputs,
           allReduceTasksDone, RescheduleMap
  <2> QED BY <2>1, <2>2, <2>3 DEF CoordInv
<1>2. CASE UnknownTask(m)
  BY <1>2 DEF UnknownTask, coordVars, CoordInv, CoordTypeOK, OutputsAgree,
              OneProducer, DrainedIsReduced, allReduceTasksDone
<1> QED BY <1>1, <1>2 DEF ReportMissingMapOutputs

\* The passing of time and the main goroutine keep the invariant.
LEMMA TimeInv ==
    ASSUME NEW t \in Tasks, CoordInv, TaskTimesOut(t)
    PROVE  CoordInv'
BY DEF CoordInv, CoordTypeOK, OutputsAgree, OneProducer, DrainedIsReduced,
       allReduceTasksDone, TaskTimesOut

LEMMA MainInv ==
    ASSUME CoordInv, PollDone \/ Exit
    PROVE  CoordInv'
BY DEF CoordInv, CoordTypeOK, OutputsAgree, OneProducer, DrainedIsReduced,
       allReduceTasksDone, PollDone, Exit, Done, MainStates

\* Nothing changes in a step that leaves coordVars alone.
LEMMA StutterInv ==
    ASSUME CoordInv, UNCHANGED coordVars
    PROVE  CoordInv'
BY DEF coordVars, CoordInv, CoordTypeOK, OutputsAgree, OneProducer,
       DrainedIsReduced, allReduceTasksDone

LEMMA CoordStepInv == CoordInv /\ [CoordNext]_coordVars => CoordInv'
<1> SUFFICES ASSUME CoordInv, [CoordNext]_coordVars
             PROVE  CoordInv'
  OBVIOUS
<1>1. ASSUME NEW m \in MapTasks, AssignMap(m) PROVE CoordInv'
  BY <1>1, AssignMapInv
<1>2. ASSUME NEW b \in Buckets, AssignReduce(b) PROVE CoordInv'
  BY <1>2, AssignReduceInv
<1>3. ASSUME NEW t \in Tasks \cup {NoTask}, NEW a \in Addresses,
             ReportTaskCompletion(t, a)
      PROVE  CoordInv'
  BY <1>3, CompletionInv
<1>4. ASSUME NEW m \in MapTasks \cup {NoTask}, ReportMissingMapOutputs(m)
      PROVE  CoordInv'
  BY <1>4, MissingInv
<1>5. ASSUME NEW t \in Tasks, TaskTimesOut(t) PROVE CoordInv'
  BY <1>5, TimeInv
<1>6. CASE PollDone \/ Exit
  BY <1>6, MainInv
<1>7. CASE AnswerWait \/ CoordEnded \/ UNCHANGED coordVars
  BY <1>7, StutterInv DEF AnswerWait, CoordEnded
<1> QED
  BY <1>1, <1>2, <1>3, <1>4, <1>5, <1>6, <1>7 DEF CoordNext

\* All invariants of the coordinator hold always, whatever RPCs arrive.
THEOREM CoordinatorInvariant == CoordSpec => []CoordInv
<1>1. CoordInit => CoordInv
  BY CoordInitInv
<1>2. CoordInv /\ [CoordNext]_coordVars => CoordInv'
  BY CoordStepInv
<1> QED BY <1>1, <1>2, PTL DEF CoordSpec

\* The type invariant of the coordinator.
THEOREM CoordinatorTypes == CoordSpec => []CoordTypeOK
<1>1. CoordInv => CoordTypeOK
  BY DEF CoordInv
<1> QED BY <1>1, CoordinatorInvariant, PTL

\* The states of the map tasks and the outputs recorded in all the reduce
\* tasks agree.
THEOREM CoordinatorAgreement == CoordSpec => []OutputsAgree
<1>1. CoordInv => OutputsAgree
  BY DEF CoordInv
<1> QED BY <1>1, CoordinatorInvariant, PTL

\* When main() has seen Done(), all reduce tasks are and stay Done.
THEOREM CoordinatorDrained == CoordSpec => []DrainedIsReduced
<1>1. CoordInv => DrainedIsReduced
  BY DEF CoordInv
<1> QED BY <1>1, CoordinatorInvariant, PTL

-----------------------------------------------------------------------------
(* Action properties.                                                      *)

\* A step hands out a reduce task only if it is an AssignReduce of it.
LEMMA OnlyAssignReduce ==
    ASSUME CoordInv, CoordNext, NEW b \in Buckets, Assigned(b)
    PROVE  allMapTasksDone
<1>1. ASSUME NEW m \in MapTasks, AssignMap(m) PROVE FALSE
  BY <1>1, TaskFacts DEF CoordInv, CoordTypeOK, Assigned, AssignMap, MarkRunning
<1>2. ASSUME NEW t \in Tasks \cup {NoTask}, NEW a \in Addresses,
             ReportTaskCompletion(t, a)
      PROVE  FALSE
  BY <1>2, TaskFacts
     DEF CoordInv, CoordTypeOK, Assigned, ReportTaskCompletion, UnknownTask,
         ReportMapCompletion, ReportReduceCompletion, coordVars
<1>3. ASSUME NEW m \in MapTasks \cup {NoTask}, ReportMissingMapOutputs(m)
      PROVE  FALSE
  BY <1>3, TaskFacts
     DEF CoordInv, CoordTypeOK, Assigned, ReportMissingMapOutputs, UnknownTask,
         RescheduleMap, coordVars
<1>4. ASSUME NEW t \in Tasks, TaskTimesOut(t) PROVE FALSE
  BY <1>4 DEF Assigned, TaskTimesOut
<1>5. CASE PollDone \/ Exit \/ AnswerWait \/ CoordEnded
  BY <1>5 DEF PollDone, Exit, AnswerWait, CoordEnded, coordVars, Assigned
<1>6. ASSUME NEW c \in Buckets, AssignReduce(c) PROVE allMapTasksDone
  BY <1>6 DEF AssignReduce
<1> QED BY <1>1, <1>2, <1>3, <1>4, <1>5, <1>6 DEF CoordNext

\* RequestTask decides to hand out a reduce task only when MapTaskOutputs has
\* a producer of every map task.
THEOREM CoordinatorSeesAll == CoordSpec => ReduceSeesAllOutputs
<1>1. CoordInv /\ [CoordNext]_coordVars => [SeesAllOutputs]_coordVars
  <2> SUFFICES ASSUME CoordInv, CoordNext, NEW b \in Buckets, Assigned(b),
                      NEW m \in MapTasks
               PROVE  outputs[b][m] \in Addresses
    BY DEF SeesAllOutputs
  <2>1. state[m] = "Done"
    BY OnlyAssignReduce DEF allMapTasksDone
  <2> QED BY <2>1 DEF CoordInv, CoordTypeOK, OutputsAgree, Outputs
<1> QED BY <1>1, CoordinatorInvariant, PTL DEF CoordSpec, ReduceSeesAllOutputs

\* A reduce task that is Done stays Done.
THEOREM CoordinatorReduceStays == CoordSpec => FinishedReduceStays
<1>1. CoordInv /\ [CoordNext]_coordVars => [KeepsFinishedReduce]_coordVars
  <2> SUFFICES ASSUME CoordInv, CoordNext, NEW b \in Buckets, state[b] = "Done"
               PROVE  state'[b] = "Done"
    BY DEF KeepsFinishedReduce
  <2>1. ASSUME NEW m \in MapTasks, AssignMap(m) PROVE state'[b] = "Done"
    BY <2>1, TaskFacts DEF CoordInv, CoordTypeOK, AssignMap, MarkRunning
  <2>2. ASSUME NEW c \in Buckets, AssignReduce(c) PROVE state'[b] = "Done"
    BY <2>2, TaskFacts DEF CoordInv, CoordTypeOK, AssignReduce, MarkRunning,
                           pickReduceTask, shouldAssignTask
  <2>3. ASSUME NEW t \in Tasks \cup {NoTask}, NEW a \in Addresses,
               ReportTaskCompletion(t, a)
        PROVE  state'[b] = "Done"
    BY <2>3, TaskFacts
       DEF CoordInv, CoordTypeOK, ReportTaskCompletion, UnknownTask,
           ReportMapCompletion, ReportReduceCompletion, coordVars
  <2>4. ASSUME NEW m \in MapTasks \cup {NoTask}, ReportMissingMapOutputs(m)
        PROVE  state'[b] = "Done"
    BY <2>4, TaskFacts
       DEF CoordInv, CoordTypeOK, ReportMissingMapOutputs, UnknownTask,
           RescheduleMap, coordVars
  <2>5. ASSUME NEW t \in Tasks, TaskTimesOut(t) PROVE state'[b] = "Done"
    BY <2>5 DEF TaskTimesOut
  <2>6. CASE PollDone \/ Exit \/ AnswerWait \/ CoordEnded
    BY <2>6 DEF PollDone, Exit, AnswerWait, CoordEnded, coordVars
  <2> QED BY <2>1, <2>2, <2>3, <2>4, <2>5, <2>6 DEF CoordNext
<1> QED BY <1>1, CoordinatorInvariant, PTL DEF CoordSpec, FinishedReduceStays

\* A recorded producer is never replaced, only taken back.
THEOREM CoordinatorProducerStays == CoordSpec => ProducerStays
<1>1. CoordInv /\ [CoordNext]_coordVars => [KeepsProducer]_coordVars
  <2> SUFFICES ASSUME CoordInv, CoordNext, NEW b \in Buckets, NEW m \in MapTasks,
                      outputs[b][m] # NoAddress, outputs'[b][m] # outputs[b][m]
               PROVE  outputs'[b][m] = NoAddress /\ state'[m] = "Unassigned"
    BY DEF KeepsProducer
  <2>1. state[m] = "Done"
    BY DEF CoordInv, OutputsAgree
  <2>2. ASSUME NEW t \in Tasks \cup {NoTask}, NEW a \in Addresses,
               ReportTaskCompletion(t, a)
        PROVE  FALSE
    BY <2>1, <2>2, TaskFacts
       DEF CoordInv, CoordTypeOK, Outputs, ReportTaskCompletion, UnknownTask,
           ReportMapCompletion, ReportReduceCompletion, coordVars
  <2>3. ASSUME NEW n \in MapTasks \cup {NoTask}, ReportMissingMapOutputs(n)
        PROVE  outputs'[b][m] = NoAddress /\ state'[m] = "Unassigned"
    BY <2>3, TaskFacts
       DEF CoordInv, CoordTypeOK, Outputs, ReportMissingMapOutputs, UnknownTask,
           RescheduleMap, coordVars
  <2>4. ASSUME NEW n \in MapTasks, AssignMap(n) PROVE FALSE
    BY <2>4 DEF AssignMap
  <2>5. ASSUME NEW c \in Buckets, AssignReduce(c) PROVE FALSE
    BY <2>5 DEF AssignReduce
  <2>6. ASSUME NEW t \in Tasks, TaskTimesOut(t) PROVE FALSE
    BY <2>6 DEF TaskTimesOut
  <2>7. CASE PollDone \/ Exit \/ AnswerWait \/ CoordEnded
    BY <2>7 DEF PollDone, Exit, AnswerWait, CoordEnded, coordVars
  <2> QED BY <2>2, <2>3, <2>4, <2>5, <2>6, <2>7 DEF CoordNext
<1> QED BY <1>1, CoordinatorInvariant, PTL DEF CoordSpec, ProducerStays

-----------------------------------------------------------------------------
(* What a step of a worker does to the others.                             *)

\* Intermediate files are never removed.
Grow == \A d \in Dirs : files[d] \subseteq files'[d]

\* No worker gets hold of a reduce task.
NoNewReduce == \A v \in Workers : task'[v] \in Buckets => task[v] \in Buckets

\* A worker that drops its task keeps the invariant of the workers.
LEMMA DropInv ==
    ASSUME NEW w \in Workers, NEW p \in {"ask", "exited", "crashed", "stopped"},
           WorkerInv, Drop(w, p), UNCHANGED <<files, out>>
    PROVE  WorkerInv' /\ Grow /\ NoNewReduce
<1>1. WorkerTypeOK'
  BY DEF WorkerInv, WorkerTypeOK, Drop, PCs, Live, Outputs, NoOutputs
<1>2. MapProgress' /\ ReportsMapped'
  BY DEF WorkerInv, WorkerTypeOK, MapProgress, ReportsMapped, MappedIn, Drop
<1>3. Grow /\ NoNewReduce
  BY TaskFacts DEF Grow, NoNewReduce, WorkerInv, WorkerTypeOK, Drop
<1> QED BY <1>1, <1>2, <1>3 DEF WorkerInv

\* So do the answers to RequestTask.
LEMMA BeginMapInv ==
    ASSUME NEW w \in Workers, NEW m \in MapTasks, WorkerInv, BeginMap(w, m)
    PROVE  WorkerInv' /\ Grow /\ NoNewReduce
<1>1. WorkerTypeOK'
  BY TaskFacts, NReduceAssumption
     DEF WorkerInv, WorkerTypeOK, BeginMap, PCs, Live
<1>2. MapProgress' /\ ReportsMapped'
  BY DEF WorkerInv, WorkerTypeOK, MapProgress, ReportsMapped, MappedIn,
         BeginMap, Buckets
<1>3. Grow /\ NoNewReduce
  BY TaskFacts DEF Grow, NoNewReduce, WorkerInv, WorkerTypeOK, BeginMap
<1> QED BY <1>1, <1>2, <1>3 DEF WorkerInv

LEMMA BeginReduceInv ==
    ASSUME NEW w \in Workers, NEW b \in Buckets, WorkerInv, BeginReduce(w, b)
    PROVE  WorkerInv' /\ Grow
<1>1. WorkerTypeOK'
  BY TaskFacts DEF WorkerInv, WorkerTypeOK, BeginReduce, PCs, Live
<1>2. MapProgress' /\ ReportsMapped' /\ Grow
  BY DEF WorkerInv, WorkerTypeOK, MapProgress, ReportsMapped, MappedIn,
         BeginReduce, Grow
<1> QED BY <1>1, <1>2 DEF WorkerInv

LEMMA BeginWaitInv ==
    ASSUME NEW w \in Workers, WorkerInv, BeginWait(w)
    PROVE  WorkerInv' /\ Grow /\ NoNewReduce
<1>1. WorkerTypeOK'
  BY DEF WorkerInv, WorkerTypeOK, BeginWait, Goto, PCs, Live
<1>2. MapProgress' /\ ReportsMapped' /\ Grow /\ NoNewReduce
  BY DEF WorkerInv, WorkerTypeOK, MapProgress, ReportsMapped, MappedIn,
         BeginWait, Goto, Grow, NoNewReduce
<1> QED BY <1>1, <1>2 DEF WorkerInv

LEMMA ReceiveReduceInv ==
    ASSUME NEW w \in Workers, NEW f \in Outputs, WorkerInv, ReceiveReduce(w, f)
    PROVE  WorkerInv' /\ Grow /\ NoNewReduce
<1>1. WorkerTypeOK'
  BY DEF WorkerInv, WorkerTypeOK, ReceiveReduce, Entries, PCs, Live
<1>2. MapProgress' /\ ReportsMapped' /\ Grow /\ NoNewReduce
  BY DEF WorkerInv, WorkerTypeOK, MapProgress, ReportsMapped, MappedIn,
         ReceiveReduce, Grow, NoNewReduce
<1> QED BY <1>1, <1>2 DEF WorkerInv

\* Writing a bucket: the last one leads to the report.
LEMMA WriteBucketInv ==
    ASSUME NEW w \in Workers, WorkerInv, WriteBucket(w)
    PROVE  WorkerInv' /\ Grow /\ NoNewReduce
<1>1. task[w] \in MapTasks /\ pos[w] \in Buckets
  BY NReduceAssumption DEF WorkerInv, WorkerTypeOK, WriteBucket, Buckets
<1>2. WorkerTypeOK'
  <2>1. /\ pc' = [pc EXCEPT ![w] = IF pos[w] + 1 = NReduce
                                   THEN "report" ELSE "map"]
        /\ pos' = [pos EXCEPT ![w] = pos[w] + 1]
        /\ UNCHANGED <<task, snap, left, out>>
    BY DEF WriteBucket, Goto
  <2>2. files' \in [Dirs -> SUBSET (MapTasks \X Buckets)]
    <3> DEFINE S == files[Dir[w]] \cup {<<task[w], pos[w]>>}
    <3>1. <<task[w], pos[w]>> \in MapTasks \X Buckets
      BY <1>1
    <3>2. files \in [Dirs -> SUBSET (MapTasks \X Buckets)] /\ Dir[w] \in Dirs
      BY WorkerAssumption DEF WorkerInv, WorkerTypeOK
    <3>3. S \in SUBSET (MapTasks \X Buckets)
      BY <3>1, <3>2
    <3>4. files' = [files EXCEPT ![Dir[w]] = S]
      BY DEF WriteBucket
    <3> HIDE DEF S
    <3> QED BY <3>2, <3>3, <3>4
  <2>3. /\ pc' \in [Workers -> PCs]
        /\ pos' \in [Workers -> Nat]
    BY <2>1 DEF WorkerInv, WorkerTypeOK, PCs, Live
  <2>4. pc'[w] = "map" => pos'[w] < NReduce
    BY <1>1, <2>1, NReduceAssumption DEF WorkerInv, WorkerTypeOK, Buckets
  <2>5. ASSUME NEW v \in Workers
        PROVE /\ pc'[v] = "map" => task'[v] \in MapTasks /\ pos'[v] < NReduce
              /\ pc'[v] \in {"encode", "fetch", "missing", "write"}
                    => task'[v] \in Buckets
              /\ pc'[v] \in {"ask", "encode", "fetch"} => pos'[v] = 0
              /\ pc'[v] = "write" => pos'[v] < NLines
              /\ pc'[v] = "report" => task'[v] \in Tasks
    <3>1. CASE v = w
      BY <1>1, <2>1, <2>4, <3>1, TaskFacts DEF WorkerInv, WorkerTypeOK
    <3>2. CASE v # w
      BY <2>1, <3>2 DEF WorkerInv, WorkerTypeOK
    <3> QED BY <3>1, <3>2
  <2> QED BY <2>1, <2>2, <2>3, <2>5 DEF WorkerInv, WorkerTypeOK
<1>3. Grow /\ NoNewReduce
  BY DEF Grow, NoNewReduce, WorkerInv, WorkerTypeOK, WriteBucket, Goto
<1>4. \A b \in Buckets : b < pos[w] + 1 => <<task[w], b>> \in files'[Dir[w]]
  <2> SUFFICES ASSUME NEW b \in Buckets, b < pos[w] + 1
               PROVE  <<task[w], b>> \in files'[Dir[w]]
    OBVIOUS
  <2>1. files'[Dir[w]] = files[Dir[w]] \cup {<<task[w], pos[w]>>}
    BY WorkerAssumption DEF WorkerInv, WorkerTypeOK, WriteBucket
  <2>2. b = pos[w] \/ b < pos[w]
    BY <1>1 DEF Buckets
  <2>3. b < pos[w] => <<task[w], b>> \in files[Dir[w]]
    BY DEF WorkerInv, MapProgress, WriteBucket
  <2> QED BY <2>1, <2>2, <2>3
<1>5. MapProgress'
  BY <1>3, <1>4, WorkerAssumption
     DEF WorkerInv, WorkerTypeOK, MapProgress, WriteBucket, Goto, Grow
<1>6. ReportsMapped'
  <2> SUFFICES ASSUME NEW v \in Workers, pc'[v] = "report", task'[v] \in MapTasks,
                      NEW b \in Buckets
               PROVE  <<task'[v], b>> \in files'[Dir[v]]
    BY DEF ReportsMapped, MappedIn
  <2>1. CASE v = w
    <3>1. pos[w] + 1 = NReduce
      BY <2>1 DEF WorkerInv, WorkerTypeOK, WriteBucket, Goto
    <3>2. b < pos[w] + 1
      BY <3>1, NReduceAssumption DEF Buckets
    <3> QED BY <1>4, <2>1, <3>2 DEF WorkerInv, WorkerTypeOK, WriteBucket, Goto
  <2>2. CASE v # w
    <3>1. <<task[v], b>> \in files[Dir[v]]
      BY <2>2 DEF WorkerInv, WorkerTypeOK, ReportsMapped, MappedIn,
                  WriteBucket, Goto
    <3> QED BY <3>1, <1>3, WorkerAssumption DEF Grow, WriteBucket, Goto
  <2> QED BY <2>1, <2>2
<1> QED BY <1>2, <1>3, <1>5, <1>6 DEF WorkerInv

\* The steps of a reduce task touch neither map tasks nor bucket files.
LEMMA FetchInv ==
    ASSUME NEW w \in Workers, NEW m \in MapTasks, NEW faulty \in BOOLEAN,
           WorkerInv, Fetch(w, m) \/ FetchHangs(w, m) \/ FetchFails(w, m, faulty)
    PROVE  WorkerInv' /\ Grow /\ NoNewReduce
<1>1. WorkerTypeOK'
  <2>1. CASE Fetch(w, m)
    BY <2>1 DEF WorkerInv, WorkerTypeOK, Fetch
  <2>2. CASE FetchFails(w, m, faulty)
    BY <2>2 DEF WorkerInv, WorkerTypeOK, FetchFails, Goto, PCs, Live
  <2>3. CASE FetchHangs(w, m)
    BY <2>3 DEF WorkerInv, WorkerTypeOK, FetchHangs, Goto, PCs, Live
  <2> QED BY <2>1, <2>2, <2>3
<1>2. MapProgress' /\ ReportsMapped' /\ Grow /\ NoNewReduce
  BY DEF WorkerInv, WorkerTypeOK, MapProgress, ReportsMapped, MappedIn,
         Fetch, FetchHangs, FetchFails, Goto, Grow, NoNewReduce
<1> QED BY <1>1, <1>2 DEF WorkerInv

LEMMA CreateOutputInv ==
    ASSUME NEW w \in Workers, WorkerInv, CreateOutput(w)
    PROVE  WorkerInv' /\ Grow /\ NoNewReduce
<1>1. NoLines \in [Lines -> SUBSET MapTasks]
  BY DEF NoLines
<1>2. out' \in [Dirs -> [Buckets -> [Lines -> SUBSET MapTasks]]]
  BY <1>1, WorkerAssumption
     DEF WorkerInv, WorkerTypeOK, CreateOutput, AllFetched
<1>3. WorkerTypeOK'
  BY <1>2, WorkerAssumption
     DEF WorkerInv, WorkerTypeOK, CreateOutput, AllFetched, Goto, PCs, Live
<1>4. MapProgress' /\ ReportsMapped' /\ Grow /\ NoNewReduce
  BY DEF WorkerInv, WorkerTypeOK, MapProgress, ReportsMapped, MappedIn,
         CreateOutput, AllFetched, Goto, Grow, NoNewReduce
<1> QED BY <1>3, <1>4 DEF WorkerInv

LEMMA WriteLineInv ==
    ASSUME NEW w \in Workers, NEW faulty \in BOOLEAN,
           WorkerInv, WriteLine(w, faulty)
    PROVE  WorkerInv' /\ Grow /\ NoNewReduce
<1>1. Entries(snap[w]) \in SUBSET MapTasks /\ pos[w] + 1 \in Lines
      /\ task[w] \in Buckets
  BY WorkerAssumption
     DEF WorkerInv, WorkerTypeOK, WriteLine, Entries, Lines
<1>2. out' \in [Dirs -> [Buckets -> [Lines -> SUBSET MapTasks]]]
  BY <1>1, WorkerAssumption DEF WorkerInv, WorkerTypeOK, WriteLine
<1>3. WorkerTypeOK'
  <2>1. /\ pc' = [pc EXCEPT ![w] = IF pos[w] + 1 = NLines
                                   THEN "report" ELSE "write"]
        /\ pos' = [pos EXCEPT ![w] = pos[w] + 1]
        /\ pc[w] = "write"
        /\ UNCHANGED <<task, snap, left, files>>
    BY DEF WriteLine, Goto
  <2>2. /\ pc' \in [Workers -> PCs]
        /\ pos' \in [Workers -> Nat]
    BY <2>1 DEF WorkerInv, WorkerTypeOK, PCs, Live
  <2>3. pos[w] < NLines /\ pos[w] \in Nat /\ task[w] \in Tasks
    BY <1>1, <2>1, TaskFacts DEF WorkerInv, WorkerTypeOK
  <2>4. pc'[w] = "write" => pos'[w] < NLines
    BY <2>1, <2>3, WorkerAssumption DEF WorkerInv, WorkerTypeOK
  <2>5. ASSUME NEW v \in Workers
        PROVE /\ pc'[v] = "map" => task'[v] \in MapTasks /\ pos'[v] < NReduce
              /\ pc'[v] \in {"encode", "fetch", "missing", "write"}
                    => task'[v] \in Buckets
              /\ pc'[v] \in {"ask", "encode", "fetch"} => pos'[v] = 0
              /\ pc'[v] = "write" => pos'[v] < NLines
              /\ pc'[v] = "report" => task'[v] \in Tasks
    <3>1. CASE v = w
      BY <1>1, <2>1, <2>3, <2>4, <3>1 DEF WorkerInv, WorkerTypeOK
    <3>2. CASE v # w
      BY <2>1, <3>2 DEF WorkerInv, WorkerTypeOK
    <3> QED BY <3>1, <3>2
  <2> QED BY <1>2, <2>1, <2>2, <2>5 DEF WorkerInv, WorkerTypeOK
<1>4. MapProgress' /\ ReportsMapped' /\ Grow /\ NoNewReduce
  BY <1>1, TaskFacts
     DEF WorkerInv, WorkerTypeOK, MapProgress, ReportsMapped, MappedIn,
         WriteLine, Goto, Grow, NoNewReduce
<1> QED BY <1>3, <1>4 DEF WorkerInv

\* Any step a worker takes by itself.
LEMMA WorkerStepInv ==
    ASSUME NEW w \in Workers, WorkerInv, WorkerStep(w)
    PROVE  WorkerInv' /\ Grow /\ NoNewReduce
<1>1. CASE WriteBucket(w)
  BY <1>1, WriteBucketInv
<1>2. ASSUME NEW m \in MapTasks,
             Fetch(w, m) \/ FetchHangs(w, m) \/ FetchFails(w, m, FALSE)
      PROVE  WorkerInv' /\ Grow /\ NoNewReduce
  BY <1>2, FetchInv
<1>3. CASE CreateOutput(w)
  BY <1>3, CreateOutputInv
<1>4. CASE WriteLine(w, FALSE)
  BY <1>4, WriteLineInv
<1>5. CASE WakeUp(w)
  BY <1>5, DropInv DEF WakeUp
<1> QED BY <1>1, <1>2, <1>3, <1>4, <1>5 DEF WorkerStep

-----------------------------------------------------------------------------
(* What a step of the system must do to keep IndInv.                       *)

\* Reduce tasks are not touched, producers are at most taken back.
CoordQuiet ==
    /\ \A b \in Buckets : state'[b] # "Unassigned" => state[b] # "Unassigned"
    /\ \A b \in Buckets, m \in MapTasks :
          outputs'[b][m] = outputs[b][m] \/ outputs'[b][m] = NoAddress

\* What has been executed stays executed.
LEMMA MappedGrows ==
    ASSUME Grow
    PROVE  /\ \A m \in MapTasks, d \in Dirs : MappedIn(m, d) => MappedIn(m, d)'
           /\ Mapped = MapTasks => Mapped' = MapTasks
<1>1. \A m \in MapTasks, d \in Dirs : MappedIn(m, d) => MappedIn(m, d)'
  BY DEF Grow, MappedIn
<1> QED BY <1>1 DEF Mapped

\* If every map task is Done, every map task has been executed.
LEMMA DoneIsMapped ==
    ASSUME IndInv, allMapTasksDone
    PROVE  Mapped = MapTasks
<1> SUFFICES ASSUME NEW m \in MapTasks
             PROVE  \E d \in Dirs : MappedIn(m, d)
  BY DEF Mapped
<1>1. outputs[0][m] # NoAddress
  BY TaskFacts DEF IndInv, CoordInv, OutputsAgree, allMapTasksDone
<1>2. PICK w \in Workers : MappedIn(m, Dir[w])
  BY <1>1, TaskFacts DEF IndInv, ProducersHoldOutputs
<1> QED BY <1>2, WorkerAssumption

\* The shape of every case of the induction: the parts keep their invariants,
\* files only grow, and a new trace of a reduce task comes from a coordinator
\* that has seen all map tasks Done.
LEMMA StepInv ==
    ASSUME IndInv, CoordInv', WorkerInv', Grow,
           ProducersHoldOutputs', LateIsMapped',
           ReduceSeen' => ReduceSeen \/ allMapTasksDone,
           late' \subseteq Requests, faults' \in 0 .. MaxFaults,
           \A r \in late' : /\ r.call = "report" => r.task \in Tasks
                            /\ r.call = "missing" => r.task \in MapTasks
    PROVE  IndInv'
<1>1. TypeOK'
  BY DEF TypeOK, CoordInv, WorkerInv
<1>2. MapBarrier'
  BY MappedGrows, DoneIsMapped DEF IndInv, MapBarrier
<1> QED BY <1>1, <1>2 DEF IndInv

\* Producers keep their outputs.
LEMMA ProducersKept ==
    ASSUME ProducersHoldOutputs, Grow, CoordQuiet
    PROVE  ProducersHoldOutputs'
<1> SUFFICES ASSUME NEW m \in MapTasks, NEW b \in Buckets,
                    outputs'[b][m] # NoAddress
             PROVE  \E w \in Workers :
                      Addr[w] = outputs'[b][m] /\ MappedIn(m, Dir[w])'
  BY DEF ProducersHoldOutputs
<1>1. outputs'[b][m] = outputs[b][m]
  BY DEF CoordQuiet
<1>2. PICK w \in Workers : Addr[w] = outputs[b][m] /\ MappedIn(m, Dir[w])
  BY <1>1 DEF ProducersHoldOutputs
<1> QED BY <1>1, <1>2, MappedGrows, WorkerAssumption

\* Orphaned reports stay true.
LEMMA LateKept ==
    ASSUME LateIsMapped, Grow, late' \subseteq late
    PROVE  LateIsMapped'
<1> SUFFICES ASSUME NEW r \in late', r.call = "report", r.task \in MapTasks
             PROVE  \E w \in Workers : Addr[w] = r.addr /\ MappedIn(r.task, Dir[w])'
  BY DEF LateIsMapped
<1>1. PICK w \in Workers : Addr[w] = r.addr /\ MappedIn(r.task, Dir[w])
  BY DEF LateIsMapped
<1> QED BY <1>1, MappedGrows, WorkerAssumption

\* A step that handles no completion and hands out no reduce task.
LEMMA QuietStep ==
    ASSUME IndInv, CoordInv', CoordQuiet, WorkerInv', Grow, NoNewReduce,
           late' \subseteq late, faults' \in 0 .. MaxFaults
    PROVE  IndInv'
<1>1. ReduceSeen' => ReduceSeen
  BY DEF ReduceSeen, CoordQuiet, NoNewReduce
<1>2. ProducersHoldOutputs' /\ LateIsMapped'
  BY ProducersKept, LateKept DEF IndInv
<1> QED BY <1>1, <1>2, StepInv DEF IndInv, TypeOK

\* A step whose caller is gone before its request is handled.
LEMMA OrphanStep ==
    ASSUME IndInv, NEW w \in Workers, Orphan(w), UNCHANGED coordVars,
           WorkerInv', Grow, NoNewReduce, faults' \in 0 .. MaxFaults
    PROVE  IndInv'
<1>1. CoordInv' /\ CoordQuiet
  BY StutterInv DEF IndInv, CoordQuiet, coordVars
<1>2. ASSUME NEW r \in late', r \notin late
      PROVE  /\ r \in Requests
             /\ r.call = pc[w] /\ r.addr = Addr[w] /\ r.task \in Pending(w)
             /\ r.call = "report" => r.task = task[w] /\ r.task \in Tasks
             /\ r.call = "missing" => r.task \in MapTasks
  <2>1. PICK t \in Pending(w) : r = [id |-> faults, call |-> pc[w], task |-> t,
                                     addr |-> Addr[w]]
    BY <1>2 DEF Orphan
  <2>2. /\ r.call = pc[w] /\ r.addr = Addr[w] /\ r.task = t /\ r.id = faults
    BY <2>1
  <2>3. /\ pc[w] \in {"ask", "report", "missing"}
        /\ pc[w] = "ask" => t = NoTask
        /\ pc[w] = "report" => t = task[w] /\ t \in Tasks
        /\ pc[w] = "missing" => t \in MapTasks
    BY <2>1 DEF Pending, IndInv, WorkerInv, WorkerTypeOK
  <2>4. faults \in Nat /\ Addr[w] \in Addresses
    BY FaultAssumption, WorkerAssumption DEF IndInv, TypeOK
  <2>5. r \in Requests
    BY <2>1, <2>3, <2>4, TaskFacts DEF Requests
  <2> QED BY <2>2, <2>3, <2>5
<1>3. ProducersHoldOutputs'
  BY <1>1, ProducersKept DEF IndInv
<1>4. LateIsMapped'
  <2> SUFFICES ASSUME NEW r \in late', r.call = "report", r.task \in MapTasks
               PROVE  \E v \in Workers :
                         Addr[v] = r.addr /\ MappedIn(r.task, Dir[v])'
    BY DEF LateIsMapped
  <2>1. PICK v \in Workers : Addr[v] = r.addr /\ MappedIn(r.task, Dir[v])
    <3>1. CASE r \in late
      BY <3>1 DEF IndInv, LateIsMapped
    <3>2. CASE r \notin late
      BY <3>2, <1>2 DEF IndInv, WorkerInv, ReportsMapped
    <3> QED BY <3>1, <3>2
  <2> QED BY <2>1, MappedGrows, WorkerAssumption
<1>5. ReduceSeen' => ReduceSeen
  <2>1. ASSUME NEW r \in late', r.task \in Buckets PROVE ReduceSeen
    <3>1. CASE r \in late
      BY <2>1, <3>1 DEF ReduceSeen
    <3>2. CASE r \notin late
      <4>1. pc[w] = "report" /\ task[w] \in Buckets
        BY <1>2, <2>1, <3>2, TaskFacts DEF Pending, Requests
      <4> QED BY <4>1 DEF ReduceSeen
    <3> QED BY <3>1, <3>2
  <2> QED BY <1>1, <2>1 DEF ReduceSeen, CoordQuiet, NoNewReduce
<1>6. late' \subseteq Requests
  BY <1>2 DEF IndInv, TypeOK
<1>7. \A r \in late' : /\ r.call = "report" => r.task \in Tasks
                       /\ r.call = "missing" => r.task \in MapTasks
  BY <1>2 DEF IndInv, TypeOK
<1> QED BY <1>1, <1>3, <1>4, <1>5, <1>6, <1>7, StepInv

\* A step that hands out a reduce task.
LEMMA ReduceStep ==
    ASSUME IndInv, NEW b \in Buckets, AssignReduce(b), WorkerInv', Grow,
           late' \subseteq late, faults' \in 0 .. MaxFaults
    PROVE  IndInv'
<1>1. CoordInv' /\ allMapTasksDone
  BY AssignReduceInv DEF IndInv, AssignReduce
<1>2. ProducersHoldOutputs'
  <2> SUFFICES ASSUME NEW m \in MapTasks, NEW c \in Buckets,
                      outputs[c][m] # NoAddress
               PROVE  \E w \in Workers :
                        Addr[w] = outputs[c][m] /\ MappedIn(m, Dir[w])'
    BY DEF ProducersHoldOutputs, AssignReduce
  <2>1. PICK w \in Workers : Addr[w] = outputs[c][m] /\ MappedIn(m, Dir[w])
    BY DEF IndInv, ProducersHoldOutputs
  <2> QED BY <2>1, MappedGrows, WorkerAssumption
<1>3. LateIsMapped'
  BY LateKept DEF IndInv
<1> QED BY <1>1, <1>2, <1>3, StepInv DEF IndInv, TypeOK

\* A step that handles a completion: the reporter vouches for the files of a
\* map task, and is itself the trace of a reduce task.
LEMMA CompletionStep ==
    ASSUME IndInv, NEW t \in Tasks, NEW a \in Addresses,
           ReportTaskCompletion(t, a),
           t \in MapTasks => \E w \in Workers : Addr[w] = a /\ MappedIn(t, Dir[w]),
           t \in Buckets => ReduceSeen,
           WorkerInv', Grow, NoNewReduce,
           late' \subseteq late, faults' \in 0 .. MaxFaults
    PROVE  IndInv'
<1>1. CoordInv'
  BY CompletionInv DEF IndInv
<1>2. LateIsMapped'
  BY LateKept DEF IndInv
<1>3. CASE t \in MapTasks
  <2>1. ReportMapCompletion(t, a)
    BY <1>3, TaskFacts DEF ReportTaskCompletion, UnknownTask
  <2>2. ReduceSeen' => ReduceSeen
    BY <1>3, <2>1, TaskFacts
       DEF ReduceSeen, NoNewReduce, ReportMapCompletion, IndInv, CoordInv,
           CoordTypeOK
  <2>3. ProducersHoldOutputs'
    <3> SUFFICES ASSUME NEW m \in MapTasks, NEW b \in Buckets,
                        outputs'[b][m] # NoAddress
                 PROVE  \E w \in Workers :
                          Addr[w] = outputs'[b][m] /\ MappedIn(m, Dir[w])'
      BY DEF ProducersHoldOutputs
    <3>1. outputs'[b][m] = outputs[b][m] \/ (m = t /\ outputs'[b][m] = a)
      BY <1>3, <2>1 DEF ReportMapCompletion, IndInv, CoordInv, CoordTypeOK, Outputs
    <3>2. PICK w \in Workers : Addr[w] = outputs'[b][m] /\ MappedIn(m, Dir[w])
      BY <1>3, <3>1 DEF IndInv, ProducersHoldOutputs
    <3> QED BY <3>2, MappedGrows, WorkerAssumption
  <2> QED BY <1>1, <1>2, <2>2, <2>3, StepInv DEF IndInv, TypeOK
<1>4. CASE t \in Buckets
  <2>1. outputs' = outputs
    BY <1>4, TaskFacts
       DEF ReportTaskCompletion, UnknownTask, coordVars, ReportReduceCompletion
  <2>2. ProducersHoldOutputs'
    <3> SUFFICES ASSUME NEW m \in MapTasks, NEW b \in Buckets,
                        outputs[b][m] # NoAddress
                 PROVE  \E w \in Workers :
                          Addr[w] = outputs[b][m] /\ MappedIn(m, Dir[w])'
      BY <2>1 DEF ProducersHoldOutputs
    <3>1. PICK w \in Workers : Addr[w] = outputs[b][m] /\ MappedIn(m, Dir[w])
      BY DEF IndInv, ProducersHoldOutputs
    <3> QED BY <3>1, MappedGrows, WorkerAssumption
  <2> QED BY <1>1, <1>2, <1>4, <2>2, StepInv DEF IndInv, TypeOK
<1> QED BY <1>3, <1>4 DEF Tasks

-----------------------------------------------------------------------------
(* The actions.                                                            *)

\* A failure is counted, within the bound.
LEMMA FaultCount ==
    ASSUME IndInv, NEW k, Fault(k)
    PROVE  faults' \in 0 .. MaxFaults
BY FaultAssumption DEF IndInv, TypeOK, Fault

\* The coordinator's part of a quiet step.
LEMMA StutterQuiet ==
    ASSUME IndInv, UNCHANGED coordVars
    PROVE  CoordInv' /\ CoordQuiet
BY StutterInv DEF IndInv, CoordQuiet, coordVars

LEMMA AssignMapQuiet ==
    ASSUME IndInv, NEW m \in MapTasks, AssignMap(m)
    PROVE  CoordInv' /\ CoordQuiet
<1>1. CoordInv'
  BY AssignMapInv DEF IndInv
<1>2. CoordQuiet
  BY TaskFacts DEF IndInv, CoordInv, CoordTypeOK, CoordQuiet, AssignMap, MarkRunning
<1> QED BY <1>1, <1>2

LEMMA MissingQuiet ==
    ASSUME IndInv, NEW m, ReportMissingMapOutputs(m)
    PROVE  CoordInv' /\ CoordQuiet
<1>1. CoordInv'
  BY MissingInv DEF IndInv
<1>2. CoordQuiet
  <2>1. CASE m \in MapTasks /\ RescheduleMap(m)
    BY <2>1, TaskFacts
       DEF IndInv, CoordInv, CoordTypeOK, CoordQuiet, RescheduleMap, Outputs
  <2>2. CASE UnknownTask(m)
    BY <2>2 DEF UnknownTask, coordVars, CoordQuiet
  <2> QED BY <2>1, <2>2 DEF ReportMissingMapOutputs
<1> QED BY <1>1, <1>2

\* The worker's part of a step that leaves the workers alone.
LEMMA WorkersIdle ==
    ASSUME IndInv, UNCHANGED workerVars
    PROVE  WorkerInv' /\ Grow /\ NoNewReduce
BY DEF IndInv, WorkerInv, WorkerTypeOK, MapProgress, ReportsMapped, MappedIn,
       workerVars, progVars, Grow, NoNewReduce

\* RequestTask, answered or failed.
LEMMA RequestTaskInv ==
    ASSUME IndInv, NEW w \in Workers, RequestTask(w)
    PROVE  IndInv'
<1>1. faults' \in 0 .. MaxFaults /\ late' \subseteq late /\ WorkerInv
  BY DEF RequestTask, IndInv, TypeOK
<1>2. ASSUME NEW m \in MapTasks, AssignMap(m), BeginMap(w, m) PROVE IndInv'
  BY <1>1, <1>2, BeginMapInv, AssignMapQuiet, QuietStep
<1>3. ASSUME NEW b \in Buckets, AssignReduce(b), BeginReduce(w, b) PROVE IndInv'
  BY <1>1, <1>3, BeginReduceInv, ReduceStep
<1>4. CASE AnswerWait /\ BeginWait(w)
  BY <1>1, <1>4, BeginWaitInv, StutterQuiet, QuietStep DEF AnswerWait
<1> QED BY <1>2, <1>3, <1>4 DEF RequestTask

LEMMA ReadInputFailsInv ==
    ASSUME IndInv, NEW w \in Workers, ReadInputFails(w)
    PROVE  IndInv'
<1>1. faults' \in 0 .. MaxFaults /\ late' \subseteq late
  BY FaultCount DEF ReadInputFails
<1>2. WorkerInv' /\ Grow /\ NoNewReduce
  BY DropInv DEF ReadInputFails, IndInv
<1>3. CoordInv' /\ CoordQuiet
  BY AssignMapQuiet DEF ReadInputFails
<1> QED BY <1>1, <1>2, <1>3, QuietStep

LEMMA EncodeReplyInv ==
    ASSUME IndInv, NEW w \in Workers, EncodeReply(w)
    PROVE  IndInv'
<1>1. outputs[task[w]] \in Outputs
  BY DEF EncodeReply, IndInv, CoordInv, CoordTypeOK, WorkerInv, WorkerTypeOK
<1>2. WorkerInv' /\ Grow /\ NoNewReduce
  BY <1>1, ReceiveReduceInv DEF EncodeReply, IndInv
<1> QED BY <1>2, StutterQuiet, QuietStep DEF EncodeReply, IndInv, TypeOK

\* Reports, handled while their caller waits.
LEMMA ReportCompletionInv ==
    ASSUME IndInv, NEW w \in Workers, ReportCompletion(w)
    PROVE  IndInv'
<1>1. task[w] \in Tasks /\ Addr[w] \in Addresses
  BY WorkerAssumption DEF ReportCompletion, IndInv, WorkerInv, WorkerTypeOK
<1>2. WorkerInv' /\ Grow /\ NoNewReduce
  BY DropInv DEF ReportCompletion, IndInv
<1>3. task[w] \in MapTasks =>
        \E v \in Workers : Addr[v] = Addr[w] /\ MappedIn(task[w], Dir[v])
  BY DEF ReportCompletion, IndInv, WorkerInv, ReportsMapped
<1>4. task[w] \in Buckets => ReduceSeen
  BY DEF ReduceSeen
<1> QED BY <1>1, <1>2, <1>3, <1>4, CompletionStep
        DEF ReportCompletion, IndInv, TypeOK

LEMMA ReportMissingInv ==
    ASSUME IndInv, NEW w \in Workers, ReportMissing(w)
    PROVE  IndInv'
<1>1. WorkerInv' /\ Grow /\ NoNewReduce
  BY DropInv DEF ReportMissing, IndInv
<1>2. CoordInv' /\ CoordQuiet
  BY MissingQuiet DEF ReportMissing
<1> QED BY <1>1, <1>2, QuietStep DEF ReportMissing, IndInv, TypeOK

\* Orphaned requests, handled late.
LEMMA HandleLateInv ==
    ASSUME IndInv, NEW r \in late, HandleLate(r)
    PROVE  IndInv'
<1>1. WorkerInv' /\ Grow /\ NoNewReduce
  BY WorkersIdle DEF HandleLate
<1>2. late' \subseteq late /\ faults' \in 0 .. MaxFaults
  BY DEF HandleLate, IndInv, TypeOK
<1>3. ASSUME NEW m \in MapTasks, AssignMap(m) PROVE IndInv'
  BY <1>1, <1>2, <1>3, AssignMapQuiet, QuietStep
<1>4. ASSUME NEW b \in Buckets, AssignReduce(b) PROVE IndInv'
  BY <1>1, <1>2, <1>4, ReduceStep
<1>5. CASE AnswerWait
  BY <1>1, <1>2, <1>5, StutterQuiet, QuietStep DEF AnswerWait
<1>6. CASE r.call = "report" /\ ReportTaskCompletion(r.task, r.addr)
  <2>1. r.task \in Tasks /\ r.addr \in Addresses
    BY <1>6 DEF IndInv, TypeOK, Requests
  <2>2. r.task \in MapTasks =>
          \E w \in Workers : Addr[w] = r.addr /\ MappedIn(r.task, Dir[w])
    BY <1>6 DEF IndInv, LateIsMapped
  <2>3. r.task \in Buckets => ReduceSeen
    BY DEF ReduceSeen
  <2> QED BY <1>1, <1>2, <1>6, <2>1, <2>2, <2>3, CompletionStep
<1>7. CASE r.call = "missing" /\ ReportMissingMapOutputs(r.task)
  BY <1>1, <1>2, <1>7, MissingQuiet, QuietStep
<1> QED BY <1>3, <1>4, <1>5, <1>6, <1>7 DEF HandleLate

\* Failed calls and dead processes.
LEMMA CallFailsInv ==
    ASSUME IndInv, NEW w \in Workers, CallFails(w)
    PROVE  WorkerInv' /\ Grow /\ NoNewReduce /\ UNCHANGED coordVars
BY DropInv DEF CallFails, IndInv

LEMMA CallLostInv ==
    ASSUME IndInv, NEW w \in Workers, CallLost(w)
    PROVE  IndInv'
BY CallFailsInv, FaultCount, OrphanStep DEF CallLost

LEMMA CoordinatorGoneInv ==
    ASSUME IndInv, NEW w \in Workers, CoordinatorGone(w)
    PROVE  IndInv'
BY CallFailsInv, StutterQuiet, QuietStep DEF CoordinatorGone, IndInv, TypeOK

LEMMA CrashInv ==
    ASSUME IndInv, NEW w \in Workers, Crash(w) \/ StopWorker(w)
    PROVE  IndInv'
<1>1. WorkerInv' /\ Grow /\ NoNewReduce
  <2>1. CASE Crash(w)
    BY <2>1, DropInv DEF Crash, Dies, IndInv
  <2>2. CASE StopWorker(w)
    BY <2>2, DropInv DEF StopWorker, Stops, IndInv
  <2> QED BY <2>1, <2>2
<1> QED BY <1>1, FaultCount, OrphanStep DEF Crash, StopWorker

LEMMA CollideInv ==
    ASSUME IndInv, NEW w \in Workers, Collide(w)
    PROVE  IndInv'
<1>1. faults' \in 0 .. MaxFaults /\ late' \subseteq late
  BY DEF Collide, IndInv, TypeOK
<1>2. CoordInv' /\ CoordQuiet
  BY DEF Collide, IndInv, CoordInv, CoordTypeOK, OutputsAgree, OneProducer,
         DrainedIsReduced, allReduceTasksDone, CoordQuiet, MainStates
<1>3. CASE UNCHANGED progVars
  BY <1>1, <1>2, <1>3, WorkersIdle, QuietStep DEF Collide, workerVars
<1>4. CASE Drop(w, "exited") \/ Drop(w, "ask")
  <2>1. WorkerInv' /\ Grow /\ NoNewReduce
    BY <1>4, DropInv DEF Collide, IndInv
  <2> QED BY <1>1, <1>2, <2>1, QuietStep
<1> QED BY <1>3, <1>4 DEF Collide

\* The other steps of one worker.
LEMMA WorkInv ==
    ASSUME IndInv, NEW w \in Workers, Work(w)
    PROVE  IndInv'
BY WorkerStepInv, StutterQuiet, QuietStep DEF Work, IndInv, TypeOK

LEMMA LocalFailureInv ==
    ASSUME IndInv, NEW w \in Workers,
           FetchCallFails(w) \/ FileError(w) \/ LostLine(w) \/ AppCrash(w)
    PROVE  IndInv'
<1>1. faults' \in 0 .. MaxFaults /\ late' \subseteq late /\ UNCHANGED coordVars
  BY FaultCount DEF FetchCallFails, FileError, LostLine, AppCrash
<1>2. WorkerInv' /\ Grow /\ NoNewReduce
  <2>1. CASE FetchCallFails(w)
    <3>1. PICK m \in left[w] : FetchFails(w, m, TRUE)
      BY <2>1 DEF FetchCallFails
    <3>2. m \in MapTasks
      BY <3>1 DEF IndInv, WorkerInv, WorkerTypeOK
    <3> QED BY <3>1, <3>2, FetchInv DEF IndInv
  <2>2. CASE FileError(w)
    BY <2>2, DropInv DEF FileError, TaskFails, IndInv
  <2>3. CASE LostLine(w)
    BY <2>3, WriteLineInv DEF LostLine, IndInv
  <2>4. CASE AppCrash(w)
    BY <2>4, DropInv DEF AppCrash, Dies, IndInv
  <2> QED BY <2>1, <2>2, <2>3, <2>4
<1> QED BY <1>1, <1>2, StutterQuiet, QuietStep

LEMMA StartAgainInv ==
    ASSUME IndInv, NEW w \in Workers, StartAgain(w)
    PROVE  IndInv'
<1>1. WorkerInv' /\ Grow /\ NoNewReduce
  BY DropInv DEF StartAgain, Restart, IndInv
<1> QED BY <1>1, StutterQuiet, QuietStep DEF StartAgain, IndInv, TypeOK

\* Time and the main goroutine.
LEMMA TimesOutInv ==
    ASSUME IndInv, NEW t \in Tasks, TimesOut(t)
    PROVE  IndInv'
<1>1. CoordInv' /\ CoordQuiet
  BY TimeInv DEF TimesOut, TaskTimesOut, IndInv, CoordQuiet
<1> QED BY <1>1, WorkersIdle, QuietStep DEF TimesOut, IndInv, TypeOK

LEMMA MainStepInv ==
    ASSUME IndInv, MainStep
    PROVE  IndInv'
<1>1. CoordInv' /\ CoordQuiet
  BY MainInv DEF MainStep, PollDone, Exit, IndInv, CoordQuiet
<1> QED BY <1>1, WorkersIdle, QuietStep DEF MainStep, IndInv, TypeOK

LEMMA SystemStutter ==
    ASSUME IndInv, UNCHANGED vars
    PROVE  IndInv'
BY StutterQuiet, WorkersIdle, QuietStep DEF vars, IndInv, TypeOK

-----------------------------------------------------------------------------
(* The invariant.                                                          *)

LEMMA InitInv == Init => IndInv
<1> SUFFICES ASSUME Init PROVE IndInv
  OBVIOUS
<1>1. CoordInv
  BY CoordInitInv DEF Init
<1>2. WorkerTypeOK
  BY TaskFacts DEF Init, WorkerInit, WorkerTypeOK, PCs, Live, Outputs, NoOutputs,
                   NoLines
<1>3. MapProgress /\ ReportsMapped
  BY DEF Init, WorkerInit, MapProgress, ReportsMapped
<1>4. ProducersHoldOutputs /\ LateIsMapped
  BY DEF Init, CoordInit, NoOutputs, ProducersHoldOutputs, LateIsMapped
<1>5. MapBarrier
  BY TaskFacts DEF Init, CoordInit, WorkerInit, MapBarrier, ReduceSeen
<1>6. TypeOK
  BY <1>1, <1>2, FaultAssumption DEF Init, TypeOK, CoordInv
<1> QED BY <1>1, <1>2, <1>3, <1>4, <1>5, <1>6 DEF IndInv, WorkerInv

LEMMA NextInv == IndInv /\ [Next]_vars => IndInv'
<1> SUFFICES ASSUME IndInv, [Next]_vars PROVE IndInv'
  OBVIOUS
<1>1. ASSUME NEW w \in Workers, Rpc(w) PROVE IndInv'
  BY <1>1, RequestTaskInv, EncodeReplyInv, ReportCompletionInv,
     ReportMissingInv, CoordinatorGoneInv DEF Rpc
<1>2. ASSUME NEW w \in Workers, Work(w) PROVE IndInv'
  BY <1>2, WorkInv
<1>3. ASSUME NEW w \in Workers, Failure(w) PROVE IndInv'
  BY <1>3, ReadInputFailsInv, CallLostInv, CollideInv, LocalFailureInv,
     CrashInv, StartAgainInv DEF Failure
<1>4. ASSUME NEW r \in late, HandleLate(r) PROVE IndInv'
  BY <1>4, HandleLateInv
<1>5. ASSUME NEW t \in Tasks, TimesOut(t) PROVE IndInv'
  BY <1>5, TimesOutInv
<1>6. CASE MainStep
  BY <1>6, MainStepInv
<1>7. CASE Ended \/ UNCHANGED vars
  BY <1>7, SystemStutter DEF Ended
<1> QED BY <1>1, <1>2, <1>3, <1>4, <1>5, <1>6, <1>7 DEF Next

\* The inductive invariant holds in every state of every deployment.
THEOREM SystemInvariant == Spec => []IndInv
<1>1. Init => IndInv
  BY InitInv
<1>2. IndInv /\ [Next]_vars => IndInv'
  BY NextInv
<1> QED BY <1>1, <1>2, PTL DEF Spec

\* The types of the system.
THEOREM SystemTypes == Spec => []TypeOK
<1>1. IndInv => TypeOK
  BY DEF IndInv
<1> QED BY <1>1, SystemInvariant, PTL

\* A producer the coordinator names has the output it is named for.
THEOREM SystemProducers == Spec => []ProducersHoldOutputs
<1>1. IndInv => ProducersHoldOutputs
  BY DEF IndInv
<1> QED BY <1>1, SystemInvariant, PTL

\* The map barrier of RequestTask, on the disks: when any trace of a reduce
\* task exists, each map task has been executed somewhere.
THEOREM SystemBarrier == Spec => []MapBarrier
<1>1. IndInv => MapBarrier
  BY DEF IndInv
<1> QED BY <1>1, SystemInvariant, PTL

-----------------------------------------------------------------------------
(* Refinement: every step is a step of Job, or none.                       *)

Reduced == {b \in Buckets : state[b] = "Done"}

\* The step does not show in the coordinator's part of the job.
SameReduced == Reduced' = Reduced /\ (main' = "exited" <=> main = "exited")

\* Requests for tasks and reports about map tasks do not show.
LEMMA AssignSame ==
    ASSUME IndInv,
           \/ \E m \in MapTasks : AssignMap(m)
           \/ \E b \in Buckets : AssignReduce(b)
           \/ AnswerWait
    PROVE  SameReduced
<1>1. ASSUME NEW m \in MapTasks, AssignMap(m) PROVE SameReduced
  BY <1>1, TaskFacts DEF SameReduced, Reduced, AssignMap, MarkRunning, IndInv,
                         CoordInv, CoordTypeOK
<1>2. ASSUME NEW b \in Buckets, AssignReduce(b) PROVE SameReduced
  BY <1>2, TaskFacts DEF SameReduced, Reduced, AssignReduce, MarkRunning, IndInv,
                         CoordInv, CoordTypeOK, pickReduceTask, shouldAssignTask
<1>3. CASE AnswerWait
  BY <1>3 DEF SameReduced, Reduced, AnswerWait, coordVars
<1> QED BY <1>1, <1>2, <1>3

LEMMA MissingSame ==
    ASSUME IndInv, NEW m, ReportMissingMapOutputs(m)
    PROVE  SameReduced
<1>1. CASE m \in MapTasks /\ RescheduleMap(m)
  BY <1>1, TaskFacts DEF SameReduced, Reduced, RescheduleMap, IndInv, CoordInv,
                         CoordTypeOK
<1>2. CASE UnknownTask(m)
  BY <1>2 DEF SameReduced, Reduced, UnknownTask, coordVars
<1> QED BY <1>1, <1>2 DEF ReportMissingMapOutputs

\* A completion of a map task does not show, that of a reduce task adds it.
LEMMA CompletionShows ==
    ASSUME IndInv, NEW t, NEW a, ReportTaskCompletion(t, a)
    PROVE  /\ t \notin Buckets => SameReduced
           /\ t \in Buckets => /\ Reduced' = Reduced \cup {t}
                               /\ Serving /\ main' = main
<1>1. CASE t \in MapTasks /\ ReportMapCompletion(t, a)
  BY <1>1, TaskFacts DEF SameReduced, Reduced, ReportMapCompletion, IndInv,
                         CoordInv, CoordTypeOK
<1>2. CASE t \in Buckets /\ ReportReduceCompletion(t)
  BY <1>2, TaskFacts DEF Reduced, ReportReduceCompletion, IndInv, CoordInv,
                         CoordTypeOK
<1>3. CASE UnknownTask(t)
  BY <1>3, TaskFacts DEF SameReduced, Reduced, UnknownTask, coordVars
<1> QED BY <1>1, <1>2, <1>3 DEF ReportTaskCompletion

\* Without a new file and a new completion, the step is a stutter of Job.
LEMMA SameJob ==
    ASSUME SameReduced, UNCHANGED files
    PROVE  UNCHANGED J!jobVars
BY DEF J!jobVars, SameReduced, Reduced, Mapped, MappedIn

\* The completion of a reduce task with a trace in the system.
LEMMA CompletionRefines ==
    ASSUME IndInv, NEW t, NEW a, ReportTaskCompletion(t, a),
           t \in Buckets => ReduceSeen, UNCHANGED files
    PROVE  [J!JobNext]_(J!jobVars)
<1>1. CASE t \notin Buckets
  BY <1>1, CompletionShows, SameJob
<1>2. CASE t \in Buckets
  <2>1. Mapped = MapTasks /\ Mapped' = Mapped
    BY <1>2 DEF IndInv, MapBarrier, Mapped, MappedIn
  <2>2. Reduced' = Reduced \cup {t} /\ main # "exited" /\ main' = main
    BY <1>2, CompletionShows DEF Serving
  <2>3. J!ReduceOne(t)
    BY <2>1, <2>2 DEF J!ReduceOne, Reduced
  <2> QED BY <1>2, <2>3 DEF J!JobNext
<1> QED BY <1>1, <1>2

\* A bucket file completes at most the map task it belongs to.
LEMMA WorkRefines ==
    ASSUME IndInv, NEW w \in Workers, Work(w)
    PROVE  [J!JobNext]_(J!jobVars)
<1>1. SameReduced
  BY DEF Work, coordVars, SameReduced, Reduced
<1>2. CASE files' = files
  BY <1>1, <1>2, SameJob
<1>3. CASE WriteBucket(w)
  <2>1. task[w] \in MapTasks
    BY <1>3 DEF WriteBucket, IndInv, WorkerInv, WorkerTypeOK
  <2>2. ASSUME NEW m \in MapTasks, m # task[w], NEW d \in Dirs
        PROVE  MappedIn(m, d)' => MappedIn(m, d)
    BY <1>3, <2>2, WorkerAssumption
       DEF MappedIn, WriteBucket, IndInv, WorkerInv, WorkerTypeOK
  <2>3. Grow
    BY <1>3, WriteBucketInv DEF IndInv
  <2>4. Mapped' = Mapped \/ Mapped' = Mapped \cup {task[w]}
    BY <2>1, <2>2, <2>3, MappedGrows DEF Mapped
  <2>5. CASE Mapped' = Mapped
    BY <1>1, <2>5 DEF J!jobVars, SameReduced, Reduced
  <2>6. CASE Mapped' = Mapped \cup {task[w]}
    <3>1. J!MapOne(task[w])
      BY <1>1, <2>6 DEF J!MapOne, SameReduced, Reduced
    <3> QED BY <2>1, <3>1 DEF J!JobNext
  <2> QED BY <2>4, <2>5, <2>6
<1>4. WriteBucket(w) \/ files' = files
  BY DEF Work, WorkerStep, Fetch, FetchHangs, FetchFails, CreateOutput, WriteLine,
         WakeUp
<1> QED BY <1>2, <1>3, <1>4

\* The RPCs of a worker.
LEMMA RpcRefines ==
    ASSUME IndInv, NEW w \in Workers, Rpc(w)
    PROVE  [J!JobNext]_(J!jobVars)
<1>1. CASE RequestTask(w)
  <2>1. UNCHANGED files
    BY <1>1 DEF RequestTask, BeginMap, BeginReduce, BeginWait
  <2>2. SameReduced
    BY <1>1, AssignSame DEF RequestTask
  <2> QED BY <2>1, <2>2, SameJob
<1>2. CASE EncodeReply(w) \/ CoordinatorGone(w)
  <2>1. UNCHANGED files /\ SameReduced
    BY <1>2 DEF EncodeReply, ReceiveReduce, CoordinatorGone, CallFails,
                coordVars, SameReduced, Reduced
  <2> QED BY <2>1, SameJob
<1>3. CASE ReportCompletion(w)
  BY <1>3, CompletionRefines DEF ReportCompletion, ReduceSeen
<1>4. CASE ReportMissing(w)
  BY <1>4, MissingSame, SameJob DEF ReportMissing
<1> QED BY <1>1, <1>2, <1>3, <1>4 DEF Rpc

\* Failures do not show.
LEMMA FailureRefines ==
    ASSUME IndInv, NEW w \in Workers, Failure(w)
    PROVE  [J!JobNext]_(J!jobVars)
<1>1. UNCHANGED files
  BY DEF Failure, ReadInputFails, CallLost, CallFails, Collide, FetchCallFails,
         FetchFails, FileError, TaskFails, LostLine, WriteLine, Crash, Dies,
         StopWorker, Stops, AppCrash, StartAgain, Restart
<1>2. CASE ReadInputFails(w)
  BY <1>1, <1>2, AssignSame, SameJob DEF ReadInputFails
<1>3. CASE Collide(w)
  BY <1>1, <1>3, SameJob DEF Collide, Serving, SameReduced, Reduced
<1>4. CASE UNCHANGED coordVars
  BY <1>1, <1>4, SameJob DEF coordVars, SameReduced, Reduced
<1> QED
  BY <1>2, <1>3, <1>4
     DEF Failure, CallLost, CallFails, FetchCallFails, FileError, LostLine, Crash,
         StopWorker, AppCrash, StartAgain

\* Nor do late requests, unless they complete a reduce task.
LEMMA HandleLateRefines ==
    ASSUME IndInv, NEW r \in late, HandleLate(r)
    PROVE  [J!JobNext]_(J!jobVars)
<1>1. UNCHANGED files
  BY DEF HandleLate, workerVars
<1>2. CASE r.call = "report" /\ ReportTaskCompletion(r.task, r.addr)
  BY <1>1, <1>2, CompletionRefines DEF ReduceSeen
<1>3. CASE r.call = "missing" /\ ReportMissingMapOutputs(r.task)
  BY <1>1, <1>3, MissingSame, SameJob
<1>4. CASE \/ \E m \in MapTasks : AssignMap(m)
           \/ \E b \in Buckets : AssignReduce(b)
           \/ AnswerWait
  BY <1>1, <1>4, AssignSame, SameJob
<1> QED BY <1>2, <1>3, <1>4 DEF HandleLate

\* The exit of main() is the end of the job.
LEMMA MainRefines ==
    ASSUME IndInv, MainStep
    PROVE  [J!JobNext]_(J!jobVars)
<1>1. UNCHANGED files /\ UNCHANGED state
  BY DEF MainStep, PollDone, Exit, workerVars
<1>2. CASE PollDone
  BY <1>1, <1>2, SameJob DEF PollDone, SameReduced, Reduced
<1>3. CASE Exit
  <2>1. Reduced = Buckets
    BY <1>3 DEF Exit, IndInv, CoordInv, DrainedIsReduced, allReduceTasksDone, Reduced
  <2>2. J!Finish
    BY <1>1, <1>3, <2>1 DEF J!Finish, Exit, Reduced, Mapped, MappedIn
  <2> QED BY <2>2 DEF J!JobNext
<1> QED BY <1>2, <1>3 DEF MainStep

LEMMA StepRefines == IndInv /\ [Next]_vars => [J!JobNext]_(J!jobVars)
<1> SUFFICES ASSUME IndInv, [Next]_vars PROVE [J!JobNext]_(J!jobVars)
  OBVIOUS
<1>1. ASSUME NEW w \in Workers, Rpc(w) \/ Work(w) \/ Failure(w)
      PROVE  [J!JobNext]_(J!jobVars)
  BY <1>1, RpcRefines, WorkRefines, FailureRefines
<1>2. ASSUME NEW r \in late, HandleLate(r) PROVE [J!JobNext]_(J!jobVars)
  BY <1>2, HandleLateRefines
<1>3. ASSUME NEW t \in Tasks, TimesOut(t) PROVE [J!JobNext]_(J!jobVars)
  BY <1>3, SameJob DEF TimesOut, TaskTimesOut, workerVars, SameReduced, Reduced
<1>4. CASE MainStep
  BY <1>4, MainRefines
<1>5. CASE Ended \/ UNCHANGED vars
  BY <1>5, SameJob DEF Ended, vars, coordVars, workerVars, SameReduced, Reduced
<1> QED BY <1>1, <1>2, <1>3, <1>4, <1>5 DEF Next

LEMMA InitRefines == Init => J!JobInit
BY TaskFacts DEF Init, CoordInit, WorkerInit, J!JobInit, Mapped, MappedIn

\* The system implements the abstract job, whatever fails.
THEOREM SystemImplementsJob == Spec => ImplementsJob
<1>1. Init => J!JobInit
  BY InitRefines
<1>2. IndInv /\ [Next]_vars => [J!JobNext]_(J!jobVars)
  BY StepRefines
<1> QED BY <1>1, <1>2, SystemInvariant, PTL DEF Spec, ImplementsJob, J!JobSpec
-----------------------------------------------------------------------------
(* When a worker may exit.                                                 *)

\* A constant: no failure makes the coordinator look gone to a worker.
OnlyQuietFaults == FaultKinds \cap {"call", "io", "race"} = {}

\* The coordinator's process does not come back.
LEMMA GoneForGood == ~Serving /\ [Next]_vars => ~Serving'
<1> SUFFICES ASSUME ~Serving, [Next]_vars PROVE main' = main
  BY DEF Serving
<1>1. ASSUME NEW w \in Workers, Rpc(w) \/ Work(w) PROVE main' = main
  BY <1>1 DEF Rpc, RequestTask, AssignMap, AssignReduce, AnswerWait, EncodeReply,
       ReportCompletion, ReportTaskCompletion, ReportMapCompletion,
       ReportReduceCompletion, UnknownTask, ReportMissing,
       ReportMissingMapOutputs, RescheduleMap, CoordinatorGone, CallFails, Work,
       coordVars
<1>2. ASSUME NEW w \in Workers, Failure(w) PROVE main' = main
  BY <1>2 DEF Failure, ReadInputFails, AssignMap, CallLost, CallFails, Collide,
       FetchCallFails, FileError, LostLine, Crash, StopWorker, AppCrash,
       StartAgain, coordVars
<1>3. ASSUME NEW r \in late, HandleLate(r) PROVE main' = main
  BY <1>3 DEF HandleLate, AssignMap, AssignReduce, AnswerWait,
       ReportTaskCompletion, ReportMapCompletion, ReportReduceCompletion,
       UnknownTask, ReportMissingMapOutputs, RescheduleMap, coordVars
<1>4. ASSUME NEW t \in Tasks, TimesOut(t) PROVE main' = main
  BY <1>4 DEF TimesOut, TaskTimesOut
<1>5. CASE MainStep
  BY <1>5 DEF MainStep, PollDone, Exit, Serving
<1>6. CASE Ended \/ UNCHANGED vars
  BY <1>6 DEF Ended, vars, coordVars
<1> QED BY <1>1, <1>2, <1>3, <1>4, <1>5, <1>6 DEF Next

\* A worker that exits in a step found the coordinator gone.
LEMMA ExitsWhenGone ==
    ASSUME OnlyQuietFaults, IndInv, [Next]_vars,
           NEW v \in Workers, pc[v] # "exited", pc'[v] = "exited"
    PROVE  ~Serving
<1>0. pc \in [Workers -> PCs]
  BY DEF IndInv, WorkerInv, WorkerTypeOK
<1>1. ASSUME NEW w \in Workers, Rpc(w) PROVE ~Serving
  <2>1. CASE CoordinatorGone(w)
    BY <2>1 DEF CoordinatorGone
  <2>2. CASE RequestTask(w) \/ EncodeReply(w)
    BY <1>0, <2>2 DEF RequestTask, BeginMap, BeginReduce, BeginWait, Goto, EncodeReply,
                ReceiveReduce
  <2>3. CASE ReportCompletion(w) \/ ReportMissing(w)
    BY <1>0, <2>3 DEF ReportCompletion, ReportMissing, Drop
  <2> QED BY <1>1, <2>1, <2>2, <2>3 DEF Rpc
<1>2. ASSUME NEW w \in Workers, Work(w) PROVE ~Serving
  BY <1>0, <1>2 DEF Work, WorkerStep, WriteBucket, Fetch, FetchHangs, FetchFails,
              CreateOutput, WriteLine, WakeUp, Goto, Drop
<1>3. ASSUME NEW w \in Workers, Failure(w) PROVE ~Serving
  BY <1>0, <1>3 DEF OnlyQuietFaults, Failure, ReadInputFails, CallLost, Collide,
              FetchCallFails, FileError, LostLine, WriteLine, Goto, Crash, Dies,
              StopWorker, Stops, AppCrash, StartAgain, Restart, Drop, Fault
<1>4. CASE UNCHANGED pc
  BY <1>4
<1>5. (\E r \in late : HandleLate(r)) \/ (\E t \in Tasks : TimesOut(t))
      \/ MainStep \/ Ended \/ UNCHANGED vars => UNCHANGED pc
  BY DEF HandleLate, TimesOut, MainStep, Ended, vars, workerVars, progVars
<1> QED BY <1>1, <1>2, <1>3, <1>4, <1>5 DEF Next

\* As long as no RPC breaks and no file fails, no worker exits before the
\* coordinator: whatever crashes, stops, hangs, comes late or times out, the
\* only failed RequestTask is the one to a coordinator that is gone.
THEOREM WorkersOutstay == OnlyQuietFaults => (Spec => []NoEarlyExit)
<1> SUFFICES ASSUME OnlyQuietFaults PROVE Spec => []NoEarlyExit
  OBVIOUS
<1>1. Init => NoEarlyExit
  BY DEF Init, WorkerInit, NoEarlyExit
<1>2. IndInv /\ NoEarlyExit /\ [Next]_vars => NoEarlyExit'
  <2> SUFFICES ASSUME IndInv, NoEarlyExit, [Next]_vars,
                      NEW v \in Workers, pc'[v] = "exited"
               PROVE  ~Serving'
    BY DEF NoEarlyExit
  <2>1. ~Serving
    BY ExitsWhenGone DEF NoEarlyExit
  <2> QED BY <2>1, GoneForGood
<1> QED BY <1>1, <1>2, SystemInvariant, PTL DEF Spec
-----------------------------------------------------------------------------
(* Complete outputs: one machine, no slow reduce task, no orphaned report. *)

\* A constant: the deployment of test-mr.sh.  All workers announce the same
\* address and share a directory, no reduce task outlasts its timeout, and
\* what fails are the application, files, and nothing that would orphan a
\* report or lose a line in silence.  Map tasks may be slow and run twice.
OneMachine ==
    /\ \A v, w \in Workers : Addr[v] = Addr[w] /\ Dir[v] = Dir[w]
    /\ Slow \cap Buckets = {}
    /\ FaultKinds \subseteq {"app", "io", "race", "restart"}

\* Nothing is on its way without a caller, and no worker misses an output.
NothingMissing ==
    /\ late = {}
    /\ \A w \in Workers : pc[w] \notin {"missing", "hung", "stopped"}

\* Map tasks stay Done once a reduce task has been handed out.
ReduceAfterMap ==
    \A b \in Buckets : state[b] # "Unassigned" => allMapTasksDone

\* A worker that holds a reduce task is the only one, and in time.
OneHolder ==
    /\ \A w \in Workers : task[w] \in Buckets =>
          state[task[w]] = "Running" /\ task[w] \notin timedOut
    /\ \A v, w \in Workers : task[v] \in Buckets /\ task[v] = task[w] => v = w

\* All inputs of a reducer are in its own directory.
InputsHere ==
    \A w \in Workers : pc[w] \in {"fetch", "write"} =>
        \A m \in MapTasks : snap[w][m] = Addr[w]

\* What a reducer has written so far is right.
OutputGrows ==
    \A w \in Workers :
        /\ pc[w] = "write" =>
              \A i \in Lines : i <= pos[w] => out[Dir[w]][task[w]][i] = MapTasks
        /\ pc[w] = "report" /\ task[w] \in Buckets =>
              out[Dir[w]][task[w]] = Complete

\* And stays so once the reduce task is Done.
DoneIsHere ==
    \A b \in Buckets : state[b] = "Done" =>
        \E w \in Workers : out[Dir[w]][b] = Complete

WriteInv ==
    /\ NothingMissing
    /\ ReduceAfterMap
    /\ OneHolder
    /\ InputsHere
    /\ OutputGrows
    /\ DoneIsHere

\* A step of the coordinator that leaves the reduce tasks alone and undoes no
\* map task.
KeepsTasks ==
    /\ \A b \in Buckets : state'[b] = state[b] /\ (b \in timedOut' => b \in timedOut)
    /\ \A m \in MapTasks : state[m] = "Done" => state'[m] = "Done"

LEMMA StutterKeeps ==
    ASSUME UNCHANGED coordVars
    PROVE  KeepsTasks
BY DEF KeepsTasks, coordVars

LEMMA AssignMapKeeps ==
    ASSUME IndInv, NEW m \in MapTasks, AssignMap(m)
    PROVE  KeepsTasks
BY TaskFacts DEF KeepsTasks, AssignMap, MarkRunning, pickMapTask, shouldAssignTask,
                 IndInv, CoordInv, CoordTypeOK

LEMMA ReduceAfterMapKept ==
    ASSUME ReduceAfterMap, KeepsTasks
    PROVE  ReduceAfterMap'
BY DEF ReduceAfterMap, KeepsTasks, allMapTasksDone

\* A step in which nobody gets a reduce task.
LEMMA OneHolderKept ==
    ASSUME OneHolder, KeepsTasks,
           \A v \in Workers : task'[v] \in Buckets => task'[v] = task[v]
    PROVE  OneHolder'
<1>1. ASSUME NEW w \in Workers, task'[w] \in Buckets
      PROVE  state'[task'[w]] = "Running" /\ task'[w] \notin timedOut'
  BY <1>1 DEF OneHolder, KeepsTasks
<1>2. ASSUME NEW v \in Workers, NEW w \in Workers, task'[v] \in Buckets,
             task'[v] = task'[w]
      PROVE  v = w
  BY <1>2 DEF OneHolder
<1> QED BY <1>1, <1>2 DEF OneHolder

\* A worker drops its task, at the end of it or because something failed.
LEMMA DropWrites ==
    ASSUME IndInv, WriteInv, NEW w \in Workers,
           NEW p \in {"ask", "exited", "crashed"}, Drop(w, p),
           KeepsTasks, UNCHANGED <<late, out>>
    PROVE  WriteInv'
<1>0. WorkerTypeOK
  BY DEF IndInv, WorkerInv
<1>1. NothingMissing' /\ InputsHere' /\ OutputGrows'
  BY <1>0, TaskFacts DEF WriteInv, NothingMissing, InputsHere, OutputGrows, Drop,
                   WorkerTypeOK
<1>2. OneHolder'
  BY <1>0, TaskFacts, OneHolderKept DEF WriteInv, Drop, WorkerTypeOK
<1>3. DoneIsHere'
  BY DEF WriteInv, DoneIsHere, KeepsTasks
<1> QED BY <1>1, <1>2, <1>3, ReduceAfterMapKept DEF WriteInv

\* The answers to RequestTask.
LEMMA RequestTaskWrites ==
    ASSUME IndInv, WriteInv, NEW w \in Workers, RequestTask(w)
    PROVE  WriteInv'
<1>0. WorkerTypeOK /\ UNCHANGED <<late, out>>
  BY DEF IndInv, WorkerInv, RequestTask, BeginMap, BeginReduce, BeginWait
<1>1. ASSUME NEW m \in MapTasks, AssignMap(m), BeginMap(w, m) PROVE WriteInv'
  <2>1. KeepsTasks
    BY <1>1, AssignMapKeeps
  <2>2. NothingMissing' /\ InputsHere' /\ OutputGrows'
    BY <1>0, <1>1 DEF WriteInv, NothingMissing, InputsHere, OutputGrows, BeginMap,
                      WorkerTypeOK
  <2>3. OneHolder'
    BY <1>0, <1>1, <2>1, TaskFacts, OneHolderKept
       DEF WriteInv, BeginMap, WorkerTypeOK
  <2>4. DoneIsHere'
    BY <1>0, <2>1 DEF WriteInv, DoneIsHere, KeepsTasks
  <2> QED BY <2>1, <2>2, <2>3, <2>4, ReduceAfterMapKept DEF WriteInv
<1>2. ASSUME NEW b \in Buckets, AssignReduce(b), BeginReduce(w, b) PROVE WriteInv'
  <2>0. /\ state' = [state EXCEPT ![b] = "Running"] /\ timedOut' = timedOut \ {b}
        /\ pc' = [pc EXCEPT ![w] = "encode"] /\ task' = [task EXCEPT ![w] = b]
        /\ UNCHANGED <<snap, pos>>
        /\ state \in [Tasks -> TaskStates]
        /\ allMapTasksDone
        /\ state[b] = "Unassigned" \/ b \in timedOut
    BY <1>2 DEF AssignReduce, MarkRunning, BeginReduce, IndInv, CoordInv, CoordTypeOK,
                pickReduceTask, shouldAssignTask
  <2>1. \A v \in Workers : task[v] # b
    BY <2>0 DEF WriteInv, OneHolder
  <2>2. NothingMissing' /\ InputsHere' /\ OutputGrows'
    BY <1>0, <2>0 DEF WriteInv, NothingMissing, InputsHere, OutputGrows,
                      WorkerTypeOK
  <2>3. OneHolder'
    BY <1>0, <2>0, <2>1, TaskFacts DEF WriteInv, OneHolder, WorkerTypeOK
  <2>4. DoneIsHere' /\ ReduceAfterMap'
    BY <1>0, <2>0, TaskFacts DEF WriteInv, DoneIsHere, ReduceAfterMap, allMapTasksDone
  <2> QED BY <2>2, <2>3, <2>4 DEF WriteInv
<1>3. CASE AnswerWait /\ BeginWait(w)
  <2>1. KeepsTasks
    BY <1>3, StutterKeeps DEF AnswerWait
  <2>2. NothingMissing' /\ InputsHere' /\ OutputGrows'
    BY <1>0, <1>3 DEF WriteInv, NothingMissing, InputsHere, OutputGrows, BeginWait,
                      Goto, WorkerTypeOK
  <2>3. OneHolder' /\ DoneIsHere'
    BY <1>0, <1>3, <2>1, OneHolderKept
       DEF WriteInv, DoneIsHere, BeginWait, Goto, KeepsTasks
  <2> QED BY <2>1, <2>2, <2>3, ReduceAfterMapKept DEF WriteInv
<1> QED BY <1>1, <1>2, <1>3 DEF RequestTask
\* The reply is encoded: all outputs are recorded, for the common address.
LEMMA EncodeReplyWrites ==
    ASSUME OneMachine, IndInv, WriteInv, NEW w \in Workers, EncodeReply(w)
    PROVE  WriteInv'
<1>0. /\ pc[w] = "encode" /\ task[w] \in Buckets
      /\ pc' = [pc EXCEPT ![w] = "fetch"]
      /\ snap' = [snap EXCEPT ![w] = outputs[task[w]]]
      /\ UNCHANGED <<task, pos, out, late>> /\ UNCHANGED coordVars
      /\ WorkerTypeOK
  BY DEF EncodeReply, ReceiveReduce, IndInv, WorkerInv, WorkerTypeOK
<1>1. allMapTasksDone
  BY <1>0 DEF WriteInv, OneHolder, ReduceAfterMap
<1>2. ASSUME NEW m \in MapTasks PROVE outputs[task[w]][m] = Addr[w]
  <2>1. outputs[task[w]][m] # NoAddress
    BY <1>0, <1>1 DEF IndInv, CoordInv, OutputsAgree, allMapTasksDone
  <2> QED BY <1>0, <2>1 DEF IndInv, ProducersHoldOutputs, OneMachine
<1>3. InputsHere'
  BY <1>0, <1>2 DEF WriteInv, InputsHere, WorkerTypeOK
<1>4. NothingMissing' /\ OutputGrows'
  BY <1>0 DEF WriteInv, NothingMissing, OutputGrows, WorkerTypeOK
<1>5. OneHolder' /\ DoneIsHere' /\ ReduceAfterMap'
  BY <1>0, StutterKeeps, OneHolderKept, ReduceAfterMapKept
     DEF WriteInv, DoneIsHere, KeepsTasks
<1> QED BY <1>3, <1>4, <1>5 DEF WriteInv

\* A report: the output of a reduce task is complete when it becomes Done.
LEMMA ReportCompletionWrites ==
    ASSUME IndInv, WriteInv, NEW w \in Workers, ReportCompletion(w)
    PROVE  WriteInv'
<1>0. /\ pc[w] = "report" /\ task[w] \in Tasks /\ Drop(w, "ask")
      /\ UNCHANGED <<late, out>> /\ WorkerTypeOK
      /\ state \in [Tasks -> TaskStates]
  BY DEF ReportCompletion, IndInv, CoordInv, CoordTypeOK, WorkerInv, WorkerTypeOK
<1>1. CASE task[w] \in MapTasks
  <2>1. ReportMapCompletion(task[w], Addr[w])
    BY <1>1, TaskFacts DEF ReportCompletion, ReportTaskCompletion, UnknownTask
  <2>2. KeepsTasks
    BY <1>0, <1>1, <2>1, TaskFacts DEF ReportMapCompletion, KeepsTasks
  <2> QED BY <1>0, <2>2, DropWrites
<1>2. CASE task[w] \in Buckets
  <2>1. /\ state' = [state EXCEPT ![task[w]] = "Done"]
        /\ timedOut' = timedOut \ {task[w]}
    BY <1>0, <1>2, TaskFacts
       DEF ReportCompletion, ReportTaskCompletion, UnknownTask, ReportReduceCompletion
  <2>2. out[Dir[w]][task[w]] = Complete
    BY <1>0, <1>2 DEF WriteInv, OutputGrows
  <2>3. DoneIsHere'
    BY <1>0, <1>2, <2>1, <2>2, TaskFacts DEF WriteInv, DoneIsHere
  <2>4. ReduceAfterMap'
    <3>1. state[task[w]] = "Running"
      BY <1>2 DEF WriteInv, OneHolder
    <3>2. allMapTasksDone
      BY <1>2, <3>1 DEF WriteInv, ReduceAfterMap
    <3> QED BY <1>0, <1>2, <2>1, <3>2, TaskFacts DEF ReduceAfterMap, allMapTasksDone
  <2>5. ASSUME NEW v \in Workers, task'[v] \in Buckets
        PROVE  v # w /\ task'[v] = task[v] /\ task[v] # task[w]
    BY <1>0, <1>2, <2>5, TaskFacts DEF WriteInv, OneHolder, Drop, WorkerTypeOK
  <2>6. OneHolder'
    <3>1. ASSUME NEW v \in Workers, task'[v] \in Buckets
          PROVE  state'[task'[v]] = "Running" /\ task'[v] \notin timedOut'
      BY <1>0, <1>2, <2>1, <2>5, <3>1, TaskFacts DEF WriteInv, OneHolder
    <3>2. ASSUME NEW u \in Workers, NEW v \in Workers, task'[u] \in Buckets,
                 task'[u] = task'[v]
          PROVE  u = v
      BY <2>5, <3>2 DEF WriteInv, OneHolder
    <3> QED BY <3>1, <3>2 DEF OneHolder
  <2>7. NothingMissing' /\ InputsHere' /\ OutputGrows'
    BY <1>0, TaskFacts DEF WriteInv, NothingMissing, InputsHere, OutputGrows, Drop,
                     WorkerTypeOK
  <2> QED BY <2>3, <2>4, <2>6, <2>7 DEF WriteInv
<1> QED BY <1>0, <1>1, <1>2 DEF Tasks

\* No fetch fails or hangs: what the coordinator recorded is in the common
\* directory.
LEMMA InputsAreThere ==
    ASSUME OneMachine, IndInv, WriteInv, NEW w \in Workers, NEW m \in MapTasks,
           pc[w] = "fetch"
    PROVE  Available(w, m) /\ ~Silent(w, m)
<1>1. snap[w][m] = Addr[w] /\ task[w] \in Buckets
  BY DEF WriteInv, InputsHere, IndInv, WorkerInv, WorkerTypeOK
<1>2. allMapTasksDone
  BY <1>1 DEF WriteInv, OneHolder, ReduceAfterMap
<1>3. outputs[task[w]][m] # NoAddress
  BY <1>1, <1>2 DEF IndInv, CoordInv, OutputsAgree, allMapTasksDone
<1>4. PICK v \in Workers : MappedIn(m, Dir[v])
  BY <1>1, <1>3 DEF IndInv, ProducersHoldOutputs
<1>5. <<m, task[w]>> \in files[Dir[w]]
  BY <1>1, <1>4 DEF MappedIn, OneMachine
<1> QED BY <1>1, <1>5 DEF Available, Silent, Source

\* os.Create truncates an output that nobody else writes and that is not Done.
LEMMA CreateOutputWrites ==
    ASSUME OneMachine, IndInv, WriteInv, NEW w \in Workers, CreateOutput(w),
           UNCHANGED coordVars, UNCHANGED late
    PROVE  WriteInv'
<1>0. /\ pc[w] = "fetch" /\ task[w] \in Buckets /\ pos[w] = 0
      /\ pc' = [pc EXCEPT ![w] = "write"]
      /\ out' = [out EXCEPT ![Dir[w]][task[w]] = NoLines]
      /\ UNCHANGED <<task, snap, pos>>
      /\ WorkerTypeOK
  BY DEF CreateOutput, AllFetched, Goto, IndInv, WorkerInv, WorkerTypeOK
<1>1. ASSUME NEW v \in Workers, NEW b \in Buckets, b # task[w]
      PROVE  out'[Dir[v]][b] = out[Dir[v]][b]
  BY <1>0, <1>1, WorkerAssumption DEF WorkerTypeOK
<1>2. NothingMissing' /\ InputsHere'
  BY <1>0 DEF WriteInv, NothingMissing, InputsHere, WorkerTypeOK
<1>3. OutputGrows'
  <2> SUFFICES ASSUME NEW v \in Workers
               PROVE  /\ pc'[v] = "write" => \A i \in Lines : i <= pos'[v] =>
                                 out'[Dir[v]][task'[v]][i] = MapTasks
                      /\ pc'[v] = "report" /\ task'[v] \in Buckets =>
                                 out'[Dir[v]][task'[v]] = Complete
    BY DEF OutputGrows
  <2>1. CASE v = w
    BY <1>0, <2>1 DEF WorkerTypeOK, Lines
  <2>2. CASE v # w
    <3>1. task[v] \in Buckets => task[v] # task[w]
      BY <2>2 DEF WriteInv, OneHolder
    <3>2. pc'[v] = pc[v] /\ task'[v] = task[v] /\ pos'[v] = pos[v]
      BY <1>0, <2>2 DEF WorkerTypeOK
    <3>3. pc[v] = "write" => task[v] \in Buckets
      BY <1>0 DEF WorkerTypeOK
    <3> QED BY <1>1, <3>1, <3>2, <3>3 DEF WriteInv, OutputGrows
  <2> QED BY <2>1, <2>2
<1>4. OneHolder' /\ ReduceAfterMap'
  BY <1>0, StutterKeeps, OneHolderKept, ReduceAfterMapKept DEF WriteInv
<1>5. DoneIsHere'
  <2>1. state[task[w]] # "Done"
    BY <1>0 DEF WriteInv, OneHolder
  <2> QED BY <1>1, <2>1 DEF WriteInv, DoneIsHere, coordVars
<1> QED BY <1>2, <1>3, <1>4, <1>5 DEF WriteInv

\* A line is written from all map outputs; after the last, all are there.
LEMMA WriteLineWrites ==
    ASSUME OneMachine, IndInv, WriteInv, NEW w \in Workers, WriteLine(w, FALSE),
           UNCHANGED coordVars, UNCHANGED late
    PROVE  WriteInv'
<1>0. /\ pc[w] = "write" /\ task[w] \in Buckets
      /\ pos[w] \in Nat /\ pos[w] < NLines /\ pos[w] + 1 \in Lines
      /\ pc' = [pc EXCEPT ![w] = IF pos[w] + 1 = NLines THEN "report" ELSE "write"]
      /\ pos' = [pos EXCEPT ![w] = pos[w] + 1]
      /\ out' = [out EXCEPT ![Dir[w]][task[w]][pos[w] + 1] = Entries(snap[w])]
      /\ UNCHANGED <<task, snap>>
      /\ WorkerTypeOK
  BY WorkerAssumption DEF WriteLine, Goto, IndInv, WorkerInv, WorkerTypeOK, Lines
<1>1. Entries(snap[w]) = MapTasks
  BY <1>0, WorkerAssumption, NoAddressAssumption
     DEF WriteInv, InputsHere, Entries
<1>2. ASSUME NEW v \in Workers, NEW b \in Buckets, b # task[w]
      PROVE  out'[Dir[v]][b] = out[Dir[v]][b]
  BY <1>0, <1>2, WorkerAssumption DEF WorkerTypeOK
<1>3. /\ out[Dir[w]][task[w]] \in [Lines -> SUBSET MapTasks]
      /\ out'[Dir[w]][task[w]] =
            [out[Dir[w]][task[w]] EXCEPT ![pos[w] + 1] = MapTasks]
  <2>1. /\ out \in [Dirs -> [Buckets -> [Lines -> SUBSET MapTasks]]]
        /\ Dir[w] \in Dirs
    BY <1>0, WorkerAssumption DEF WorkerTypeOK
  <2> QED BY <1>0, <1>1, <2>1
<1>4. ASSUME NEW i \in Lines, i <= pos[w] + 1
      PROVE  out'[Dir[w]][task[w]][i] = MapTasks
  <2>1. CASE i = pos[w] + 1
    BY <1>0, <1>3, <2>1
  <2>2. CASE i # pos[w] + 1
    <3>1. i <= pos[w]
      BY <1>0, <1>4, <2>2 DEF Lines
    <3>2. out[Dir[w]][task[w]][i] = MapTasks
      BY <1>0, <3>1 DEF WriteInv, OutputGrows
    <3> QED BY <1>0, <1>3, <2>2, <3>2
  <2> QED BY <2>1, <2>2
<1>5. pos[w] + 1 = NLines => out'[Dir[w]][task[w]] = Complete
  <2>1. out'[Dir[w]][task[w]] \in [Lines -> SUBSET MapTasks]
    BY <1>0, <1>3
  <2>2. pos[w] + 1 = NLines => \A i \in Lines : i <= pos[w] + 1
    BY <1>0, WorkerAssumption DEF Lines
  <2> QED BY <1>4, <2>1, <2>2 DEF Complete
<1>6. NothingMissing' /\ InputsHere'
  BY <1>0 DEF WriteInv, NothingMissing, InputsHere, WorkerTypeOK
<1>7. OutputGrows'
  <2> SUFFICES ASSUME NEW v \in Workers
               PROVE  /\ pc'[v] = "write" => \A i \in Lines : i <= pos'[v] =>
                                 out'[Dir[v]][task'[v]][i] = MapTasks
                      /\ pc'[v] = "report" /\ task'[v] \in Buckets =>
                                 out'[Dir[v]][task'[v]] = Complete
    BY DEF OutputGrows
  <2>1. CASE v = w
    BY <1>0, <1>4, <1>5, <2>1 DEF WorkerTypeOK
  <2>2. CASE v # w
    <3>1. task[v] \in Buckets => task[v] # task[w]
      BY <2>2 DEF WriteInv, OneHolder
    <3>2. pc'[v] = pc[v] /\ task'[v] = task[v] /\ pos'[v] = pos[v]
      BY <1>0, <2>2 DEF WorkerTypeOK
    <3>3. pc[v] = "write" => task[v] \in Buckets
      BY <1>0 DEF WorkerTypeOK
    <3> QED BY <1>2, <3>1, <3>2, <3>3 DEF WriteInv, OutputGrows
  <2> QED BY <2>1, <2>2
<1>8. OneHolder' /\ ReduceAfterMap'
  BY <1>0, StutterKeeps, OneHolderKept, ReduceAfterMapKept DEF WriteInv
<1>9. DoneIsHere'
  <2>1. state[task[w]] # "Done"
    BY <1>0 DEF WriteInv, OneHolder
  <2> QED BY <1>2, <2>1 DEF WriteInv, DoneIsHere, coordVars
<1> QED BY <1>6, <1>7, <1>8, <1>9 DEF WriteInv
\* The steps a worker takes by itself.
LEMMA WorkWrites ==
    ASSUME OneMachine, IndInv, WriteInv, NEW w \in Workers, Work(w)
    PROVE  WriteInv'
<1>0. WorkerTypeOK /\ UNCHANGED coordVars /\ UNCHANGED late /\ WorkerStep(w)
  BY DEF IndInv, WorkerInv, Work
<1>1. KeepsTasks
  BY <1>0, StutterKeeps
<1>2. CASE WriteBucket(w)
  <2>1. /\ pc' = [pc EXCEPT ![w] = IF pos[w] + 1 = NReduce
                                   THEN "report" ELSE "map"]
        /\ pos' = [pos EXCEPT ![w] = pos[w] + 1]
        /\ task[w] \in MapTasks
        /\ UNCHANGED <<task, snap, out>>
    BY <1>0, <1>2 DEF WriteBucket, Goto, WorkerTypeOK
  <2>2. NothingMissing' /\ InputsHere' /\ OutputGrows'
    BY <1>0, <2>1, TaskFacts DEF WriteInv, NothingMissing, InputsHere, OutputGrows,
                                 WorkerTypeOK
  <2>3. OneHolder' /\ ReduceAfterMap' /\ DoneIsHere'
    BY <1>1, <2>1, OneHolderKept, ReduceAfterMapKept
       DEF WriteInv, DoneIsHere, KeepsTasks
  <2> QED BY <2>2, <2>3 DEF WriteInv
<1>3. ASSUME NEW m \in MapTasks, Fetch(w, m) PROVE WriteInv'
  <2>1. UNCHANGED <<pc, task, snap, pos, out>>
    BY <1>3 DEF Fetch
  <2>2. NothingMissing' /\ InputsHere' /\ OutputGrows'
    BY <1>0, <2>1 DEF WriteInv, NothingMissing, InputsHere, OutputGrows
  <2>3. OneHolder' /\ ReduceAfterMap' /\ DoneIsHere'
    BY <1>1, <2>1, OneHolderKept, ReduceAfterMapKept
       DEF WriteInv, DoneIsHere, KeepsTasks
  <2> QED BY <2>2, <2>3 DEF WriteInv
<1>4. ASSUME NEW m \in MapTasks, FetchHangs(w, m) \/ FetchFails(w, m, FALSE)
      PROVE  FALSE
  BY <1>4, InputsAreThere DEF FetchHangs, FetchFails, WriteInv, NothingMissing
<1>5. CASE CreateOutput(w)
  BY <1>0, <1>5, CreateOutputWrites
<1>6. CASE WriteLine(w, FALSE)
  BY <1>0, <1>6, WriteLineWrites
<1>7. CASE WakeUp(w)
  BY <1>0, <1>1, <1>7, DropWrites DEF WakeUp
<1> QED BY <1>0, <1>2, <1>3, <1>4, <1>5, <1>6, <1>7 DEF WorkerStep

\* The failures of this deployment: a task is dropped.
LEMMA FailureWrites ==
    ASSUME OneMachine, IndInv, WriteInv, NEW w \in Workers, Failure(w)
    PROVE  WriteInv'
<1>1. CASE ReadInputFails(w)
  BY <1>1, AssignMapKeeps, DropWrites DEF ReadInputFails
<1>2. CASE FileError(w)
  BY <1>2, StutterKeeps, DropWrites DEF FileError, TaskFails
<1>3. CASE AppCrash(w)
  BY <1>3, StutterKeeps, DropWrites DEF AppCrash, Dies
<1>4. CASE StartAgain(w)
  BY <1>4, StutterKeeps, DropWrites DEF StartAgain, Restart
<1>5. ~Collide(w)
  <2>1. pc[w] = "encode" => allMapTasksDone
    BY DEF IndInv, WorkerInv, WorkerTypeOK, WriteInv, OneHolder, ReduceAfterMap
  <2> QED
    BY <2>1 DEF Collide, Deleting, Inserting, WriteInv, NothingMissing,
                allMapTasksDone
<1>6. ~(\/ CallLost(w) \/ FetchCallFails(w) \/ LostLine(w) \/ Crash(w)
        \/ StopWorker(w))
  BY DEF OneMachine, CallLost, FetchCallFails, LostLine, Crash, StopWorker, Fault
<1> QED BY <1>1, <1>2, <1>3, <1>4, <1>5, <1>6 DEF Failure

\* A reduce task times out only when nobody holds it.
LEMMA TimesOutWrites ==
    ASSUME OneMachine, IndInv, WriteInv, NEW t \in Tasks, TimesOut(t)
    PROVE  WriteInv'
<1>0. /\ timedOut' = timedOut \cup {t} /\ UNCHANGED <<state, outputs, main>>
      /\ UNCHANGED <<pc, task, snap, pos, out, late>>
  BY DEF TimesOut, TaskTimesOut, workerVars, progVars
<1>1. t \in Buckets => \A w \in Workers : task[w] # t
  BY DEF TimesOut, OneMachine, WriteInv, NothingMissing
<1>2. OneHolder'
  BY <1>0, <1>1 DEF WriteInv, OneHolder
<1>3. NothingMissing' /\ InputsHere' /\ OutputGrows'
  BY <1>0 DEF WriteInv, NothingMissing, InputsHere, OutputGrows
<1>4. ReduceAfterMap' /\ DoneIsHere'
  BY <1>0 DEF WriteInv, ReduceAfterMap, DoneIsHere, allMapTasksDone
<1> QED BY <1>2, <1>3, <1>4 DEF WriteInv

LEMMA MainWrites ==
    ASSUME WriteInv, MainStep \/ Ended \/ UNCHANGED vars
    PROVE  WriteInv'
<1>0. UNCHANGED <<state, timedOut>> /\ UNCHANGED <<pc, task, snap, pos, out, late>>
  BY DEF MainStep, PollDone, Exit, Ended, vars, coordVars, workerVars, progVars
<1>1. NothingMissing' /\ InputsHere' /\ OutputGrows'
  BY <1>0 DEF WriteInv, NothingMissing, InputsHere, OutputGrows
<1>2. OneHolder' /\ ReduceAfterMap' /\ DoneIsHere'
  BY <1>0 DEF WriteInv, OneHolder, ReduceAfterMap, DoneIsHere, allMapTasksDone
<1> QED BY <1>1, <1>2 DEF WriteInv

LEMMA InitWrites == Init => WriteInv
BY TaskFacts
   DEF Init, CoordInit, WorkerInit, WriteInv, NothingMissing, ReduceAfterMap,
       OneHolder, InputsHere, OutputGrows, DoneIsHere

LEMMA NextWrites ==
    ASSUME OneMachine
    PROVE  IndInv /\ WriteInv /\ [Next]_vars => WriteInv'
<1> SUFFICES ASSUME IndInv, WriteInv, [Next]_vars PROVE WriteInv'
  OBVIOUS
<1>1. ASSUME NEW w \in Workers, Rpc(w) PROVE WriteInv'
  <2>1. ~ReportMissing(w)
    BY DEF ReportMissing, WriteInv, NothingMissing
  <2>2. CASE CoordinatorGone(w)
    BY <2>2, StutterKeeps, DropWrites DEF CoordinatorGone, CallFails
  <2> QED BY <1>1, <2>1, <2>2, RequestTaskWrites, EncodeReplyWrites,
             ReportCompletionWrites DEF Rpc
<1>2. ASSUME NEW w \in Workers, Work(w) \/ Failure(w) PROVE WriteInv'
  BY <1>2, WorkWrites, FailureWrites
<1>3. ~ \E r \in late : HandleLate(r)
  BY DEF WriteInv, NothingMissing
<1>4. ASSUME NEW t \in Tasks, TimesOut(t) PROVE WriteInv'
  BY <1>4, TimesOutWrites
<1>5. CASE MainStep \/ Ended \/ UNCHANGED vars
  BY <1>5, MainWrites
<1> QED BY <1>1, <1>2, <1>3, <1>4, <1>5 DEF Next

\* On one machine, the strengthened invariant holds.
THEOREM OneMachineInvariant == OneMachine => (Spec => []WriteInv)
<1> SUFFICES ASSUME OneMachine PROVE Spec => []WriteInv
  OBVIOUS
<1>1. Init => WriteInv
  BY InitWrites
<1>2. IndInv /\ WriteInv /\ [Next]_vars => WriteInv'
  BY NextWrites
<1> QED BY <1>1, <1>2, SystemInvariant, PTL DEF Spec

LEMMA WrittenWhenDone == WriteInv => DoneIsWritten
BY WorkerAssumption DEF WriteInv, DoneIsHere, DoneIsWritten

\* On one machine, a reduce task counts as Done only when its output file is
\* complete: not truncated by a second execution, not from part of the maps.
THEOREM OneMachineDone == OneMachine => (Spec => []DoneIsWritten)
<1> SUFFICES ASSUME OneMachine PROVE Spec => []DoneIsWritten
  OBVIOUS
<1> QED BY WrittenWhenDone, OneMachineInvariant, PTL

\* On one machine, the outputs are those of a sequential run when the
\* coordinator has exited, which test-mr.sh relies on.
THEOREM OneMachineOutputs == OneMachine => (Spec => []OutputsCorrectAtExit)
<1> SUFFICES ASSUME OneMachine PROVE Spec => []OutputsCorrectAtExit
  OBVIOUS
<1>1. IndInv /\ WriteInv => OutputsCorrectAtExit
  BY WrittenWhenDone DEF DoneIsWritten, OutputsCorrectAtExit, IndInv, CoordInv,
                         DrainedIsReduced, allReduceTasksDone
<1> QED BY <1>1, SystemInvariant, OneMachineInvariant, PTL

\* On one machine, no output is touched after the coordinator has exited.
THEOREM OneMachineFinal == OneMachine => (Spec => OutputsFinal)
<1> SUFFICES ASSUME OneMachine PROVE Spec => OutputsFinal
  OBVIOUS
<1>1. ASSUME IndInv, WriteInv, [Next]_vars, main = "exited" PROVE out' = out
  <2>1. \A w \in Workers : task[w] \notin Buckets
    BY <1>1 DEF IndInv, CoordInv, DrainedIsReduced, allReduceTasksDone, WriteInv,
                OneHolder
  <2>2. \A w \in Workers : pc[w] \notin {"fetch", "write"}
    BY <1>1, <2>1 DEF IndInv, WorkerInv, WorkerTypeOK
  <2>3. ASSUME NEW w \in Workers, Work(w) PROVE out' = out
    BY <2>2, <2>3 DEF Work, WorkerStep, WriteBucket, Fetch, FetchHangs, FetchFails,
                      CreateOutput, AllFetched, WriteLine, WakeUp
  <2>4. ASSUME NEW w \in Workers, Rpc(w) PROVE out' = out
    BY <2>4 DEF Rpc, RequestTask, BeginMap, BeginReduce, BeginWait, EncodeReply,
                ReceiveReduce, ReportCompletion, ReportMissing, CoordinatorGone,
                CallFails
  <2>5. ASSUME NEW w \in Workers, Failure(w) PROVE out' = out
    BY <2>2, <2>5 DEF Failure, ReadInputFails, CallLost, CallFails, Collide,
                      FetchCallFails, FetchFails, FileError, TaskFails, LostLine,
                      WriteLine, Crash, Dies, StopWorker, Stops, AppCrash,
                      StartAgain, Restart
  <2>6. CASE \/ \E r \in late : HandleLate(r)
             \/ \E t \in Tasks : TimesOut(t)
             \/ MainStep \/ Ended \/ UNCHANGED vars
    BY <2>6 DEF HandleLate, TimesOut, MainStep, Ended, vars, workerVars
  <2> QED BY <1>1, <2>3, <2>4, <2>5, <2>6 DEF Next
<1>2. IndInv /\ WriteInv /\ [Next]_vars => (main = "exited" => out' = out)
  BY <1>1
<1> QED BY <1>2, SystemInvariant, OneMachineInvariant, PTL DEF Spec, OutputsFinal

-----------------------------------------------------------------------------
(* What the tasks compute.  The order of a sequence of pairs is the part   *)
(* that differs between the job and the sequential program, so the proof   *)
(* speaks of the set that a sequence lists: every pair comes from one      *)
(* origin, a place of a document (wc) or a word of it (indexer), and       *)
(* bucketing, gathering, sorting and grouping only rearrange origins.      *)
(* Recursive functions are reasoned about by a least counterexample.       *)

(* Sequences as listings of finite sets.                                   *)

\* g tells which member of S stands at each place of s, as v shows it.
Places(g, s, S, v) ==
    /\ g \in [1 .. Len(s) -> S]
    /\ \A m, n \in 1 .. Len(s) : g[m] = g[n] => m = n
    /\ \A x \in S : \E n \in 1 .. Len(s) : g[n] = x
    /\ \A n \in 1 .. Len(s) : s[n] = v[g[n]]

\* s has v[x] for each x in S, in some order.
Lists(s, S, v) == s \in Seq({v[x] : x \in S}) /\ \E g : Places(g, s, S, v)

IsTuple(s, n) == DOMAIN s = 1 .. n /\ s = [k \in 1 .. n |-> s[k]]

OnePlace(g, n, S) ==
    /\ g \in [1 .. n -> S]
    /\ \A k, m \in 1 .. n : g[k] = g[m] => k = m
    /\ \A x \in S : \E k \in 1 .. n : g[k] = x

\* How to show that a sequence lists a set.
LEMMA ListsMake ==
    ASSUME NEW n \in Nat, NEW S, NEW v, NEW g, NEW s, IsTuple(s, n),
           OnePlace(g, n, S), \A k \in 1 .. n : s[k] = v[g[k]]
    PROVE  Lists(s, S, v) /\ Len(s) = n
<1> DEFINE R == {v[x] : x \in S}
<1>1. \A k \in 1 .. n : s[k] \in R
  BY DEF OnePlace
<1> HIDE DEF R
<1>2. s \in [1 .. n -> R]
  BY <1>1 DEF IsTuple
<1>3. s \in Seq(R) /\ Len(s) = n
  BY <1>2
<1>4. Places(g, s, S, v)
  BY <1>3 DEF Places, OnePlace
<1> QED BY <1>3, <1>4 DEF Lists, R

LEMMA ListsLength ==
    ASSUME NEW s, NEW S, NEW v, Lists(s, S, v)
    PROVE  /\ Len(s) \in Nat /\ DOMAIN s = 1 .. Len(s)
           /\ s = [k \in 1 .. Len(s) |-> s[k]]
<1> DEFINE R == {v[x] : x \in S}
<1>1. s \in Seq(R)
  BY DEF Lists
<1> HIDE DEF R
<1> QED BY <1>1

LEMMA ListsEmpty == \A v : Lists(<<>>, {}, v)
<1> TAKE v
<1>1. 1 .. 0 = {}
  OBVIOUS
<1> DEFINE g == [k \in 1 .. 0 |-> 0]
<1>2. Places(g, <<>>, {}, v)
  BY <1>1 DEF Places
<1>3. <<>> \in Seq({v[x] : x \in {}})
  OBVIOUS
<1> QED BY <1>2, <1>3 DEF Lists

\* One sequence after the other.
LEMMA ListsConcat ==
    ASSUME NEW s, NEW t, NEW S, NEW T, NEW v, Lists(s, S, v), Lists(t, T, v),
           S \cap T = {}
    PROVE  Lists(s \o t, S \cup T, v)
<1> DEFINE m == Len(s)
           n == Len(t)
           Rs == {v[x] : x \in S}
           Rt == {v[x] : x \in T}
<1>1. PICK g : Places(g, s, S, v)
  BY DEF Lists
<1>2. PICK h : Places(h, t, T, v)
  BY DEF Lists
<1>3. s \in Seq(Rs) /\ t \in Seq(Rt)
  BY DEF Lists
<1> HIDE DEF Rs, Rt
<1>4. /\ m \in Nat /\ n \in Nat
      /\ \A k \in 1 .. m : (s \o t)[k] = s[k]
      /\ \A k \in 1 .. n : (s \o t)[m + k] = t[k]
      /\ DOMAIN (s \o t) = 1 .. m + n
      /\ s \o t = [k \in 1 .. m + n |-> (s \o t)[k]]
  <2> DEFINE R == Rs \cup Rt
  <2>1. s \in Seq(R) /\ t \in Seq(R)
    BY <1>3
  <2> HIDE DEF R
  <2>2. m \in Nat /\ n \in Nat /\ s \o t \in Seq(R) /\ Len(s \o t) = m + n
    BY <2>1
  <2>3. \A k \in 1 .. m : (s \o t)[k] = s[k]
    BY <2>1
  <2>4. \A k \in 1 .. n : (s \o t)[m + k] = t[k]
    BY <2>1
  <2> DEFINE u == s \o t
  <2> HIDE DEF m, n, u
  <2>5. DOMAIN u = 1 .. m + n /\ u = [k \in 1 .. m + n |-> u[k]]
    <3>1. u \in Seq(R) /\ Len(u) = m + n
      BY <2>2 DEF u
    <3> QED BY <2>2, <3>1
  <2> QED BY <2>2, <2>3, <2>4, <2>5 DEF u
<1> DEFINE u == s \o t
           f == [k \in 1 .. m + n |-> IF k <= m THEN g[k] ELSE h[k - m]]
<1>5. /\ g \in [1 .. m -> S] /\ h \in [1 .. n -> T]
      /\ \A i, k \in 1 .. m : g[i] = g[k] => i = k
      /\ \A i, k \in 1 .. n : h[i] = h[k] => i = k
      /\ \A x \in S : \E k \in 1 .. m : g[k] = x
      /\ \A x \in T : \E k \in 1 .. n : h[k] = x
      /\ \A k \in 1 .. m : s[k] = v[g[k]]
      /\ \A k \in 1 .. n : t[k] = v[h[k]]
  BY <1>1, <1>2 DEF Places
<1> HIDE DEF m, n, u
<1>6. ASSUME NEW k \in 1 .. m + n
      PROVE  \/ k \in 1 .. m /\ f[k] = g[k]
             \/ k - m \in 1 .. n /\ f[k] = h[k - m] /\ k = m + (k - m) /\ ~(k <= m)
  BY <1>4
<1>7. /\ \A k \in 1 .. m : k \in 1 .. m + n /\ f[k] = g[k]
      /\ \A k \in 1 .. n : m + k \in 1 .. m + n /\ f[m + k] = h[k]
  <2>1. ASSUME NEW k \in 1 .. m PROVE k \in 1 .. m + n /\ f[k] = g[k]
    BY <1>4
  <2>2. ASSUME NEW k \in 1 .. n PROVE m + k \in 1 .. m + n /\ f[m + k] = h[k]
    <3>1. m + k \in 1 .. m + n /\ ~(m + k <= m) /\ (m + k) - m = k
      BY <1>4
    <3> QED BY <3>1
  <2> QED BY <2>1, <2>2
<1>8. f = [k \in 1 .. m + n |-> f[k]]
  OBVIOUS
<1> HIDE DEF f
<1>9. f \in [1 .. m + n -> S \cup T]
  BY <1>5, <1>6, <1>8
<1>10. \A i, k \in 1 .. m + n : f[i] = f[k] => i = k
  <2>10. \A i, k \in 1 .. m : g[i] = g[k] => i = k
    BY <1>5
  <2>11. \A i, k \in 1 .. n : h[i] = h[k] => i = k
    BY <1>5
  <2> SUFFICES ASSUME NEW i \in 1 .. m + n, NEW k \in 1 .. m + n, f[i] = f[k]
               PROVE  i = k
    OBVIOUS
  <2>1. CASE i \in 1 .. m /\ f[i] = g[i]
    <3>1. f[i] \in S
      BY <1>5, <2>1
    <3>2. k \in 1 .. m /\ f[k] = g[k]
      BY <1>5, <1>6, <3>1
    <3>3. g[i] = g[k]
      BY <2>1, <3>2
    <3> QED BY <2>1, <2>10, <3>2, <3>3
  <2>2. CASE i - m \in 1 .. n /\ f[i] = h[i - m] /\ i = m + (i - m)
    <3>1. f[i] \in T
      BY <1>5, <2>2
    <3>2. k - m \in 1 .. n /\ f[k] = h[k - m] /\ k = m + (k - m)
      BY <1>5, <1>6, <3>1
    <3>3. h[i - m] = h[k - m]
      BY <2>2, <3>2
    <3>4. i - m = k - m
      BY <2>2, <2>11, <3>2, <3>3
    <3> QED BY <2>2, <3>2, <3>4
  <2> QED BY <1>6, <2>1, <2>2
<1>11. \A x \in S \cup T : \E k \in 1 .. m + n : f[k] = x
  BY <1>5, <1>7
<1>12. \A k \in 1 .. m + n : u[k] = v[f[k]]
  <2> SUFFICES ASSUME NEW k \in 1 .. m + n PROVE u[k] = v[f[k]]
    OBVIOUS
  <2>1. CASE k \in 1 .. m /\ f[k] = g[k]
    BY <1>4, <1>5, <2>1 DEF u
  <2>2. CASE k - m \in 1 .. n /\ f[k] = h[k - m] /\ k = m + (k - m)
    <3>1. u[m + (k - m)] = t[k - m]
      BY <1>4, <2>2 DEF u
    <3> QED BY <1>5, <2>2, <3>1
  <2> QED BY <1>6, <2>1, <2>2
<1>13. m + n \in Nat /\ DOMAIN u = 1 .. m + n /\ u = [k \in 1 .. m + n |-> u[k]]
  BY <1>4 DEF u
<1>14. OnePlace(f, m + n, S \cup T) /\ IsTuple(u, m + n)
  BY <1>9, <1>10, <1>11, <1>13 DEF OnePlace, IsTuple
<1> QED BY <1>12, <1>13, <1>14, ListsMake DEF u

\* The same sequence as a listing of another set.
LEMMA ListsRelabel ==
    ASSUME NEW s, NEW S, NEW v, NEW h, NEW w, Lists(s, S, v),
           \A x \in S : w[h[x]] = v[x],
           \A x, y \in S : h[x] = h[y] => x = y
    PROVE  Lists(s, {h[x] : x \in S}, w)
<1> DEFINE n == Len(s)
           T == {h[x] : x \in S}
<1>1. PICK g : Places(g, s, S, v)
  BY DEF Lists
<1>2. /\ g \in [1 .. n -> S] /\ \A i, k \in 1 .. n : g[i] = g[k] => i = k
      /\ \A x \in S : \E k \in 1 .. n : g[k] = x
      /\ \A k \in 1 .. n : s[k] = v[g[k]]
  BY <1>1 DEF Places
<1>3. n \in Nat /\ DOMAIN s = 1 .. n /\ s = [k \in 1 .. n |-> s[k]]
  BY ListsLength
<1> HIDE DEF n
<1> DEFINE f == [k \in 1 .. n |-> h[g[k]]]
<1>4. f \in [1 .. n -> T] /\ \A k \in 1 .. n : f[k] = h[g[k]]
  BY <1>2
<1>5. \A y \in T : \E x \in S : y = h[x]
  OBVIOUS
<1> HIDE DEF f, T
<1>6. \A i, k \in 1 .. n : f[i] = f[k] => i = k
  BY <1>2, <1>4
<1>7. \A y \in T : \E k \in 1 .. n : f[k] = y
  <2> SUFFICES ASSUME NEW y \in T PROVE \E k \in 1 .. n : f[k] = y
    OBVIOUS
  <2>1. PICK x \in S : y = h[x]
    BY <1>5
  <2>2. PICK k \in 1 .. n : g[k] = x
    BY <1>2
  <2> QED BY <1>4, <2>1, <2>2
<1>8. \A k \in 1 .. n : s[k] = w[f[k]]
  BY <1>2, <1>4
<1>9. OnePlace(f, n, T) /\ IsTuple(s, n)
  BY <1>3, <1>4, <1>6, <1>7 DEF OnePlace, IsTuple
<1>10. Lists(s, T, w)
  BY <1>3, <1>8, <1>9, ListsMake
<1> QED BY <1>10 DEF T

LEMMA ListsSelf ==
    ASSUME NEW n \in Nat, NEW s, IsTuple(s, n)
    PROVE  Lists(s, 1 .. n, s)
<1> DEFINE g == [k \in 1 .. n |-> k]
<1>1. g \in [1 .. n -> 1 .. n] /\ \A k \in 1 .. n : g[k] = k
  OBVIOUS
<1> HIDE DEF g
<1>2. OnePlace(g, n, 1 .. n) /\ \A k \in 1 .. n : s[k] = s[g[k]]
  BY <1>1 DEF OnePlace
<1> QED BY <1>2, ListsMake

\* All listings of a set have its size.
LEMMA ListsCount ==
    ASSUME NEW s, NEW S, NEW v, Lists(s, S, v)
    PROVE  IsFiniteSet(S) /\ Cardinality(S) = Len(s)
<1>1. PICK g : Places(g, s, S, v)
  BY DEF Lists
<1>2. Len(s) \in Nat
  BY ListsLength
<1>3. g \in Bijection(1 .. Len(s), S)
  BY <1>1 DEF Places, Bijection, Injection, Surjection, IsInjective
<1>4. IsFiniteSet(1 .. Len(s)) /\ Cardinality(1 .. Len(s)) = Len(s)
  <2> DEFINE n == Len(s)
  <2>1. n \in Nat
    BY <1>2
  <2> HIDE DEF n
  <2>2. IsFiniteSet(1 .. n) /\ Cardinality(1 .. n) = n
    BY <2>1, FS_Interval
  <2> QED BY <2>2 DEF n
<1>5. ExistsBijection(1 .. Len(s), S)
  BY <1>3 DEF ExistsBijection
<1> QED BY <1>4, <1>5, FS_Bijection

\* Any permutation of a listing is one.
LEMMA ListsPermuted ==
    ASSUME NEW s, NEW S, NEW v, Lists(s, S, v),
           NEW p \in Bijection(1 .. Len(s), 1 .. Len(s))
    PROVE  Lists([i \in 1 .. Len(s) |-> s[p[i]]], S, v)
<1> DEFINE n == Len(s)
           t == [i \in 1 .. n |-> s[p[i]]]
<1>1. PICK g : Places(g, s, S, v)
  BY DEF Lists
<1>2. /\ g \in [1 .. n -> S] /\ \A i, k \in 1 .. n : g[i] = g[k] => i = k
      /\ \A x \in S : \E k \in 1 .. n : g[k] = x
      /\ \A k \in 1 .. n : s[k] = v[g[k]]
  BY <1>1 DEF Places
<1>3. n \in Nat
  BY ListsLength
<1>4. /\ p \in [1 .. n -> 1 .. n] /\ \A i, k \in 1 .. n : p[i] = p[k] => i = k
      /\ \A x \in 1 .. n : \E k \in 1 .. n : p[k] = x
  BY DEF Bijection, Injection, Surjection, IsInjective
<1> HIDE DEF n
<1> DEFINE e == [i \in 1 .. n |-> g[p[i]]]
<1>5. e \in [1 .. n -> S] /\ \A i \in 1 .. n : e[i] = g[p[i]]
  BY <1>2, <1>4
<1>6. t = [i \in 1 .. n |-> t[i]] /\ DOMAIN t = 1 .. n /\ \A i \in 1 .. n : t[i] = s[p[i]]
  OBVIOUS
<1> HIDE DEF e, t
<1>7. \A i, k \in 1 .. n : e[i] = e[k] => i = k
  <2> SUFFICES ASSUME NEW i \in 1 .. n, NEW k \in 1 .. n, e[i] = e[k] PROVE i = k
    OBVIOUS
  <2>1. g[p[i]] = g[p[k]] /\ p[i] \in 1 .. n /\ p[k] \in 1 .. n
    BY <1>4, <1>5
  <2>2. p[i] = p[k]
    BY <1>2, <2>1
  <2> QED BY <1>4, <2>2
<1>8. \A x \in S : \E k \in 1 .. n : e[k] = x
  <2> SUFFICES ASSUME NEW x \in S PROVE \E k \in 1 .. n : e[k] = x
    OBVIOUS
  <2>1. PICK i \in 1 .. n : g[i] = x
    BY <1>2
  <2>2. PICK k \in 1 .. n : p[k] = i
    BY <1>4
  <2> QED BY <1>5, <2>1, <2>2
<1>9. \A i \in 1 .. n : t[i] = v[e[i]]
  BY <1>2, <1>4, <1>5, <1>6
<1>10. OnePlace(e, n, S) /\ IsTuple(t, n)
  BY <1>5, <1>6, <1>7, <1>8 DEF OnePlace, IsTuple
<1>11. Lists(t, S, v)
  BY <1>3, <1>9, <1>10, ListsMake
<1> QED BY <1>11 DEF t, n

\* The values of the pairs listed.
LEMMA ListsValues ==
    ASSUME NEW s, NEW S, NEW v, Lists(s, S, v)
    PROVE  Lists(Values(s), S, [x \in S |-> v[x].value])
<1> DEFINE n == Len(s)
           t == Values(s)
           w == [x \in S |-> v[x].value]
<1>1. PICK g : Places(g, s, S, v)
  BY DEF Lists
<1>2. /\ g \in [1 .. n -> S] /\ \A i, k \in 1 .. n : g[i] = g[k] => i = k
      /\ \A x \in S : \E k \in 1 .. n : g[k] = x
      /\ \A k \in 1 .. n : s[k] = v[g[k]]
  BY <1>1 DEF Places
<1>3. n \in Nat /\ DOMAIN s = 1 .. n
  BY ListsLength
<1>4. /\ t = [i \in 1 .. n |-> t[i]] /\ DOMAIN t = 1 .. n
      /\ \A i \in 1 .. n : t[i] = s[i].value
  BY <1>3 DEF Values
<1>5. \A x \in S : w[x] = v[x].value
  OBVIOUS
<1> HIDE DEF n, t, w
<1>6. \A i \in 1 .. n : t[i] = w[g[i]]
  BY <1>2, <1>4, <1>5
<1>7. OnePlace(g, n, S) /\ IsTuple(t, n)
  BY <1>2, <1>4 DEF OnePlace, IsTuple
<1>8. Lists(t, S, w)
  BY <1>3, <1>6, <1>7, ListsMake
<1> QED BY <1>8 DEF t, w

\* One more element.
LEMMA ListsAppend ==
    ASSUME NEW s, NEW S, NEW v, Lists(s, S, v), NEW x, x \notin S
    PROVE  Lists(Append(s, v[x]), S \cup {x}, v)
<1> DEFINE t == <<v[x]>>
           g == [k \in 1 .. 1 |-> x]
<1>1. t = [k \in 1 .. 1 |-> v[x]]
  OBVIOUS
<1>2. IsTuple(t, 1) /\ OnePlace(g, 1, {x}) /\ \A k \in 1 .. 1 : t[k] = v[g[k]]
  <2>1. 1 .. 1 = {1} /\ t[1] = v[x] /\ g[1] = x /\ DOMAIN t = {1}
    OBVIOUS
  <2> QED BY <1>1, <2>1 DEF IsTuple, OnePlace
<1> HIDE DEF t, g
<1>3. Lists(t, {x}, v)
  BY <1>2, ListsMake
<1>4. Lists(s \o t, S \cup {x}, v)
  BY <1>3, ListsConcat
<1>5. s \o t = Append(s, v[x])
  <2> DEFINE R == {v[y] : y \in S}
  <2>1. s \in Seq(R)
    BY DEF Lists
  <2> HIDE DEF R
  <2> QED BY <2>1 DEF t
<1> QED BY <1>4, <1>5

LEMMA TupleLength ==
    ASSUME NEW n \in Nat, NEW s, IsTuple(s, n)
    PROVE  Len(s) = n /\ DOMAIN s = 1 .. n /\ s \in Seq({s[k] : k \in 1 .. n})
<1> DEFINE R == {s[k] : k \in 1 .. n}
<1>1. \A k \in 1 .. n : s[k] \in R
  OBVIOUS
<1> HIDE DEF R
<1>2. s \in [1 .. n -> R]
  BY <1>1 DEF IsTuple
<1>3. s \in Seq(R) /\ Len(s) = n /\ DOMAIN s = 1 .. n
  BY <1>2
<1> QED BY <1>3 DEF R

LEMMA ListsTuple ==
    ASSUME NEW s, NEW S, NEW v, Lists(s, S, v)
    PROVE  Len(s) \in Nat /\ IsTuple(s, Len(s)) /\ DOMAIN s = 1 .. Len(s)
BY ListsLength DEF IsTuple

\* Any set of natural numbers has a minimum.
LEMMA NatMin ==
    ASSUME NEW T \in SUBSET Nat, T # {}
    PROVE  \E x \in T : \A y \in T : x <= y
<1>1. PICK x \in T : \A y \in T : ~(<<y, x>> \in OpToRel(<, Nat))
  BY WFMin, NatLessThanWellFounded
<1>2. \A y \in T : ~(y < x)
  BY <1>1 DEF OpToRel
<1> QED BY <1>2

-----------------------------------------------------------------------------
(* Keep.                                                                   *)

\* What the loop has kept after each turn.
IsKept(w, s, K) ==
    w = [n \in 0 .. Len(s) |->
           IF n = 0 THEN <<>>
           ELSE IF s[n].key \in K THEN Append(w[n - 1], s[n]) ELSE w[n - 1]]
KeptOf(s, K) == CHOOSE w : IsKept(w, s, K)

LEMMA KeepKept ==
    ASSUME NEW s, NEW K
    PROVE  Keep(s, K) = KeptOf(s, K)[Len(s)]
BY DEF Keep, KeptOf, IsKept

Turn(w, s, K, n) == IF s[n].key \in K THEN Append(w, s[n]) ELSE w

KeptUpto(w, s, K, n) ==
    w[0] = <<>> /\ \A k \in 1 .. n : w[k] = Turn(w[k - 1], s, K, k)

\* The recursive function of Keep exists.
LEMMA KeptExists ==
    ASSUME NEW s, NEW K, Len(s) \in Nat
    PROVE  \E w : IsKept(w, s, K)
<1> DEFINE T == {n \in Nat : ~\E w : KeptUpto(w, s, K, n)}
<1>1. T = {}
  <2> SUFFICES ASSUME T # {} PROVE FALSE
    OBVIOUS
  <2>1. PICK n \in T : \A m \in T : n <= m
    BY NatMin
  <2>2. n \in Nat
    BY <2>1
  <2>3. n # 0
    <3> DEFINE w == [k \in {0} |-> <<>>]
    <3>1. KeptUpto(w, s, K, 0)
      BY DEF KeptUpto
    <3> HIDE DEF w
    <3> QED BY <2>1, <3>1
  <2>4. n - 1 \in Nat /\ n - 1 \notin T
    <3>1. n - 1 \in T => n <= n - 1
      BY <2>1
    <3> QED BY <2>2, <2>3, <3>1
  <2>5. PICK v : KeptUpto(v, s, K, n - 1)
    BY <2>4
  <2> DEFINE new == Turn(v[n - 1], s, K, n)
             w == [k \in 0 .. n |-> IF k = n THEN new ELSE v[k]]
  <2>6. KeptUpto(w, s, K, n)
    <3>1. w[0] = <<>>
      <4>1. 0 \in 0 .. n /\ 0 # n
        BY <2>2, <2>3
      <4>2. w[0] = v[0]
        BY <4>1
      <4> HIDE DEF w
      <4> QED BY <2>5, <4>2 DEF KeptUpto
    <3>2. ASSUME NEW k \in 1 .. n PROVE w[k] = Turn(w[k - 1], s, K, k)
      <4>1. w[k - 1] = v[k - 1]
        BY <2>2
      <4>2. CASE k = n
        <5>1. w[k] = new
          BY <4>2
        <5> HIDE DEF w
        <5> QED BY <4>1, <4>2, <5>1
      <4>3. CASE k # n
        <5>1. k \in 1 .. n - 1
          BY <2>2, <4>3
        <5>2. w[k] = v[k]
          BY <4>3
        <5> HIDE DEF w
        <5> QED BY <2>5, <4>1, <5>1, <5>2 DEF KeptUpto
      <4> QED BY <4>2, <4>3
    <3> HIDE DEF w
    <3> QED BY <3>1, <3>2 DEF KeptUpto
  <2> HIDE DEF w
  <2> QED BY <2>1, <2>6
<1>2. PICK v : KeptUpto(v, s, K, Len(s))
  BY <1>1
<1> DEFINE w == [k \in 0 .. Len(s) |-> v[k]]
<1>3. ASSUME NEW k \in 0 .. Len(s)
      PROVE  w[k] = IF k = 0 THEN <<>>
                    ELSE IF s[k].key \in K THEN Append(w[k - 1], s[k]) ELSE w[k - 1]
  <2>1. CASE k = 0
    BY <1>2, <2>1 DEF KeptUpto
  <2>2. CASE k # 0
    <3>1. k \in 1 .. Len(s) /\ k - 1 \in 0 .. Len(s)
      BY <2>2
    <3>2. w[k] = v[k] /\ w[k - 1] = v[k - 1]
      BY <3>1
    <3> HIDE DEF w
    <3> QED BY <1>2, <2>2, <3>1, <3>2 DEF KeptUpto, Turn
  <2> QED BY <2>1, <2>2
<1>4. IsKept(w, s, K)
  BY <1>3 DEF IsKept
<1> QED BY <1>4

LEMMA KeptSteps ==
    ASSUME NEW s, NEW K, Len(s) \in Nat
    PROVE  KeptUpto(KeptOf(s, K), s, K, Len(s))
<1> DEFINE w == KeptOf(s, K)
<1>1. IsKept(w, s, K)
  BY KeptExists DEF KeptOf
<1> HIDE DEF w
<1>2. w[0] = <<>>
  BY <1>1 DEF IsKept
<1>3. ASSUME NEW k \in 1 .. Len(s) PROVE w[k] = Turn(w[k - 1], s, K, k)
  <2>1. k \in 0 .. Len(s) /\ k # 0
    OBVIOUS
  <2> QED BY <1>1, <2>1 DEF IsKept, Turn
<1>4. KeptUpto(w, s, K, Len(s))
  BY <1>2, <1>3 DEF KeptUpto
<1> QED BY <1>4 DEF w

\* Keep keeps the places with a key in K.
LEMMA KeepPlaces ==
    ASSUME NEW n \in Nat, NEW s, IsTuple(s, n), NEW K
    PROVE  Lists(Keep(s, K), {i \in 1 .. n : s[i].key \in K}, s)
<1> DEFINE w == KeptOf(s, K)
           P(k) == {i \in 1 .. k : s[i].key \in K}
           T == {k \in 0 .. n : ~Lists(w[k], P(k), s)}
<1>1. Len(s) = n
  BY TupleLength
<1>2. w[0] = <<>> /\ \A k \in 1 .. n : w[k] = Turn(w[k - 1], s, K, k)
  BY <1>1, KeptSteps DEF KeptUpto
<1> HIDE DEF w
<1>3. T = {}
  <2> SUFFICES ASSUME T # {} PROVE FALSE
    OBVIOUS
  <2>1. T \in SUBSET Nat
    OBVIOUS
  <2>2. PICK k \in T : \A m \in T : k <= m
    <3> HIDE DEF T
    <3> QED BY <2>1, NatMin
  <2>3. k \in 0 .. n /\ k \in Nat /\ ~Lists(w[k], P(k), s)
    BY <2>2
  <2>4. k # 0
    <3>1. ASSUME k = 0 PROVE FALSE
      <4>1. P(k) = {}
        BY <3>1
      <4> HIDE DEF P, T
      <4> QED BY <1>2, <2>3, <3>1, <4>1, ListsEmpty
    <3> QED BY <3>1
  <2>5. k - 1 \in 0 .. n /\ k \in 1 .. n /\ k - 1 \in Nat
    BY <2>3, <2>4
  <2>6. k - 1 \notin T
    <3>1. k - 1 \in T => k <= k - 1
      BY <2>2
    <3> QED BY <2>3, <3>1
  <2>7. Lists(w[k - 1], P(k - 1), s)
    BY <2>5, <2>6
  <2>8. CASE s[k].key \in K
    <3>1. P(k) = P(k - 1) \cup {k} /\ k \notin P(k - 1)
      BY <2>3, <2>5, <2>8
    <3>2. w[k] = Append(w[k - 1], s[k])
      BY <1>2, <2>5, <2>8 DEF Turn
    <3> HIDE DEF P, T
    <3>3. Lists(Append(w[k - 1], s[k]), P(k - 1) \cup {k}, s)
      BY <2>7, <3>1, ListsAppend
    <3> QED BY <2>3, <3>1, <3>2, <3>3
  <2>9. CASE s[k].key \notin K
    <3>1. P(k) = P(k - 1)
      BY <2>3, <2>5, <2>9
    <3>2. w[k] = w[k - 1]
      BY <1>2, <2>5, <2>9 DEF Turn
    <3> HIDE DEF P, T
    <3> QED BY <2>3, <2>7, <3>1, <3>2
  <2> QED BY <2>8, <2>9
<1>4. n \in 0 .. n
  OBVIOUS
<1>5. Lists(w[n], P(n), s)
  BY <1>3, <1>4
<1> QED BY <1>1, <1>5, KeepKept DEF w

\* ... so of a listing it lists what has one of the keys.
LEMMA KeepLists ==
    ASSUME NEW s, NEW S, NEW v, Lists(s, S, v), NEW K
    PROVE  Lists(Keep(s, K), {x \in S : v[x].key \in K}, v)
<1> DEFINE n == Len(s)
           P == {i \in 1 .. n : s[i].key \in K}
<1>1. PICK g : Places(g, s, S, v)
  BY DEF Lists
<1>2. /\ g \in [1 .. n -> S] /\ \A i, k \in 1 .. n : g[i] = g[k] => i = k
      /\ \A x \in S : \E k \in 1 .. n : g[k] = x
      /\ \A k \in 1 .. n : s[k] = v[g[k]]
  BY <1>1 DEF Places
<1>3. n \in Nat /\ IsTuple(s, n)
  BY ListsTuple
<1> HIDE DEF n
<1>4. Lists(Keep(s, K), P, s)
  BY <1>3, KeepPlaces
<1>5. /\ \A i \in P : v[g[i]] = s[i]
      /\ \A i, k \in P : g[i] = g[k] => i = k
  BY <1>2
<1>6. {g[i] : i \in P} = {x \in S : v[x].key \in K}
  BY <1>2
<1> HIDE DEF P
<1>7. Lists(Keep(s, K), {g[i] : i \in P}, v)
  BY <1>4, <1>5, ListsRelabel
<1> QED BY <1>6, <1>7

-----------------------------------------------------------------------------
(* Sorting.                                                                *)

Ascends(h, n, r) == \A i, k \in 1 .. n : i < k => r[h[i]] <= r[h[k]]

\* A finite set can be listed in the order of any ranks: the first is one of
\* the least rank, the others follow in order.
LEMMA AscendingExists ==
    ASSUME NEW n \in Nat, NEW r, \A k \in 1 .. n : r[k] \in Nat,
           NEW m \in Nat, NEW S \in SUBSET (1 .. n), Cardinality(S) = m
    PROVE  \E h : OnePlace(h, m, S) /\ Ascends(h, m, r)
<1> DEFINE Good(q) == \A U \in SUBSET (1 .. n) :
                         Cardinality(U) = q => \E h : OnePlace(h, q, U) /\ Ascends(h, q, r)
           T == {q \in Nat : ~Good(q)}
<1>1. \A U \in SUBSET (1 .. n) : IsFiniteSet(U)
  <2>1. IsFiniteSet(1 .. n)
    BY FS_Interval
  <2> QED BY <2>1, FS_Subset
<1>2. T = {}
  <2> SUFFICES ASSUME T # {} PROVE FALSE
    OBVIOUS
  <2>1. T \in SUBSET Nat
    OBVIOUS
  <2>2. PICK q \in T : \A j \in T : q <= j
    <3> HIDE DEF T
    <3> QED BY <2>1, NatMin
  <2>3. q \in Nat /\ ~Good(q)
    BY <2>2
  <2>4. PICK U \in SUBSET (1 .. n) :
           Cardinality(U) = q /\ ~\E h : OnePlace(h, q, U) /\ Ascends(h, q, r)
    BY <2>3
  <2>5. q # 0
    <3>1. ASSUME q = 0 PROVE FALSE
      <4> DEFINE h == [k \in 1 .. 0 |-> 0]
      <4>1. U = {}
        BY <1>1, <2>4, <3>1, FS_EmptySet
      <4>2. OnePlace(h, 0, {}) /\ Ascends(h, 0, r)
        BY DEF OnePlace, Ascends
      <4> HIDE DEF h
      <4> QED BY <2>4, <3>1, <4>1, <4>2
    <3> QED BY <3>1
  <2>6. q - 1 \in Nat /\ Good(q - 1)
    <3>1. q - 1 \in T => q <= q - 1
      BY <2>2
    <3>2. q - 1 \in Nat /\ q - 1 \notin T
      BY <2>3, <2>5, <3>1
    <3> QED BY <3>2
  <2> HIDE DEF T, Good
  <2>7. U # {}
    BY <2>4, <2>5, FS_EmptySet
  <2> DEFINE Ranks == {r[x] : x \in U}
  <2>8. Ranks \in SUBSET Nat /\ Ranks # {}
    BY <2>7
  <2>9. PICK c \in Ranks : \A d \in Ranks : c <= d
    <3> HIDE DEF Ranks
    <3> QED BY <2>8, NatMin
  <2>10. PICK x \in U : r[x] = c
    BY <2>9
  <2>11. \A y \in U : r[x] <= r[y]
    BY <2>9, <2>10
  <2> HIDE DEF Ranks
  <2>12. U \ {x} \in SUBSET (1 .. n) /\ Cardinality(U \ {x}) = q - 1
    BY <1>1, <2>4, FS_RemoveElement
  <2>13. PICK h : OnePlace(h, q - 1, U \ {x}) /\ Ascends(h, q - 1, r)
    BY <2>6, <2>12 DEF Good
  <2> DEFINE e == [k \in 1 .. q |-> IF k = 1 THEN x ELSE h[k - 1]]
  <2>14. /\ h \in [1 .. q - 1 -> U \ {x}]
         /\ \A i, k \in 1 .. q - 1 : h[i] = h[k] => i = k
         /\ \A y \in U \ {x} : \E k \in 1 .. q - 1 : h[k] = y
         /\ \A i, k \in 1 .. q - 1 : i < k => r[h[i]] <= r[h[k]]
    BY <2>13 DEF OnePlace, Ascends
  <2>15. 1 \in 1 .. q /\ \A k \in 1 .. q : k # 1 => k - 1 \in 1 .. q - 1
    BY <2>3, <2>5
  <2>16. e = [k \in 1 .. q |-> e[k]] /\ DOMAIN e = 1 .. q
    OBVIOUS
  <2>17. e[1] = x /\ \A k \in 1 .. q : k # 1 => e[k] = h[k - 1]
    BY <2>15
  <2> HIDE DEF e
  <2>18. \A k \in 1 .. q : e[k] \in U /\ (k # 1 => e[k] \in U \ {x})
    BY <2>14, <2>15, <2>17
  <2>19. e \in [1 .. q -> U]
    BY <2>16, <2>18
  <2>20. \A i, k \in 1 .. q : e[i] = e[k] => i = k
    <3> SUFFICES ASSUME NEW i \in 1 .. q, NEW k \in 1 .. q, e[i] = e[k] PROVE i = k
      OBVIOUS
    <3>1. CASE i = 1 \/ k = 1
      BY <2>17, <2>18, <3>1
    <3>2. CASE i # 1 /\ k # 1
      <4>1. h[i - 1] = h[k - 1] /\ i - 1 \in 1 .. q - 1 /\ k - 1 \in 1 .. q - 1
        BY <2>15, <2>17, <3>2
      <4>2. i - 1 = k - 1
        BY <2>14, <4>1
      <4> QED BY <4>2
    <3> QED BY <3>1, <3>2
  <2>21. \A y \in U : \E k \in 1 .. q : e[k] = y
    <3> SUFFICES ASSUME NEW y \in U, y # x PROVE \E k \in 1 .. q : e[k] = y
      BY <2>15, <2>17
    <3>1. PICK k \in 1 .. q - 1 : h[k] = y
      BY <2>14
    <3>2. k + 1 \in 1 .. q /\ k + 1 # 1 /\ (k + 1) - 1 = k
      BY <2>3
    <3>3. e[k + 1] = y
      BY <2>17, <3>1, <3>2
    <3> QED BY <3>2, <3>3
  <2>22. \A i, k \in 1 .. q : i < k => r[e[i]] <= r[e[k]]
    <3> SUFFICES ASSUME NEW i \in 1 .. q, NEW k \in 1 .. q, i < k
                 PROVE  r[e[i]] <= r[e[k]]
      OBVIOUS
    <3>1. CASE i = 1
      BY <2>11, <2>17, <2>18, <3>1
    <3>2. CASE i # 1
      <4>1. k # 1 /\ i - 1 \in 1 .. q - 1 /\ k - 1 \in 1 .. q - 1 /\ i - 1 < k - 1
        BY <2>15, <3>2
      <4>2. e[i] = h[i - 1] /\ e[k] = h[k - 1]
        BY <2>17, <3>2, <4>1
      <4> QED BY <2>14, <4>1, <4>2
    <3> QED BY <3>1, <3>2
  <2>23. OnePlace(e, q, U) /\ Ascends(e, q, r)
    BY <2>19, <2>20, <2>21, <2>22 DEF OnePlace, Ascends
  <2> QED BY <2>4, <2>23
<1>3. Good(m)
  BY <1>2
<1> QED BY <1>3

\* SortBy: the same elements, in the order of their ranks.
LEMMA SortLists ==
    ASSUME NEW s, NEW S, NEW v, Lists(s, S, v),
           NEW r, \A k \in 1 .. Len(s) : r[k] \in Nat
    PROVE  /\ Lists(SortBy(s, r), S, v) /\ Len(SortBy(s, r)) = Len(s)
           /\ \E p \in Bijection(1 .. Len(s), 1 .. Len(s)) :
                 /\ \A i \in 1 .. Len(s) : SortBy(s, r)[i] = s[p[i]]
                 /\ \A i, k \in 1 .. Len(s) : i < k => r[p[i]] <= r[p[k]]
<1> DEFINE n == Len(s)
           InOrder(p) == \A i, j \in 1 .. n : i < j => r[p[i]] <= r[p[j]]
           q == CHOOSE p \in Bijection(1 .. n, 1 .. n) : InOrder(p)
           t == [i \in 1 .. n |-> s[q[i]]]
<1>1. n \in Nat /\ DOMAIN s = 1 .. n
  BY ListsTuple
<1>2. SortBy(s, r) = t
  BY <1>1 DEF SortBy
<1> HIDE DEF n
<1>3. \E p \in Bijection(1 .. n, 1 .. n) : InOrder(p)
  <2>1. IsFiniteSet(1 .. n) /\ Cardinality(1 .. n) = n
    BY <1>1, FS_Interval
  <2>2. \A k \in 1 .. n : r[k] \in Nat
    BY DEF n
  <2>3. PICK h : OnePlace(h, n, 1 .. n) /\ Ascends(h, n, r)
    BY <1>1, <2>1, <2>2, AscendingExists
  <2>4. h \in Bijection(1 .. n, 1 .. n)
    BY <2>3 DEF OnePlace, Bijection, Injection, Surjection, IsInjective
  <2> QED BY <2>3, <2>4 DEF Ascends
<1> HIDE DEF InOrder
<1>4. q \in Bijection(1 .. n, 1 .. n) /\ InOrder(q)
  BY <1>3
<1> HIDE DEF q
<1>5. Lists(t, S, v)
  BY <1>4, ListsPermuted DEF n
<1>6. Len(t) = n /\ \A i \in 1 .. n : t[i] = s[q[i]]
  <2>1. DOMAIN t = 1 .. n /\ t = [k \in 1 .. n |-> t[k]]
    OBVIOUS
  <2>2. \A i \in 1 .. n : t[i] = s[q[i]]
    OBVIOUS
  <2> HIDE DEF t
  <2> QED BY <1>1, <2>1, <2>2, TupleLength DEF IsTuple
<1> QED BY <1>2, <1>4, <1>5, <1>6 DEF n, InOrder

LEMMA IntervalSize == \A q \in Nat : IsFiniteSet(1 .. q) /\ Cardinality(1 .. q) = q
<1> TAKE q \in Nat
<1> QED BY FS_Interval

\* No element of one sorted listing comes before its place in another: the
\* k elements up to it would have fewer than k places there.
LEMMA SortedBelow ==
    ASSUME NEW s, NEW t, NEW S, NEW v, Lists(s, S, v), Lists(t, S, v),
           \A x \in S : v[x] \in Nat,
           \A i, k \in 1 .. Len(s) : i < k => s[i] <= s[k],
           \A i, k \in 1 .. Len(t) : i < k => t[i] <= t[k],
           NEW k \in 1 .. Len(s), k \in 1 .. Len(t)
    PROVE  ~(s[k] < t[k])
<1> SUFFICES ASSUME s[k] < t[k] PROVE FALSE
  OBVIOUS
<1> DEFINE n == Len(s)
           m == Len(t)
<1>1. n \in Nat /\ m \in Nat
  BY ListsTuple
<1>2. PICK g : Places(g, s, S, v)
  BY DEF Lists
<1>3. PICK h : Places(h, t, S, v)
  BY DEF Lists
<1>4. /\ g \in [1 .. n -> S] /\ \A i, j \in 1 .. n : g[i] = g[j] => i = j
      /\ \A j \in 1 .. n : s[j] = v[g[j]]
  BY <1>2 DEF Places
<1>5. /\ \A x \in S : \E j \in 1 .. m : h[j] = x
      /\ \A j \in 1 .. m : t[j] = v[h[j]] /\ h[j] \in S
  BY <1>3 DEF Places
<1>6. k \in 1 .. n /\ k \in 1 .. m
  OBVIOUS
<1>7. \A i, j \in 1 .. n : i < j => s[i] <= s[j]
  OBVIOUS
<1>8. \A i, j \in 1 .. m : i < j => t[i] <= t[j]
  OBVIOUS
<1> HIDE DEF n, m
<1> DEFINE f == [i \in 1 .. k |-> CHOOSE j \in 1 .. m : h[j] = g[i]]
<1>9. ASSUME NEW i \in 1 .. k
      PROVE  f[i] \in 1 .. k - 1 /\ h[f[i]] = g[i] /\ i \in 1 .. n
  <2>1. i \in 1 .. n
    BY <1>1, <1>6
  <2>2. g[i] \in S
    BY <1>4, <2>1
  <2>3. f[i] \in 1 .. m /\ h[f[i]] = g[i]
    BY <1>5, <2>2
  <2> HIDE DEF f
  <2>4. t[f[i]] = s[i]
    BY <1>4, <1>5, <2>1, <2>3
  <2>5. s[i] \in Nat /\ s[k] \in Nat /\ t[k] \in Nat
    BY <1>4, <1>5, <1>6, <2>1
  <2>6. s[i] <= s[k]
    BY <1>6, <1>7, <2>1, <2>5
  <2>7. ~(k < f[i]) /\ k # f[i]
    BY <1>6, <1>8, <2>3, <2>4, <2>5, <2>6
  <2>8. f[i] \in 1 .. k - 1
    BY <1>1, <1>6, <2>3, <2>7
  <2> QED BY <2>1, <2>3, <2>8
<1>10. f \in [1 .. k -> 1 .. k - 1]
  BY <1>9
<1> HIDE DEF f
<1>11. \A i, j \in 1 .. k : f[i] = f[j] => i = j
  BY <1>4, <1>9
<1>12. f \in Injection(1 .. k, 1 .. k - 1)
  BY <1>10, <1>11 DEF Injection, IsInjective
<1>13. k \in Nat /\ k >= 1 /\ k - 1 \in Nat
  BY <1>6
<1>14. /\ IsFiniteSet(1 .. k) /\ Cardinality(1 .. k) = k
       /\ IsFiniteSet(1 .. k - 1) /\ Cardinality(1 .. k - 1) = k - 1
  BY <1>13, IntervalSize
<1>15. Cardinality(1 .. k) <= Cardinality(1 .. k - 1)
  BY <1>12, <1>14, FS_Injection DEF ExistsInjection
<1> QED BY <1>13, <1>14, <1>15

\* So two sorted listings of the same numbers are equal.
LEMMA SortedSame ==
    ASSUME NEW s, NEW t, NEW S, NEW v, Lists(s, S, v), Lists(t, S, v),
           \A x \in S : v[x] \in Nat,
           \A i, k \in 1 .. Len(s) : i < k => s[i] <= s[k],
           \A i, k \in 1 .. Len(t) : i < k => t[i] <= t[k]
    PROVE  s = t
<1>1. Len(s) = Len(t)
  BY ListsCount
<1>2. ASSUME NEW k \in 1 .. Len(s) PROVE s[k] = t[k]
  <2>1. ~(s[k] < t[k])
    BY <1>1, SortedBelow
  <2>2. ~(t[k] < s[k])
    BY <1>1, SortedBelow
  <2>3. PICK g : Places(g, s, S, v)
    BY DEF Lists
  <2>4. PICK h : Places(h, t, S, v)
    BY DEF Lists
  <2>5. s[k] \in Nat
    BY <2>3 DEF Places
  <2>6. t[k] \in Nat
    BY <1>1, <2>4 DEF Places
  <2> QED BY <2>1, <2>2, <2>5, <2>6
<1>3. s = [k \in 1 .. Len(s) |-> s[k]] /\ t = [k \in 1 .. Len(t) |-> t[k]]
  BY ListsLength
<1> QED BY <1>1, <1>2, <1>3

\* Reduce does not depend on the order of the values.
LEMMA ReduceSame ==
    ASSUME NEW s, NEW t, NEW S, NEW v, Lists(s, S, v), Lists(t, S, v),
           \A x \in S : v[x] \in Nat
    PROVE  Reduce(s) = Reduce(t)
<1>1. Len(s) = Len(t)
  BY ListsCount
<1>2. ASSUME NEW u, Lists(u, S, v)
      PROVE  /\ Lists(SortBy(u, u), S, v)
             /\ \A i, k \in 1 .. Len(SortBy(u, u)) :
                   i < k => SortBy(u, u)[i] <= SortBy(u, u)[k]
  <2>1. PICK g : Places(g, u, S, v)
    BY <1>2 DEF Lists
  <2>2. \A k \in 1 .. Len(u) : u[k] \in Nat
    BY <2>1 DEF Places
  <2> DEFINE w == SortBy(u, u)
  <2>3. /\ Lists(w, S, v) /\ Len(w) = Len(u)
        /\ \E p \in Bijection(1 .. Len(u), 1 .. Len(u)) :
              /\ \A i \in 1 .. Len(u) : w[i] = u[p[i]]
              /\ \A i, k \in 1 .. Len(u) : i < k => u[p[i]] <= u[p[k]]
    BY <1>2, <2>2, SortLists
  <2> HIDE DEF w
  <2>4. \A i, k \in 1 .. Len(w) : i < k => w[i] <= w[k]
    BY <2>3
  <2> QED BY <2>3, <2>4 DEF w
<1>3. SortBy(s, s) = SortBy(t, t)
  BY <1>2, SortedSame
<1> QED BY <1>1, <1>3 DEF Reduce, ReduceWc, ReduceIndexer

-----------------------------------------------------------------------------
(* Sets as sequences.                                                      *)

\* SetToSeqs and SetToSeq list each member once.
LEMMA DistinctSeqs ==
    ASSUME NEW S, IsFiniteSet(S)
    PROVE  /\ Cardinality(S) \in Nat
           /\ \A f \in SetToSeqs(S) : OnePlace(f, Cardinality(S), S)
           /\ SetToSeq(S) \in SetToSeqs(S)
<1> DEFINE n == Cardinality(S)
<1>1. n \in Nat /\ ExistsBijection(1 .. n, S)
  BY FS_CardinalityType
<1>2. IsFiniteSet(1 .. n) /\ Cardinality(1 .. n) = n
  <2> HIDE DEF n
  <2> QED BY <1>1, FS_Interval
<1>3. PICK h : h \in Bijection(1 .. n, S)
  BY <1>1 DEF ExistsBijection
<1>4. h \in [1 .. n -> S] /\ IsInjective(h)
  BY <1>3 DEF Bijection, Injection
<1>5. SetToSeq(S) \in [1 .. n -> S] /\ IsInjective(SetToSeq(S))
  BY <1>4 DEF SetToSeq
<1>6. SetToSeq(S) \in SetToSeqs(S)
  BY <1>5 DEF SetToSeqs, IsInjective
<1>7. ASSUME NEW f \in SetToSeqs(S) PROVE OnePlace(f, n, S)
  <2>1. f \in [1 .. n -> S] /\ \A i, k \in 1 .. n : f[i] = f[k] => i = k
    BY DEF SetToSeqs
  <2>2. f \in Injection(1 .. n, S)
    BY <2>1 DEF Injection, IsInjective
  <2>3. f \in Surjection(1 .. n, S)
    BY <1>2, <2>2, FS_Injection
  <2> QED BY <2>1, <2>3 DEF OnePlace, Surjection
<1> QED BY <1>1, <1>6, <1>7

-----------------------------------------------------------------------------
(* The pairs that Map makes, and where each comes from.                    *)

Inputs ==
    /\ app \in {"wc", "indexer"}
    /\ contents \in [Documents -> BoundedSeq(Keys, MaxWords)]
    /\ hash \in [Keys -> HashOf]

\* wc makes a pair for each place of the document, indexer for each word.
Marks(d) == IF app = "wc" THEN DOMAIN contents[d] ELSE ToSet(contents[d])
Origins(d) == {<<d, x>> : x \in Marks(d)}
OriginsOf(D) == UNION {Origins(d) : d \in D}
PairFrom(o) == IF app = "wc" THEN Pair(contents[o[1]][o[2]], 1) ELSE Pair(o[2], o[1])
Shown == [o \in OriginsOf(Documents) |-> PairFrom(o)]

LEMMA Words ==
    ASSUME Inputs, NEW d \in Documents
    PROVE  /\ Len(contents[d]) \in Nat /\ DOMAIN contents[d] = 1 .. Len(contents[d])
           /\ \A i \in DOMAIN contents[d] : contents[d][i] \in Keys
           /\ IsFiniteSet(ToSet(contents[d])) /\ ToSet(contents[d]) \subseteq Keys
<1> DEFINE c == contents[d]
<1>1. PICK n \in 0 .. MaxWords : c \in [1 .. n -> Keys]
  BY DEF Inputs, BoundedSeq, SeqOf
<1>2. n \in Nat
  BY <1>1
<1> HIDE DEF c
<1>3. Len(c) = n /\ DOMAIN c = 1 .. n
  BY <1>1, <1>2
<1>4. IsFiniteSet(1 .. n)
  BY <1>2, FS_Interval
<1>5. c \in Surjection(1 .. n, ToSet(c))
  BY <1>1 DEF Surjection, ToSet
<1>6. IsFiniteSet(ToSet(c))
  BY <1>4, <1>5, FS_Surjection
<1>7. ToSet(c) \subseteq Keys
  BY <1>1 DEF ToSet
<1> QED BY <1>1, <1>2, <1>3, <1>6, <1>7 DEF c

\* Each pair shows one of the keys; the values are numbers.
LEMMA ShownPairs ==
    ASSUME Inputs, NEW o \in OriginsOf(Documents)
    PROVE  /\ o[1] \in Documents /\ o \in Origins(o[1]) /\ o = <<o[1], o[2]>>
           /\ Shown[o] = PairFrom(o)
           /\ Shown[o].key \in Keys /\ Shown[o].value \in Nat
<1>1. PICK d \in Documents : o \in Origins(d)
  BY DEF OriginsOf
<1>2. PICK x \in Marks(d) : o = <<d, x>>
  BY <1>1 DEF Origins
<1>3. o[1] = d /\ o[2] = x /\ o = <<o[1], o[2]>>
  BY <1>2
<1>4. Shown[o] = PairFrom(o)
  BY DEF Shown
<1>5. d \in Nat
  BY DataAssumption DEF Documents
<1>6. CASE app = "wc"
  <2>1. x \in DOMAIN contents[d]
    BY <1>2, <1>6 DEF Marks
  <2>2. contents[d][x] \in Keys
    BY <2>1, Words
  <2> QED BY <1>1, <1>3, <1>4, <1>6, <2>2 DEF PairFrom, Pair
<1>7. CASE app # "wc"
  <2>1. x \in Keys
    BY <1>2, <1>7, Words DEF Marks
  <2> QED BY <1>1, <1>3, <1>4, <1>5, <1>7, <2>1 DEF PairFrom, Pair
<1> QED BY <1>6, <1>7

LEMMA OriginShown ==
    ASSUME NEW d \in Documents, NEW x \in Marks(d)
    PROVE  <<d, x>> \in OriginsOf(Documents) /\ Shown[<<d, x>>] = PairFrom(<<d, x>>)
<1>1. <<d, x>> \in Origins(d)
  BY DEF Origins
<1>2. <<d, x>> \in OriginsOf(Documents)
  BY <1>1 DEF OriginsOf
<1> QED BY <1>2 DEF Shown

\* Whatever Map returns, it has each pair of the document once.
LEMMA MapLists ==
    ASSUME Inputs, NEW d \in Documents
    PROVE  /\ \A kva \in MapResults(d) : Lists(kva, Origins(d), Shown)
           /\ MapResults(d) # {}
<1> DEFINE c == contents[d]
           Fits(h, n, kva) ==
              /\ IsTuple(kva, n) /\ OnePlace(h, n, Marks(d))
              /\ \A i \in 1 .. n : kva[i] = PairFrom(<<d, h[i]>>)
<1>1. ASSUME NEW n \in Nat, NEW h, NEW kva, Fits(h, n, kva)
      PROVE  Lists(kva, Origins(d), Shown)
  <2> DEFINE g == [k \in 1 .. n |-> <<d, h[k]>>]
  <2>1. /\ h \in [1 .. n -> Marks(d)]
        /\ \A i, k \in 1 .. n : h[i] = h[k] => i = k
        /\ \A x \in Marks(d) : \E k \in 1 .. n : h[k] = x
    BY <1>1 DEF OnePlace
  <2>2. g \in [1 .. n -> Origins(d)]
    BY <2>1 DEF Origins
  <2>3. \A k \in 1 .. n : g[k] = <<d, h[k]>> /\ h[k] \in Marks(d)
    BY <2>1
  <2> HIDE DEF g
  <2>4. \A i, k \in 1 .. n : g[i] = g[k] => i = k
    BY <2>1, <2>3
  <2>5. ASSUME NEW o \in Origins(d) PROVE \E k \in 1 .. n : g[k] = o
    <3>1. PICK x \in Marks(d) : o = <<d, x>>
      BY DEF Origins
    <3>2. PICK k \in 1 .. n : h[k] = x
      BY <2>1
    <3>3. g[k] = o
      BY <2>3, <3>1, <3>2
    <3> QED BY <3>3
  <2>6. OnePlace(g, n, Origins(d))
    BY <2>2, <2>4, <2>5 DEF OnePlace
  <2>7. \A k \in 1 .. n : kva[k] = Shown[g[k]]
    <3>1. \A k \in 1 .. n : Shown[<<d, h[k]>>] = PairFrom(<<d, h[k]>>)
      BY <2>3, OriginShown
    <3> QED BY <1>1, <2>3, <3>1
  <2> QED BY <1>1, <2>6, <2>7, ListsMake
<1>2. /\ Len(c) \in Nat /\ DOMAIN c = 1 .. Len(c) /\ IsFiniteSet(ToSet(c))
  BY Words
<1>3. CASE app = "wc"
  <2> DEFINE n == Len(c)
             h == [k \in 1 .. n |-> k]
             kva == MapWc(c)
  <2>1. MapResults(d) = {kva}
    BY <1>3 DEF MapResults
  <2>2. n \in Nat /\ DOMAIN c = 1 .. n /\ Marks(d) = 1 .. n
    BY <1>2, <1>3 DEF Marks
  <2>3. kva = [i \in 1 .. n |-> Pair(c[i], 1)]
    BY <2>2 DEF MapWc
  <2>4. \A i \in 1 .. n : PairFrom(<<d, i>>) = Pair(c[i], 1)
    BY <1>3 DEF PairFrom
  <2> HIDE DEF n, c, kva
  <2>5. OnePlace(h, n, Marks(d)) /\ \A i \in 1 .. n : h[i] = i
    BY <2>2 DEF OnePlace
  <2> HIDE DEF h
  <2>6. IsTuple(kva, n) /\ \A i \in 1 .. n : kva[i] = Pair(c[i], 1)
    BY <2>3 DEF IsTuple
  <2>7. Fits(h, n, kva)
    BY <2>4, <2>5, <2>6
  <2>8. Lists(kva, Origins(d), Shown)
    <3> HIDE DEF Fits
    <3> QED BY <1>1, <2>2, <2>7
  <2> QED BY <2>1, <2>8
<1>4. CASE app # "wc"
  <2> DEFINE n == Cardinality(ToSet(c))
             Made(seen) == [i \in DOMAIN seen |-> Pair(seen[i], d)]
  <2>1. MapResults(d) = {Made(seen) : seen \in SetToSeqs(ToSet(c))}
    BY <1>4 DEF MapResults, MapIndexer
  <2>2. /\ n \in Nat /\ \A h \in SetToSeqs(ToSet(c)) : OnePlace(h, n, ToSet(c))
        /\ SetToSeq(ToSet(c)) \in SetToSeqs(ToSet(c))
    BY <1>2, DistinctSeqs
  <2>3. Marks(d) = ToSet(c)
    BY <1>4 DEF Marks
  <2>4. \A x : PairFrom(<<d, x>>) = Pair(x, d)
    BY <1>4 DEF PairFrom
  <2> HIDE DEF n, c
  <2>5. ASSUME NEW h \in SetToSeqs(ToSet(c)) PROVE Lists(Made(h), Origins(d), Shown)
    <3>1. OnePlace(h, n, Marks(d))
      BY <2>2, <2>3
    <3>2. DOMAIN h = 1 .. n
      BY <3>1 DEF OnePlace
    <3>3. Made(h) = [i \in 1 .. n |-> Pair(h[i], d)]
      BY <3>2
    <3> HIDE DEF Made
    <3>4. IsTuple(Made(h), n) /\ \A i \in 1 .. n : Made(h)[i] = Pair(h[i], d)
      BY <3>3 DEF IsTuple
    <3>5. Fits(h, n, Made(h))
      BY <2>4, <3>1, <3>4
    <3> HIDE DEF Fits
    <3> QED BY <1>1, <2>2, <3>5
  <2> HIDE DEF Made
  <2> QED BY <2>1, <2>2, <2>5
<1> QED BY <1>3, <1>4

-----------------------------------------------------------------------------
(* The lines of the output.                                                *)

KeysShown == {Shown[o].key : o \in OriginsOf(Documents)}
Bearing(k) == {o \in OriginsOf(Documents) : Shown[o].key = k}
ValuesOf(S) == [o \in S |-> Shown[o].value]

\* The line of a key: Reduce of the values of all its pairs, in any order.
Line(k) == Pair(k, Reduce(CHOOSE s : Lists(s, Bearing(k), ValuesOf(Bearing(k)))))
LinesOf(K) == [k \in K |-> Line(k)]

\* Any listing of the pairs of a key reduces to its line.
LEMMA LineFits ==
    ASSUME Inputs, NEW k, NEW s, Lists(s, Bearing(k), Shown)
    PROVE  Pair(k, Reduce(Values(s))) = Line(k)
<1> DEFINE S == Bearing(k)
           v == ValuesOf(S)
           t == CHOOSE u : Lists(u, S, v)
<1>1. Lists(Values(s), S, v)
  BY ListsValues DEF ValuesOf
<1>2. Lists(t, S, v)
  BY <1>1
<1>3. \A o \in S : v[o] \in Nat
  BY ShownPairs DEF ValuesOf, Bearing
<1> HIDE DEF S, v, t
<1>4. Reduce(Values(s)) = Reduce(t)
  BY <1>1, <1>2, <1>3, ReduceSame
<1> QED BY <1>4 DEF Line, S, v, t

\* What groupByKey makes of all the pairs whose key is in K.
LEMMA GroupsFit ==
    ASSUME Inputs, NEW K, NEW m,
           Lists(m, {o \in OriginsOf(Documents) : Shown[o].key \in K}, Shown)
    PROVE  /\ DOMAIN groupByKey(m) = KeysShown \cap K
           /\ \A k \in KeysShown \cap K : Pair(k, Reduce(groupByKey(m)[k])) = Line(k)
<1> DEFINE S == {o \in OriginsOf(Documents) : Shown[o].key \in K}
           n == Len(m)
           D == {m[i].key : i \in DOMAIN m}
<1>1. PICK g : Places(g, m, S, Shown)
  BY DEF Lists
<1>2. /\ g \in [1 .. n -> S] /\ \A x \in S : \E i \in 1 .. n : g[i] = x
      /\ \A i \in 1 .. n : m[i] = Shown[g[i]]
  BY <1>1 DEF Places
<1>3. DOMAIN m = 1 .. n
  BY ListsTuple
<1>4. D = KeysShown \cap K
  <2>1. ASSUME NEW i \in 1 .. n PROVE m[i].key \in KeysShown \cap K
    BY <1>2 DEF KeysShown
  <2>2. ASSUME NEW k \in KeysShown \cap K PROVE k \in D
    <3>1. PICK o \in OriginsOf(Documents) : k = Shown[o].key
      BY DEF KeysShown
    <3>2. o \in S
      BY <3>1
    <3>3. PICK i \in 1 .. n : g[i] = o
      BY <1>2, <3>2
    <3> QED BY <1>2, <1>3, <3>1, <3>3
  <2> QED BY <1>3, <2>1, <2>2
<1>5. ASSUME NEW k \in KeysShown \cap K
      PROVE  Pair(k, Reduce(groupByKey(m)[k])) = Line(k)
  <2>1. groupByKey(m)[k] = Values(Keep(m, {k}))
    BY <1>4 DEF groupByKey
  <2>2. Lists(Keep(m, {k}), {o \in S : Shown[o].key \in {k}}, Shown)
    BY KeepLists
  <2>3. {o \in S : Shown[o].key \in {k}} = Bearing(k)
    BY DEF Bearing
  <2>4. Lists(Keep(m, {k}), Bearing(k), Shown)
    BY <2>2, <2>3
  <2> QED BY <2>1, <2>4, LineFits
<1>6. DOMAIN groupByKey(m) = D
  BY DEF groupByKey
<1> QED BY <1>4, <1>5, <1>6

\* reduceContents writes one line for each key.
LEMMA LinesWritten ==
    ASSUME Inputs, NEW G, IsFiniteSet(DOMAIN G), DOMAIN G \subseteq Nat,
           \A k \in DOMAIN G : Pair(k, Reduce(G[k])) = Line(k)
    PROVE  Lists(reduceContents(G), DOMAIN G, LinesOf(DOMAIN G))
<1> DEFINE K == DOMAIN G
           id == [k \in K |-> k]
           keys == SetToSeq(K)
           n == Cardinality(K)
           t == SortBy(keys, keys)
<1>1. n \in Nat /\ OnePlace(keys, n, K)
  BY DistinctSeqs
<1> HIDE DEF n
<1>2. keys \in [1 .. n -> K]
  BY <1>1 DEF OnePlace
<1> HIDE DEF keys
<1>3. IsTuple(keys, n) /\ \A i \in 1 .. n : keys[i] = id[keys[i]]
  BY <1>2 DEF IsTuple
<1>4. Lists(keys, K, id) /\ Len(keys) = n
  BY <1>1, <1>3, ListsMake
<1>5. \A i \in 1 .. n : keys[i] \in Nat
  BY <1>2
<1>6. Lists(t, K, id) /\ Len(t) = n
  BY <1>4, <1>5, SortLists
<1> HIDE DEF t
<1>7. PICK g : Places(g, t, K, id)
  BY <1>6 DEF Lists
<1>8. OnePlace(g, n, K) /\ \A i \in 1 .. n : t[i] = g[i] /\ t[i] \in K
  BY <1>6, <1>7 DEF Places, OnePlace
<1>9. DOMAIN t = 1 .. n
  BY <1>6, ListsTuple
<1> DEFINE lines == [i \in 1 .. n |-> Pair(t[i], Reduce(G[t[i]]))]
<1>10. reduceContents(G) = lines
  BY <1>9 DEF reduceContents, t, keys
<1>11. IsTuple(lines, n) /\ \A i \in 1 .. n : lines[i] = Pair(t[i], Reduce(G[t[i]]))
  BY DEF IsTuple
<1> HIDE DEF lines
<1>12. \A i \in 1 .. n : lines[i] = LinesOf(K)[g[i]]
  BY <1>8, <1>11 DEF LinesOf
<1>13. Lists(lines, K, LinesOf(K))
  <2> HIDE DEF K
  <2> QED BY <1>1, <1>8, <1>11, <1>12, ListsMake
<1> QED BY <1>10, <1>13

InBucket(b, D) == {o \in OriginsOf(D) : Shown[o].key \in KeysOf(b)}

\* What runReduceTask writes once all the pairs of the bucket are gathered.
LEMMA BucketLines ==
    ASSUME Inputs, NEW b, NEW m, Lists(m, InBucket(b, Documents), Shown)
    PROVE  Lists(reduceContents(groupByKey(m)), KeysShown \cap KeysOf(b),
                 LinesOf(KeysShown \cap KeysOf(b)))
<1> DEFINE S == InBucket(b, Documents)
           K == KeysShown \cap KeysOf(b)
           G == groupByKey(m)
           f == [o \in S |-> Shown[o].key]
<1>1. /\ DOMAIN G = K /\ \A k \in K : Pair(k, Reduce(G[k])) = Line(k)
  BY GroupsFit DEF InBucket
<1>2. IsFiniteSet(S)
  BY ListsCount
<1>3. f \in Surjection(S, K)
  <2>1. \A o \in S : Shown[o].key \in K
    BY DEF InBucket, KeysShown
  <2>2. \A k \in K : \E o \in S : Shown[o].key = k
    BY DEF InBucket, KeysShown
  <2> QED BY <2>1, <2>2 DEF Surjection
<1>4. IsFiniteSet(K)
  BY <1>2, <1>3, FS_Surjection
<1>5. K \subseteq Nat
  BY DataAssumption DEF KeysOf
<1> HIDE DEF G, K
<1>6. Lists(reduceContents(G), DOMAIN G, LinesOf(DOMAIN G))
  BY <1>1, <1>4, <1>5, LinesWritten
<1> QED BY <1>1, <1>6 DEF G, K

\* The buckets share the keys out.
LEMMA KeysShared ==
    ASSUME Inputs
    PROVE  /\ \A k \in Keys : \E b \in Buckets : k \in KeysOf(b)
           /\ \A b, c \in Buckets : \A k \in KeysOf(b) \cap KeysOf(c) : b = c
<1>1. ASSUME NEW k \in Keys PROVE \E b \in Buckets : k \in KeysOf(b)
  <2>1. hash[k] \in Nat
    BY DataAssumption DEF Inputs
  <2>2. hash[k] % NReduce \in 0 .. NReduce - 1
    BY <2>1, NReduceAssumption
  <2> QED BY <2>2 DEF KeysOf, Buckets
<1>2. \A b, c \in Buckets : \A k \in KeysOf(b) \cap KeysOf(c) : b = c
  BY DEF KeysOf
<1> QED BY <1>1, <1>2

-----------------------------------------------------------------------------
(* The sequential program.                                                 *)

Chosen(k) == CHOOSE kva \in MapResults(k) : TRUE

IsMapped(w, n) ==
    w = [k \in 0 .. n |-> IF k = 0 THEN <<>> ELSE w[k - 1] \o Chosen(k)]
MappedUpto(w, n) == w[0] = <<>> /\ \A k \in 1 .. n : w[k] = w[k - 1] \o Chosen(k)

\* The recursive function of sequentialMap exists.
LEMMA MappedExists ==
    ASSUME NEW N \in Nat
    PROVE  \E w : IsMapped(w, N)
<1> DEFINE T == {n \in Nat : ~\E w : MappedUpto(w, n)}
<1>1. T = {}
  <2> SUFFICES ASSUME T # {} PROVE FALSE
    OBVIOUS
  <2>1. PICK n \in T : \A m \in T : n <= m
    BY NatMin
  <2>2. n \in Nat /\ ~\E w : MappedUpto(w, n)
    BY <2>1
  <2>3. n # 0
    <3> DEFINE w == [k \in {0} |-> <<>>]
    <3>1. w[0] = <<>> /\ 1 .. 0 = {}
      OBVIOUS
    <3> HIDE DEF w
    <3>2. MappedUpto(w, 0)
      BY <3>1 DEF MappedUpto
    <3> QED BY <2>2, <3>2
  <2>4. n - 1 \in Nat /\ n - 1 \notin T
    <3>1. n - 1 \in T => n <= n - 1
      BY <2>1
    <3> QED BY <2>2, <2>3, <3>1
  <2>5. PICK v : MappedUpto(v, n - 1)
    BY <2>4
  <2> DEFINE w == [k \in 0 .. n |-> IF k = n THEN v[n - 1] \o Chosen(n) ELSE v[k]]
  <2>6. /\ w[0] = v[0] /\ w[n] = v[n - 1] \o Chosen(n)
        /\ \A k \in 0 .. n - 1 : w[k] = v[k]
    BY <2>2, <2>3
  <2> HIDE DEF w, T
  <2>7. ASSUME NEW k \in 1 .. n PROVE w[k] = w[k - 1] \o Chosen(k)
    <3>1. w[k - 1] = v[k - 1]
      BY <2>2, <2>6
    <3>2. CASE k = n
      BY <2>6, <3>1, <3>2
    <3>3. CASE k # n
      <4>1. k \in 1 .. n - 1 /\ k \in 0 .. n - 1
        BY <2>2, <3>3
      <4>2. w[k] = v[k] /\ v[k] = v[k - 1] \o Chosen(k)
        BY <2>5, <2>6, <4>1 DEF MappedUpto
      <4> QED BY <3>1, <4>2
    <3> QED BY <3>2, <3>3
  <2>8. MappedUpto(w, n)
    BY <2>5, <2>6, <2>7 DEF MappedUpto
  <2> QED BY <2>2, <2>8
<1>2. PICK v : MappedUpto(v, N)
  BY <1>1
<1> DEFINE w == [k \in 0 .. N |-> v[k]]
<1>3. ASSUME NEW k \in 0 .. N
      PROVE  w[k] = IF k = 0 THEN <<>> ELSE w[k - 1] \o Chosen(k)
  <2>1. CASE k = 0
    BY <1>2, <2>1 DEF MappedUpto
  <2>2. CASE k # 0
    <3>1. k \in 1 .. N /\ k - 1 \in 0 .. N
      BY <2>2
    <3>2. w[k] = v[k] /\ w[k - 1] = v[k - 1]
      BY <3>1
    <3> HIDE DEF w
    <3> QED BY <1>2, <2>2, <3>1, <3>2 DEF MappedUpto
  <2> QED BY <2>1, <2>2
<1>4. w = [k \in 0 .. N |-> w[k]]
  OBVIOUS
<1> HIDE DEF w
<1>5. IsMapped(w, N)
  BY <1>3, <1>4 DEF IsMapped
<1> QED BY <1>5

\* The pairs of all the files, one file after the other.
LEMMA SequentialLists ==
    ASSUME Inputs
    PROVE  Lists(sequentialMap(NFiles), OriginsOf(Documents), Shown)
<1> DEFINE N == NFiles
           w == CHOOSE u : IsMapped(u, N)
<1>1. N \in Nat
  BY DataAssumption
<1>2. sequentialMap(N) = w[N]
  BY DEF sequentialMap, IsMapped, Chosen
<1>3. IsMapped(w, N)
  BY <1>1, MappedExists
<1> HIDE DEF w
<1>4. MappedUpto(w, N)
  <2>1. w[0] = <<>>
    BY <1>1, <1>3 DEF IsMapped
  <2>2. ASSUME NEW k \in 1 .. N PROVE w[k] = w[k - 1] \o Chosen(k)
    <3>1. k \in 0 .. N /\ k # 0
      BY <1>1
    <3> QED BY <1>3, <3>1 DEF IsMapped
  <2> QED BY <2>1, <2>2 DEF MappedUpto
<1> DEFINE T == {n \in 0 .. N : ~Lists(w[n], OriginsOf(1 .. n), Shown)}
<1>5. T = {}
  <2> SUFFICES ASSUME T # {} PROVE FALSE
    OBVIOUS
  <2>1. T \in SUBSET Nat
    OBVIOUS
  <2>2. PICK k \in T : \A m \in T : k <= m
    <3> HIDE DEF T
    <3> QED BY <2>1, NatMin
  <2>3. k \in 0 .. N /\ k \in Nat /\ ~Lists(w[k], OriginsOf(1 .. k), Shown)
    BY <2>2
  <2>4. k # 0
    <3>1. ASSUME k = 0 PROVE FALSE
      <4>1. 1 .. k = {}
        BY <3>1
      <4>2. OriginsOf(1 .. k) = {}
        BY <4>1 DEF OriginsOf
      <4> QED BY <1>4, <2>3, <3>1, <4>2, ListsEmpty DEF MappedUpto
    <3> QED BY <3>1
  <2>5. k - 1 \in 0 .. N /\ k \in 1 .. N /\ k - 1 \in Nat
    BY <1>1, <2>3, <2>4
  <2>6. k - 1 \notin T
    <3>1. k - 1 \in T => k <= k - 1
      BY <2>2
    <3> QED BY <2>3, <3>1
  <2>7. Lists(w[k - 1], OriginsOf(1 .. k - 1), Shown)
    BY <2>5, <2>6
  <2> HIDE DEF T
  <2>8. k \in Documents
    BY <2>5 DEF Documents
  <2>9. Lists(Chosen(k), Origins(k), Shown)
    BY <2>8, MapLists DEF Chosen
  <2>10. OriginsOf(1 .. k) = OriginsOf(1 .. k - 1) \cup Origins(k)
    <3>1. 1 .. k = (1 .. k - 1) \cup {k}
      BY <2>5
    <3> QED BY <3>1 DEF OriginsOf
  <2>11. OriginsOf(1 .. k - 1) \cap Origins(k) = {}
    <3>1. \A d \in 1 .. k - 1 : d # k
      BY <2>5
    <3> QED BY <3>1 DEF OriginsOf, Origins
  <2>12. Lists(w[k - 1] \o Chosen(k), OriginsOf(1 .. k), Shown)
    BY <2>7, <2>9, <2>10, <2>11, ListsConcat
  <2> QED BY <1>4, <2>3, <2>5, <2>12 DEF MappedUpto
<1>6. N \in 0 .. N
  BY <1>1
<1>7. Lists(w[N], OriginsOf(1 .. N), Shown)
  BY <1>5, <1>6
<1> QED BY <1>2, <1>7 DEF Documents

\* The loop over j stops after the last equal key.
LEMMA RunEnds ==
    ASSUME NEW s, Len(s) \in Nat, DOMAIN s = 1 .. Len(s), NEW i \in 1 .. Len(s)
    PROVE  /\ RunEnd(s, i) - 1 \in i .. Len(s)
           /\ \A j \in i .. RunEnd(s, i) - 1 : s[j].key = s[i].key
           /\ RunEnd(s, i) - 1 # Len(s) => s[(RunEnd(s, i) - 1) + 1].key # s[i].key
<1> DEFINE n == Len(s)
           T == {j \in i + 1 .. n + 1 : j \in DOMAIN s => s[j].key # s[i].key}
           z == RunEnd(s, i)
<1>1. n \in Nat /\ DOMAIN s = 1 .. n /\ i \in 1 .. n
  OBVIOUS
<1> HIDE DEF n
<1>2. n + 1 \in T /\ T \in SUBSET Nat
  BY <1>1
<1>3. \E x \in T : \A y \in T : x <= y
  <2> HIDE DEF T
  <2> QED BY <1>2, NatMin
<1>4. z \in T /\ \A y \in T : z <= y
  <2>1. z = Min(T)
    BY DEF RunEnd, n
  <2> HIDE DEF T, z
  <2> QED BY <1>3, <2>1 DEF Min
<1> HIDE DEF z
<1>5. z \in i + 1 .. n + 1 /\ (z \in 1 .. n => s[z].key # s[i].key)
  BY <1>1, <1>4
<1>6. ASSUME NEW j \in i .. z - 1 PROVE s[j].key = s[i].key
  <2>1. j \in 1 .. n /\ ~(z <= j) /\ (j # i => j \in i + 1 .. n + 1)
    BY <1>1, <1>5
  <2>2. j \notin T
    BY <1>4, <2>1
  <2> QED BY <1>1, <2>1, <2>2
<1>7. z - 1 \in i .. n /\ (z - 1) + 1 = z /\ (z - 1 # n => z \in 1 .. n)
  BY <1>1, <1>5
<1> QED BY <1>5, <1>6, <1>7 DEF z, n

\* A run of equal keys in the sorted pairs has all the pairs of the key.
LEMMA RunLists ==
    ASSUME Inputs, NEW s, Lists(s, OriginsOf(Documents), Shown),
           \A i, k \in 1 .. Len(s) : i < k => s[i].key <= s[k].key,
           NEW i \in 1 .. Len(s), i = 1 \/ s[i].key # s[i - 1].key
    PROVE  Lists(SubSeq(s, i, RunEnd(s, i) - 1), Bearing(s[i].key), Shown)
<1> DEFINE n == Len(s)
           c == s[i].key
           e == RunEnd(s, i) - 1
           m == e - i + 1
           u == SubSeq(s, i, e)
           A == OriginsOf(Documents)
<1>1. PICK g : Places(g, s, A, Shown)
  BY DEF Lists
<1>2. /\ g \in [1 .. n -> A] /\ \A j, k \in 1 .. n : g[j] = g[k] => j = k
      /\ \A x \in A : \E k \in 1 .. n : g[k] = x
      /\ \A k \in 1 .. n : s[k] = Shown[g[k]]
  BY <1>1 DEF Places
<1>3. n \in Nat /\ i \in 1 .. n /\ DOMAIN s = 1 .. n
  BY ListsTuple
<1>4. \A k \in 1 .. n : s[k].key \in Nat
  <2>1. \A k \in 1 .. n : Shown[g[k]].key \in Keys
    BY <1>2, ShownPairs
  <2> QED BY <1>2, <2>1, DataAssumption
<1>5. \A j, k \in 1 .. n : j < k => s[j].key <= s[k].key
  OBVIOUS
<1>6. /\ e \in i .. n /\ \A j \in i .. e : s[j].key = c
      /\ e # n => s[e + 1].key # c
  BY <1>3, RunEnds
<1> HIDE DEF c, e
<1>7. u = [j \in 1 .. m |-> s[i + j - 1]]
  <2> DEFINE R == {Shown[x] : x \in A}
  <2>1. s \in Seq(R)
    BY DEF Lists
  <2> HIDE DEF R
  <2>2. Len(s) \in Nat /\ i \in 1 .. Len(s) /\ e \in i .. Len(s)
    BY <1>3, <1>6
  <2> QED BY <2>1, <2>2
<1> HIDE DEF n, A, u
<1>8. IsTuple(u, m) /\ m \in Nat /\ \A j \in 1 .. m : u[j] = s[i + j - 1]
  BY <1>3, <1>6, <1>7 DEF IsTuple
<1> DEFINE h == [j \in 1 .. m |-> g[i + j - 1]]
<1>9. /\ \A j \in 1 .. m : i + j - 1 \in i .. e /\ i + j - 1 \in 1 .. n
      /\ \A j \in i .. e : j - i + 1 \in 1 .. m /\ i + (j - i + 1) - 1 = j /\ j \in 1 .. n
  BY <1>3, <1>6
<1>10. /\ DOMAIN h = 1 .. m /\ h = [j \in 1 .. m |-> h[j]]
       /\ \A j \in 1 .. m : h[j] = g[i + j - 1]
  OBVIOUS
<1> HIDE DEF h, m
<1>11. ASSUME NEW j \in 1 .. m PROVE u[j] = Shown[h[j]] /\ h[j] \in Bearing(c)
  <2>1. /\ u[j] = s[i + j - 1] /\ h[j] = g[i + j - 1]
        /\ i + j - 1 \in 1 .. n /\ i + j - 1 \in i .. e
    BY <1>8, <1>9, <1>10
  <2>2. s[i + j - 1] = Shown[h[j]] /\ h[j] \in A /\ s[i + j - 1].key = c
    BY <1>2, <1>6, <2>1
  <2> QED BY <2>1, <2>2 DEF Bearing, A
<1>12. \A j, k \in 1 .. m : h[j] = h[k] => j = k
  <2> SUFFICES ASSUME NEW j \in 1 .. m, NEW k \in 1 .. m, h[j] = h[k] PROVE j = k
    OBVIOUS
  <2>1. i + j - 1 = i + k - 1
    BY <1>2, <1>9, <1>10
  <2> QED BY <1>3, <2>1
<1>13. ASSUME NEW x \in Bearing(c) PROVE \E k \in 1 .. m : h[k] = x
  <2>1. x \in A /\ Shown[x].key = c
    BY DEF Bearing, A
  <2>2. PICK j \in 1 .. n : g[j] = x
    BY <1>2, <2>1
  <2>3. s[j].key = c
    BY <1>2, <2>1, <2>2
  <2>4. ASSUME j < i PROVE FALSE
    <3>1. i # 1 /\ i - 1 \in 1 .. n /\ i - 1 < i /\ (j < i - 1 \/ j = i - 1)
      BY <1>3, <2>4
    <3>2. s[i - 1].key <= s[i].key /\ s[j].key <= s[i - 1].key
      BY <1>3, <1>4, <1>5, <3>1
    <3>3. s[i - 1].key = c
      BY <1>3, <1>4, <2>3, <3>1, <3>2 DEF c
    <3> QED BY <3>1, <3>3 DEF c
  <2>5. ASSUME e < j PROVE FALSE
    <3>1. e # n /\ e + 1 \in 1 .. n /\ i < e + 1 /\ (e + 1 < j \/ e + 1 = j)
      BY <1>3, <1>6, <2>5
    <3>2. s[i].key <= s[e + 1].key /\ s[e + 1].key <= s[j].key
      BY <1>3, <1>4, <1>5, <3>1
    <3>3. s[e + 1].key = c
      BY <1>3, <1>4, <2>3, <3>1, <3>2 DEF c
    <3> QED BY <1>6, <3>1, <3>3
  <2>6. j \in i .. e
    BY <1>3, <1>6, <2>4, <2>5
  <2>7. j - i + 1 \in 1 .. m /\ i + (j - i + 1) - 1 = j
    BY <1>9, <2>6
  <2>8. h[j - i + 1] = x
    BY <1>10, <2>2, <2>7
  <2> QED BY <2>7, <2>8
<1>14. OnePlace(h, m, Bearing(c))
  BY <1>10, <1>11, <1>12, <1>13 DEF OnePlace
<1>15. Lists(u, Bearing(c), Shown)
  BY <1>8, <1>11, <1>14, ListsMake
<1> QED BY <1>15 DEF u, e, c

\* The sequential program writes the line of each key.
LEMMA SequentialLines ==
    ASSUME Inputs
    PROVE  sequentialOutput = {Line(k) : k \in KeysShown}
<1> DEFINE q == sequentialMap(NFiles)
           r == [i \in DOMAIN q |-> q[i].key]
           s == SortBy(q, r)
           n == Len(s)
           A == OriginsOf(Documents)
           starts == {i \in DOMAIN s : i = 1 \/ s[i].key # s[i - 1].key}
           Run(i) == SubSeq(s, i, RunEnd(s, i) - 1)
<1>1. Lists(q, A, Shown)
  BY SequentialLists
<1>2. sequentialOutput = {Pair(s[i].key, Reduce(Values(Run(i)))) : i \in starts}
  BY DEF sequentialOutput, sequentialReduce
<1> HIDE DEF q
<1>3. DOMAIN q = 1 .. Len(q)
  BY <1>1, ListsTuple
<1>4. \A i \in 1 .. Len(q) : r[i] = q[i].key /\ r[i] \in Nat
  <2>1. PICK g : Places(g, q, A, Shown)
    BY <1>1 DEF Lists
  <2>2. ASSUME NEW i \in 1 .. Len(q) PROVE q[i].key \in Nat
    <3>1. q[i] = Shown[g[i]] /\ g[i] \in A
      BY <2>1 DEF Places
    <3> QED BY <3>1, ShownPairs, DataAssumption
  <2> QED BY <1>3, <2>2
<1> HIDE DEF r, A
<1>5. /\ Lists(s, A, Shown) /\ n = Len(q)
      /\ \E p \in Bijection(1 .. Len(q), 1 .. Len(q)) :
            /\ \A i \in 1 .. Len(q) : s[i] = q[p[i]]
            /\ \A i, k \in 1 .. Len(q) : i < k => r[p[i]] <= r[p[k]]
  <2>1. \A i \in 1 .. Len(q) : r[i] \in Nat
    BY <1>4
  <2> QED BY <1>1, <2>1, SortLists
<1> HIDE DEF s, n
<1>6. PICK p \in Bijection(1 .. n, 1 .. n) :
         /\ \A i \in 1 .. n : s[i] = q[p[i]]
         /\ \A i, k \in 1 .. n : i < k => r[p[i]] <= r[p[k]]
  BY <1>5
<1>7. \A i \in 1 .. n : p[i] \in 1 .. n
  BY DEF Bijection, Injection
<1>8. \A i, k \in 1 .. n : i < k => s[i].key <= s[k].key
  <2>1. \A i \in 1 .. n : s[i].key = r[p[i]]
    BY <1>4, <1>5, <1>6, <1>7
  <2> QED BY <1>6, <2>1
<1>9. DOMAIN s = 1 .. n /\ n \in Nat
  BY <1>5, ListsTuple DEF n
<1>10. PICK g : Places(g, s, A, Shown)
  BY <1>5 DEF Lists
<1>11. /\ \A x \in A : \E i \in 1 .. n : g[i] = x
       /\ \A i \in 1 .. n : s[i] = Shown[g[i]] /\ g[i] \in A
  BY <1>10 DEF Places, n
<1>12. ASSUME NEW i \in starts
       PROVE  Pair(s[i].key, Reduce(Values(Run(i)))) = Line(s[i].key) /\ s[i].key \in KeysShown
  <2>1. i \in 1 .. n /\ (i = 1 \/ s[i].key # s[i - 1].key)
    BY <1>9
  <2>2. Lists(Run(i), Bearing(s[i].key), Shown)
    BY <1>5, <1>8, <2>1, RunLists DEF n, A
  <2>3. s[i].key \in KeysShown
    BY <1>11, <2>1 DEF KeysShown, A
  <2> HIDE DEF Run
  <2> QED BY <2>2, <2>3, LineFits
<1>13. ASSUME NEW k \in KeysShown PROVE \E i \in starts : s[i].key = k
  <2> DEFINE T == {i \in 1 .. n : s[i].key = k}
  <2>1. PICK o \in A : Shown[o].key = k
    BY DEF KeysShown, A
  <2>2. T # {} /\ T \in SUBSET Nat
    BY <1>11, <2>1
  <2>3. PICK i \in T : \A j \in T : i <= j
    <3> HIDE DEF T
    <3> QED BY <2>2, NatMin
  <2>4. i \in 1 .. n /\ s[i].key = k
    BY <2>3
  <2>5. ASSUME i # 1, s[i].key = s[i - 1].key PROVE FALSE
    <3>1. i - 1 \in 1 .. n /\ ~(i <= i - 1)
      BY <1>9, <2>4, <2>5
    <3>2. s[i - 1].key = k
      BY <2>4, <2>5
    <3>3. i - 1 \in T
      BY <3>1, <3>2
    <3> QED BY <2>3, <3>1, <3>3
  <2>6. i \in starts
    BY <1>9, <2>4, <2>5
  <2> QED BY <2>4, <2>6
<1> HIDE DEF starts, Run
<1> QED BY <1>2, <1>12, <1>13

-----------------------------------------------------------------------------
(* The job.                                                                *)

\* What the tasks have done so far: the buckets of a document share its pairs
\* out, and mappedContents has those of the documents fetched.
BucketsRight ==
    /\ buckets \in [Documents -> {buckets[d] : d \in Documents}]
    /\ \A d \in Documents : buckets[d] # <<>> =>
          \A b \in Buckets : Lists(buckets[d][b], InBucket(b, {d}), Shown)
GatheredRight ==
    /\ fetched \in [Buckets -> SUBSET Documents]
    /\ mappedContents \in [Buckets -> {mappedContents[b] : b \in Buckets}]
    /\ \A b \in Buckets : /\ Lists(mappedContents[b], InBucket(b, fetched[b]), Shown)
                          /\ fetched[b] # {} => AllMapped
OutputRight ==
    /\ output \in [Buckets -> {output[b] : b \in Buckets}]
    /\ \A b \in Buckets : output[b] # <<>> =>
          /\ fetched[b] = Documents
          /\ output[b] = reduceContents(groupByKey(mappedContents[b]))
DataInv == Inputs /\ BucketsRight /\ GatheredRight /\ OutputRight

\* What the inputs decide stays as it is.
LEMMA InputsDecide ==
    ASSUME UNCHANGED inputs
    PROVE  /\ Inputs' <=> Inputs
           /\ Shown' = Shown
           /\ \A b, D : InBucket(b, D)' = InBucket(b, D)
           /\ \A G : reduceContents(G)' = reduceContents(G)
<1>1. app' = app /\ contents' = contents /\ hash' = hash
  BY DEF inputs
<1>2. \A d : Marks(d)' = Marks(d)
  BY <1>1 DEF Marks
<1>3. \A D : OriginsOf(D)' = OriginsOf(D)
  BY <1>2 DEF OriginsOf, Origins
<1>4. \A o : PairFrom(o)' = PairFrom(o)
  BY <1>1 DEF PairFrom
<1>5. Shown' = Shown
  BY <1>3, <1>4 DEF Shown
<1>6. \A b : KeysOf(b)' = KeysOf(b)
  BY <1>1 DEF KeysOf
<1>7. \A b, D : InBucket(b, D)' = InBucket(b, D)
  BY <1>3, <1>5, <1>6 DEF InBucket
<1>8. \A s : Reduce(s)' = Reduce(s)
  BY <1>1 DEF Reduce
<1>9. \A G : reduceContents(G)' = reduceContents(G)
  BY <1>8 DEF reduceContents
<1>10. Inputs' <=> Inputs
  BY <1>1 DEF Inputs
<1> QED BY <1>5, <1>7, <1>9, <1>10

LEMMA DataInitInv == DataInit => DataInv
<1> SUFFICES ASSUME DataInit PROVE DataInv
  OBVIOUS
<1>1. Inputs
  BY DEF DataInit, Inputs
<1>2. BucketsRight
  BY DEF DataInit, BucketsRight
<1>3. GatheredRight
  <2>1. ASSUME NEW b \in Buckets
        PROVE  Lists(mappedContents[b], InBucket(b, fetched[b]), Shown)
    <3>1. mappedContents[b] = <<>> /\ fetched[b] = {}
      BY DEF DataInit
    <3>2. InBucket(b, {}) = {}
      BY DEF InBucket, OriginsOf
    <3> QED BY <3>1, <3>2, ListsEmpty
  <2> QED BY <2>1 DEF DataInit, GatheredRight
<1>4. OutputRight
  BY DEF DataInit, OutputRight
<1> QED BY <1>1, <1>2, <1>3, <1>4 DEF DataInv

\* The three actions keep the invariant.
LEMMA DataMap ==
    ASSUME DataInv, NEW d \in Documents, runMapTask(d)
    PROVE  DataInv'
<1>1. PICK kva \in MapResults(d) :
         buckets' = [buckets EXCEPT ![d] = bucketContents(kva)]
  BY DEF runMapTask
<1>2. /\ buckets[d] = <<>> /\ UNCHANGED inputs
      /\ fetched' = fetched /\ mappedContents' = mappedContents /\ output' = output
  BY DEF runMapTask
<1>3. /\ Inputs /\ Inputs' /\ Shown' = Shown
      /\ \A b, D : InBucket(b, D)' = InBucket(b, D)
      /\ \A G : reduceContents(G)' = reduceContents(G)
  BY <1>2, InputsDecide DEF DataInv
<1>4. /\ DOMAIN buckets = Documents /\ DOMAIN buckets' = Documents
      /\ buckets' = [c \in Documents |-> buckets'[c]]
      /\ buckets'[d] = bucketContents(kva)
      /\ \A c \in Documents \ {d} : buckets'[c] = buckets[c]
  BY <1>1 DEF DataInv, BucketsRight
<1>5. \A b \in Buckets : Lists(bucketContents(kva)[b], InBucket(b, {d}), Shown)
  <2> SUFFICES ASSUME NEW b \in Buckets
               PROVE  Lists(bucketContents(kva)[b], InBucket(b, {d}), Shown)
    OBVIOUS
  <2>1. Lists(kva, Origins(d), Shown)
    BY <1>3, MapLists
  <2>2. bucketContents(kva)[b] = Keep(kva, KeysOf(b))
    BY DEF bucketContents
  <2>3. InBucket(b, {d}) = {o \in Origins(d) : Shown[o].key \in KeysOf(b)}
    BY DEF InBucket, OriginsOf
  <2>4. Lists(Keep(kva, KeysOf(b)), {o \in Origins(d) : Shown[o].key \in KeysOf(b)}, Shown)
    BY <2>1, KeepLists
  <2> QED BY <2>2, <2>3, <2>4
<1>6. BucketsRight'
  <2>1. buckets' \in [Documents -> {buckets'[c] : c \in Documents}]
    BY <1>4
  <2>2. ASSUME NEW c \in Documents, buckets'[c] # <<>>, NEW b \in Buckets
        PROVE  Lists(buckets'[c][b], InBucket(b, {c}), Shown)
    <3>1. CASE c = d
      BY <1>4, <1>5, <3>1
    <3>2. CASE c # d
      BY <1>4, <2>2, <3>2 DEF DataInv, BucketsRight
    <3> QED BY <3>1, <3>2
  <2> QED BY <1>3, <2>1, <2>2 DEF BucketsRight
<1>7. ~AllMapped
  BY <1>2 DEF AllMapped
<1>8. GatheredRight'
  <2>1. GatheredRight
    BY DEF DataInv
  <2>2. \A b \in Buckets : fetched[b] = {}
    BY <1>7, <2>1 DEF GatheredRight
  <2> QED BY <1>2, <1>3, <2>1, <2>2 DEF GatheredRight
<1>9. OutputRight'
  BY <1>2, <1>3 DEF DataInv, OutputRight
<1> QED BY <1>3, <1>6, <1>8, <1>9 DEF DataInv

LEMMA DataGather ==
    ASSUME DataInv, NEW b \in Buckets, NEW d \in Documents, Gather(b, d)
    PROVE  DataInv'
<1>1. /\ AllMapped /\ d \notin fetched[b] /\ UNCHANGED inputs
      /\ fetched' = [fetched EXCEPT ![b] = @ \cup {d}]
      /\ mappedContents' = [mappedContents EXCEPT ![b] = @ \o buckets[d][b]]
      /\ buckets' = buckets /\ output' = output
  BY DEF Gather
<1>2. /\ Inputs /\ Inputs' /\ Shown' = Shown
      /\ \A c, D : InBucket(c, D)' = InBucket(c, D)
      /\ \A G : reduceContents(G)' = reduceContents(G)
  BY <1>1, InputsDecide DEF DataInv
<1>3. BucketsRight'
  BY <1>1, <1>2 DEF DataInv, BucketsRight
<1>4. AllMapped'
  BY <1>1 DEF AllMapped
<1>5. GatheredRight
  BY DEF DataInv
<1>6. /\ fetched \in [Buckets -> SUBSET Documents]
      /\ DOMAIN mappedContents = Buckets
      /\ \A c \in Buckets : Lists(mappedContents[c], InBucket(c, fetched[c]), Shown)
  BY <1>5 DEF GatheredRight
<1>7. /\ fetched' \in [Buckets -> SUBSET Documents]
      /\ fetched'[b] = fetched[b] \cup {d}
      /\ \A c \in Buckets \ {b} : fetched'[c] = fetched[c]
  BY <1>1, <1>6
<1>8. /\ mappedContents' = [c \in Buckets |-> mappedContents'[c]]
      /\ mappedContents'[b] = mappedContents[b] \o buckets[d][b]
      /\ \A c \in Buckets \ {b} : mappedContents'[c] = mappedContents[c]
  BY <1>1, <1>6
<1>9. ASSUME NEW c \in Buckets
      PROVE  Lists(mappedContents'[c], InBucket(c, fetched'[c]), Shown)
  <2>1. CASE c = b
    <3>1. buckets[d] # <<>>
      BY <1>1 DEF AllMapped
    <3>2. Lists(buckets[d][b], InBucket(b, {d}), Shown)
      BY <3>1 DEF DataInv, BucketsRight
    <3>3. /\ InBucket(b, fetched[b] \cup {d})
                = InBucket(b, fetched[b]) \cup InBucket(b, {d})
      BY DEF InBucket, OriginsOf
    <3>4. InBucket(b, fetched[b]) \cap InBucket(b, {d}) = {}
      BY <1>1 DEF InBucket, OriginsOf, Origins
    <3>5. Lists(mappedContents[b], InBucket(b, fetched[b]), Shown)
      BY <1>6
    <3>6. Lists(mappedContents[b] \o buckets[d][b],
                InBucket(b, fetched[b]) \cup InBucket(b, {d}), Shown)
      BY <3>2, <3>4, <3>5, ListsConcat
    <3> QED BY <1>7, <1>8, <2>1, <3>3, <3>6
  <2>2. CASE c # b
    BY <1>6, <1>7, <1>8, <2>2
  <2> QED BY <2>1, <2>2
<1>10. GatheredRight'
  <2>1. mappedContents' \in [Buckets -> {mappedContents'[c] : c \in Buckets}]
    BY <1>8
  <2>2. \A c \in Buckets : Lists(mappedContents'[c], InBucket(c, fetched[c])', Shown')
    <3>1. \A c \in Buckets : InBucket(c, fetched[c])' = InBucket(c, fetched'[c])
      BY <1>2, InputsDecide, <1>1 DEF InBucket, OriginsOf, Origins, Marks, KeysOf, inputs
    <3> QED BY <1>2, <1>9, <3>1
  <2> QED BY <1>4, <1>7, <2>1, <2>2 DEF GatheredRight
<1>11. OutputRight'
  <2>1. OutputRight
    BY DEF DataInv
  <2>2. output[b] = <<>>
    BY <1>1, <2>1 DEF OutputRight
  <2>3. ASSUME NEW c \in Buckets, output[c] # <<>>
        PROVE  /\ fetched'[c] = Documents
               /\ output[c] = reduceContents(groupByKey(mappedContents'[c]))
    BY <1>7, <1>8, <2>1, <2>2, <2>3 DEF OutputRight
  <2>4. \A c \in Buckets : reduceContents(groupByKey(mappedContents[c]))'
                              = reduceContents(groupByKey(mappedContents'[c]))
    BY <1>1 DEF reduceContents, groupByKey, Reduce, inputs
  <2> QED BY <1>1, <2>1, <2>3, <2>4 DEF OutputRight
<1> QED BY <1>2, <1>3, <1>10, <1>11 DEF DataInv

LEMMA DataReduce ==
    ASSUME DataInv, NEW b \in Buckets, runReduceTask(b)
    PROVE  DataInv'
<1>1. /\ fetched[b] = Documents /\ UNCHANGED inputs
      /\ output' = [output EXCEPT ![b] = reduceContents(groupByKey(mappedContents[b]))]
      /\ buckets' = buckets /\ fetched' = fetched /\ mappedContents' = mappedContents
  BY DEF runReduceTask
<1>2. /\ Inputs /\ Inputs' /\ Shown' = Shown
      /\ \A c, D : InBucket(c, D)' = InBucket(c, D)
      /\ \A G : reduceContents(G)' = reduceContents(G)
  BY <1>1, InputsDecide DEF DataInv
<1>3. BucketsRight'
  BY <1>1, <1>2 DEF DataInv, BucketsRight
<1>4. GatheredRight'
  <2>1. AllMapped' <=> AllMapped
    BY <1>1 DEF AllMapped
  <2> QED BY <1>1, <1>2, <2>1 DEF DataInv, GatheredRight
<1>5. OutputRight'
  <2>1. /\ output' = [c \in Buckets |-> output'[c]]
        /\ output'[b] = reduceContents(groupByKey(mappedContents[b]))
        /\ \A c \in Buckets \ {b} : output'[c] = output[c]
    BY <1>1 DEF DataInv, OutputRight
  <2>2. output' \in [Buckets -> {output'[c] : c \in Buckets}]
    BY <2>1
  <2>3. ASSUME NEW c \in Buckets, output'[c] # <<>>
        PROVE  /\ fetched[c] = Documents
               /\ output'[c] = reduceContents(groupByKey(mappedContents[c]))
    BY <1>1, <2>1, <2>3 DEF DataInv, OutputRight
  <2> QED BY <1>1, <1>2, <2>2, <2>3 DEF OutputRight
<1> QED BY <1>2, <1>3, <1>4, <1>5 DEF DataInv

\* Map and reduce tasks, in any order, keep DataInv: no pair is lost or made
\* twice on its way through the buckets to mappedContents.
THEOREM DataInvariant == DataSpec => []DataInv
<1>1. ASSUME DataInv, [DataNext]_dataVars PROVE DataInv'
  <2>1. CASE UNCHANGED dataVars
    <3>1. /\ Inputs' /\ Shown' = Shown
          /\ \A c, D : InBucket(c, D)' = InBucket(c, D)
          /\ \A G : reduceContents(G)' = reduceContents(G)
      BY <1>1, <2>1, InputsDecide DEF DataInv, dataVars
    <3>2. /\ buckets' = buckets /\ fetched' = fetched
          /\ mappedContents' = mappedContents /\ output' = output
          /\ (AllMapped' <=> AllMapped)
      BY <2>1 DEF dataVars, AllMapped
    <3>3. BucketsRight'
      BY <1>1, <3>1, <3>2 DEF DataInv, BucketsRight
    <3>4. GatheredRight'
      BY <1>1, <3>1, <3>2 DEF DataInv, GatheredRight
    <3>5. OutputRight'
      BY <1>1, <3>1, <3>2 DEF DataInv, OutputRight
    <3> QED BY <3>1, <3>3, <3>4, <3>5 DEF DataInv
  <2>2. CASE DataNext
    BY <1>1, <2>2, DataMap, DataGather, DataReduce DEF DataNext
  <2> QED BY <1>1, <2>1, <2>2
<1> QED BY <1>1, DataInitInv, PTL DEF DataSpec

\* What the invariant says once every bucket is reduced.
LEMMA InvSame == DataInv => SameAsSequential
<1> DEFINE AllReduced == \A b \in Buckets : fetched[b] = Documents
                         /\ (output[b] # <<>> \/ mappedContents[b] = <<>>)
           KeysIn(b) == KeysShown \cap KeysOf(b)
<1> SUFFICES ASSUME DataInv, AllReduced
             PROVE  /\ UNION {ToSet(output[b]) : b \in Buckets} = sequentialOutput
                    /\ \A b, c \in Buckets :
                         \A i \in DOMAIN output[b], j \in DOMAIN output[c] :
                            output[b][i] = output[c][j] => b = c /\ i = j
  BY DEF SameAsSequential
<1>1. Inputs
  BY DEF DataInv
<1>2. ASSUME NEW b \in Buckets PROVE Lists(output[b], KeysIn(b), LinesOf(KeysIn(b)))
  <2>1. Lists(mappedContents[b], InBucket(b, Documents), Shown)
    BY DEF DataInv, GatheredRight
  <2>2. CASE output[b] # <<>>
    BY <1>1, <2>1, <2>2, BucketLines DEF DataInv, OutputRight
  <2>3. CASE output[b] = <<>>
    <3>1. mappedContents[b] = <<>>
      BY <2>3
    <3>2. Len(<<>>) = 0
      OBVIOUS
    <3>3. InBucket(b, Documents) = {}
      <4>1. /\ IsFiniteSet(InBucket(b, Documents))
            /\ Cardinality(InBucket(b, Documents)) = 0
        BY <2>1, <3>1, <3>2, ListsCount
      <4> QED BY <4>1, FS_EmptySet
    <3>4. KeysIn(b) = {}
      BY <3>3 DEF InBucket, KeysShown
    <3> HIDE DEF KeysIn
    <3> QED BY <2>3, <3>4, ListsEmpty
  <2> QED BY <2>2, <2>3
<1> DEFINE g == [b \in Buckets |-> CHOOSE h : Places(h, output[b], KeysIn(b), LinesOf(KeysIn(b)))]
<1>3. ASSUME NEW b \in Buckets
      PROVE  /\ DOMAIN output[b] = 1 .. Len(output[b])
             /\ \A i \in DOMAIN output[b] :
                   g[b][i] \in KeysIn(b) /\ output[b][i] = Line(g[b][i])
             /\ \A i, j \in DOMAIN output[b] : g[b][i] = g[b][j] => i = j
             /\ \A k \in KeysIn(b) : \E i \in DOMAIN output[b] : g[b][i] = k
  <2>1. \E h : Places(h, output[b], KeysIn(b), LinesOf(KeysIn(b)))
    BY <1>2 DEF Lists
  <2>2. Places(g[b], output[b], KeysIn(b), LinesOf(KeysIn(b)))
    BY <2>1
  <2>3. DOMAIN output[b] = 1 .. Len(output[b])
    BY <1>2, ListsTuple
  <2> HIDE DEF g, KeysIn
  <2> QED BY <2>2, <2>3 DEF Places, LinesOf
<1> HIDE DEF g
<1>4. ASSUME NEW b \in Buckets PROVE ToSet(output[b]) = {Line(k) : k \in KeysIn(b)}
  <2>1. ASSUME NEW x \in ToSet(output[b]) PROVE x \in {Line(k) : k \in KeysIn(b)}
    <3>1. PICK i \in DOMAIN output[b] : x = output[b][i]
      BY DEF ToSet
    <3> QED BY <1>3, <3>1
  <2>2. ASSUME NEW k \in KeysIn(b) PROVE Line(k) \in ToSet(output[b])
    <3>1. PICK i \in DOMAIN output[b] : g[b][i] = k
      BY <1>3
    <3> QED BY <1>3, <3>1 DEF ToSet
  <2> HIDE DEF KeysIn
  <2> QED BY <2>1, <2>2
<1>5. \A k \in KeysShown : \E b \in Buckets : k \in KeysIn(b)
  <2>1. KeysShown \subseteq Keys
    BY <1>1, ShownPairs DEF KeysShown
  <2> QED BY <1>1, <2>1, KeysShared
<1>6. UNION {ToSet(output[b]) : b \in Buckets} = {Line(k) : k \in KeysShown}
  <2>1. ASSUME NEW x, x \in UNION {ToSet(output[b]) : b \in Buckets}
        PROVE  x \in {Line(k) : k \in KeysShown}
    <3>1. PICK b \in Buckets : x \in ToSet(output[b])
      BY <2>1
    <3> QED BY <1>4, <3>1
  <2>2. ASSUME NEW k \in KeysShown PROVE Line(k) \in UNION {ToSet(output[b]) : b \in Buckets}
    <3>1. PICK b \in Buckets : k \in KeysIn(b)
      BY <1>5
    <3>2. Line(k) \in ToSet(output[b])
      BY <1>4, <3>1
    <3> QED BY <3>2
  <2> QED BY <2>1, <2>2
<1>7. ASSUME NEW b \in Buckets, NEW c \in Buckets,
             NEW i \in DOMAIN output[b], NEW j \in DOMAIN output[c],
             output[b][i] = output[c][j]
      PROVE  b = c /\ i = j
  <2>1. /\ g[b][i] \in KeysIn(b) /\ g[c][j] \in KeysIn(c)
        /\ Line(g[b][i]) = Line(g[c][j])
    BY <1>3, <1>7
  <2>2. \A k : Line(k).key = k
    BY DEF Line, Pair
  <2>3. g[b][i] = g[c][j]
    BY <2>1, <2>2
  <2>4. b = c
    BY <1>1, <2>1, <2>3, KeysShared
  <2> QED BY <1>3, <2>3, <2>4
<1> QED BY <1>1, <1>6, <1>7, SequentialLines

\* Whatever the documents and the hashes are, and in whatever order the buckets
\* are filled and fetched, the outputs of the reduce tasks together are what
\* mrsequential writes, each line once.
THEOREM DataSame == DataSpec => []SameAsSequential
BY DataInvariant, InvSame, PTL
=============================================================================
