------------------------------ MODULE MRTypes ------------------------------
(***************************************************************************)
(* The data shared by the coordinator and the workers of the MapReduce     *)
(* system (Lab2, package mr).                                              *)
(*                                                                         *)
(* A map task is a member of MapTasks (one per input file).  The reduce    *)
(* task of bucket i is created together with it (MakeCoordinator), so the  *)
(* number of the bucket stands for the task and for its output mr-out-i.   *)
(* An address is the string a worker announces as its own.                 *)
(***************************************************************************)
EXTENDS MRBuckets

CONSTANTS
    MapTasks,   \* the TaskIDs of the map tasks, one for each input file
    Addresses,  \* the addresses workers announce
    NoAddress,  \* "the key is not in the Go map"
    NoTask      \* "no task is being executed"

Tasks == MapTasks \cup Buckets

TaskStates == {"Unassigned", "Running", "Done"}

\* One value of ReduceTask.MapTaskOutputs.
Outputs == [MapTasks -> Addresses \cup {NoAddress}]

NoOutputs == [m \in MapTasks |-> NoAddress]

ASSUME MapTasksAssumption == MapTasks # {} /\ MapTasks \cap Buckets = {}
ASSUME NoAddressAssumption == NoAddress \notin Addresses
ASSUME NoTaskAssumption == NoTask \notin Tasks
=============================================================================
