-------------------------------- MODULE Job --------------------------------
(***************************************************************************)
(* What the MapReduce system promises, without coordinator, workers, RPCs  *)
(* or failures: map tasks are executed, then reduce tasks are completed,   *)
(* each once and for all, and the job finishes when all of them are.       *)
(***************************************************************************)
CONSTANTS MapTasks, Buckets

VARIABLES
    mapped,    \* the map tasks whose intermediate files all exist somewhere
    reduced,   \* the reduce tasks that are complete
    finished   \* the program has exited

jobVars == <<mapped, reduced, finished>>

JobInit == mapped = {} /\ reduced = {} /\ finished = FALSE

MapOne(m) ==
    /\ mapped' = mapped \cup {m}
    /\ UNCHANGED <<reduced, finished>>

\* No reduce task completes before every map task has been executed.
ReduceOne(b) ==
    /\ mapped = MapTasks
    /\ ~finished
    /\ reduced' = reduced \cup {b}
    /\ UNCHANGED <<mapped, finished>>

Finish ==
    /\ reduced = Buckets
    /\ finished' = TRUE
    /\ UNCHANGED <<mapped, reduced>>

JobNext ==
    \/ \E m \in MapTasks : MapOne(m)
    \/ \E b \in Buckets : ReduceOne(b)
    \/ Finish

JobSpec == JobInit /\ [][JobNext]_jobVars
=============================================================================
