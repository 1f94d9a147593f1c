---------------------------- MODULE CheckParallel ---------------------------
(***************************************************************************)
(* checkParallel of porcupine/checker.go: one goroutine per partition of   *)
(* the history (per key, for KvModel.Partition) runs checkSingle; the      *)
(* caller collects their results from a buffered channel, against a        *)
(* timeout, and stops them with the flag kill.  Of checkSingle only the    *)
(* promise is here: it returns the partition's verdict, or false once it   *)
(* has seen the flag.  Porcupine has the search itself.                    *)
(***************************************************************************)
EXTENDS KvHistory, FiniteSets

CONSTANTS
    MaxOps,    \* bounds the operations of a history
    Given,     \* the entries of the histories to check
    Kinds      \* what an operation may be: key, input and output, see KvStep

ASSUME ParAssumption ==
    /\ MaxOps \in Nat
    /\ Given \subseteq UNION {Histories(n) : n \in 0 .. MaxOps}
    /\ \A o \in Kinds : o.op \in {"get", "put", "append"}

VARIABLES
    ops,           \* ops[i]: key, input and output of operation i
    hist,          \* the entries
    linearizable,  \* linearizable[p]: what checkSingle finds for partition p
    verbose,       \* computeInfo
    timed,         \* timeout > 0
    search,        \* search[p]: the goroutine of p; "done": longest[p] is set
    unsent,        \* results of goroutines that have not sent them yet
    results,       \* the results in the channel: <<p, result>>
    ok, timedOut, kill, count,
    caller,        \* where checkParallel is
    result

truth == <<ops, hist, linearizable, verbose, timed>>
parVars ==
    <<truth, search, unsent, results, ok, timedOut, kill, count, caller, result>>

Ids == DOMAIN ops

\* Partition of KvModel: a partition for each key that occurs, none for an
\* empty history.
Keys == {o.key : o \in Kinds}
Parts == {ops[i].key : i \in Ids}
Partition(p) == {i \in Ids : ops[i].key = p}

\* checkOperations: the verdict of checkSingle for each partition.
Verdicts ==
    [p \in Parts |-> \E s \in SetToSeqs(Partition(p)) :
                       Legal(ops, s) /\ InTime(hist, Partition(p), s)]

\* CheckOperations, CheckOperationsTimeout and CheckOperationsVerbose.
Asked ==
    /\ verbose \in BOOLEAN
    /\ timed \in BOOLEAN

ParInit ==
    /\ hist \in Given
    /\ ops \in [1 .. Len(hist) \div 2 -> Kinds]
    /\ linearizable = Verdicts
    /\ Asked
    /\ search = [p \in Parts |-> "running"]
    /\ unsent = {}
    /\ results = {}
    /\ ok = TRUE
    /\ timedOut = FALSE
    /\ kill = FALSE
    /\ count = 0
    /\ caller = "select"
    /\ result = "none"

\* checkSingle returns, and longest[p] is written.
Goroutine(p) ==
    /\ p \in Parts
    /\ search[p] = "running"
    /\ search' = [search EXCEPT ![p] = "done"]
    /\ \/ unsent' = unsent \cup {<<p, linearizable[p]>>}
       \/ kill /\ unsent' = unsent \cup {<<p, FALSE>>}
    /\ UNCHANGED <<truth, results, ok, timedOut, kill, count, caller, result>>

\* results <- ok never blocks: the channel has room for all.
Send(r) ==
    /\ r \in unsent
    /\ unsent' = unsent \ {r}
    /\ results' = results \cup {r}
    /\ UNCHANGED <<truth, search, ok, timedOut, kill, count, caller, result>>

\* case result := <-results
Receive(r) ==
    LET good == ok /\ r[2]
    IN  /\ caller = "select"
        /\ r \in results
        /\ results' = results \ {r}
        /\ count' = count + 1
        /\ ok' = good
        /\ \/ /\ ~good /\ ~verbose
              /\ kill' = TRUE
              /\ caller' = "collect"
           \/ /\ good \/ verbose
              /\ count + 1 >= Cardinality(Parts)
              /\ caller' = "collect"
              /\ UNCHANGED kill
           \/ /\ good \/ verbose
              /\ count + 1 < Cardinality(Parts)
              /\ UNCHANGED <<kill, caller>>
        /\ UNCHANGED <<truth, search, unsent, timedOut, result>>

\* case <-timeoutChan
Timeout ==
    /\ caller = "select" /\ timed
    /\ timedOut' = TRUE
    /\ kill' = TRUE
    /\ caller' = "collect"
    /\ UNCHANGED <<truth, search, unsent, results, ok, count, result>>

\* With computeInfo, wait for the remaining goroutines.
Drain_Bug(r) ==
    /\ caller = "collect" /\ verbose
    /\ count < Cardinality(Parts)
    /\ r \in results
    /\ results' = results \ {r}
    /\ count' = count + 1
    /\ ok' = (ok /\ r[2])
    /\ UNCHANGED <<truth, search, unsent, timedOut, kill, caller, result>>

Drain(r) ==
    /\ caller = "collect" /\ verbose
    /\ count < Cardinality(Parts)
    /\ r \in results
    /\ results' = results \ {r}
    /\ count' = count + 1
    /\ UNCHANGED <<truth, search, unsent, ok, timedOut, kill, caller, result>>

\* The partial linearizations are read from longest, and checkParallel
\* returns.
Return_Bug ==
    /\ caller = "collect"
    /\ caller' = "returned"
    /\ result' = IF ~ok THEN "Illegal" ELSE IF timedOut THEN "Unknown" ELSE "Ok"
    /\ UNCHANGED <<truth, search, unsent, results, ok, timedOut, kill, count>>

Return ==
    /\ caller = "collect"
    /\ verbose => count >= Cardinality(Parts)
    /\ caller' = "returned"
    /\ result' = IF ~ok THEN "Illegal" ELSE IF timedOut THEN "Unknown" ELSE "Ok"
    /\ UNCHANGED <<truth, search, unsent, results, ok, timedOut, kill, count>>

Caller == (\E r \in results : Receive(r) \/ Drain(r)) \/ Return

ParNext ==
    \/ \E p \in Keys : Goroutine(p)
    \/ \E r \in unsent : Send(r)
    \/ Caller
    \/ Timeout

ParSpec == ParInit /\ [][ParNext]_parVars

-----------------------------------------------------------------------------
(* Properties.                                                             *)

\* The operations can be executed one by one in the order s on a store that
\* has all keys.
LegalStore(s) ==
    LET store[k \in 0 .. Len(s)] ==  \* after k operations
            IF k = 0 THEN [p \in Parts |-> KvInit]
            ELSE [store[k - 1] EXCEPT ![ops[s[k]].key] = KvStep(@, ops[s[k]]).state]
    IN  \A k \in 1 .. Len(s) : KvStep(store[k - 1][ops[s[k]].key], ops[s[k]]).ok

Linearizable == \E s \in SetToSeqs(Ids) : LegalStore(s) /\ InTime(hist, Ids, s)

\* The answer is about the whole history ("a history is linearizable if and
\* only if each partition is"), and never comes from a search that was cut
\* short: Ok means that the history is linearizable, Illegal that it is not,
\* and Unknown is for a timeout only.
AnswerCorrect ==
    /\ result = "Illegal" => ~Linearizable
    /\ result = "Ok" => Linearizable
    /\ result = "Unknown" => timedOut

\* "make sure we've waited for all goroutines to finish, otherwise we might
\* race on access to longest[]": in verbose mode nobody writes longest any
\* more when the caller reads it.
NoRaceOnLongest ==
    caller = "returned" /\ verbose => \A p \in Parts : search[p] = "done"

\* The check returns, with or without a timeout.  The one exception is a
\* history without operations: there is no result to count, so without a
\* timeout the caller waits for ever.
CheckReturns == <>[](caller = IF Parts = {} /\ ~timed THEN "select"
                              ELSE "returned")
=============================================================================
