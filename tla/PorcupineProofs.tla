--------------------------- MODULE PorcupineProofs --------------------------
(***************************************************************************)
(* The linearizability checker, for any history, any operations and any    *)
(* number of partitions: the linked list stays intact, a search finds out  *)
(* whether its partition is linearizable and reports the longest prefixes, *)
(* checkParallel reads nothing that is still written, and its answer is    *)
(* about the whole history.                                                *)
(***************************************************************************)
EXTENDS Porcupine, FiniteSetTheorems, TLAPS

-----------------------------------------------------------------------------
(* The history.                                                            *)

\* A history of n operations.
WellFormed == \E n \in Nat : hist \in Histories(n) /\ ops \in [1 .. n -> Kinds]

LEMMA HistFacts ==
    ASSUME WellFormed
    PROVE  \E n \in Nat :
             /\ Len(hist) = 2 * n /\ DOMAIN hist = 1 .. 2 * n
             /\ hist \in [1 .. 2 * n -> [kind : {"call", "return"}, id : 1 .. n]]
             /\ hist \in Histories(n)
             /\ ops \in [1 .. n -> Kinds]
             /\ Ids = 1 .. n
<1>1. PICK n \in Nat : hist \in Histories(n) /\ ops \in [1 .. n -> Kinds]
  BY DEF WellFormed
<1> DEFINE E == [kind : {"call", "return"}, id : 1 .. n]
<1>2. hist \in [1 .. 2 * n -> E]
  BY <1>1 DEF Histories
<1>3. 2 * n \in Nat
  BY <1>1
<1>4. Len(hist) = 2 * n /\ DOMAIN hist = 1 .. 2 * n
  <2> HIDE DEF E
  <2>1. hist \in Seq(E)
    BY <1>2, <1>3
  <2> QED BY <1>2, <1>3, <2>1
<1>5. Ids = 1 .. n
  BY <1>1 DEF Ids
<1> QED BY <1>1, <1>2, <1>4, <1>5

LEMMA InitWellFormed == ParInit => WellFormed
<1> SUFFICES ASSUME ParInit PROVE WellFormed
  OBVIOUS
<1>1. PICK n \in 0 .. MaxOps : hist \in Histories(n)
  BY ParAssumption DEF ParInit
<1>2. n \in Nat
  BY <1>1, ParAssumption
<1> DEFINE E == [kind : {"call", "return"}, id : 1 .. n]
<1>3. hist \in [1 .. 2 * n -> E]
  BY <1>1 DEF Histories
<1>4. Len(hist) = 2 * n
  <2> HIDE DEF E
  <2>1. 2 * n \in Nat
    BY <1>2
  <2> QED BY <1>3, <2>1
<1>5. Len(hist) \div 2 = n
  BY <1>2, <1>4
<1> QED BY <1>1, <1>2, <1>5 DEF ParInit, WellFormed

\* There are finitely many partitions.
LEMMA PartsFinite ==
    ASSUME WellFormed
    PROVE  IsFiniteSet(Parts) /\ Parts \subseteq Keys
<1>1. PICK n \in Nat : ops \in [1 .. n -> Kinds] /\ Ids = 1 .. n
  BY HistFacts
<1>2. IsFiniteSet(Ids)
  BY <1>1, FS_Interval
<1> DEFINE f == [i \in Ids |-> ops[i].key]
<1>3. f \in Surjection(Ids, Parts)
  BY DEF Surjection, Parts
<1>4. IsFiniteSet(Parts)
  BY <1>2, <1>3, FS_Surjection
<1>5. Parts \subseteq Keys
  BY <1>1 DEF Parts, Keys
<1> QED BY <1>4, <1>5

-----------------------------------------------------------------------------
(* checkParallel.                                                          *)

\* The partitions whose search is over.
Over == {p \in Parts : search[p] = "done"}

\* The results that the caller has not received.
Pending == unsent \cup results

\* The partitions whose result the caller has received.
Received == {p \in Over : \A r \in Pending : r[1] # p}

ParTypeOK ==
    /\ WellFormed
    /\ linearizable = Verdicts
    /\ verbose \in BOOLEAN
    /\ search \in [Parts -> {"running", "done"}]
    /\ Pending \subseteq Parts \X BOOLEAN
    /\ ok \in BOOLEAN /\ timedOut \in BOOLEAN /\ kill \in BOOLEAN
    /\ count \in Nat
    /\ caller \in {"select", "collect", "returned"}
    /\ result \in {"none", "Illegal", "Unknown", "Ok"}

\* Every search that is over has one result, which is pending or counted.
Counted ==
    /\ \A r \in Pending : search[r[1]] = "done"
    /\ \A r, q \in Pending : r[1] = q[1] => r = q
    /\ IsFiniteSet(Pending)
    /\ count + Cardinality(Pending) = Cardinality(Over)

\* A result is sent once.
SentOnce == unsent \cap results = {}

\* As long as the caller selects nobody is stopped: the results pending are
\* verdicts.
Unstopped ==
    caller = "select" =>
        ~kill /\ ~timedOut /\ \A r \in Pending : r[2] = linearizable[r[1]]

\* What ok says of the results received before a timeout.
OkSays ==
    /\ ~ok => \E p \in Parts : ~linearizable[p]
    /\ ok /\ ~timedOut => \A p \in Received : linearizable[p]
    /\ ok /\ ~timedOut /\ caller # "select" => count >= Cardinality(Parts)

\* What checkParallel returned.
ReturnSays ==
    /\ caller = "returned" <=> result # "none"
    /\ result = "Illegal" => ~ok
    /\ result = "Ok" => ok /\ ~timedOut
    /\ result = "Unknown" => timedOut
    /\ caller = "returned" /\ verbose => count >= Cardinality(Parts)

ParInv ==
    ParTypeOK /\ Counted /\ SentOnce /\ Unstopped /\ OkSays /\ ReturnSays

\* What is asked does not change.
LEMMA TruthKept ==
    ASSUME UNCHANGED truth
    PROVE  /\ Ids' = Ids /\ Parts' = Parts /\ (WellFormed => WellFormed')
           /\ Verdicts' = Verdicts
           /\ UNCHANGED <<ops, hist, linearizable, verbose, timed>>
<1>1. UNCHANGED <<ops, hist, linearizable, verbose, timed>>
  BY DEF truth
<1>2. Ids' = Ids /\ Parts' = Parts /\ (WellFormed => WellFormed')
  BY <1>1 DEF Ids, Parts, WellFormed
<1>3. \A p : Partition(p)' = Partition(p)
  BY <1>1 DEF Partition, Ids
<1>4. Verdicts' = Verdicts
  BY <1>1, <1>2, <1>3 DEF Verdicts
<1> QED BY <1>1, <1>2, <1>4

LEMMA OverFinite ==
    ASSUME ParInv
    PROVE  /\ IsFiniteSet(Over) /\ Over \subseteq Parts
           /\ Cardinality(Parts) \in Nat /\ Cardinality(Over) \in Nat
           /\ Cardinality(Over) <= Cardinality(Parts)
           /\ Cardinality(Pending) \in Nat
<1>1. IsFiniteSet(Parts)
  BY PartsFinite DEF ParInv, ParTypeOK
<1>2. Over \subseteq Parts /\ IsFiniteSet(Pending)
  BY DEF Over, ParInv, Counted
<1> QED BY <1>1, <1>2, FS_Subset, FS_CardinalityType

\* A search is over and has its result.
LEMMA GoroutineInv ==
    ASSUME ParInv, NEW p, Goroutine(p)
    PROVE  ParInv'
<1>0. /\ p \in Parts /\ search[p] = "running"
      /\ search' = [search EXCEPT ![p] = "done"]
      /\ UNCHANGED <<ok, timedOut, kill, count, caller, result>>
      /\ UNCHANGED truth
      /\ linearizable[p] \in BOOLEAN
  BY DEF Goroutine, ParInv, ParTypeOK, Verdicts
<1>1. PICK b \in BOOLEAN : /\ unsent' = unsent \cup {<<p, b>>}
                           /\ results' = results
                           /\ Pending' = Pending \cup {<<p, b>>}
                           /\ b = linearizable[p] \/ (kill /\ b = FALSE)
  BY <1>0 DEF Goroutine, Pending
<1>2. ParTypeOK'
  <2>1. search' \in [Parts -> {"running", "done"}]
    BY <1>0 DEF ParInv, ParTypeOK
  <2>2. Pending' \subseteq Parts \X BOOLEAN
    BY <1>0, <1>1 DEF ParInv, ParTypeOK
  <2> QED BY <1>0, <2>1, <2>2, TruthKept DEF ParInv, ParTypeOK
<1>3. /\ Over' = Over \cup {p} /\ p \notin Over
      /\ \A r \in Pending : r[1] # p
  BY <1>0, TruthKept DEF Over, ParInv, ParTypeOK, Counted
<1>4. Received' = Received
  <2>1. ASSUME NEW q \in Over', q \in Received' PROVE q \in Received
    <3>1. <<p, b>>[1] # q
      BY <1>1, <2>1 DEF Received
    <3> QED BY <1>1, <1>3, <2>1, <3>1 DEF Received
  <2>2. ASSUME NEW q \in Received PROVE q \in Received'
    <3>1. q \in Over' /\ q # p
      BY <1>3, <2>2 DEF Received
    <3>2. \A r \in Pending' : r[1] # q
      BY <1>1, <2>2, <3>1 DEF Received
    <3> QED BY <3>1, <3>2 DEF Received
  <2>3. Received' \subseteq Over'
    BY DEF Received
  <2> QED BY <2>1, <2>2, <2>3
<1>5. Counted'
  <2>1. \A r \in Pending' : search'[r[1]] = "done"
    BY <1>0, <1>1 DEF ParInv, ParTypeOK, Counted
  <2>2. \A r, q \in Pending' : r[1] = q[1] => r = q
    BY <1>1, <1>3 DEF ParInv, Counted
  <2>3. <<p, b>> \notin Pending
    BY <1>3
  <2>4. /\ IsFiniteSet(Pending') /\ Cardinality(Pending') = Cardinality(Pending) + 1
        /\ Cardinality(Over') = Cardinality(Over) + 1
    BY <1>1, <1>3, <2>3, OverFinite, FS_AddElement DEF ParInv, Counted
  <2> QED BY <1>0, <2>1, <2>2, <2>4, OverFinite DEF ParInv, ParTypeOK, Counted
<1>6. Unstopped'
  BY <1>0, <1>1, TruthKept DEF ParInv, Unstopped
<1>7. OkSays' /\ ReturnSays'
  BY <1>0, <1>4, TruthKept DEF ParInv, OkSays, ReturnSays
<1>8. SentOnce'
  <2>1. <<p, b>> \notin results
    BY <1>3 DEF Pending
  <2> QED BY <1>1, <2>1 DEF ParInv, SentOnce
<1> QED BY <1>2, <1>5, <1>6, <1>7, <1>8 DEF ParInv

\* It sends the result.
LEMMA SendInv ==
    ASSUME ParInv, NEW r \in unsent, Send(r)
    PROVE  ParInv'
<1>0. /\ UNCHANGED truth
      /\ unsent' = unsent \ {r} /\ results' = results \cup {r}
      /\ UNCHANGED <<search, ok, timedOut, kill, count, caller, result>>
  BY DEF Send
<1>1. Pending' = Pending /\ SentOnce'
  BY <1>0 DEF Pending, ParInv, SentOnce
<1>2. Over' = Over /\ Received' = Received
  BY <1>0, <1>1, TruthKept DEF Over, Received
<1>3. ParTypeOK' /\ Counted' /\ Unstopped'
  BY <1>0, <1>1, <1>2, TruthKept DEF ParInv, ParTypeOK, Counted, Unstopped
<1>4. OkSays' /\ ReturnSays'
  BY <1>0, <1>2, TruthKept DEF ParInv, OkSays, ReturnSays
<1> QED BY <1>1, <1>3, <1>4 DEF ParInv

\* A result is taken out of the channel.
LEMMA TakeResult ==
    ASSUME ParInv, NEW r \in results, results' = results \ {r}, count' = count + 1,
           UNCHANGED truth, UNCHANGED <<search, unsent>>
    PROVE  /\ Counted' /\ count' \in Nat /\ Pending' \subseteq Pending
           /\ SentOnce' /\ r \in Pending
           /\ r[1] \in Parts /\ r[2] \in BOOLEAN
           /\ Over' = Over
           /\ \A p \in Received' : p \in Received \/ p = r[1]
<1>0. Pending' = Pending \ {r} /\ r \in Pending /\ SentOnce'
  BY DEF Pending, ParInv, SentOnce
<1>1. Over' = Over
  BY TruthKept DEF Over
<1>2. /\ IsFiniteSet(Pending')
      /\ Cardinality(Pending') = Cardinality(Pending) - 1
  BY <1>0, FS_RemoveElement DEF ParInv, Counted
<1>3. Counted' /\ count' \in Nat
  BY <1>0, <1>1, <1>2, OverFinite DEF ParInv, ParTypeOK, Counted
<1>4. \A p \in Received' : p \in Received \/ p = r[1]
  BY <1>0, <1>1 DEF Received
<1> QED BY <1>0, <1>1, <1>3, <1>4 DEF ParInv, ParTypeOK

LEMMA ReceiveInv ==
    ASSUME ParInv, NEW r \in results, Receive(r)
    PROVE  ParInv'
<1>0. /\ caller = "select" /\ results' = results \ {r} /\ count' = count + 1
      /\ ok' = (ok /\ r[2])
      /\ UNCHANGED truth /\ UNCHANGED <<search, unsent, timedOut, result>>
  BY DEF Receive
<1>1. /\ Counted' /\ count' \in Nat /\ Pending' \subseteq Pending
      /\ SentOnce' /\ r \in Pending
      /\ r[1] \in Parts /\ r[2] \in BOOLEAN
      /\ Over' = Over
      /\ \A p \in Received' : p \in Received \/ p = r[1]
  BY <1>0, TakeResult
<1>2. /\ ~kill /\ ~timedOut /\ r[2] = linearizable[r[1]]
      /\ \A q \in Pending : q[2] = linearizable[q[1]]
  BY <1>0, <1>1 DEF ParInv, Unstopped
<1>3. /\ caller' \in {"select", "collect"}
      /\ caller' = "select" => kill' = kill
      /\ kill' \in BOOLEAN
      /\ caller' = "collect" => ~ok' \/ count' >= Cardinality(Parts)
  BY <1>0, <1>2 DEF Receive, ParInv, ParTypeOK
<1>4. ParTypeOK'
  BY <1>0, <1>1, <1>3, TruthKept DEF ParInv, ParTypeOK
<1>5. Unstopped'
  BY <1>0, <1>1, <1>2, <1>3, TruthKept DEF Unstopped
<1>6. OkSays'
  BY <1>0, <1>1, <1>2, <1>3, TruthKept DEF ParInv, OkSays
<1>7. ReturnSays'
  BY <1>0, <1>3, TruthKept DEF ParInv, ReturnSays
<1> QED BY <1>1, <1>4, <1>5, <1>6, <1>7 DEF ParInv

LEMMA DrainInv ==
    ASSUME ParInv, NEW r \in results, Drain(r)
    PROVE  ParInv'
<1>0. /\ caller = "collect" /\ results' = results \ {r} /\ count' = count + 1
      /\ count < Cardinality(Parts)
      /\ UNCHANGED truth
      /\ UNCHANGED <<search, unsent, ok, timedOut, kill, caller, result>>
  BY DEF Drain
<1>1. /\ Counted' /\ count' \in Nat /\ Pending' \subseteq Pending
      /\ SentOnce' /\ r \in Pending
  BY <1>0, TakeResult
<1>2. ~ok \/ timedOut
  BY <1>0, OverFinite DEF ParInv, ParTypeOK, OkSays
<1>3. ParTypeOK' /\ Unstopped'
  BY <1>0, <1>1, TruthKept DEF ParInv, ParTypeOK, Unstopped
<1>4. OkSays' /\ ReturnSays'
  BY <1>0, <1>2, TruthKept DEF ParInv, OkSays, ReturnSays
<1> QED BY <1>1, <1>3, <1>4 DEF ParInv

LEMMA ReturnInv ==
    ASSUME ParInv, Return
    PROVE  ParInv'
<1>0. /\ UNCHANGED truth
      /\ UNCHANGED <<search, unsent, results, ok, timedOut, kill, count>>
      /\ caller = "collect" /\ caller' = "returned"
      /\ verbose => count >= Cardinality(Parts)
      /\ result' = IF ~ok THEN "Illegal" ELSE IF timedOut THEN "Unknown" ELSE "Ok"
  BY DEF Return
<1>1. /\ Over' = Over /\ Received' = Received
      /\ Pending' = Pending /\ SentOnce'
  BY <1>0, TruthKept DEF Over, Received, Pending, ParInv, SentOnce
<1>2. ParTypeOK' /\ Counted' /\ Unstopped'
  BY <1>0, <1>1, TruthKept DEF ParInv, ParTypeOK, Counted, Unstopped
<1>3. OkSays' /\ ReturnSays'
  BY <1>0, <1>1, TruthKept DEF ParInv, OkSays, ReturnSays
<1> QED BY <1>1, <1>2, <1>3 DEF ParInv

LEMMA TimeoutInv ==
    ASSUME ParInv, Timeout
    PROVE  ParInv'
<1>0. /\ UNCHANGED truth
      /\ UNCHANGED <<search, unsent, results, ok, count, result>>
      /\ timedOut' = TRUE /\ kill' = TRUE
      /\ caller = "select" /\ caller' = "collect"
  BY DEF Timeout
<1>1. /\ Over' = Over /\ Received' = Received
      /\ Pending' = Pending /\ SentOnce'
  BY <1>0, TruthKept DEF Over, Received, Pending, ParInv, SentOnce
<1>2. ParTypeOK' /\ Counted' /\ Unstopped'
  BY <1>0, <1>1, TruthKept DEF ParInv, ParTypeOK, Counted, Unstopped
<1>3. OkSays' /\ ReturnSays'
  BY <1>0, <1>1, TruthKept DEF ParInv, OkSays, ReturnSays
<1> QED BY <1>1, <1>2, <1>3 DEF ParInv

LEMMA ParStutter ==
    ASSUME ParInv, UNCHANGED parVars
    PROVE  ParInv'
<1>0. /\ UNCHANGED truth
      /\ UNCHANGED <<search, unsent, results, ok, timedOut, kill, count, caller,
                      result>>
  BY DEF parVars
<1>1. /\ Over' = Over /\ Received' = Received
      /\ Pending' = Pending /\ SentOnce'
  BY <1>0, TruthKept DEF Over, Received, Pending, ParInv, SentOnce
<1>2. ParTypeOK' /\ Counted' /\ Unstopped'
  BY <1>0, <1>1, TruthKept DEF ParInv, ParTypeOK, Counted, Unstopped
<1>3. OkSays' /\ ReturnSays'
  BY <1>0, <1>1, TruthKept DEF ParInv, OkSays, ReturnSays
<1> QED BY <1>1, <1>2, <1>3 DEF ParInv

LEMMA ParInitInv == ParInit => ParInv
<1> SUFFICES ASSUME ParInit PROVE ParInv
  OBVIOUS
<1>0. Pending = {} /\ SentOnce
  BY DEF ParInit, Pending, SentOnce
<1>1. ParTypeOK
  BY <1>0, InitWellFormed DEF ParInit, ParTypeOK, Asked
<1>2. Over = {}
  BY DEF ParInit, Over
<1>3. Counted
  BY <1>0, <1>2, FS_EmptySet DEF ParInit, Counted
<1>4. Unstopped /\ OkSays /\ ReturnSays
  BY <1>0, <1>2 DEF ParInit, Unstopped, OkSays, ReturnSays, Received
<1> QED BY <1>0, <1>1, <1>3, <1>4 DEF ParInv

LEMMA ParNextInv == ParInv /\ [ParNext]_parVars => ParInv'
BY GoroutineInv, SendInv, ReceiveInv, DrainInv, ReturnInv, TimeoutInv, ParStutter
   DEF ParNext, Caller

\* The inductive invariant of checkParallel.
THEOREM ParInvariant == ParSpec => []ParInv
<1>1. ParInit => ParInv
  BY ParInitInv
<1>2. ParInv /\ [ParNext]_parVars => ParInv'
  BY ParNextInv
<1> QED BY <1>1, <1>2, PTL DEF ParSpec

\* When all results are counted, every search is over.
LEMMA AllOver ==
    ASSUME ParInv, count >= Cardinality(Parts)
    PROVE  Over = Parts /\ Pending = {} /\ Received = Parts
<1>1. Cardinality(Over) = Cardinality(Parts) /\ Cardinality(Pending) = 0
  BY OverFinite DEF ParInv, ParTypeOK, Counted
<1>2. Over = Parts
  BY <1>1, OverFinite, PartsFinite, FS_Subset DEF ParInv, ParTypeOK
<1>3. Pending = {}
  BY <1>1, FS_EmptySet DEF ParInv, Counted
<1> QED BY <1>2, <1>3 DEF Received

\* In verbose mode, no goroutine is left that writes longest when the caller
\* reads it, also after a timeout and after a partition was found illegal.
THEOREM ParNoRace == ParSpec => []NoRaceOnLongest
<1>1. ParInv => NoRaceOnLongest
  BY AllOver DEF ParInv, ReturnSays, NoRaceOnLongest, Over
<1> QED BY <1>1, ParInvariant, PTL

\* The answer, in terms of the verdicts of the partitions.
VerdictsAnswer ==
    /\ result = "Illegal" => \E p \in Parts : ~linearizable[p]
    /\ result = "Ok" => \A p \in Parts : linearizable[p]
    /\ result = "Unknown" => timedOut

LEMMA AnswerFromVerdicts == ParInv => VerdictsAnswer
<1> SUFFICES ASSUME ParInv PROVE VerdictsAnswer
  OBVIOUS
<1>1. result = "Ok" => \A p \in Parts : linearizable[p]
  BY AllOver DEF ParInv, ReturnSays, OkSays
<1> QED BY <1>1 DEF ParInv, ReturnSays, OkSays, VerdictsAnswer
-----------------------------------------------------------------------------
(* Calls and returns.                                                      *)

\* Every operation has a call and a return: 2n entries that are all different
\* leave none of the 2n possible ones out.
LEMMA AllEntries ==
    ASSUME NEW n \in Nat, NEW h \in Histories(n)
    PROVE  \A e \in [kind : {"call", "return"}, id : 1 .. n] :
              \E x \in 1 .. 2 * n : h[x] = e
<1> DEFINE K == {"call", "return"}
           E == [kind : K, id : 1 .. n]
           f == [q \in K \X (1 .. n) |-> [kind |-> q[1], id |-> q[2]]]
<1>1. IsFiniteSet(K) /\ Cardinality(K) = 2
  <2>1. K = {"call"} \cup {"return"} /\ "return" \notin {"call"}
    OBVIOUS
  <2>2. IsFiniteSet({"call"}) /\ Cardinality({"call"}) = 1
    BY FS_Singleton
  <2> QED BY <2>1, <2>2, FS_AddElement
<1>2. IsFiniteSet(1 .. n) /\ Cardinality(1 .. n) = n
  BY FS_Interval
<1>3. IsFiniteSet(K \X (1 .. n)) /\ Cardinality(K \X (1 .. n)) = 2 * n
  <2> DEFINE I == 1 .. n
  <2>1. IsFiniteSet(I) /\ Cardinality(I) = n
    BY <1>2
  <2> HIDE DEF K, I
  <2>2. IsFiniteSet(K \X I) /\ Cardinality(K \X I) = Cardinality(K) * Cardinality(I)
    BY <1>1, <2>1, FS_Product
  <2>3. IsFiniteSet(K \X I) /\ Cardinality(K \X I) = 2 * n
    BY <1>1, <2>1, <2>2
  <2> QED BY <2>3 DEF I
<1>4. f \in Bijection(K \X (1 .. n), E)
  <2>1. f \in [K \X (1 .. n) -> E]
    OBVIOUS
  <2>2. ASSUME NEW q \in K \X (1 .. n), NEW r \in K \X (1 .. n), f[q] = f[r]
        PROVE  q = r
    <3>1. q[1] = r[1] /\ q[2] = r[2]
      BY <2>2
    <3> QED BY <3>1
  <2>3. ASSUME NEW e \in E PROVE \E q \in K \X (1 .. n) : f[q] = e
    <3>1. <<e.kind, e.id>> \in K \X (1 .. n) /\ f[<<e.kind, e.id>>] = e
      OBVIOUS
    <3> QED BY <3>1
  <2> QED BY <2>1, <2>2, <2>3 DEF Bijection, Injection, Surjection, IsInjective
<1>5. IsFiniteSet(E) /\ Cardinality(E) = 2 * n
  BY <1>3, <1>4, FS_Bijection DEF ExistsBijection
<1>6. h \in Injection(1 .. 2 * n, E)
  BY DEF Histories, Injection, IsInjective
<1>7. Cardinality(1 .. 2 * n) = 2 * n
  BY FS_Interval
<1>8. h \in Surjection(1 .. 2 * n, E)
  BY <1>5, <1>6, <1>7, FS_Injection
<1> QED BY <1>8 DEF Surjection

\* The nodes of an operation: its call and, later, its return.
LEMMA CallAndReturn ==
    ASSUME WellFormed, NEW e \in DOMAIN hist, IsCall(e)
    PROVE  /\ MatchOf(e) \in DOMAIN hist /\ ~IsCall(MatchOf(e))
           /\ IdOf(MatchOf(e)) = IdOf(e)
           /\ MatchOf(e) > e
           /\ \A x \in DOMAIN hist : IdOf(x) = IdOf(e) => x \in {e, MatchOf(e)}
<1>1. PICK n \in Nat :
         /\ DOMAIN hist = 1 .. 2 * n
         /\ hist \in [1 .. 2 * n -> [kind : {"call", "return"}, id : 1 .. n]]
         /\ hist \in Histories(n)
  BY HistFacts
<1> DEFINE r == [kind |-> "return", id |-> IdOf(e)]
<1>2. r \in [kind : {"call", "return"}, id : 1 .. n]
  BY <1>1 DEF IdOf
<1>3. \E y \in DOMAIN hist : hist[y] = r
  BY <1>1, <1>2, AllEntries
<1>4. MatchOf(e) \in DOMAIN hist /\ hist[MatchOf(e)] = r
  BY <1>3 DEF MatchOf
<1>5. /\ \A a, b \in DOMAIN hist : a # b => hist[a] # hist[b]
      /\ \A a, b \in DOMAIN hist :
            hist[a].id = hist[b].id /\ hist[a].kind = "return" => b <= a
  BY <1>1 DEF Histories
<1>6. e <= MatchOf(e) /\ e # MatchOf(e)
  BY <1>4, <1>5 DEF IdOf, IsCall
<1>7. e \in Nat /\ MatchOf(e) \in Nat
  BY <1>1, <1>4
<1>8. ASSUME NEW x \in DOMAIN hist, IdOf(x) = IdOf(e) PROVE x \in {e, MatchOf(e)}
  <2>1. hist[x].kind = "call" => hist[x] = hist[e]
    BY <1>1, <1>8 DEF IdOf, IsCall
  <2>2. hist[x].kind = "return" => hist[x] = hist[MatchOf(e)]
    BY <1>1, <1>4, <1>8 DEF IdOf
  <2>3. hist[x].kind \in {"call", "return"}
    BY <1>1
  <2> QED BY <1>4, <1>5, <2>1, <2>2, <2>3
<1> QED BY <1>4, <1>6, <1>7, <1>8 DEF IdOf, IsCall

\* Every operation is called, and a return has a call before it.
LEMMA Called ==
    ASSUME WellFormed
    PROVE  /\ \A i \in Ids : \E e \in DOMAIN hist : IsCall(e) /\ IdOf(e) = i
           /\ \A x \in DOMAIN hist : IdOf(x) \in Ids
<1>1. PICK n \in Nat :
         /\ DOMAIN hist = 1 .. 2 * n
         /\ hist \in [1 .. 2 * n -> [kind : {"call", "return"}, id : 1 .. n]]
         /\ hist \in Histories(n)
         /\ Ids = 1 .. n
  BY HistFacts
<1>2. ASSUME NEW i \in Ids PROVE \E e \in DOMAIN hist : IsCall(e) /\ IdOf(e) = i
  <2>1. [kind |-> "call", id |-> i] \in [kind : {"call", "return"}, id : 1 .. n]
    BY <1>1
  <2>2. \A e \in [kind : {"call", "return"}, id : 1 .. n] :
           \E x \in 1 .. 2 * n : hist[x] = e
    BY <1>1, AllEntries
  <2>3. PICK e \in 1 .. 2 * n : hist[e] = [kind |-> "call", id |-> i]
    BY <2>1, <2>2
  <2> QED BY <1>1, <2>3 DEF IsCall, IdOf
<1>3. \A x \in DOMAIN hist : IdOf(x) \in Ids
  BY <1>1 DEF IdOf
<1> QED BY <1>2, <1>3
-----------------------------------------------------------------------------
(* The linked list, for a set S of positions in 1 .. n.                    *)

\* y follows x in S, or is the end n + 1; y precedes x in S, or is the head.
IsNext(S, n, x, y) ==
    y \in S \cup {n + 1} /\ y > x /\ \A z \in S : z > x => y <= z
IsPrev(S, x, y) ==
    y \in S \cup {0} /\ y < x /\ \A z \in S : z < x => z <= y

\* Any set of natural numbers has a minimum.
LEMMA NatMin ==
    ASSUME NEW T \in SUBSET Nat, T # {}
    PROVE  \E x \in T : \A y \in T : x <= y
<1>1. PICK x \in T : \A y \in T : ~(<<y, x>> \in OpToRel(<, Nat))
  BY WFMin, NatLessThanWellFounded
<1>2. \A y \in T : ~(y < x)
  BY <1>1 DEF OpToRel
<1> QED BY <1>2

LEMMA FollowingIsNext ==
    ASSUME NEW S \in SUBSET (1 .. Len(hist)), Len(hist) \in Nat,
           NEW x \in 0 .. Len(hist)
    PROVE  IsNext(S, Len(hist), x, Following(S, x))
<1> DEFINE T == {y \in S \cup {Nil} : y > x}
<1>1. T \in SUBSET Nat /\ Nil \in T
  <2>1. S \subseteq Nat /\ Nil \in Nat /\ Nil > x
    BY DEF Nil
  <2> QED BY <2>1
<1>2. PICK y \in T : \A z \in T : y <= z
  BY <1>1, NatMin
<1>3. y \in S \cup {Nil} /\ y > x /\ \A z \in S : z > x => y <= z
  BY <1>2
<1> QED BY <1>3 DEF Following, IsNext, Nil

LEMMA PrecedingIsPrev ==
    ASSUME NEW S \in SUBSET (1 .. Len(hist)), Len(hist) \in Nat,
           NEW x \in S
    PROVE  IsPrev(S, x, Preceding(S, x))
<1> DEFINE T == {Len(hist) - y : y \in {z \in S \cup {0} : z < x}}
<1>1. T \in SUBSET Nat /\ Len(hist) \in T
  OBVIOUS
<1>2. PICK d \in T : \A z \in T : d <= z
  BY <1>1, NatMin
<1>3. PICK y \in S \cup {0} : y < x /\ d = Len(hist) - y
  BY <1>2
<1>4. ASSUME NEW z \in S, z < x PROVE z <= y
  <2>1. Len(hist) - z \in T
    BY <1>4
  <2>2. d <= Len(hist) - z
    BY <1>2, <2>1
  <2>3. y \in Nat /\ z \in Nat
    BY <1>3
  <2> QED BY <1>3, <2>2, <2>3
<1> QED BY <1>3, <1>4 DEF Preceding, IsPrev, Head0

LEMMA NextUnique ==
    ASSUME NEW n \in Nat, NEW S \in SUBSET (1 .. n), NEW x \in 0 .. n,
           NEW y, NEW z, IsNext(S, n, x, y), IsNext(S, n, x, z)
    PROVE  y = z
BY DEF IsNext

LEMMA PrevOfNext ==
    ASSUME NEW n \in Nat, NEW S \in SUBSET (1 .. n), NEW x \in S \cup {0},
           NEW y \in S, NEW z, IsNext(S, n, x, y), IsPrev(S, y, z)
    PROVE  z = x
BY DEF IsNext, IsPrev

\* A list of nodes M, of which those in S are linked.
IsList(l, M, n) ==
    /\ l = [next |-> l.next, prev |-> l.prev]
    /\ l.next \in [M \cup {0} -> 0 .. n + 1]
    /\ l.prev \in [M -> 0 .. n]
Linked(l, S, n) ==
    /\ \A x \in S \cup {0} : IsNext(S, n, x, l.next[x])
    /\ \A x \in S : IsPrev(S, x, l.prev[x])

\* What the two lists say of the nodes outside S is the same.
SameOutside(l, k, M, S) ==
    \A x \in M \ S : k.next[x] = l.next[x] /\ k.prev[x] = l.prev[x]
\* Unlinking takes one node out and leaves its own links.
LEMMA UnlinkList ==
    ASSUME NEW n \in Nat, NEW M \in SUBSET (1 .. n), NEW S \in SUBSET M,
           NEW l, Nil = n + 1, IsList(l, M, n), Linked(l, S, n), NEW x \in S
    PROVE  /\ IsList(Unlink(l, x), M, n)
           /\ Linked(Unlink(l, x), S \ {x}, n)
           /\ SameOutside(l, Unlink(l, x), M, S \ {x})
<1> DEFINE a == l.prev[x]
           b == l.next[x]
           u == Unlink(l, x)
           R == S \ {x}
<1>0. /\ \A z \in S : z \in Nat /\ 1 <= z /\ z <= n
      /\ x \in Nat /\ 1 <= x /\ x <= n
  OBVIOUS
<1>1. /\ IsPrev(S, x, a) /\ IsNext(S, n, x, b)
      /\ a \in R \cup {0} /\ b \in R \cup {n + 1}
      /\ a \in M \cup {0} /\ b \in 0 .. n + 1 /\ a \in 0 .. n /\ a < x /\ x < b
  <2>1. IsPrev(S, x, a) /\ IsNext(S, n, x, b)
    BY DEF Linked
  <2>2. a # x /\ b # x
    BY <1>0, <2>1 DEF IsPrev, IsNext
  <2> HIDE DEF a, b
  <2>3. a \in R \cup {0} /\ b \in R \cup {n + 1}
    BY <2>1, <2>2 DEF IsPrev, IsNext
  <2>4. a \in M \cup {0} /\ a \in 0 .. n /\ b \in 0 .. n + 1
    BY <1>0, <2>3
  <2>5. a < x /\ b > x
    BY <2>1 DEF IsPrev, IsNext
  <2>6. x < b
    BY <1>0, <2>4, <2>5
  <2> QED BY <2>1, <2>3, <2>4, <2>5, <2>6
<1>2. /\ u.next = [l.next EXCEPT ![a] = b]
      /\ u.prev = IF b = n + 1 THEN l.prev ELSE [l.prev EXCEPT ![b] = a]
      /\ u = [next |-> u.next, prev |-> u.prev]
  BY DEF Unlink
<1>3. b # n + 1 => b \in M
  BY <1>1
<1> HIDE DEF a, b, u
<1>4. IsList(u, M, n)
  BY <1>1, <1>2, <1>3 DEF IsList
<1>5. ASSUME NEW y \in R \cup {0} PROVE IsNext(R, n, y, u.next[y])
  <2>1. CASE y = a
    <3>1. u.next[y] = b
      BY <1>1, <1>2, <2>1 DEF IsList
    <3>2. \A z \in R : z > a => b <= z
      BY <1>0, <1>1 DEF IsNext, IsPrev
    <3>3. b \in R \cup {n + 1} /\ b > a
      BY <1>0, <1>1
    <3> QED BY <2>1, <3>1, <3>2, <3>3 DEF IsNext
  <2>2. CASE y # a
    <3>1. u.next[y] = l.next[y] /\ IsNext(S, n, y, l.next[y])
      BY <1>1, <1>2, <2>2 DEF IsList, Linked
    <3>2. ASSUME l.next[y] = x PROVE FALSE
      <4>1. y < x /\ y \in Nat /\ a \in Nat
        <5>1. x > y
          BY <3>1, <3>2 DEF IsNext
        <5>2. y \in Nat /\ a \in Nat
          BY <1>0, <1>1
        <5> QED BY <1>0, <5>1, <5>2
      <4>2. y < a
        <5>1. y # 0 => y <= a
          BY <1>1, <4>1 DEF IsPrev
        <5> QED BY <2>2, <4>1, <5>1
      <4>3. a \in S
        BY <1>1, <4>1, <4>2
      <4>4. x <= a
        BY <3>1, <3>2, <4>2, <4>3 DEF IsNext
      <4> QED BY <1>0, <1>1, <4>1, <4>4
    <3>3. /\ l.next[y] \in S \cup {n + 1} /\ l.next[y] > y
          /\ \A z \in S : z > y => l.next[y] <= z
      BY <3>1 DEF IsNext
    <3>4. l.next[y] \in R \cup {n + 1} /\ \A z \in R : z > y => l.next[y] <= z
      BY <3>2, <3>3
    <3> QED BY <3>1, <3>3, <3>4 DEF IsNext
  <2> QED BY <2>1, <2>2
<1>6. ASSUME NEW y \in R PROVE IsPrev(R, y, u.prev[y])
  <2>1. CASE y = b
    <3>1. u.prev[y] = a
      BY <1>1, <1>2, <1>3, <2>1 DEF IsList
    <3>2. \A z \in R : z < b => z <= a
      BY <1>0, <1>1 DEF IsNext, IsPrev
    <3> QED BY <1>0, <1>1, <2>1, <3>1, <3>2 DEF IsPrev
  <2>2. CASE y # b
    <3>1. u.prev[y] = l.prev[y] /\ IsPrev(S, y, l.prev[y])
      BY <1>1, <1>2, <1>3, <2>2 DEF IsList, Linked
    <3>2. ASSUME l.prev[y] = x PROVE FALSE
      <4>1. x < y /\ y \in Nat /\ b \in Nat
        BY <1>0, <1>1, <3>1, <3>2 DEF IsPrev
      <4>2. b < y
        BY <1>0, <1>1, <2>2, <4>1 DEF IsNext
      <4>3. b \in S
        BY <1>0, <1>1, <4>1, <4>2
      <4> QED BY <1>0, <1>1, <3>1, <3>2, <4>2, <4>3 DEF IsPrev
    <3> QED BY <3>1, <3>2 DEF IsPrev
  <2> QED BY <2>1, <2>2
<1>7. SameOutside(l, u, M, R)
  BY <1>1, <1>2, <1>3 DEF SameOutside, IsList
<1> QED BY <1>4, <1>5, <1>6, <1>7 DEF Linked, u

\* Relinking puts a node back whose own links fit.
LEMMA RelinkList ==
    ASSUME NEW n \in Nat, NEW M \in SUBSET (1 .. n), NEW S \in SUBSET M,
           NEW l, Nil = n + 1, IsList(l, M, n), Linked(l, S, n),
           NEW x \in M, x \notin S,
           IsNext(S \cup {x}, n, x, l.next[x]), IsPrev(S \cup {x}, x, l.prev[x])
    PROVE  /\ IsList(Relink(l, x), M, n)
           /\ Linked(Relink(l, x), S \cup {x}, n)
           /\ SameOutside(l, Relink(l, x), M, S)
<1> DEFINE a == l.prev[x]
           b == l.next[x]
           u == Relink(l, x)
           R == S \cup {x}
<1>0. /\ \A z \in S : z \in Nat /\ 1 <= z /\ z <= n
      /\ x \in Nat /\ 1 <= x /\ x <= n
  OBVIOUS
<1>1. /\ IsPrev(R, x, a) /\ IsNext(R, n, x, b)
      /\ a \in S \cup {0} /\ b \in S \cup {n + 1}
      /\ a \in M \cup {0} /\ b \in 0 .. n + 1 /\ a \in 0 .. n /\ a < x /\ x < b
  <2>1. IsPrev(R, x, a) /\ IsNext(R, n, x, b)
    OBVIOUS
  <2>2. a # x /\ b # x
    BY <1>0, <2>1 DEF IsPrev, IsNext
  <2> HIDE DEF a, b
  <2>3. a \in S \cup {0} /\ b \in S \cup {n + 1}
    BY <2>1, <2>2 DEF IsPrev, IsNext
  <2>4. a \in M \cup {0} /\ a \in 0 .. n /\ b \in 0 .. n + 1
    BY <1>0, <2>3
  <2>5. a < x /\ b > x
    BY <2>1 DEF IsPrev, IsNext
  <2>6. x < b
    BY <1>0, <2>4, <2>5
  <2> QED BY <2>1, <2>3, <2>4, <2>5, <2>6
<1>2. /\ u.next = [l.next EXCEPT ![a] = x]
      /\ u.prev = IF b = n + 1 THEN l.prev ELSE [l.prev EXCEPT ![b] = x]
      /\ u = [next |-> u.next, prev |-> u.prev]
      /\ a = l.prev[x] /\ b = l.next[x]
  BY DEF Relink
<1>3. b # n + 1 => b \in M
  BY <1>1
<1> HIDE DEF a, b, u
<1>4. IsList(u, M, n)
  BY <1>1, <1>2, <1>3 DEF IsList
<1>5. ASSUME NEW y \in R \cup {0} PROVE IsNext(R, n, y, u.next[y])
  <2>1. CASE y = a
    <3>1. u.next[y] = x
      BY <1>1, <1>2, <2>1 DEF IsList
    <3>2. ASSUME NEW z \in R, z > a PROVE x <= z
      <4>1. z \in Nat /\ a \in Nat
        BY <1>0, <1>1
      <4>2. z < x => z <= a
        BY <1>1 DEF IsPrev
      <4> QED BY <1>0, <3>2, <4>1, <4>2
    <3>3. x \in R \cup {n + 1} /\ x > a
      BY <1>0, <1>1
    <3> QED BY <2>1, <3>1, <3>2, <3>3 DEF IsNext
  <2>2. CASE y # a /\ y # x
    <3>1. u.next[y] = l.next[y] /\ IsNext(S, n, y, l.next[y])
      BY <1>1, <1>2, <2>2 DEF IsList, Linked
    <3>2. x > y => l.next[y] <= x
      BY <1>0, <1>1, <2>2, <3>1 DEF IsNext, IsPrev
    <3> QED BY <3>1, <3>2 DEF IsNext
  <2>3. CASE y = x
    <3>1. u.next[y] = b
      BY <1>0, <1>1, <1>2, <2>3 DEF IsList
    <3> QED BY <1>1, <2>3, <3>1
  <2> QED BY <2>1, <2>2, <2>3
<1>6. ASSUME NEW y \in R PROVE IsPrev(R, y, u.prev[y])
  <2>1. CASE y = b
    <3>1. u.prev[y] = x
      BY <1>1, <1>2, <1>3, <2>1 DEF IsList
    <3>2. ASSUME NEW z \in R, z < b PROVE z <= x
      <4>1. z \in Nat /\ b \in Nat
        BY <1>0, <1>1
      <4>2. z > x => b <= z
        BY <1>1 DEF IsNext
      <4> QED BY <1>0, <3>2, <4>1, <4>2
    <3> QED BY <1>0, <1>1, <2>1, <3>1, <3>2 DEF IsPrev
  <2>2. CASE y # b /\ y # x
    <3>1. u.prev[y] = l.prev[y] /\ IsPrev(S, y, l.prev[y])
      BY <1>1, <1>2, <1>3, <2>2 DEF IsList, Linked
    <3>2. x < y => x <= l.prev[y]
      BY <1>0, <1>1, <2>2, <3>1 DEF IsNext, IsPrev
    <3> QED BY <3>1, <3>2 DEF IsPrev
  <2>3. CASE y = x
    <3>1. u.prev[y] = a
      BY <1>0, <1>1, <1>2, <1>3, <2>3 DEF IsList
    <3> QED BY <1>1, <2>3, <3>1
  <2> QED BY <2>1, <2>2, <2>3
<1>7. SameOutside(l, u, M, S)
  BY <1>1, <1>2, <1>3 DEF SameOutside, IsList
<1> QED BY <1>4, <1>5, <1>6, <1>7 DEF Linked, u
-----------------------------------------------------------------------------
(* The list and the stack of one search.                                   *)

\* The values of a key.
States == Seq({o.value : o \in Kinds})
Frames(p) == [entry : Nodes(p), state : States]

\* The operations of the first k frames of stack c, and the nodes of the
\* others.
Lifted(c, k) == {IdOf(c[j].entry) : j \in 1 .. k}
Rest(p, c, k) == {x \in Nodes(p) : IdOf(x) \notin Lifted(c, k)}

\* A lifted call and its return still know where they were in S: the call was
\* unlinked first.
OwnLinks(l, S, e) ==
    /\ IsNext(S, Len(hist), e, l.next[e])
    /\ IsPrev(S, e, l.prev[e])
    /\ IsNext(S \ {e}, Len(hist), MatchOf(e), l.next[MatchOf(e)])
    /\ IsPrev(S \ {e}, MatchOf(e), l.prev[MatchOf(e)])

\* Stack c and list l fit together.
StackOK(p, c, l) ==
    /\ \A k \in 1 .. Len(c) :
          /\ IsCall(c[k].entry)
          /\ c[k].entry \in Rest(p, c, k - 1)
          /\ OwnLinks(l, Rest(p, c, k - 1), c[k].entry)
    /\ Linked(l, Rest(p, c, Len(c)), Len(hist))

LEMMA NodeFacts ==
    ASSUME WellFormed, NEW p
    PROVE  /\ Len(hist) \in Nat /\ DOMAIN hist = 1 .. Len(hist)
           /\ Nil = Len(hist) + 1
           /\ Nodes(p) \in SUBSET (1 .. Len(hist))
           /\ \A e \in Nodes(p) : IsCall(e) =>
                 /\ MatchOf(e) \in Nodes(p) /\ ~IsCall(MatchOf(e)) /\ MatchOf(e) # e
                 /\ IdOf(MatchOf(e)) = IdOf(e) /\ MatchOf(e) > e
                 /\ \A x \in Nodes(p) : IdOf(x) = IdOf(e) => x \in {e, MatchOf(e)}
<1>1. PICK n \in Nat : Len(hist) = 2 * n /\ DOMAIN hist = 1 .. 2 * n
  BY HistFacts
<1>2. Nodes(p) \subseteq DOMAIN hist
  BY DEF Nodes
<1>3. ASSUME NEW e \in Nodes(p), IsCall(e)
      PROVE  /\ MatchOf(e) \in Nodes(p) /\ ~IsCall(MatchOf(e)) /\ MatchOf(e) # e
             /\ IdOf(MatchOf(e)) = IdOf(e) /\ MatchOf(e) > e
             /\ \A x \in Nodes(p) : IdOf(x) = IdOf(e) => x \in {e, MatchOf(e)}
  BY <1>2, <1>3, CallAndReturn DEF Nodes
<1> QED BY <1>1, <1>2, <1>3 DEF Nil

\* The frames below are those of both stacks.
LEMMA RestPrefix ==
    ASSUME NEW p, NEW c, NEW d, NEW n \in Nat,
           \A j \in 1 .. n : d[j] = c[j]
    PROVE  \A k \in 0 .. n : Lifted(d, k) = Lifted(c, k) /\ Rest(p, d, k) = Rest(p, c, k)
<1>1. ASSUME NEW k \in 0 .. n PROVE Lifted(d, k) = Lifted(c, k)
  BY DEF Lifted
<1> QED BY <1>1 DEF Rest

\* One more frame: the two nodes of its operation leave.
LEMMA RestStep ==
    ASSUME WellFormed, NEW p, NEW d, NEW k \in Nat,
           d[k + 1].entry \in Rest(p, d, k), IsCall(d[k + 1].entry)
    PROVE  /\ Lifted(d, k + 1) = Lifted(d, k) \cup {IdOf(d[k + 1].entry)}
           /\ Rest(p, d, k + 1) =
                 Rest(p, d, k) \ {d[k + 1].entry, MatchOf(d[k + 1].entry)}
           /\ MatchOf(d[k + 1].entry) \in Rest(p, d, k)
<1> DEFINE e == d[k + 1].entry
<1>1. Lifted(d, k + 1) = Lifted(d, k) \cup {IdOf(e)}
  <2>1. ASSUME NEW j \in 1 .. k + 1 PROVE j \in 1 .. k \/ j = k + 1
    OBVIOUS
  <2>2. 1 .. k \subseteq 1 .. k + 1 /\ k + 1 \in 1 .. k + 1
    OBVIOUS
  <2> QED BY <2>1, <2>2 DEF Lifted
<1> HIDE DEF e
<1>2. e \in Nodes(p) /\ IdOf(e) \notin Lifted(d, k) /\ IsCall(e)
  BY DEF Rest, e
<1>3. /\ MatchOf(e) \in Nodes(p) /\ IdOf(MatchOf(e)) = IdOf(e)
      /\ \A x \in Nodes(p) : IdOf(x) = IdOf(e) => x \in {e, MatchOf(e)}
  BY <1>2, NodeFacts
<1>4. Rest(p, d, k + 1) = Rest(p, d, k) \ {e, MatchOf(e)}
  BY <1>1, <1>2, <1>3 DEF Rest
<1>5. MatchOf(e) \in Rest(p, d, k)
  BY <1>2, <1>3 DEF Rest
<1> QED BY <1>1, <1>4, <1>5 DEF e

\* The nodes of the frames up to k are not in the rest.
LEMMA FramesOut ==
    ASSUME WellFormed, NEW p, NEW c \in Seq(Frames(p)), NEW k \in 1 .. Len(c),
           IsCall(c[k].entry), NEW n \in k .. Len(c)
    PROVE  /\ c[k].entry \in Nodes(p) \ Rest(p, c, n)
           /\ MatchOf(c[k].entry) \in Nodes(p) \ Rest(p, c, n)
<1>1. c[k].entry \in Nodes(p)
  <2>1. c[k] \in Frames(p)
    OBVIOUS
  <2> QED BY <2>1 DEF Frames
<1>2. IdOf(c[k].entry) \in Lifted(c, n)
  BY DEF Lifted
<1> QED BY <1>1, <1>2, NodeFacts DEF Rest

\* The links of the frames survive what happens in the rest.
LEMMA OwnLinksKept ==
    ASSUME WellFormed, NEW p, NEW c \in Seq(Frames(p)), NEW k \in 1 .. Len(c),
           IsCall(c[k].entry), NEW l, NEW m, NEW S, NEW n \in k .. Len(c),
           SameOutside(l, m, Nodes(p), Rest(p, c, n)), OwnLinks(l, S, c[k].entry)
    PROVE  OwnLinks(m, S, c[k].entry)
BY FramesOut DEF OwnLinks, SameOutside

LEMMA LiftList ==
    ASSUME WellFormed, NEW p, NEW c \in Seq(Frames(p)), NEW l, NEW f \in Frames(p),
           IsList(l, Nodes(p), Len(hist)), StackOK(p, c, l),
           IsCall(f.entry), f.entry \in Rest(p, c, Len(c))
    PROVE  /\ IsList(lift(l, f.entry), Nodes(p), Len(hist))
           /\ StackOK(p, Append(c, f), lift(l, f.entry))
<1> DEFINE e == f.entry
           m == MatchOf(e)
           n == Len(c)
           d == Append(c, f)
           S == Rest(p, c, n)
           u == Unlink(l, e)
           v == Unlink(u, m)
<1>1. /\ Len(d) = n + 1 /\ n \in Nat /\ d[n + 1] = f
      /\ \A j \in 1 .. n : d[j] = c[j]
  OBVIOUS
<1>2. \A k \in 0 .. n : Rest(p, d, k) = Rest(p, c, k)
  BY <1>1, RestPrefix
<1>3. /\ e \in S /\ IsCall(e) /\ S \in SUBSET Nodes(p) /\ Rest(p, d, n) = S
      /\ S \ {e} \in SUBSET Nodes(p)
  BY <1>1, <1>2 DEF Rest
<1>4. m \in S /\ m # e /\ Rest(p, d, n + 1) = S \ {e, m}
  <2>1. m # e
    BY <1>3, NodeFacts
  <2>2. d[n + 1].entry \in Rest(p, d, n) /\ IsCall(d[n + 1].entry)
        /\ d[n + 1].entry = e
    BY <1>1, <1>3
  <2> HIDE DEF d, n, S, e
  <2>3. /\ Rest(p, d, n + 1) = Rest(p, d, n) \ {d[n + 1].entry, MatchOf(d[n + 1].entry)}
        /\ MatchOf(d[n + 1].entry) \in Rest(p, d, n)
    BY <1>1, <2>2, RestStep
  <2> QED BY <1>3, <2>1, <2>2, <2>3
<1>5. /\ IsList(u, Nodes(p), Len(hist)) /\ Linked(u, S \ {e}, Len(hist))
      /\ SameOutside(l, u, Nodes(p), S \ {e})
  BY <1>3, NodeFacts, UnlinkList DEF StackOK
<1>6. /\ IsList(v, Nodes(p), Len(hist)) /\ Linked(v, (S \ {e}) \ {m}, Len(hist))
      /\ SameOutside(u, v, Nodes(p), (S \ {e}) \ {m})
  <2>1. m \in S \ {e}
    BY <1>4
  <2> HIDE DEF u, m, S
  <2> QED BY <1>3, <1>5, <2>1, NodeFacts, UnlinkList
<1>7. (S \ {e}) \ {m} = S \ {e, m}
  OBVIOUS
<1>8. lift(l, e) = v
  BY DEF lift
<1>9. ASSUME NEW k \in 1 .. n
      PROVE  /\ IsCall(d[k].entry) /\ d[k].entry \in Rest(p, d, k - 1)
             /\ OwnLinks(v, Rest(p, d, k - 1), d[k].entry)
  <2>1. /\ d[k] = c[k] /\ Rest(p, d, k - 1) = Rest(p, c, k - 1)
        /\ IsCall(c[k].entry) /\ c[k].entry \in Rest(p, c, k - 1)
        /\ OwnLinks(l, Rest(p, c, k - 1), c[k].entry)
    BY <1>1, <1>2 DEF StackOK
  <2>2. SameOutside(l, v, Nodes(p), S)
    BY <1>5, <1>6 DEF SameOutside
  <2>3. Len(c) \in k .. Len(c) /\ k \in 1 .. Len(c)
    BY <1>1
  <2> HIDE DEF v, d
  <2>4. OwnLinks(v, Rest(p, c, k - 1), c[k].entry)
    BY <2>1, <2>2, <2>3, OwnLinksKept
  <2> QED BY <2>1, <2>4
<1>10. OwnLinks(v, S, e)
  <2>1. /\ IsNext(S, Len(hist), e, l.next[e]) /\ IsPrev(S, e, l.prev[e])
    BY <1>3 DEF StackOK, Linked
  <2>2. /\ IsNext(S \ {e}, Len(hist), m, u.next[m]) /\ IsPrev(S \ {e}, m, u.prev[m])
    BY <1>4, <1>5 DEF Linked
  <2>3. /\ u.next[e] = l.next[e] /\ u.prev[e] = l.prev[e]
        /\ v.next[e] = u.next[e] /\ v.prev[e] = u.prev[e]
        /\ v.next[m] = u.next[m] /\ v.prev[m] = u.prev[m]
    BY <1>3, <1>4, <1>5, <1>6 DEF SameOutside
  <2> QED BY <2>1, <2>2, <2>3 DEF OwnLinks
<1>11. StackOK(p, d, v)
  <2> HIDE DEF v, d, S, m, u
  <2>1. ASSUME NEW k \in 1 .. Len(d)
        PROVE  /\ IsCall(d[k].entry) /\ d[k].entry \in Rest(p, d, k - 1)
               /\ OwnLinks(v, Rest(p, d, k - 1), d[k].entry)
    <3>1. CASE k \in 1 .. n
      BY <1>9, <3>1
    <3>2. CASE k = n + 1
      <4>1. k - 1 = n
        BY <1>1, <3>2
      <4> QED BY <1>1, <1>3, <1>10, <3>2, <4>1
    <3> QED BY <1>1, <3>1, <3>2
  <2> QED BY <1>1, <1>4, <1>6, <1>7, <2>1 DEF StackOK
<1> QED BY <1>6, <1>8, <1>11

LEMMA UnliftList ==
    ASSUME WellFormed, NEW p, NEW c \in Seq(Frames(p)), NEW l, c # <<>>,
           IsList(l, Nodes(p), Len(hist)), StackOK(p, c, l)
    PROVE  /\ IsList(unlift(l, Last(c).entry), Nodes(p), Len(hist))
           /\ StackOK(p, Front(c), unlift(l, Last(c).entry))
<1> DEFINE n == Len(c) - 1
           e == c[n + 1].entry
           m == MatchOf(e)
           d == Front(c)
           S == Rest(p, c, n)
           u == Relink(l, m)
           v == Relink(u, e)
<1>1. /\ Len(d) = n /\ n \in Nat /\ n + 1 = Len(c) /\ n + 1 \in 1 .. Len(c)
      /\ \A j \in 1 .. n : d[j] = c[j]
      /\ Last(c) = c[n + 1]
  <2>1. Len(c) \in Nat \ {0}
    OBVIOUS
  <2>2. d = SubSeq(c, 1, n) /\ Last(c) = c[n + 1] /\ n \in Nat /\ n + 1 = Len(c)
    BY <2>1 DEF Front, Last
  <2>3. Len(d) = n /\ \A j \in 1 .. n : d[j] = c[j]
    BY <2>1, <2>2
  <2> QED BY <2>1, <2>2, <2>3
<1>2. \A k \in 0 .. n : Rest(p, d, k) = Rest(p, c, k)
  BY <1>1, RestPrefix
<1>3. /\ IsCall(e) /\ e \in S /\ OwnLinks(l, S, e)
      /\ Linked(l, Rest(p, c, n + 1), Len(hist))
  <2>1. (n + 1) - 1 = n
    BY <1>1
  <2> QED BY <1>1, <2>1 DEF StackOK
<1>4. /\ m \in S /\ m # e /\ Rest(p, c, n + 1) = S \ {e, m}
      /\ S \in SUBSET Nodes(p) /\ e \in Nodes(p) /\ m \in Nodes(p)
  <2>1. S \in SUBSET Nodes(p)
    BY DEF Rest
  <2>2. m # e
    BY <1>3, <2>1, NodeFacts
  <2> QED BY <1>1, <1>3, <2>1, <2>2, RestStep
<1>5. (S \ {e, m}) \cup {m} = S \ {e} /\ (S \ {e}) \cup {e} = S
  BY <1>3, <1>4
<1>6. /\ IsList(u, Nodes(p), Len(hist)) /\ Linked(u, S \ {e}, Len(hist))
      /\ SameOutside(l, u, Nodes(p), S \ {e, m})
  <2>1. IsNext(S \ {e}, Len(hist), m, l.next[m]) /\ IsPrev(S \ {e}, m, l.prev[m])
    BY <1>3 DEF OwnLinks
  <2>2. Linked(l, S \ {e, m}, Len(hist)) /\ S \ {e, m} \in SUBSET Nodes(p)
        /\ m \notin S \ {e, m}
    BY <1>3, <1>4
  <2> DEFINE R == S \ {e, m}
  <2>3. /\ IsNext(R \cup {m}, Len(hist), m, l.next[m])
        /\ IsPrev(R \cup {m}, m, l.prev[m]) /\ R \cup {m} = S \ {e}
    BY <1>5, <2>1
  <2>4. Linked(l, R, Len(hist)) /\ R \in SUBSET Nodes(p) /\ m \notin R
    BY <2>2
  <2>5. Len(hist) \in Nat /\ Nodes(p) \in SUBSET (1 .. Len(hist)) /\ Nil = Len(hist) + 1
    BY NodeFacts
  <2>6. m \in Nodes(p)
    BY <1>4
  <2> HIDE DEF S, m, e, R
  <2>7. /\ IsList(u, Nodes(p), Len(hist)) /\ Linked(u, R \cup {m}, Len(hist))
        /\ SameOutside(l, u, Nodes(p), R)
    BY <2>3, <2>4, <2>5, <2>6, RelinkList
  <2> QED BY <2>3, <2>7 DEF R
<1>7. /\ IsList(v, Nodes(p), Len(hist)) /\ Linked(v, S, Len(hist))
      /\ SameOutside(u, v, Nodes(p), S \ {e})
  <2>1. IsNext(S, Len(hist), e, l.next[e]) /\ IsPrev(S, e, l.prev[e])
    BY <1>3 DEF OwnLinks
  <2>2. u.next[e] = l.next[e] /\ u.prev[e] = l.prev[e]
    BY <1>4, <1>6 DEF SameOutside
  <2>3. S \ {e} \in SUBSET Nodes(p) /\ e \notin S \ {e}
    BY <1>4
  <2> DEFINE R == S \ {e}
  <2>4. /\ IsNext(R \cup {e}, Len(hist), e, u.next[e])
        /\ IsPrev(R \cup {e}, e, u.prev[e]) /\ R \cup {e} = S
    BY <1>5, <2>1, <2>2
  <2>5. /\ Linked(u, R, Len(hist)) /\ R \in SUBSET Nodes(p) /\ e \notin R
        /\ IsList(u, Nodes(p), Len(hist)) /\ e \in Nodes(p)
    BY <1>4, <1>6, <2>3
  <2>6. Len(hist) \in Nat /\ Nodes(p) \in SUBSET (1 .. Len(hist)) /\ Nil = Len(hist) + 1
    BY NodeFacts
  <2> HIDE DEF S, m, e, R, u
  <2>7. /\ IsList(v, Nodes(p), Len(hist)) /\ Linked(v, R \cup {e}, Len(hist))
        /\ SameOutside(u, v, Nodes(p), R)
    BY <2>4, <2>5, <2>6, RelinkList
  <2> QED BY <2>4, <2>7 DEF R
<1>8. unlift(l, Last(c).entry) = v
  BY <1>1 DEF unlift
<1>9. StackOK(p, d, v)
  <2>1. SameOutside(l, v, Nodes(p), S)
    BY <1>6, <1>7 DEF SameOutside
  <2> HIDE DEF d, v, S
  <2>2. ASSUME NEW k \in 1 .. n
        PROVE  /\ IsCall(d[k].entry) /\ d[k].entry \in Rest(p, d, k - 1)
               /\ OwnLinks(v, Rest(p, d, k - 1), d[k].entry)
    <3>1. /\ d[k] = c[k] /\ Rest(p, d, k - 1) = Rest(p, c, k - 1)
          /\ k \in 1 .. Len(c) /\ n \in k .. Len(c)
      BY <1>1, <1>2
    <3>2. /\ IsCall(c[k].entry) /\ c[k].entry \in Rest(p, c, k - 1)
          /\ OwnLinks(l, Rest(p, c, k - 1), c[k].entry)
      BY <3>1 DEF StackOK
    <3>3. OwnLinks(v, Rest(p, c, k - 1), c[k].entry)
      BY <2>1, <3>1, <3>2, OwnLinksKept DEF S
    <3> QED BY <3>1, <3>2, <3>3
  <2>3. Rest(p, d, n) = S
    BY <1>1, <1>2 DEF S
  <2> QED BY <1>1, <1>7, <2>2, <2>3 DEF StackOK
<1> QED BY <1>7, <1>8, <1>9
-----------------------------------------------------------------------------
(* The levels of a search.                                                 *)

\* Level j of stack c is the search after the first j frames: the value there,
\* and the node the search is at or went on from.
StateAt(c, st, j) == IF j < Len(c) THEN c[j + 1].state ELSE st
PlaceAt(c, en, j) == IF j < Len(c) THEN c[j + 1].entry ELSE en
PairAt(c, st, j) == <<Lifted(c, j), StateAt(c, st, j)>>

\* The list, the stack and the bitset of a search fit together.
ListOK(p, l, en, st, lin, c) ==
    /\ IsList(l, Nodes(p), Len(hist))
    /\ c \in Seq(Frames(p)) /\ st \in States
    /\ StackOK(p, c, l)
    /\ lin = Lifted(c, Len(c))
    /\ l.next[Head0] # Nil => en \in Rest(p, c, Len(c))

\* The operations on the stack fit one after the other, and each was called
\* before the return of any that is not below it.
PathOK(p, en, st, c) ==
    /\ StateAt(c, st, 0) = KvInit
    /\ \A k \in 1 .. Len(c) :
          KvStep(c[k].state, ops[IdOf(c[k].entry)])
              = [ok |-> TRUE, state |-> StateAt(c, st, k)]
    /\ \A j \in 0 .. Len(c) : \A x \in Rest(p, c, j) :
          x < PlaceAt(c, en, j) => IsCall(x)

\* No operation outside lin has returned before i is called.
Free(p, lin, i) == \A j \in Partition(p) \ lin : ~Precedes(hist, j, i)

\* The pairs the search is done with: cached, and not on the stack.
Explored(ca, c, st) == ca \ {PairAt(c, st, j) : j \in 1 .. Len(c)}

\* Going on from pair q with i leads into D, or nowhere.
Tried(D, q, i) ==
    KvStep(q[2], ops[i]).ok =>
        <<q[1] \cup {i}, KvStep(q[2], ops[i]).state>> \in D

\* The search is done only with pairs from which every way on leads to others
\* that it is done with, none of them complete; and at every level it has been
\* through the calls before its place.
TriedOK(p, en, st, ca, c) ==
    LET D == Explored(ca, c, st)
    IN  /\ \A j \in 1 .. Len(c) : PairAt(c, st, j) \in ca
        /\ \A q \in D : /\ Partition(p) \ q[1] # {}
                        /\ \A i \in Partition(p) \ q[1] :
                              Free(p, q[1], i) => Tried(D, q, i)
        /\ \A j \in 0 .. Len(c) : \A x \in Rest(p, c, j) :
              x < PlaceAt(c, en, j) => Tried(D, PairAt(c, st, j), IdOf(x))

SearchOK ==
    \A p \in Parts :
        /\ ListOK(p, links[p], entry[p], state[p], linearized[p], calls[p])
        /\ PathOK(p, entry[p], state[p], calls[p])
        /\ TriedOK(p, entry[p], state[p], cache[p], calls[p])

LEMMA LiftedGrows ==
    ASSUME NEW c, NEW n \in Nat, NEW j \in 0 .. n
    PROVE  Lifted(c, j) \subseteq Lifted(c, n)
<1>1. 1 .. j \subseteq 1 .. n
  OBVIOUS
<1> QED BY <1>1 DEF Lifted

\* A stack with one more frame.
LEMMA PushPrefix ==
    ASSUME NEW p, NEW c \in Seq(Frames(p)), NEW f \in Frames(p)
    PROVE  /\ Len(c) \in Nat /\ Len(Append(c, f)) = Len(c) + 1
           /\ Append(c, f) \in Seq(Frames(p)) /\ Append(c, f)[Len(c) + 1] = f
           /\ \A k \in 1 .. Len(c) : Append(c, f)[k] = c[k]
           /\ \A j \in 0 .. Len(c) : /\ Lifted(Append(c, f), j) = Lifted(c, j)
                                      /\ Rest(p, Append(c, f), j) = Rest(p, c, j)
           /\ Lifted(Append(c, f), Len(c)) = Lifted(c, Len(c))
           /\ Rest(p, Append(c, f), Len(c)) = Rest(p, c, Len(c))
<1> DEFINE d == Append(c, f)
           n == Len(c)
<1>1. n \in Nat /\ Len(d) = n + 1 /\ d \in Seq(Frames(p)) /\ d[n + 1] = f
      /\ \A k \in 1 .. n : d[k] = c[k]
  OBVIOUS
<1> HIDE DEF d, n
<1>2. \A j \in 0 .. n : Lifted(d, j) = Lifted(c, j) /\ Rest(p, d, j) = Rest(p, c, j)
  BY <1>1, RestPrefix
<1>3. n \in 0 .. n
  BY <1>1
<1> QED BY <1>1, <1>2, <1>3 DEF d, n

\* Its levels: stack d is stack c of n frames and the frame f.
SameLevels(p, c, n, f, d, en, st) ==
    /\ n \in Nat /\ Len(d) = n + 1 /\ d \in Seq(Frames(p)) /\ d[n + 1] = f
    /\ \A k \in 1 .. n : d[k] = c[k]
    /\ \A j \in 0 .. n :
          /\ Lifted(d, j) = Lifted(c, j) /\ Rest(p, d, j) = Rest(p, c, j)
          /\ StateAt(d, st, j) = StateAt(c, f.state, j)
          /\ PlaceAt(d, en, j) = PlaceAt(c, f.entry, j)
          /\ PairAt(d, st, j) = PairAt(c, f.state, j)
    /\ StateAt(d, st, n + 1) = st /\ PlaceAt(d, en, n + 1) = en
    /\ StateAt(c, f.state, n) = f.state /\ PlaceAt(c, f.entry, n) = f.entry

LEMMA PushLevels ==
    ASSUME NEW p, NEW c \in Seq(Frames(p)), NEW f \in Frames(p), NEW en, NEW st,
           NEW d, d = Append(c, f), NEW n, n = Len(c)
    PROVE  SameLevels(p, c, n, f, d, en, st)
<1>1. n \in Nat /\ Len(d) = n + 1 /\ d \in Seq(Frames(p)) /\ d[n + 1] = f
      /\ \A k \in 1 .. n : d[k] = c[k]
  BY PushPrefix
<1>2. \A j \in 0 .. n : Lifted(d, j) = Lifted(c, j) /\ Rest(p, d, j) = Rest(p, c, j)
  BY PushPrefix
<1>3. ASSUME NEW j \in 0 .. n
      PROVE  /\ StateAt(d, st, j) = StateAt(c, f.state, j)
             /\ PlaceAt(d, en, j) = PlaceAt(c, f.entry, j)
  <2>1. CASE j = n
    BY <1>1, <2>1 DEF StateAt, PlaceAt
  <2>2. CASE j < n
    <3>1. j + 1 \in 1 .. n /\ d[j + 1] = c[j + 1] /\ j < Len(d)
      BY <1>1, <2>2
    <3> QED BY <1>1, <2>2, <3>1 DEF StateAt, PlaceAt
  <2> QED BY <1>1, <2>1, <2>2
<1>4. \A j \in 0 .. n : PairAt(d, st, j) = PairAt(c, f.state, j)
  BY <1>2, <1>3 DEF PairAt
<1>5. /\ StateAt(d, st, n + 1) = st /\ PlaceAt(d, en, n + 1) = en
      /\ StateAt(c, f.state, n) = f.state /\ PlaceAt(c, f.entry, n) = f.entry
  BY <1>1 DEF StateAt, PlaceAt
<1> QED BY <1>1, <1>2, <1>3, <1>4, <1>5 DEF SameLevels

\* A stack that is not empty is its front and its last frame.
LEMMA FrontAndLast ==
    ASSUME NEW p, NEW c \in Seq(Frames(p)), c # <<>>
    PROVE  /\ Front(c) \in Seq(Frames(p)) /\ Last(c) \in Frames(p)
           /\ c = Append(Front(c), Last(c))
           /\ Len(Front(c)) = Len(c) - 1 /\ Len(c) \in Nat \ {0}
           /\ Last(c) = c[Len(c)]
<1> DEFINE F == Frames(p)
<1> HIDE DEF F
<1>0. c \in Seq(F)
  BY DEF F
<1>1. Len(c) \in Nat \ {0} /\ c \in [1 .. Len(c) -> F]
  BY <1>0
<1>2. Front(c) = SubSeq(c, 1, Len(c) - 1) /\ Last(c) = c[Len(c)]
  BY DEF Front, Last
<1>3. Last(c) \in F
  BY <1>1, <1>2
<1>4. Front(c) \in Seq(F) /\ Len(Front(c)) = Len(c) - 1
      /\ \A j \in 1 .. Len(c) - 1 : Front(c)[j] = c[j]
  BY <1>0, <1>1, <1>2
<1>5. c = Append(Front(c), Last(c))
  <2> DEFINE g == Front(c)
             t == Last(c)
             a == Append(g, t)
  <2>1. a \in Seq(F) /\ Len(a) = Len(c)
    <3>1. g \in Seq(F) /\ Len(g) = Len(c) - 1 /\ t \in F /\ Len(c) \in Nat \ {0}
      BY <1>1, <1>3, <1>4
    <3> HIDE DEF g, t
    <3> QED BY <3>1
  <2>2. ASSUME NEW j \in 1 .. Len(c) PROVE a[j] = c[j]
    <3>1. CASE j = Len(c)
      BY <1>1, <1>2, <1>4, <3>1
    <3>2. CASE j \in 1 .. Len(c) - 1
      BY <1>1, <1>4, <3>2
    <3>3. \A n \in Nat \ {0} : \A i \in 1 .. n : i = n \/ i \in 1 .. n - 1
      OBVIOUS
    <3> HIDE DEF a
    <3> QED BY <1>1, <3>1, <3>2, <3>3
  <2>3. a \in [1 .. Len(c) -> F]
    <3> HIDE DEF a
    <3> QED BY <2>1
  <2> HIDE DEF a
  <2>4. a = c
    BY <1>1, <2>2, <2>3
  <2> QED BY <2>4 DEF a
<1> QED BY <1>1, <1>2, <1>3, <1>4, <1>5 DEF F
LEMMA StepStates ==
    ASSUME WellFormed, NEW i \in Ids, NEW st \in States
    PROVE  /\ KvStep(st, ops[i]).state \in States
           /\ KvStep(st, ops[i]).ok =>
                 KvStep(st, ops[i]) = [ok |-> TRUE, state |-> KvStep(st, ops[i]).state]
<1>1. ops[i] \in Kinds
  BY HistFacts
<1>2. ops[i].op \in {"get", "put", "append"}
  BY <1>1, ParAssumption
<1> DEFINE o == ops[i]
           V == {k.value : k \in Kinds}
<1>3. o.value \in V
  BY <1>1
<1>4. st \in Seq(V)
  BY DEF States
<1>5. CASE o.op = "get"
  BY <1>5 DEF KvStep
<1>6. CASE o.op = "put"
  <2>1. KvStep(st, o) = [ok |-> TRUE, state |-> <<o.value>>]
    BY <1>6 DEF KvStep
  <2>2. <<o.value>> \in Seq(V)
    <3> HIDE DEF V
    <3> QED BY <1>3
  <2> QED BY <2>1, <2>2 DEF States
<1>7. CASE o.op = "append"
  <2>1. KvStep(st, o) = [ok |-> TRUE, state |-> Append(st, o.value)]
    BY <1>7 DEF KvStep
  <2>2. Append(st, o.value) \in Seq(V)
    <3> HIDE DEF V
    <3> QED BY <1>3, <1>4
  <2> QED BY <2>1, <2>2 DEF States
<1> QED BY <1>2, <1>5, <1>6, <1>7

\* A call in the list has something after it, its return at the latest.
LEMMA NextOfCall ==
    ASSUME WellFormed, NEW p, NEW c, NEW k, NEW e \in Rest(p, c, k), IsCall(e),
           NEW y, IsNext(Rest(p, c, k), Len(hist), e, y)
    PROVE  y \in Rest(p, c, k)
<1>1. e \in Nodes(p) /\ IdOf(e) \notin Lifted(c, k)
  BY DEF Rest
<1>2. /\ MatchOf(e) \in Nodes(p) /\ IdOf(MatchOf(e)) = IdOf(e) /\ MatchOf(e) > e
      /\ Nodes(p) \in SUBSET (1 .. Len(hist)) /\ Len(hist) \in Nat
  BY <1>1, NodeFacts
<1>3. MatchOf(e) \in Rest(p, c, k)
  BY <1>1, <1>2 DEF Rest
<1>4. y <= MatchOf(e) /\ y \in Rest(p, c, k) \cup {Len(hist) + 1}
  BY <1>2, <1>3 DEF IsNext
<1>5. MatchOf(e) < Len(hist) + 1
  BY <1>2
<1> QED BY <1>2, <1>4, <1>5

\* The list is empty exactly if nothing follows the head.
LEMMA ListEmpty ==
    ASSUME WellFormed, NEW p, NEW c, NEW k, NEW l, Linked(l, Rest(p, c, k), Len(hist))
    PROVE  /\ l.next[Head0] # Nil => l.next[Head0] \in Rest(p, c, k)
           /\ l.next[Head0] = Nil => Rest(p, c, k) = {}
           /\ \A x \in Rest(p, c, k) : ~(x < l.next[Head0])
<1>1. IsNext(Rest(p, c, k), Len(hist), 0, l.next[0])
  BY DEF Linked
<1>2. /\ Rest(p, c, k) \in SUBSET (1 .. Len(hist)) /\ Len(hist) \in Nat
      /\ Nil = Len(hist) + 1
  BY NodeFacts DEF Rest
<1>3. \A x \in Rest(p, c, k) : x > 0 /\ x \in Nat /\ x < Nil
  BY <1>2
<1>4. /\ l.next[0] \in Rest(p, c, k) \cup {Nil} /\ l.next[0] \in Nat
      /\ \A x \in Rest(p, c, k) : l.next[0] <= x
  BY <1>1, <1>2, <1>3 DEF IsNext
<1> QED BY <1>2, <1>3, <1>4 DEF Head0

LEMMA PushList ==
    ASSUME WellFormed, NEW p, NEW l, NEW en, NEW st, NEW lin, NEW c,
           ListOK(p, l, en, st, lin, c), en \in Rest(p, c, Len(c)), IsCall(en),
           NEW st2 \in States, NEW d, d = Append(c, [entry |-> en, state |-> st])
    PROVE  ListOK(p, lift(l, en), lift(l, en).next[Head0], st2, lin \cup {IdOf(en)}, d)
<1> DEFINE f == [entry |-> en, state |-> st]
           l2 == lift(l, en)
           n == Len(c)
<1>1. f \in Frames(p) /\ f.entry = en /\ c \in Seq(Frames(p))
  BY DEF ListOK, Frames, Rest
<1>2. IsList(l2, Nodes(p), Len(hist)) /\ StackOK(p, d, l2)
  BY <1>1, LiftList DEF ListOK
<1>3. n \in Nat /\ Len(d) = n + 1 /\ d \in Seq(Frames(p)) /\ d[n + 1] = f
      /\ Lifted(d, n) = Lifted(c, n) /\ Rest(p, d, n) = Rest(p, c, n)
  <2> HIDE DEF f
  <2> QED BY <1>1, PushPrefix DEF f
<1>4. lin \cup {IdOf(en)} = Lifted(d, Len(d))
  <2>1. /\ d[n + 1].entry = en /\ d[n + 1].entry \in Rest(p, d, n)
        /\ IsCall(d[n + 1].entry)
    BY <1>3
  <2>2. n \in Nat
    BY <1>3
  <2> HIDE DEF f, n
  <2>3. Lifted(d, n + 1) = Lifted(d, n) \cup {IdOf(d[n + 1].entry)}
    BY <2>1, <2>2, RestStep
  <2> QED BY <1>3, <2>1, <2>3 DEF ListOK, n
<1>5. l2.next[Head0] # Nil => l2.next[Head0] \in Rest(p, d, Len(d))
  <2> HIDE DEF l2
  <2> QED BY <1>2, ListEmpty DEF StackOK
<1> QED BY <1>2, <1>3, <1>4, <1>5 DEF ListOK

LEMMA AdvanceList ==
    ASSUME WellFormed, NEW p, NEW l, NEW en, NEW st, NEW lin, NEW c,
           ListOK(p, l, en, st, lin, c), NEW e \in Rest(p, c, Len(c)), IsCall(e)
    PROVE  /\ ListOK(p, l, l.next[e], st, lin, c)
           /\ IsNext(Rest(p, c, Len(c)), Len(hist), e, l.next[e])
           /\ l.next[e] \in Rest(p, c, Len(c))
<1>1. IsNext(Rest(p, c, Len(c)), Len(hist), e, l.next[e])
  BY DEF ListOK, StackOK, Linked
<1>2. l.next[e] \in Rest(p, c, Len(c))
  BY <1>1, NextOfCall
<1> QED BY <1>1, <1>2 DEF ListOK

LEMMA PopList ==
    ASSUME WellFormed, NEW p, NEW l, NEW en, NEW st, NEW lin, NEW c,
           ListOK(p, l, en, st, lin, c), c # <<>>, NEW top, top = Last(c)
    PROVE  /\ ListOK(p, unlift(l, top.entry), top.entry, top.state,
                     lin \ {IdOf(top.entry)}, Front(c))
           /\ top \in Frames(p) /\ IsCall(top.entry)
           /\ top.entry \in Rest(p, Front(c), Len(Front(c)))
<1> DEFINE d == Front(c)
           n == Len(d)
           m == unlift(l, top.entry)
<1>1. /\ d \in Seq(Frames(p)) /\ top \in Frames(p) /\ c = Append(d, top)
      /\ n = Len(c) - 1 /\ Len(c) \in Nat \ {0} /\ top = c[Len(c)]
  BY FrontAndLast DEF ListOK
<1>2. IsList(m, Nodes(p), Len(hist)) /\ StackOK(p, d, m)
  BY UnliftList DEF ListOK
<1>3. /\ n \in Nat /\ n + 1 = Len(c) /\ c[n + 1] = top
      /\ Lifted(c, n) = Lifted(d, n) /\ Rest(p, c, n) = Rest(p, d, n)
  <2> HIDE DEF d
  <2> QED BY <1>1, PushPrefix
<1>4. IsCall(top.entry) /\ top.entry \in Rest(p, c, n)
  <2>1. (n + 1) - 1 = n /\ n + 1 \in 1 .. Len(c)
    BY <1>3
  <2> HIDE DEF n
  <2> QED BY <1>3, <2>1 DEF ListOK, StackOK
<1>5. lin \ {IdOf(top.entry)} = Lifted(d, n)
  <2> HIDE DEF d, n
  <2>1. Lifted(c, n + 1) = Lifted(c, n) \cup {IdOf(top.entry)}
    BY <1>3, <1>4, RestStep
  <2>2. IdOf(top.entry) \notin Lifted(c, n)
    BY <1>4 DEF Rest
  <2> QED BY <1>3, <2>1, <2>2 DEF ListOK
<1> HIDE DEF m, d, n
<1>6. top.state \in States
  BY <1>1 DEF Frames
<1> QED BY <1>1, <1>2, <1>3, <1>4, <1>5, <1>6 DEF ListOK, m, d, n
LEMMA PushPath ==
    ASSUME NEW p, NEW c \in Seq(Frames(p)), NEW f \in Frames(p), NEW en, NEW st,
           NEW d, d = Append(c, f), PathOK(p, f.entry, f.state, c),
           KvStep(f.state, ops[IdOf(f.entry)]) = [ok |-> TRUE, state |-> st],
           \A x \in Rest(p, d, Len(d)) : ~(x < en)
    PROVE  PathOK(p, en, st, d)
<1> DEFINE n == Len(c)
<1>1. /\ n \in Nat /\ Len(d) = n + 1 /\ d[n + 1] = f
      /\ \A k \in 1 .. n : d[k] = c[k]
      /\ \A j \in 0 .. n :
            /\ Rest(p, d, j) = Rest(p, c, j)
            /\ StateAt(d, st, j) = StateAt(c, f.state, j)
            /\ PlaceAt(d, en, j) = PlaceAt(c, f.entry, j)
      /\ StateAt(d, st, n + 1) = st /\ PlaceAt(d, en, n + 1) = en
  <2>1. SameLevels(p, c, n, f, d, en, st)
    BY PushLevels
  <2> HIDE DEF n
  <2> QED BY <2>1 DEF SameLevels
<1> HIDE DEF n
<1>2. StateAt(d, st, 0) = KvInit
  <2>1. 0 \in 0 .. n
    BY <1>1
  <2> QED BY <1>1, <2>1 DEF PathOK
<1>3. ASSUME NEW k \in 1 .. Len(d)
      PROVE  KvStep(d[k].state, ops[IdOf(d[k].entry)])
                = [ok |-> TRUE, state |-> StateAt(d, st, k)]
  <2>1. CASE k = n + 1
    BY <1>1, <2>1
  <2>2. CASE k \in 1 .. n
    <3>1. k \in 0 .. n
      BY <1>1, <2>2
    <3>2. KvStep(c[k].state, ops[IdOf(c[k].entry)])
             = [ok |-> TRUE, state |-> StateAt(c, f.state, k)]
      BY <2>2 DEF PathOK, n
    <3> QED BY <1>1, <2>2, <3>1, <3>2
  <2> QED BY <1>1, <2>1, <2>2
<1>4. ASSUME NEW j \in 0 .. Len(d), NEW x \in Rest(p, d, j), x < PlaceAt(d, en, j)
      PROVE  IsCall(x)
  <2>1. CASE j = n + 1
    BY <1>1, <1>4, <2>1
  <2>2. CASE j \in 0 .. n
    BY <1>1, <1>4, <2>2 DEF PathOK, n
  <2> QED BY <1>1, <2>1, <2>2
<1> QED BY <1>2, <1>3, <1>4 DEF PathOK

LEMMA DropPath ==
    ASSUME NEW p, NEW c \in Seq(Frames(p)), NEW f \in Frames(p), NEW en, NEW st,
           NEW d, d = Append(c, f), PathOK(p, en, st, d)
    PROVE  /\ PathOK(p, f.entry, f.state, c)
           /\ KvStep(f.state, ops[IdOf(f.entry)]) = [ok |-> TRUE, state |-> st]
<1> DEFINE n == Len(c)
<1>1. /\ n \in Nat /\ Len(d) = n + 1 /\ d[n + 1] = f
      /\ \A k \in 1 .. n : d[k] = c[k]
      /\ \A j \in 0 .. n :
            /\ Rest(p, d, j) = Rest(p, c, j)
            /\ StateAt(d, st, j) = StateAt(c, f.state, j)
            /\ PlaceAt(d, en, j) = PlaceAt(c, f.entry, j)
      /\ StateAt(d, st, n + 1) = st /\ PlaceAt(d, en, n + 1) = en
  <2>1. SameLevels(p, c, n, f, d, en, st)
    BY PushLevels
  <2> HIDE DEF n
  <2> QED BY <2>1 DEF SameLevels
<1> HIDE DEF n
<1>2. StateAt(c, f.state, 0) = KvInit
  <2>1. 0 \in 0 .. n
    BY <1>1
  <2> QED BY <1>1, <2>1 DEF PathOK
<1>3. ASSUME NEW k \in 1 .. n
      PROVE  KvStep(c[k].state, ops[IdOf(c[k].entry)])
                = [ok |-> TRUE, state |-> StateAt(c, f.state, k)]
  <2>1. k \in 0 .. n /\ k \in 1 .. Len(d)
    BY <1>1
  <2>2. KvStep(d[k].state, ops[IdOf(d[k].entry)])
           = [ok |-> TRUE, state |-> StateAt(d, st, k)]
    BY <2>1 DEF PathOK
  <2> QED BY <1>1, <2>1, <2>2
<1>4. ASSUME NEW j \in 0 .. n, NEW x \in Rest(p, c, j), x < PlaceAt(c, f.entry, j)
      PROVE  IsCall(x)
  <2>1. j \in 0 .. Len(d)
    BY <1>1
  <2> QED BY <1>1, <1>4, <2>1 DEF PathOK
<1>5. KvStep(f.state, ops[IdOf(f.entry)]) = [ok |-> TRUE, state |-> st]
  <2>1. n + 1 \in 1 .. Len(d)
    BY <1>1
  <2> QED BY <1>1, <2>1 DEF PathOK
<1> QED BY <1>2, <1>3, <1>4, <1>5 DEF PathOK, n

\* What is before the next node is before this one, or this one.
LEMMA BeforeNext ==
    ASSUME WellFormed, NEW p, NEW c, NEW k, NEW e \in Rest(p, c, k),
           NEW y, IsNext(Rest(p, c, k), Len(hist), e, y),
           NEW x \in Rest(p, c, k), x < y
    PROVE  x < e \/ x = e
<1>1. Rest(p, c, k) \in SUBSET (1 .. Len(hist)) /\ Len(hist) \in Nat
  BY NodeFacts DEF Rest
<1> QED BY <1>1 DEF IsNext

LEMMA AdvancePath ==
    ASSUME WellFormed, NEW p, NEW c \in Seq(Frames(p)), NEW st,
           NEW e \in Rest(p, c, Len(c)), IsCall(e), PathOK(p, e, st, c),
           NEW y, IsNext(Rest(p, c, Len(c)), Len(hist), e, y)
    PROVE  PathOK(p, y, st, c)
<1> DEFINE n == Len(c)
<1>1. n \in Nat
  OBVIOUS
<1> HIDE DEF n
<1>2. /\ PlaceAt(c, e, n) = e /\ PlaceAt(c, y, n) = y
      /\ \A j \in 0 .. n : j # n => PlaceAt(c, y, j) = PlaceAt(c, e, j)
  BY <1>1 DEF PlaceAt, n
<1>3. ASSUME NEW j \in 0 .. n, NEW x \in Rest(p, c, j), x < PlaceAt(c, y, j)
      PROVE  IsCall(x)
  <2>1. CASE j # n
    BY <1>2, <1>3, <2>1 DEF PathOK, n
  <2>2. CASE j = n
    <3>1. x < e \/ x = e
      BY <1>2, <1>3, <2>2, BeforeNext DEF n
    <3> QED BY <1>2, <2>2, <3>1 DEF PathOK, n
  <2> QED BY <2>1, <2>2
<1> QED BY <1>3 DEF PathOK, n
LEMMA AdvanceTried ==
    ASSUME WellFormed, NEW p, NEW c \in Seq(Frames(p)), NEW st, NEW ca,
           NEW e \in Rest(p, c, Len(c)), TriedOK(p, e, st, ca, c),
           NEW y, IsNext(Rest(p, c, Len(c)), Len(hist), e, y),
           Tried(Explored(ca, c, st), PairAt(c, st, Len(c)), IdOf(e))
    PROVE  TriedOK(p, y, st, ca, c)
<1> DEFINE n == Len(c)
           D == Explored(ca, c, st)
<1>1. n \in Nat
  OBVIOUS
<1> HIDE DEF n, D
<1>2. /\ PlaceAt(c, e, n) = e /\ PlaceAt(c, y, n) = y
      /\ \A j \in 0 .. n : j # n => PlaceAt(c, y, j) = PlaceAt(c, e, j)
  BY <1>1 DEF PlaceAt, n
<1>3. ASSUME NEW j \in 0 .. n, NEW x \in Rest(p, c, j), x < PlaceAt(c, y, j)
      PROVE  Tried(D, PairAt(c, st, j), IdOf(x))
  <2>1. CASE j # n
    BY <1>2, <1>3, <2>1 DEF TriedOK, n, D
  <2>2. CASE j = n
    <3>1. x < e \/ x = e
      BY <1>2, <1>3, <2>2, BeforeNext DEF n
    <3> QED BY <1>2, <2>2, <3>1 DEF TriedOK, n, D
  <2> QED BY <2>1, <2>2
<1> QED BY <1>3 DEF TriedOK, n, D

\* A return stops the search at a level when every way on has been tried: what
\* is called later has to come after the operation that returns.
LEMMA FreeTried ==
    ASSUME WellFormed, NEW p, NEW c \in Seq(Frames(p)), NEW st, NEW ca,
           NEW en \in Rest(p, c, Len(c)), ~IsCall(en), TriedOK(p, en, st, ca, c)
    PROVE  /\ Partition(p) \ Lifted(c, Len(c)) # {}
           /\ \A i \in Partition(p) \ Lifted(c, Len(c)) :
                 Free(p, Lifted(c, Len(c)), i) =>
                    Tried(Explored(ca, c, st), PairAt(c, st, Len(c)), i)
<1> DEFINE n == Len(c)
           r == IdOf(en)
<1>1. n \in Nat /\ n \in 0 .. n
  OBVIOUS
<1> HIDE DEF n
<1>2. /\ en \in DOMAIN hist /\ ops[r].key = p /\ r \notin Lifted(c, n)
  BY DEF Rest, Nodes, n
<1>3. r \in Partition(p) \ Lifted(c, n)
  BY <1>2, Called DEF Partition
<1>4. PICK N \in Nat :
         /\ DOMAIN hist = 1 .. 2 * N
         /\ hist \in [1 .. 2 * N -> [kind : {"call", "return"}, id : 1 .. N]]
  BY HistFacts
<1>5. hist[en] = [kind |-> "return", id |-> r]
  BY <1>2, <1>4 DEF IsCall, IdOf
<1>6. ASSUME NEW i \in Partition(p) \ Lifted(c, n), Free(p, Lifted(c, n), i)
      PROVE  Tried(Explored(ca, c, st), PairAt(c, st, n), i)
  <2>1. PICK x \in DOMAIN hist : IsCall(x) /\ IdOf(x) = i
    BY Called DEF Partition
  <2>2. x \in Rest(p, c, n)
    BY <2>1 DEF Rest, Nodes, Partition
  <2>3. hist[x] = [kind |-> "call", id |-> i]
    BY <1>4, <2>1 DEF IsCall, IdOf
  <2>4. ~(en < x)
    BY <1>2, <1>3, <1>5, <1>6, <2>3 DEF Free, Precedes
  <2>5. x # en
    BY <2>1
  <2>6. x < en
    BY <1>2, <1>4, <2>4, <2>5
  <2>7. PlaceAt(c, en, n) = en
    BY <1>1 DEF PlaceAt, n
  <2> QED BY <1>1, <2>1, <2>2, <2>6, <2>7 DEF TriedOK, n
<1> QED BY <1>3, <1>6 DEF n

\* The pairs on the stack with one more frame.
OneLess(ca, c, f, d, st) ==
    Explored(ca, d, st) = Explored(ca, c, f.state) \ {PairAt(d, st, Len(d))}

LEMMA PushExplored ==
    ASSUME NEW p, NEW c \in Seq(Frames(p)), NEW f \in Frames(p), NEW st,
           NEW d, d = Append(c, f), NEW ca
    PROVE  OneLess(ca, c, f, d, st)
<1> DEFINE n == Len(c)
<1>1. SameLevels(p, c, n, f, d, f.entry, st)
  BY PushLevels
<1> HIDE DEF n
<1>2. /\ n \in Nat /\ Len(d) = n + 1
      /\ \A j \in 0 .. n : PairAt(d, st, j) = PairAt(c, f.state, j)
  BY <1>1 DEF SameLevels
<1>3. ASSUME NEW j \in 1 .. n + 1 PROVE j \in 1 .. n \/ j = n + 1
  BY <1>2
<1>4. \A j \in 1 .. n : j \in 0 .. n /\ j \in 1 .. n + 1
  BY <1>2
<1>5. n + 1 \in 1 .. n + 1
  BY <1>2
<1> DEFINE A == {PairAt(d, st, j) : j \in 1 .. n + 1}
           B == {PairAt(c, f.state, j) : j \in 1 .. n}
<1>6. A = B \cup {PairAt(d, st, n + 1)}
  <2>1. ASSUME NEW q \in A PROVE q \in B \cup {PairAt(d, st, n + 1)}
    <3>1. PICK j \in 1 .. n + 1 : q = PairAt(d, st, j)
      OBVIOUS
    <3>2. CASE j \in 1 .. n
      BY <1>2, <1>4, <3>1, <3>2
    <3> QED BY <1>3, <3>1, <3>2
  <2>2. ASSUME NEW q \in B PROVE q \in A
    <3>1. PICK j \in 1 .. n : q = PairAt(c, f.state, j)
      OBVIOUS
    <3> QED BY <1>2, <1>4, <3>1
  <2>3. PairAt(d, st, n + 1) \in A
    BY <1>5
  <2> HIDE DEF A, B
  <2> QED BY <2>1, <2>2, <2>3
<1>7. Explored(ca, d, st) = ca \ A /\ Explored(ca, c, f.state) = ca \ B
  BY <1>2 DEF Explored, n
<1> HIDE DEF A, B
<1> QED BY <1>2, <1>6, <1>7 DEF OneLess
\* What pushing frame f does, and what popping it does.
Pushed(p, c, f, d, en, st, ca) ==
    LET new == PairAt(d, st, Len(d))
    IN  /\ TriedOK(p, en, st, ca \cup {new}, d)
        /\ Explored(ca \cup {new}, d, st) = Explored(ca, c, f.state)
Popped(p, c, f, d, en, st, ca) ==
    /\ TriedOK(p, f.entry, f.state, ca, c)
    /\ Tried(Explored(ca, c, f.state), PairAt(c, f.state, Len(c)), IdOf(f.entry))
    /\ Explored(ca, c, f.state) = Explored(ca, d, st) \cup {<<Lifted(d, Len(d)), st>>}

LEMMA PushTried ==
    ASSUME NEW p, NEW c \in Seq(Frames(p)), NEW f \in Frames(p), NEW en, NEW st,
           NEW d, d = Append(c, f), NEW ca, TriedOK(p, f.entry, f.state, ca, c),
           PairAt(d, st, Len(d)) \notin ca,
           \A x \in Rest(p, d, Len(d)) : ~(x < en)
    PROVE  Pushed(p, c, f, d, en, st, ca)
<1> DEFINE n == Len(c)
           new == PairAt(d, st, Len(d))
           D == Explored(ca, c, f.state)
<1>1. SameLevels(p, c, n, f, d, en, st)
  BY PushLevels
<1> HIDE DEF n
<1>2. /\ n \in Nat /\ Len(d) = n + 1
      /\ \A j \in 0 .. n :
            /\ Rest(p, d, j) = Rest(p, c, j)
            /\ PlaceAt(d, en, j) = PlaceAt(c, f.entry, j)
            /\ PairAt(d, st, j) = PairAt(c, f.state, j)
      /\ PlaceAt(d, en, n + 1) = en
  BY <1>1 DEF SameLevels
<1> HIDE DEF new
<1>3. Explored(ca \cup {new}, d, st) = D
  <2>1. Explored(ca \cup {new}, d, st) = Explored(ca \cup {new}, c, f.state) \ {new}
    <3>1. OneLess(ca \cup {new}, c, f, d, st)
      BY PushExplored
    <3> QED BY <3>1 DEF OneLess, new
  <2>2. new \notin ca
    BY DEF new
  <2> QED BY <2>1, <2>2 DEF Explored
<1>4. ASSUME NEW j \in 1 .. Len(d) PROVE PairAt(d, st, j) \in ca \cup {new}
  <2>1. CASE j = n + 1
    BY <1>2, <2>1 DEF new
  <2>2. CASE j \in 1 .. n
    <3>1. j \in 0 .. n
      BY <1>2, <2>2
    <3> QED BY <1>2, <2>2, <3>1 DEF TriedOK, n
  <2> QED BY <1>2, <2>1, <2>2
<1>5. ASSUME NEW j \in 0 .. Len(d), NEW x \in Rest(p, d, j), x < PlaceAt(d, en, j)
      PROVE  Tried(D, PairAt(d, st, j), IdOf(x))
  <2>1. CASE j = n + 1
    BY <1>2, <1>5, <2>1
  <2>2. CASE j \in 0 .. n
    BY <1>2, <1>5, <2>2 DEF TriedOK, n
  <2> QED BY <1>2, <2>1, <2>2
<1>6. \A q \in D : /\ Partition(p) \ q[1] # {}
                   /\ \A i \in Partition(p) \ q[1] : Free(p, q[1], i) => Tried(D, q, i)
  BY DEF TriedOK
<1> HIDE DEF D
<1>7. TriedOK(p, en, st, ca \cup {new}, d)
  BY <1>3, <1>4, <1>5, <1>6 DEF TriedOK
<1> QED BY <1>3, <1>7 DEF Pushed, new, D

LEMMA TriedGrows ==
    ASSUME NEW D, NEW E, D \subseteq E, NEW q, NEW i, Tried(D, q, i)
    PROVE  Tried(E, q, i)
BY DEF Tried

LEMMA DropTried ==
    ASSUME WellFormed, NEW p, NEW c \in Seq(Frames(p)), NEW f \in Frames(p),
           NEW en, NEW st, NEW d, d = Append(c, f), NEW ca, TriedOK(p, en, st, ca, d),
           en \in Rest(p, d, Len(d)), ~IsCall(en),
           IsCall(f.entry), f.entry \in Rest(p, c, Len(c)),
           KvStep(f.state, ops[IdOf(f.entry)]) = [ok |-> TRUE, state |-> st]
    PROVE  Popped(p, c, f, d, en, st, ca)
<1> DEFINE n == Len(c)
           top == PairAt(d, st, Len(d))
           D == Explored(ca, d, st)
           E == Explored(ca, c, f.state)
           i0 == IdOf(f.entry)
<1>1. SameLevels(p, c, n, f, d, en, st)
  BY PushLevels
<1> HIDE DEF n
<1>2. /\ n \in Nat /\ Len(d) = n + 1 /\ d[n + 1] = f
      /\ \A j \in 0 .. n :
            /\ Rest(p, d, j) = Rest(p, c, j)
            /\ Lifted(d, j) = Lifted(c, j)
            /\ PlaceAt(d, en, j) = PlaceAt(c, f.entry, j)
            /\ PairAt(d, st, j) = PairAt(c, f.state, j)
      /\ StateAt(d, st, n + 1) = st
      /\ StateAt(c, f.state, n) = f.state
      /\ n \in 0 .. n
  BY <1>1 DEF SameLevels
<1>3. Lifted(d, n + 1) = Lifted(d, n) \cup {i0} /\ i0 \notin Lifted(c, n)
  <2>1. /\ d[n + 1].entry \in Rest(p, d, n) /\ IsCall(d[n + 1].entry)
        /\ n \in Nat
    BY <1>2 DEF n
  <2>2. Lifted(d, n + 1) = Lifted(d, n) \cup {IdOf(d[n + 1].entry)}
    BY <2>1, RestStep
  <2>3. i0 \notin Lifted(c, n)
    BY DEF Rest, n
  <2> QED BY <1>2, <2>2, <2>3
<1>4. top = <<Lifted(d, Len(d)), st>> /\ top = <<Lifted(c, n) \cup {i0}, st>>
  BY <1>2, <1>3 DEF PairAt
<1>5. top \in ca
  <2>1. Len(d) \in 1 .. Len(d)
    BY <1>2
  <2> QED BY <2>1 DEF TriedOK
<1>6. \A j \in 1 .. n : PairAt(c, f.state, j) # top
  <2>1. ASSUME NEW j \in 1 .. n PROVE PairAt(c, f.state, j) # top
    <3>1. Lifted(c, j) \subseteq Lifted(c, n)
      BY <1>2, LiftedGrows
    <3>2. i0 \notin Lifted(c, j)
      BY <1>3, <3>1
    <3> HIDE DEF top
    <3> QED BY <1>4, <3>2 DEF PairAt
  <2> QED BY <2>1
<1>7. E = D \cup {top}
  <2>1. D = E \ {top}
    <3>1. OneLess(ca, c, f, d, st)
      BY PushExplored
    <3> QED BY <3>1 DEF OneLess
  <2>2. top \in E
    BY <1>5, <1>6 DEF Explored, n
  <2> HIDE DEF D, E, top
  <2> QED BY <2>1, <2>2
<1>8. ASSUME NEW j \in 1 .. n PROVE PairAt(c, f.state, j) \in ca
  <2>1. j \in 0 .. n /\ j \in 1 .. Len(d)
    BY <1>2
  <2> QED BY <1>2, <2>1 DEF TriedOK
<1>9. ASSUME NEW j \in 0 .. n, NEW x \in Rest(p, c, j), x < PlaceAt(c, f.entry, j)
      PROVE  Tried(E, PairAt(c, f.state, j), IdOf(x))
  <2>1. j \in 0 .. Len(d)
    BY <1>2
  <2>2. Tried(D, PairAt(d, st, j), IdOf(x))
    BY <1>2, <1>9, <2>1 DEF TriedOK
  <2> HIDE DEF D, E, top
  <2> QED BY <1>2, <1>7, <2>2, TriedGrows
<1>10. ASSUME NEW q \in E
       PROVE  /\ Partition(p) \ q[1] # {}
              /\ \A i \in Partition(p) \ q[1] : Free(p, q[1], i) => Tried(E, q, i)
  <2>1. CASE q \in D
    <3>1. /\ Partition(p) \ q[1] # {}
          /\ \A i \in Partition(p) \ q[1] : Free(p, q[1], i) => Tried(D, q, i)
      BY <2>1 DEF TriedOK
    <3> HIDE DEF D, E, top
    <3> QED BY <1>7, <3>1, TriedGrows
  <2>2. CASE q = top
    <3>1. /\ Partition(p) \ Lifted(d, Len(d)) # {}
          /\ \A i \in Partition(p) \ Lifted(d, Len(d)) :
                Free(p, Lifted(d, Len(d)), i) => Tried(D, top, i)
      <4>1. d \in Seq(Frames(p))
        BY <1>1 DEF SameLevels
      <4> QED BY <4>1, FreeTried
    <3>2. q[1] = Lifted(d, Len(d))
      BY <1>4, <2>2
    <3> HIDE DEF D, E, top
    <3> QED BY <1>7, <2>2, <3>1, <3>2, TriedGrows
  <2> QED BY <1>7, <2>1, <2>2
<1>11. Tried(E, PairAt(c, f.state, n), i0)
  <2>1. PairAt(c, f.state, n) = <<Lifted(c, n), f.state>>
    BY <1>2 DEF PairAt
  <2> HIDE DEF D, E, top
  <2> QED BY <1>4, <1>7, <2>1 DEF Tried
<1>12. TriedOK(p, f.entry, f.state, ca, c)
  BY <1>8, <1>9, <1>10 DEF TriedOK, n
<1> QED BY <1>4, <1>7, <1>11, <1>12 DEF Popped, n
-----------------------------------------------------------------------------
(* The searches.                                                           *)

SearchTypes ==
    /\ WellFormed /\ linearizable = Verdicts
    /\ DOMAIN links = Parts /\ DOMAIN entry = Parts /\ DOMAIN state = Parts
    /\ DOMAIN linearized = Parts /\ DOMAIN cache = Parts /\ DOMAIN calls = Parts

\* The inductive invariant of the searches.
SearchInv == SearchTypes /\ SearchOK

\* What is said of a search depends on the history only.
LEMMA NodesKept ==
    ASSUME UNCHANGED hist, UNCHANGED ops
    PROVE  /\ \A x : /\ MatchOf(x)' = MatchOf(x) /\ IdOf(x)' = IdOf(x)
                     /\ IsCall(x)' = IsCall(x) /\ Nodes(x)' = Nodes(x)
                     /\ Partition(x)' = Partition(x)
           /\ \A c, k : Lifted(c, k)' = Lifted(c, k)
           /\ \A p, c, k : Rest(p, c, k)' = Rest(p, c, k)
<1>1. \A x : MatchOf(x)' = MatchOf(x) /\ IdOf(x)' = IdOf(x) /\ IsCall(x)' = IsCall(x)
  BY DEF MatchOf, IdOf, IsCall
<1>2. \A x : Nodes(x)' = Nodes(x) /\ Partition(x)' = Partition(x)
  BY DEF Nodes, Partition, Ids, IdOf
<1>3. \A c, k : Lifted(c, k)' = Lifted(c, k)
  BY <1>1 DEF Lifted
<1>4. \A p, c, k : Rest(p, c, k)' = Rest(p, c, k)
  BY <1>1, <1>2, <1>3 DEF Rest
<1> QED BY <1>1, <1>2, <1>3, <1>4

LEMMA ListKept ==
    ASSUME UNCHANGED hist, UNCHANGED ops
    PROVE  \A p, l, en, st, lin, c :
              ListOK(p, l, en, st, lin, c)' = ListOK(p, l, en, st, lin, c)
<1>1. \A l, S, e : OwnLinks(l, S, e)' = OwnLinks(l, S, e)
  BY NodesKept DEF OwnLinks, IsNext, IsPrev
<1>2. \A p, c, l : StackOK(p, c, l)' = StackOK(p, c, l)
  BY NodesKept, <1>1 DEF StackOK, Linked, IsNext, IsPrev
<1>3. \A p : Frames(p)' = Frames(p)
  BY NodesKept DEF Frames, States
<1>4. \A p, l : IsList(l, Nodes(p), Len(hist))' = IsList(l, Nodes(p), Len(hist))
  BY NodesKept DEF IsList
<1>5. Nil' = Nil /\ States' = States /\ Head0' = Head0
  BY DEF Nil, States, Head0
<1> QED BY NodesKept, <1>2, <1>3, <1>4, <1>5 DEF ListOK

LEMMA PathKept ==
    ASSUME UNCHANGED hist, UNCHANGED ops
    PROVE  \A p, en, st, c : PathOK(p, en, st, c)' = PathOK(p, en, st, c)
BY NodesKept DEF PathOK, StateAt, PlaceAt

LEMMA TriedKept ==
    ASSUME UNCHANGED hist, UNCHANGED ops
    PROVE  /\ \A ca, c, st : Explored(ca, c, st)' = Explored(ca, c, st)
           /\ \A p, lin, i : Free(p, lin, i)' = Free(p, lin, i)
           /\ \A D, q, i : Tried(D, q, i)' = Tried(D, q, i)
           /\ \A p, en, st, ca, c : TriedOK(p, en, st, ca, c)' = TriedOK(p, en, st, ca, c)
<1>1. \A c, st, j : PairAt(c, st, j)' = PairAt(c, st, j)
  BY NodesKept DEF PairAt, StateAt
<1>2. \A ca, c, st : Explored(ca, c, st)' = Explored(ca, c, st)
  BY <1>1 DEF Explored
<1>3. \A p, lin, i : Free(p, lin, i)' = Free(p, lin, i)
  BY NodesKept DEF Free, Precedes
<1>4. \A D, q, i : Tried(D, q, i)' = Tried(D, q, i)
  BY DEF Tried
<1>5. \A p, en, st, ca, c : TriedOK(p, en, st, ca, c)' = TriedOK(p, en, st, ca, c)
  BY NodesKept, <1>1, <1>2, <1>3, <1>4 DEF TriedOK, PlaceAt
<1> QED BY <1>2, <1>3, <1>4, <1>5

\* A step of one search.
LEMMA OneSearch ==
    ASSUME SearchInv, UNCHANGED truth, NEW p \in Parts,
           /\ DOMAIN links' = Parts /\ DOMAIN entry' = Parts /\ DOMAIN state' = Parts
           /\ DOMAIN linearized' = Parts /\ DOMAIN cache' = Parts
           /\ DOMAIN calls' = Parts,
           \A q \in Parts \ {p} :
              /\ links'[q] = links[q] /\ entry'[q] = entry[q] /\ state'[q] = state[q]
              /\ linearized'[q] = linearized[q] /\ cache'[q] = cache[q]
              /\ calls'[q] = calls[q],
           ListOK(p, links'[p], entry'[p], state'[p], linearized'[p], calls'[p]),
           PathOK(p, entry'[p], state'[p], calls'[p]),
           TriedOK(p, entry'[p], state'[p], cache'[p], calls'[p])
    PROVE  SearchInv'
<1>1. /\ Parts' = Parts /\ WellFormed' /\ linearizable' = Verdicts'
      /\ UNCHANGED hist /\ UNCHANGED ops
  BY TruthKept DEF SearchInv, SearchTypes
<1>2. ASSUME NEW q \in Parts
      PROVE  /\ ListOK(q, links'[q], entry'[q], state'[q], linearized'[q], calls'[q])
             /\ PathOK(q, entry'[q], state'[q], calls'[q])
             /\ TriedOK(q, entry'[q], state'[q], cache'[q], calls'[q])
  <2>1. CASE q = p
    BY <2>1
  <2>2. CASE q # p
    BY <2>2 DEF SearchInv, SearchOK
  <2> QED BY <2>1, <2>2
<1>3. SearchOK'
  BY <1>1, <1>2, ListKept, PathKept, TriedKept DEF SearchOK
<1>4. SearchTypes'
  BY <1>1 DEF SearchTypes
<1> QED BY <1>3, <1>4 DEF SearchInv

LEMMA NoSearch ==
    ASSUME SearchInv, UNCHANGED truth, UNCHANGED searchVars
    PROVE  SearchInv'
<1>1. /\ Parts' = Parts /\ WellFormed' /\ linearizable' = Verdicts'
      /\ UNCHANGED hist /\ UNCHANGED ops
      /\ UNCHANGED <<links, entry, state, linearized, cache, calls>>
  BY TruthKept DEF SearchInv, SearchTypes, searchVars
<1>2. SearchTypes'
  BY <1>1 DEF SearchInv, SearchTypes
<1>3. SearchOK'
  BY <1>1, ListKept, PathKept, TriedKept DEF SearchInv, SearchOK
<1> QED BY <1>2, <1>3 DEF SearchInv
LEMMA LinearizeInv ==
    ASSUME SearchInv, NEW p, Linearize(p)
    PROVE  /\ SearchInv'
           /\ Explored(cache'[p], calls'[p], state'[p])
                 = Explored(cache[p], calls[p], state[p])
<1> DEFINE l == links[p]
           en == entry[p]
           st == state[p]
           lin == linearized[p]
           ca == cache[p]
           c == calls[p]
           n == Len(c)
           f == [entry |-> en, state |-> st]
           d == Append(c, f)
           st2 == KvStep(st, ops[IdOf(en)]).state
           l2 == lift(l, en)
           en2 == l2.next[Head0]
<1>1. /\ p \in Parts /\ l.next[Head0] # Nil /\ IsCall(en)
      /\ KvStep(st, ops[IdOf(en)]).ok
      /\ <<lin \cup {IdOf(en)}, st2>> \notin ca
      /\ UNCHANGED truth
  BY DEF Linearize, Searching, Running, Step, NewEntry, set, parVars
<1>2. /\ DOMAIN links' = Parts /\ DOMAIN entry' = Parts /\ DOMAIN state' = Parts
      /\ DOMAIN linearized' = Parts /\ DOMAIN cache' = Parts /\ DOMAIN calls' = Parts
      /\ \A q \in Parts \ {p} :
            /\ links'[q] = links[q] /\ entry'[q] = entry[q] /\ state'[q] = state[q]
            /\ linearized'[q] = linearized[q] /\ cache'[q] = cache[q]
            /\ calls'[q] = calls[q]
  BY <1>1 DEF Linearize, SearchInv, SearchTypes
<1>3. /\ links'[p] = l2 /\ entry'[p] = en2 /\ state'[p] = st2
      /\ linearized'[p] = lin \cup {IdOf(en)}
      /\ cache'[p] = ca \cup {<<lin \cup {IdOf(en)}, st2>>}
      /\ calls'[p] = d
  BY <1>1 DEF Linearize, SearchInv, SearchTypes, Step, NewEntry, set
<1>4. /\ ListOK(p, l, en, st, lin, c) /\ PathOK(p, en, st, c)
      /\ TriedOK(p, en, st, ca, c) /\ WellFormed
  BY <1>1 DEF SearchInv, SearchOK, SearchTypes
<1>5. /\ en \in Rest(p, c, n) /\ c \in Seq(Frames(p)) /\ st \in States
      /\ lin = Lifted(c, n)
  BY <1>1, <1>4 DEF ListOK
<1>6. IdOf(en) \in Ids /\ en \in Nodes(p)
  BY <1>4, <1>5, Called DEF Rest, Nodes
<1>7. st2 \in States /\ KvStep(st, ops[IdOf(en)]) = [ok |-> TRUE, state |-> st2]
  <2> HIDE DEF st, en
  <2> QED BY <1>1, <1>4, <1>5, <1>6, StepStates
<1>8. f \in Frames(p) /\ f.entry = en /\ f.state = st
  BY <1>5, <1>6 DEF Frames
<1> HIDE DEF l, en, st, lin, ca, c, n, st2, l2
<1>9. ListOK(p, l2, en2, st2, lin \cup {IdOf(en)}, d)
  BY <1>1, <1>4, <1>5, <1>7, PushList DEF l2, n
<1>10. \A x \in Rest(p, d, Len(d)) : ~(x < en2)
  <2>1. Linked(l2, Rest(p, d, Len(d)), Len(hist))
    BY <1>9 DEF ListOK, StackOK
  <2> HIDE DEF d
  <2> QED BY <1>4, <2>1, ListEmpty
<1> HIDE DEF en2, f
<1>11. PathOK(p, en2, st2, d)
  <2>1. PathOK(p, f.entry, f.state, c)
    BY <1>4, <1>8
  <2>2. KvStep(f.state, ops[IdOf(f.entry)]) = [ok |-> TRUE, state |-> st2]
    BY <1>7, <1>8
  <2> QED BY <1>5, <1>8, <1>10, <2>1, <2>2, PushPath
<1>12. PairAt(d, st2, Len(d)) = <<lin \cup {IdOf(en)}, st2>>
  <2>1. Lifted(d, Len(d)) = lin \cup {IdOf(en)}
    BY <1>9 DEF ListOK
  <2>2. Len(d) \in Nat
    BY <1>9 DEF ListOK
  <2> HIDE DEF d
  <2> QED BY <2>1, <2>2 DEF PairAt, StateAt
<1>13. /\ TriedOK(p, en2, st2, ca \cup {<<lin \cup {IdOf(en)}, st2>>}, d)
       /\ Explored(ca \cup {<<lin \cup {IdOf(en)}, st2>>}, d, st2) = Explored(ca, c, st)
  <2>1. TriedOK(p, f.entry, f.state, ca, c)
    BY <1>4, <1>8
  <2>2. PairAt(d, st2, Len(d)) \notin ca
    BY <1>1, <1>12
  <2>3. /\ TriedOK(p, en2, st2, ca \cup {PairAt(d, st2, Len(d))}, d)
        /\ Explored(ca \cup {PairAt(d, st2, Len(d))}, d, st2) = Explored(ca, c, f.state)
    <3>1. Pushed(p, c, f, d, en2, st2, ca)
      BY <1>5, <1>8, <1>10, <2>1, <2>2, PushTried
    <3> QED BY <3>1 DEF Pushed
  <2> HIDE DEF d
  <2> QED BY <1>8, <1>12, <2>3
<1> HIDE DEF d
<1>14. SearchInv'
  BY <1>1, <1>2, <1>3, <1>9, <1>11, <1>13, OneSearch
<1> QED BY <1>3, <1>13, <1>14 DEF ca, c, st

\* A pair with one more operation is not on the stack.
LEMMA NewIsOff ==
    ASSUME NEW p, NEW c \in Seq(Frames(p)), NEW st, NEW ca, NEW i, NEW s,
           i \notin Lifted(c, Len(c)), <<Lifted(c, Len(c)) \cup {i}, s>> \in ca
    PROVE  <<Lifted(c, Len(c)) \cup {i}, s>> \in Explored(ca, c, st)
<1> DEFINE n == Len(c)
<1>1. n \in Nat
  OBVIOUS
<1> HIDE DEF n
<1>2. ASSUME NEW j \in 1 .. n PROVE PairAt(c, st, j) # <<Lifted(c, n) \cup {i}, s>>
  <2>1. Lifted(c, j) \subseteq Lifted(c, n)
    BY <1>1, LiftedGrows
  <2> QED BY <2>1 DEF PairAt, n
<1> QED BY <1>2 DEF Explored, n

LEMMA SkipInv ==
    ASSUME SearchInv, NEW p, Skip(p)
    PROVE  /\ SearchInv'
           /\ Explored(cache'[p], calls'[p], state'[p])
                 = Explored(cache[p], calls[p], state[p])
<1> DEFINE l == links[p]
           en == entry[p]
           st == state[p]
           lin == linearized[p]
           ca == cache[p]
           c == calls[p]
           n == Len(c)
           st2 == KvStep(st, ops[IdOf(en)]).state
           en2 == l.next[en]
<1>1. /\ p \in Parts /\ l.next[Head0] # Nil /\ IsCall(en)
      /\ KvStep(st, ops[IdOf(en)]).ok => <<lin \cup {IdOf(en)}, st2>> \in ca
      /\ UNCHANGED truth
  BY DEF Skip, Searching, Running, Step, NewEntry, set, parVars
<1>2. /\ DOMAIN links' = Parts /\ DOMAIN entry' = Parts /\ DOMAIN state' = Parts
      /\ DOMAIN linearized' = Parts /\ DOMAIN cache' = Parts /\ DOMAIN calls' = Parts
      /\ \A q \in Parts \ {p} :
            /\ links'[q] = links[q] /\ entry'[q] = entry[q] /\ state'[q] = state[q]
            /\ linearized'[q] = linearized[q] /\ cache'[q] = cache[q]
            /\ calls'[q] = calls[q]
  BY <1>1 DEF Skip, SearchInv, SearchTypes
<1>3. /\ links'[p] = l /\ entry'[p] = en2 /\ state'[p] = st
      /\ linearized'[p] = lin /\ cache'[p] = ca /\ calls'[p] = c
  BY <1>1 DEF Skip, SearchInv, SearchTypes
<1>4. /\ ListOK(p, l, en, st, lin, c) /\ PathOK(p, en, st, c)
      /\ TriedOK(p, en, st, ca, c) /\ WellFormed
  BY <1>1 DEF SearchInv, SearchOK, SearchTypes
<1>5. /\ en \in Rest(p, c, n) /\ c \in Seq(Frames(p)) /\ lin = Lifted(c, n)
      /\ IdOf(en) \notin Lifted(c, n)
  BY <1>1, <1>4 DEF ListOK, Rest
<1> HIDE DEF l, en, st, lin, ca, c, n, st2
<1>6. ListOK(p, l, en2, st, lin, c) /\ IsNext(Rest(p, c, n), Len(hist), en, en2)
  BY <1>1, <1>4, <1>5, AdvanceList DEF n
<1>7. Tried(Explored(ca, c, st), PairAt(c, st, n), IdOf(en))
  <2>1. PairAt(c, st, n) = <<Lifted(c, n), st>>
    <3>1. n \in Nat
      BY <1>5 DEF n
    <3> QED BY <3>1 DEF PairAt, StateAt, n
  <2>2. ASSUME KvStep(st, ops[IdOf(en)]).ok
        PROVE  <<Lifted(c, n) \cup {IdOf(en)}, st2>> \in Explored(ca, c, st)
    BY <1>1, <1>5, <2>2, NewIsOff DEF n
  <2> QED BY <2>1, <2>2 DEF Tried, st2
<1> HIDE DEF en2
<1>8. PathOK(p, en2, st, c) /\ TriedOK(p, en2, st, ca, c)
  BY <1>1, <1>4, <1>5, <1>6, <1>7, AdvancePath, AdvanceTried DEF n
<1>9. SearchInv'
  BY <1>1, <1>2, <1>3, <1>6, <1>8, OneSearch
<1> QED BY <1>3, <1>9 DEF ca, c, st

LEMMA BacktrackInv ==
    ASSUME SearchInv, NEW p, Backtrack(p)
    PROVE  /\ SearchInv'
           /\ Explored(cache'[p], calls'[p], state'[p])
                 = Explored(cache[p], calls[p], state[p])
                      \cup {<<Lifted(calls[p], Len(calls[p])), state[p]>>}
<1> DEFINE l == links[p]
           en == entry[p]
           st == state[p]
           lin == linearized[p]
           ca == cache[p]
           d == calls[p]
           c == Front(d)
           f == Last(d)
           l2 == unlift(l, f.entry)
           en2 == l2.next[f.entry]
           lin2 == lin \ {IdOf(f.entry)}
<1>1. /\ p \in Parts /\ l.next[Head0] # Nil /\ ~IsCall(en) /\ d # <<>>
      /\ UNCHANGED truth
  BY DEF Backtrack, Searching, Running, parVars
<1>2. /\ DOMAIN links' = Parts /\ DOMAIN entry' = Parts /\ DOMAIN state' = Parts
      /\ DOMAIN linearized' = Parts /\ DOMAIN cache' = Parts /\ DOMAIN calls' = Parts
      /\ \A q \in Parts \ {p} :
            /\ links'[q] = links[q] /\ entry'[q] = entry[q] /\ state'[q] = state[q]
            /\ linearized'[q] = linearized[q] /\ cache'[q] = cache[q]
            /\ calls'[q] = calls[q]
  BY <1>1 DEF Backtrack, SearchInv, SearchTypes
<1>3. /\ links'[p] = l2 /\ entry'[p] = en2 /\ state'[p] = f.state
      /\ linearized'[p] = lin2 /\ cache'[p] = ca /\ calls'[p] = c
  BY <1>1 DEF Backtrack, SearchInv, SearchTypes, clear
<1>4. /\ ListOK(p, l, en, st, lin, d) /\ PathOK(p, en, st, d)
      /\ TriedOK(p, en, st, ca, d) /\ WellFormed
  BY <1>1 DEF SearchInv, SearchOK, SearchTypes
<1>5. en \in Rest(p, d, Len(d)) /\ d \in Seq(Frames(p))
  BY <1>1, <1>4 DEF ListOK
<1> HIDE DEF l, en, st, lin, ca, d
<1>6. c \in Seq(Frames(p)) /\ f \in Frames(p) /\ d = Append(c, f)
  BY <1>1, <1>5, FrontAndLast
<1>7. /\ ListOK(p, l2, f.entry, f.state, lin2, c)
      /\ IsCall(f.entry) /\ f.entry \in Rest(p, c, Len(c))
  BY <1>1, <1>4, PopList
<1> HIDE DEF f, c, l2, lin2
<1>8. /\ PathOK(p, f.entry, f.state, c)
      /\ KvStep(f.state, ops[IdOf(f.entry)]) = [ok |-> TRUE, state |-> st]
  BY <1>4, <1>6, DropPath
<1>9. /\ TriedOK(p, f.entry, f.state, ca, c)
      /\ Tried(Explored(ca, c, f.state), PairAt(c, f.state, Len(c)), IdOf(f.entry))
      /\ Explored(ca, c, f.state)
            = Explored(ca, d, st) \cup {<<Lifted(d, Len(d)), st>>}
  <2>1. ~IsCall(en)
    BY <1>1
  <2>2. Popped(p, c, f, d, en, st, ca)
    BY <1>4, <1>5, <1>6, <1>7, <1>8, <2>1, DropTried
  <2> QED BY <2>2 DEF Popped
<1>10. /\ ListOK(p, l2, en2, f.state, lin2, c)
       /\ IsNext(Rest(p, c, Len(c)), Len(hist), f.entry, en2)
  BY <1>4, <1>7, AdvanceList
<1> HIDE DEF en2
<1>11. PathOK(p, en2, f.state, c) /\ TriedOK(p, en2, f.state, ca, c)
  BY <1>4, <1>6, <1>7, <1>8, <1>9, <1>10, AdvancePath, AdvanceTried
<1>12. SearchInv'
  BY <1>1, <1>2, <1>3, <1>10, <1>11, OneSearch
<1> QED BY <1>3, <1>9, <1>12 DEF ca, d, st
LEMMA EmptyStack ==
    ASSUME NEW p
    PROVE  /\ Lifted(<<>>, 0) = {} /\ Rest(p, <<>>, 0) = Nodes(p) /\ Len(<<>>) = 0
           /\ \A j \in 0 .. 0 : j = 0
           /\ \A j \in 1 .. 0 : FALSE
<1>1. Lifted(<<>>, 0) = {}
  BY DEF Lifted
<1> QED BY <1>1 DEF Rest

\* The list that makeLinkedEntries makes.
LEMMA MadeList ==
    ASSUME WellFormed, NEW p
    PROVE  /\ IsList(makeLinkedEntries(Nodes(p)), Nodes(p), Len(hist))
           /\ Linked(makeLinkedEntries(Nodes(p)), Nodes(p), Len(hist))
<1> DEFINE M == Nodes(p)
           N == Len(hist)
           l == makeLinkedEntries(M)
<1>1. N \in Nat /\ M \in SUBSET (1 .. N)
  BY NodeFacts
<1>2. /\ l = [next |-> l.next, prev |-> l.prev]
      /\ l.next = [x \in M \cup {0} |-> Following(M, x)]
      /\ l.prev = [x \in M |-> Preceding(M, x)]
  BY DEF makeLinkedEntries, Head0
<1> HIDE DEF M, l
<1>3. ASSUME NEW x \in M \cup {0}
      PROVE  IsNext(M, N, x, l.next[x]) /\ l.next[x] \in 0 .. N + 1
  <2>1. x \in 0 .. N
    BY <1>1
  <2>2. IsNext(M, N, x, l.next[x])
    BY <1>1, <1>2, <2>1, FollowingIsNext
  <2>3. l.next[x] \in M \cup {N + 1}
    BY <2>2 DEF IsNext
  <2>4. \A z \in M \cup {N + 1} : z \in 0 .. N + 1
    BY <1>1
  <2> QED BY <2>2, <2>3, <2>4
<1>4. ASSUME NEW x \in M
      PROVE  IsPrev(M, x, l.prev[x]) /\ l.prev[x] \in 0 .. N
  <2>1. IsPrev(M, x, l.prev[x])
    BY <1>1, <1>2, PrecedingIsPrev
  <2>2. l.prev[x] \in M \cup {0}
    BY <2>1 DEF IsPrev
  <2>3. \A z \in M \cup {0} : z \in 0 .. N
    BY <1>1
  <2> QED BY <2>1, <2>2, <2>3
<1>5. IsList(l, M, N)
  <2>1. l.next \in [M \cup {0} -> 0 .. N + 1]
    BY <1>2, <1>3
  <2>2. l.prev \in [M -> 0 .. N]
    BY <1>2, <1>4
  <2> QED BY <1>2, <2>1, <2>2 DEF IsList
<1>6. Linked(l, M, N)
  BY <1>3, <1>4 DEF Linked
<1> QED BY <1>5, <1>6 DEF M, l

LEMMA InitSearch == CheckInit => SearchInv
<1> SUFFICES ASSUME CheckInit PROVE SearchInv
  OBVIOUS
<1>1. WellFormed /\ linearizable = Verdicts
  BY InitWellFormed DEF CheckInit, ParInit
<1>2. SearchTypes
  BY <1>1 DEF CheckInit, SearchTypes
<1>3. ASSUME NEW p \in Parts
      PROVE  /\ ListOK(p, links[p], entry[p], state[p], linearized[p], calls[p])
             /\ PathOK(p, entry[p], state[p], calls[p])
             /\ TriedOK(p, entry[p], state[p], cache[p], calls[p])
  <2> DEFINE l == makeLinkedEntries(Nodes(p))
             en == l.next[Head0]
  <2>1. /\ links[p] = l /\ entry[p] = en /\ state[p] = KvInit
        /\ linearized[p] = {} /\ cache[p] = {} /\ calls[p] = <<>>
    BY DEF CheckInit
  <2>2. IsList(l, Nodes(p), Len(hist)) /\ Linked(l, Nodes(p), Len(hist))
    BY <1>1, MadeList
  <2> HIDE DEF l
  <2>3. StackOK(p, <<>>, l)
    BY <2>2, EmptyStack DEF StackOK
  <2>4. Linked(l, Rest(p, <<>>, 0), Len(hist))
    BY <2>2, EmptyStack
  <2>5. /\ l.next[Head0] # Nil => l.next[Head0] \in Rest(p, <<>>, 0)
        /\ \A x \in Rest(p, <<>>, 0) : ~(x < l.next[Head0])
    BY <1>1, <2>4, ListEmpty
  <2>6. KvInit \in States /\ <<>> \in Seq(Frames(p))
    BY DEF KvInit, States
  <2>7. ListOK(p, l, en, KvInit, {}, <<>>)
    BY <2>2, <2>3, <2>5, <2>6, EmptyStack DEF ListOK
  <2>8. StateAt(<<>>, KvInit, 0) = KvInit /\ PlaceAt(<<>>, en, 0) = en
    BY EmptyStack DEF StateAt, PlaceAt
  <2> HIDE DEF en
  <2>9. \A x \in Rest(p, <<>>, 0) : ~(x < en)
    BY <2>5 DEF en
  <2>10. PathOK(p, en, KvInit, <<>>)
    BY <2>8, <2>9, EmptyStack DEF PathOK
  <2>11. TriedOK(p, en, KvInit, {}, <<>>)
    <3>1. Explored({}, <<>>, KvInit) = {}
      BY DEF Explored
    <3> QED BY <2>8, <2>9, <3>1, EmptyStack DEF TriedOK
  <2> QED BY <2>1, <2>7, <2>10, <2>11
<1>4. SearchOK
  BY <1>3 DEF SearchOK
<1> QED BY <1>2, <1>4 DEF SearchInv

LEMMA SearchNextInv == SearchInv /\ [CheckNext]_checkVars => SearchInv'
<1> SUFFICES ASSUME SearchInv, [CheckNext]_checkVars PROVE SearchInv'
  OBVIOUS
<1>1. CASE checkParallel
  <2>1. UNCHANGED truth /\ UNCHANGED searchVars
    BY <1>1 DEF checkParallel, Caller, Timeout, Send, Receive, Drain, Return
  <2> QED BY <2>1, NoSearch
<1>2. ASSUME NEW p \in Keys, checkSingle(p) PROVE SearchInv'
  <2>1. CASE Fail(p) \/ Succeed(p) \/ Killed(p)
    <3>1. UNCHANGED truth /\ UNCHANGED searchVars
      BY <2>1 DEF Fail, Succeed, Killed, Finish
    <3> QED BY <3>1, NoSearch
  <2> QED BY <1>2, <2>1, LinearizeInv, SkipInv, BacktrackInv DEF checkSingle
<1>3. CASE UNCHANGED checkVars
  <2>1. UNCHANGED truth /\ UNCHANGED searchVars
    BY <1>3 DEF checkVars, parVars
  <2> QED BY <2>1, NoSearch
<1> QED BY <1>1, <1>2, <1>3 DEF CheckNext

\* The inductive invariant of the searches.
THEOREM SearchInvariant == CheckSpec => []SearchInv
<1>1. CheckInit => SearchInv
  BY InitSearch
<1>2. SearchInv /\ [CheckNext]_checkVars => SearchInv'
  BY SearchNextInv
<1> QED BY <1>1, <1>2, PTL DEF CheckSpec

\* However often a search lifts and unlifts, its list holds exactly the entries
\* that are not linearized, in both directions and in order.
THEOREM ListsIntact == CheckSpec => []ListIntact
<1>1. SearchInv => ListIntact
  <2> SUFFICES ASSUME SearchInv, NEW p \in Parts,
                      NEW S, S = {x \in Nodes(p) : IdOf(x) \notin linearized[p]},
                      NEW x \in S \cup {Head0}
               PROVE  /\ links[p].next[x] = Following(S, x)
                      /\ Following(S, x) # Nil => links[p].prev[Following(S, x)] = x
    BY DEF ListIntact
  <2> DEFINE l == links[p]
             N == Len(hist)
             y == Following(S, x)
  <2>1. ListOK(p, l, entry[p], state[p], linearized[p], calls[p]) /\ WellFormed
    BY DEF SearchInv, SearchOK, SearchTypes
  <2>2. S = Rest(p, calls[p], Len(calls[p])) /\ Linked(l, S, N)
    BY <2>1 DEF ListOK, StackOK, Rest
  <2>3. N \in Nat /\ S \in SUBSET (1 .. N) /\ Nil = N + 1
    BY <2>1, <2>2, NodeFacts DEF Rest
  <2>4. x \in 0 .. N /\ x \in S \cup {0}
    BY <2>3 DEF Head0
  <2>5. IsNext(S, N, x, y)
    BY <2>3, <2>4, FollowingIsNext
  <2>6. IsNext(S, N, x, l.next[x])
    BY <2>2, <2>4 DEF Linked
  <2> HIDE DEF l, N, y
  <2>7. l.next[x] = y
    BY <2>3, <2>4, <2>5, <2>6, NextUnique
  <2>8. ASSUME y # Nil PROVE l.prev[y] = x
    <3>1. y \in S
      BY <2>3, <2>5, <2>8 DEF IsNext
    <3>2. IsPrev(S, y, l.prev[y])
      BY <2>2, <3>1 DEF Linked
    <3> QED BY <2>3, <2>4, <2>5, <3>1, <3>2, PrevOfNext
  <2> QED BY <2>7, <2>8 DEF l, y
<1> QED BY <1>1, SearchInvariant, PTL
-----------------------------------------------------------------------------
(* What the searches find.                                                 *)

\* v[k] is the value after the first k operations of s.
IsTrace(v, o, s) ==
    v = [k \in 0 .. Len(s) |->
           IF k = 0 THEN KvInit ELSE KvStep(v[k - 1], o[s[k]]).state]
TraceOf(o, s) == CHOOSE v : IsTrace(v, o, s)

\* There is one.
LEMMA TraceExists ==
    ASSUME NEW o, NEW s, Len(s) \in Nat
    PROVE  \E v : IsTrace(v, o, s)
<1> DEFINE Upto(v, n) == /\ v[0] = KvInit
                         /\ \A k \in 1 .. n : v[k] = KvStep(v[k - 1], o[s[k]]).state
           T == {n \in Nat : ~\E v : Upto(v, n)}
<1>1. T = {}
  <2> SUFFICES ASSUME T # {} PROVE FALSE
    OBVIOUS
  <2>1. PICK n \in T : \A m \in T : n <= m
    BY NatMin
  <2>2. n # 0
    <3> DEFINE v == [k \in {0} |-> KvInit]
    <3>1. Upto(v, 0)
      OBVIOUS
    <3>2. ~\E u : Upto(u, n)
      BY <2>1
    <3> HIDE DEF Upto, v
    <3> QED BY <3>1, <3>2
  <2>3. n - 1 \in Nat /\ n - 1 \notin T
    <3>1. n \in Nat
      BY <2>1
    <3> HIDE DEF T
    <3> QED BY <2>1, <2>2, <3>1
  <2>4. PICK v : Upto(v, n - 1)
    BY <2>3
  <2> DEFINE w == [k \in 0 .. n |-> IF k = n THEN KvStep(v[n - 1], o[s[n]]).state
                                   ELSE v[k]]
  <2>5. Upto(w, n)
    <3>1. w[0] = KvInit
      BY <2>2, <2>3, <2>4
    <3>2. ASSUME NEW k \in 1 .. n PROVE w[k] = KvStep(w[k - 1], o[s[k]]).state
      <4>1. w[k - 1] = v[k - 1]
        BY <2>3
      <4>2. CASE k = n
        BY <4>1, <4>2
      <4>3. CASE k # n
        <5>1. k \in 1 .. n - 1
          BY <2>3, <4>3
        <5>2. v[k] = KvStep(v[k - 1], o[s[k]]).state
          BY <2>4, <5>1
        <5> QED BY <4>1, <4>3, <5>2
      <4> QED BY <4>2, <4>3
    <3> HIDE DEF w
    <3> QED BY <3>1, <3>2
  <2> HIDE DEF w
  <2> QED BY <2>1, <2>5
<1>2. PICK v : Upto(v, Len(s))
  BY <1>1
<1> DEFINE w == [k \in 0 .. Len(s) |-> v[k]]
<1>3. ASSUME NEW k \in 0 .. Len(s)
      PROVE  w[k] = IF k = 0 THEN KvInit ELSE KvStep(w[k - 1], o[s[k]]).state
  <2>1. CASE k = 0
    BY <1>2, <2>1
  <2>2. CASE k # 0
    <3>1. k \in 1 .. Len(s) /\ k - 1 \in 0 .. Len(s)
      BY <2>2
    <3>2. w[k] = v[k] /\ w[k - 1] = v[k - 1]
      BY <3>1
    <3> QED BY <1>2, <2>2, <3>1, <3>2
  <2> QED BY <2>1, <2>2
<1>4. IsTrace(w, o, s)
  BY <1>3 DEF IsTrace
<1> QED BY <1>4

\* s is legal exactly if every operation fits the value it finds.
LEMMA LegalTrace ==
    ASSUME NEW o, NEW s
    PROVE  Legal(o, s) <=>
              \A k \in 1 .. Len(s) : KvStep(TraceOf(o, s)[k - 1], o[s[k]]).ok
BY DEF Legal, TraceOf, IsTrace

LEMMA TraceSteps ==
    ASSUME NEW o, NEW s, Len(s) \in Nat
    PROVE  /\ TraceOf(o, s)[0] = KvInit
           /\ \A k \in 1 .. Len(s) :
                 TraceOf(o, s)[k] = KvStep(TraceOf(o, s)[k - 1], o[s[k]]).state
<1> DEFINE v == TraceOf(o, s)
<1>1. IsTrace(v, o, s)
  BY TraceExists DEF TraceOf
<1> HIDE DEF v
<1>3. v[0] = KvInit
  BY <1>1 DEF IsTrace
<1>4. ASSUME NEW k \in 1 .. Len(s) PROVE v[k] = KvStep(v[k - 1], o[s[k]]).state
  <2>1. k \in 0 .. Len(s) /\ k # 0
    OBVIOUS
  <2> QED BY <1>1, <2>1 DEF IsTrace
<1> QED BY <1>3, <1>4 DEF v

\* Any other trace is the same.
RunsLike(v, o, s) ==
    v[0] = KvInit /\ \A k \in 1 .. Len(s) : v[k] = KvStep(v[k - 1], o[s[k]]).state

LEMMA TraceUnique ==
    ASSUME NEW o, NEW s, Len(s) \in Nat, NEW v, RunsLike(v, o, s)
    PROVE  \A k \in 0 .. Len(s) : TraceOf(o, s)[k] = v[k]
<1> DEFINE w == TraceOf(o, s)
           T == {k \in 0 .. Len(s) : w[k] # v[k]}
<1>1. w[0] = KvInit /\ \A k \in 1 .. Len(s) : w[k] = KvStep(w[k - 1], o[s[k]]).state
  BY TraceSteps
<1>0. v[0] = KvInit /\ \A k \in 1 .. Len(s) : v[k] = KvStep(v[k - 1], o[s[k]]).state
  BY DEF RunsLike
<1> HIDE DEF w
<1>2. T = {}
  <2> SUFFICES ASSUME T # {} PROVE FALSE
    OBVIOUS
  <2>1. PICK n \in T : \A m \in T : n <= m
    <3>1. T \in SUBSET Nat
      OBVIOUS
    <3> HIDE DEF T
    <3> QED BY <3>1, NatMin
  <2>2. n # 0
    BY <1>0, <1>1, <2>1
  <2>3. n \in 1 .. Len(s) /\ n - 1 \in 0 .. Len(s) /\ n - 1 < n
    BY <2>2
  <2>4. n - 1 \notin T
    <3> HIDE DEF T
    <3> QED BY <2>1, <2>3
  <2>5. w[n - 1] = v[n - 1]
    BY <2>3, <2>4
  <2> QED BY <1>0, <1>1, <2>1, <2>3, <2>5
<1> QED BY <1>2 DEF w
LEMMA PartitionFacts ==
    ASSUME WellFormed, NEW p
    PROVE  /\ IsFiniteSet(Partition(p)) /\ Partition(p) \subseteq Ids
           /\ \A x \in Nodes(p) : IdOf(x) \in Partition(p)
<1>1. PICK n \in Nat : Ids = 1 .. n
  BY HistFacts
<1>2. Partition(p) \subseteq Ids
  BY DEF Partition
<1>3. IsFiniteSet(Partition(p))
  BY <1>1, <1>2, FS_Interval, FS_Subset
<1>4. \A x \in Nodes(p) : IdOf(x) \in Partition(p)
  BY Called DEF Nodes, Partition
<1> QED BY <1>2, <1>3, <1>4

\* The operations on the stack are all different.
LEMMA StackDistinct ==
    ASSUME WellFormed, NEW p, NEW c \in Seq(Frames(p)), NEW l, StackOK(p, c, l)
    PROVE  /\ Order(c) \in [1 .. Len(c) -> Lifted(c, Len(c))]
           /\ Len(Order(c)) = Len(c) /\ Len(c) \in Nat
           /\ IsFiniteSet(Lifted(c, Len(c))) /\ Cardinality(Lifted(c, Len(c))) = Len(c)
           /\ Lifted(c, Len(c)) \subseteq Partition(p)
           /\ Order(c) \in SetToSeqs(Lifted(c, Len(c)))
           /\ \A k \in 1 .. Len(c) : Order(c)[k] = IdOf(c[k].entry)
<1> DEFINE n == Len(c)
           s == Order(c)
           L == Lifted(c, n)
<1>1. n \in Nat /\ DOMAIN c = 1 .. n /\ s = [k \in 1 .. n |-> IdOf(c[k].entry)]
  BY DEF Order
<1> HIDE DEF n, s
<1>2. \A k \in 1 .. n : s[k] = IdOf(c[k].entry)
  BY <1>1
<1>3. s \in [1 .. n -> L]
  BY <1>1 DEF Lifted
<1>4. ASSUME NEW i \in 1 .. n, NEW j \in 1 .. n, i < j PROVE s[i] # s[j]
  <2>1. c[j].entry \in Rest(p, c, j - 1)
    BY DEF StackOK, n
  <2>2. i \in 1 .. j - 1
    BY <1>1, <1>4
  <2>3. IdOf(c[i].entry) \in Lifted(c, j - 1)
    BY <2>2 DEF Lifted
  <2> QED BY <1>2, <2>1, <2>3 DEF Rest
<1>5. \A i, j \in 1 .. n : i # j => s[i] # s[j]
  <2> SUFFICES ASSUME NEW i \in 1 .. n, NEW j \in 1 .. n, i # j PROVE s[i] # s[j]
    OBVIOUS
  <2>1. i < j \/ j < i
    BY <1>1
  <2> QED BY <1>4, <2>1
<1>6. s \in Bijection(1 .. n, L)
  <2>1. \A x \in L : \E k \in 1 .. n : s[k] = x
    BY <1>2 DEF Lifted
  <2> QED BY <1>3, <1>5, <2>1 DEF Bijection, Injection, Surjection, IsInjective
<1>7. IsFiniteSet(L) /\ Cardinality(L) = n
  <2>1. IsFiniteSet(1 .. n) /\ Cardinality(1 .. n) = n
    BY <1>1, FS_Interval
  <2> HIDE DEF L
  <2> QED BY <1>6, <2>1, FS_Bijection DEF ExistsBijection
<1>8. L \subseteq Partition(p)
  <2>1. ASSUME NEW k \in 1 .. n PROVE c[k].entry \in Nodes(p)
    BY DEF StackOK, Rest, n
  <2> QED BY <2>1, PartitionFacts DEF Lifted
<1>9. Len(s) = n
  <2> HIDE DEF L
  <2>1. s \in Seq(L)
    BY <1>1, <1>3
  <2> QED BY <1>1, <1>3, <2>1
<1>10. s \in SetToSeqs(L)
  <2> HIDE DEF L
  <2> QED BY <1>3, <1>5, <1>7 DEF SetToSeqs
<1> QED BY <1>1, <1>2, <1>3, <1>7, <1>8, <1>9, <1>10 DEF n, s

\* The stack is a linearizable prefix.
LEMMA StackLegal ==
    ASSUME WellFormed, NEW p, NEW c \in Seq(Frames(p)), NEW l, NEW en, NEW st,
           StackOK(p, c, l), PathOK(p, en, st, c)
    PROVE  Legal(ops, Order(c))
<1> DEFINE n == Len(c)
           s == Order(c)
           v == [k \in 0 .. n |-> StateAt(c, st, k)]
<1>1. n \in Nat /\ Len(s) = n /\ \A k \in 1 .. n : s[k] = IdOf(c[k].entry)
  BY StackDistinct
<1> HIDE DEF n, s
<1>2. v[0] = KvInit
  BY <1>1 DEF PathOK
<1>3. ASSUME NEW k \in 1 .. n
      PROVE  KvStep(v[k - 1], ops[s[k]]).ok /\ v[k] = KvStep(v[k - 1], ops[s[k]]).state
  <2>1. k \in 0 .. n /\ k - 1 \in 0 .. n /\ k - 1 < n /\ (k - 1) + 1 = k
    BY <1>1
  <2>2. v[k - 1] = c[k].state /\ v[k] = StateAt(c, st, k)
    BY <2>1 DEF StateAt, n
  <2>3. KvStep(c[k].state, ops[IdOf(c[k].entry)]) = [ok |-> TRUE, state |-> StateAt(c, st, k)]
    BY DEF PathOK, n
  <2> HIDE DEF v
  <2>4. KvStep(v[k - 1], ops[s[k]]) = [ok |-> TRUE, state |-> v[k]]
    BY <1>1, <2>2, <2>3
  <2> QED BY <2>4
<1> HIDE DEF v
<1>4. RunsLike(v, ops, s)
  BY <1>1, <1>2, <1>3 DEF RunsLike
<1>5. \A k \in 0 .. n : TraceOf(ops, s)[k] = v[k]
  BY <1>1, <1>4, TraceUnique
<1>6. ASSUME NEW k \in 1 .. n PROVE KvStep(TraceOf(ops, s)[k - 1], ops[s[k]]).ok
  <2>1. k - 1 \in 0 .. n
    BY <1>1
  <2> QED BY <1>3, <1>5, <2>1
<1> QED BY <1>1, <1>6, LegalTrace DEF s

LEMMA StackInTime ==
    ASSUME WellFormed, NEW p, NEW c \in Seq(Frames(p)), NEW l, NEW en, NEW st,
           StackOK(p, c, l), PathOK(p, en, st, c)
    PROVE  InTime(hist, Partition(p), Order(c))
<1> DEFINE n == Len(c)
           s == Order(c)
<1>1. n \in Nat /\ s \in [1 .. n -> Lifted(c, n)]
      /\ \A k \in 1 .. n : s[k] = IdOf(c[k].entry)
  BY StackDistinct
<1> HIDE DEF n, s
<1> SUFFICES ASSUME NEW k \in 1 .. n, NEW i \in Partition(p), Precedes(hist, i, s[k])
             PROVE  \E m \in 1 .. k - 1 : s[m] = i
  BY <1>1 DEF InTime, s
<1> DEFINE e == c[k].entry
<1>2. PICK a \in DOMAIN hist, b \in DOMAIN hist :
         /\ a < b /\ hist[a] = [kind |-> "return", id |-> i]
         /\ hist[b] = [kind |-> "call", id |-> s[k]]
  BY DEF Precedes
<1>3. IsCall(e) /\ e \in Rest(p, c, k - 1) /\ e \in DOMAIN hist
  BY DEF StackOK, n, Rest, Nodes
<1>4. b = e
  <2>1. IsCall(b) /\ IdOf(b) = IdOf(e)
    BY <1>1, <1>2 DEF IsCall, IdOf
  <2> HIDE DEF e
  <2> QED BY <1>2, <1>3, <2>1, CallAndReturn
<1>5. IdOf(a) = i /\ ~IsCall(a) /\ a \in Nodes(p)
  BY <1>2 DEF IdOf, IsCall, Nodes, Partition
<1>6. k - 1 \in 0 .. n /\ PlaceAt(c, en, k - 1) = e
  BY <1>1 DEF PlaceAt, n
<1>7. i \in Lifted(c, k - 1)
  <2>1. a \notin Rest(p, c, k - 1)
    BY <1>2, <1>4, <1>5, <1>6 DEF PathOK, n
  <2> QED BY <1>5, <2>1 DEF Rest
<1>8. PICK m \in 1 .. k - 1 : i = IdOf(c[m].entry)
  BY <1>7 DEF Lifted
<1>9. m \in 1 .. n
  BY <1>1
<1> QED BY <1>1, <1>8, <1>9
LEMMA EmptyRest ==
    ASSUME WellFormed, NEW p, NEW c \in Seq(Frames(p)), NEW l, StackOK(p, c, l),
           Rest(p, c, Len(c)) = {}
    PROVE  Lifted(c, Len(c)) = Partition(p)
<1>1. Lifted(c, Len(c)) \subseteq Partition(p)
  BY StackDistinct
<1>2. ASSUME NEW i \in Partition(p) PROVE i \in Lifted(c, Len(c))
  <2>1. PICK x \in DOMAIN hist : IsCall(x) /\ IdOf(x) = i
    BY Called DEF Partition
  <2>2. x \in Nodes(p)
    BY <2>1 DEF Nodes, Partition
  <2> QED BY <2>1, <2>2 DEF Rest
<1> QED BY <1>1, <1>2

\* Every operation is lifted: the order of the stack shows that the partition
\* is linearizable.
LEMMA SearchFound ==
    ASSUME SearchInv, NEW p \in Parts, links[p].next[Head0] = Nil
    PROVE  /\ linearizable[p] = TRUE
           /\ Rest(p, calls[p], Len(calls[p])) = {}
           /\ Lifted(calls[p], Len(calls[p])) = Partition(p)
<1> DEFINE c == calls[p]
           l == links[p]
<1>1. /\ WellFormed /\ c \in Seq(Frames(p)) /\ StackOK(p, c, l)
      /\ PathOK(p, entry[p], state[p], c) /\ linearizable = Verdicts
  BY DEF SearchInv, SearchTypes, SearchOK, ListOK
<1> HIDE DEF c, l
<1>2. Rest(p, c, Len(c)) = {}
  <2>1. Linked(l, Rest(p, c, Len(c)), Len(hist))
    BY <1>1 DEF StackOK
  <2> QED BY <1>1, <2>1, ListEmpty DEF l
<1>3. Lifted(c, Len(c)) = Partition(p)
  BY <1>1, <1>2, EmptyRest
<1>4. Order(c) \in SetToSeqs(Partition(p))
  BY <1>1, <1>3, StackDistinct
<1>5. Legal(ops, Order(c)) /\ InTime(hist, Partition(p), Order(c))
  BY <1>1, StackLegal, StackInTime
<1>6. Verdicts[p] = TRUE
  BY <1>4, <1>5 DEF Verdicts
<1> QED BY <1>1, <1>2, <1>3, <1>6 DEF c

\* The operations in the first k places of s.
Ran(s, k) == {s[m] : m \in 1 .. k}

\* D contains every way on from what it contains, and from the beginning.
Closed(p, D) ==
    /\ \A q \in D : \A i \in Partition(p) \ q[1] : Free(p, q[1], i) => Tried(D, q, i)
    /\ \A i \in Partition(p) : Free(p, {}, i) => Tried(D, <<{}, KvInit>>, i)

\* Then every linearizable prefix runs through D.
LEMMA PrefixInside ==
    ASSUME NEW p, NEW D, Closed(p, D), NEW n \in Nat, NEW s \in [1 .. n -> Partition(p)],
           Len(s) = n, \A i, j \in 1 .. n : i # j => s[i] # s[j],
           Legal(ops, s), InTime(hist, Partition(p), s)
    PROVE  \A k \in 1 .. n : <<Ran(s, k), TraceOf(ops, s)[k]>> \in D
<1> DEFINE v == TraceOf(ops, s)
           T == {k \in 1 .. n : <<Ran(s, k), v[k]>> \notin D}
<1>1. v[0] = KvInit /\ \A k \in 1 .. n : v[k] = KvStep(v[k - 1], ops[s[k]]).state
  BY TraceSteps
<1>2. \A k \in 1 .. n : KvStep(v[k - 1], ops[s[k]]).ok
  BY LegalTrace
<1> HIDE DEF v
<1>3. ASSUME NEW k \in 1 .. n, k = 1 \/ <<Ran(s, k - 1), v[k - 1]>> \in D
      PROVE  <<Ran(s, k), v[k]>> \in D
  <2> DEFINE R == Ran(s, k - 1)
  <2>1. s[k] \in Partition(p) \ R
    <3>1. ASSUME NEW m \in 1 .. k - 1 PROVE s[m] # s[k]
      <4>1. m \in 1 .. n /\ m # k
        OBVIOUS
      <4> QED BY <4>1
    <3> QED BY <3>1 DEF Ran
  <2>2. Free(p, R, s[k])
    <3>1. ASSUME NEW i \in Partition(p), Precedes(hist, i, s[k])
          PROVE  \E m \in 1 .. k - 1 : s[m] = i
      BY <3>1 DEF InTime
    <3> QED BY <3>1 DEF Free, Ran
  <2>3. Ran(s, k) = R \cup {s[k]}
    <3>1. \A m \in 1 .. k : m \in 1 .. k - 1 \/ m = k
      OBVIOUS
    <3>2. k \in 1 .. k /\ \A m \in 1 .. k - 1 : m \in 1 .. k
      OBVIOUS
    <3> QED BY <3>1, <3>2 DEF Ran
  <2>4. k = 1 => R = {} /\ v[k - 1] = KvInit
    BY <1>1 DEF Ran
  <2> HIDE DEF R
  <2>5. Tried(D, <<R, v[k - 1]>>, s[k])
    <3>1. CASE k = 1
      BY <2>1, <2>2, <2>4, <3>1 DEF Closed
    <3>2. CASE <<R, v[k - 1]>> \in D
      BY <2>1, <2>2, <3>2 DEF Closed
    <3> QED BY <1>3, <3>1, <3>2 DEF R
  <2>6. <<R \cup {s[k]}, v[k]>> \in D
    BY <1>1, <1>2, <2>5 DEF Tried
  <2> QED BY <2>3, <2>6
<1>4. T = {}
  <2> SUFFICES ASSUME T # {} PROVE FALSE
    OBVIOUS
  <2>1. PICK k \in T : \A m \in T : k <= m
    <3>1. T \in SUBSET Nat
      OBVIOUS
    <3> HIDE DEF T
    <3> QED BY <3>1, NatMin
  <2>2. k \in 1 .. n /\ <<Ran(s, k), v[k]>> \notin D
    BY <2>1
  <2>3. k - 1 \notin T
    <3> HIDE DEF T
    <3> QED BY <2>1, <2>2
  <2>4. k = 1 \/ k - 1 \in 1 .. n
    BY <2>2
  <2>5. k = 1 \/ <<Ran(s, k - 1), v[k - 1]>> \in D
    BY <2>3, <2>4
  <2> QED BY <1>3, <2>2, <2>5
<1> QED BY <1>4 DEF v

\* A permutation of some operations of a partition.
LEMMA Permutation ==
    ASSUME WellFormed, NEW p, NEW R \in SUBSET Partition(p), NEW s \in SetToSeqs(R)
    PROVE  /\ IsFiniteSet(R) /\ Cardinality(R) \in Nat
           /\ s \in [1 .. Cardinality(R) -> R] /\ Len(s) = Cardinality(R)
           /\ s \in [1 .. Cardinality(R) -> Partition(p)]
           /\ \A i, j \in 1 .. Cardinality(R) : i # j => s[i] # s[j]
           /\ Ran(s, Cardinality(R)) = R
<1> DEFINE n == Cardinality(R)
<1>1. IsFiniteSet(R) /\ n \in Nat
  BY PartitionFacts, FS_Subset, FS_CardinalityType
<1>2. s \in [1 .. n -> R] /\ \A i, j \in 1 .. n : i # j => s[i] # s[j]
  BY DEF SetToSeqs
<1> HIDE DEF n
<1>3. Len(s) = n
  <2>1. s \in Seq(R)
    BY <1>1, <1>2
  <2> QED BY <1>1, <1>2, <2>1
<1>4. Ran(s, n) = R
  <2>1. s \in Injection(1 .. n, R)
    BY <1>2 DEF Injection, IsInjective
  <2>2. IsFiniteSet(1 .. n) /\ Cardinality(1 .. n) = n
    BY <1>1, FS_Interval
  <2>3. s \in Surjection(1 .. n, R)
    BY <1>1, <2>1, <2>2, FS_Injection DEF n
  <2> QED BY <1>2, <2>3 DEF Surjection, Ran
<1>5. s \in [1 .. n -> Partition(p)]
  BY <1>2
<1> QED BY <1>1, <1>2, <1>3, <1>4, <1>5 DEF n

\* At a return with nothing on the stack, everything has been tried.
LEMMA AllTried ==
    ASSUME SearchInv, NEW p \in Parts, calls[p] = <<>>, entry[p] \in Nodes(p),
           ~IsCall(entry[p])
    PROVE  /\ Closed(p, cache[p])
           /\ Explored(cache[p], calls[p], state[p]) = cache[p]
           /\ \A q \in cache[p] : Partition(p) \ q[1] # {}
<1> DEFINE c == calls[p]
           ca == cache[p]
           st == state[p]
           en == entry[p]
<1>1. /\ WellFormed /\ TriedOK(p, en, st, ca, c) /\ PathOK(p, en, st, c)
      /\ c \in Seq(Frames(p))
  BY DEF SearchInv, SearchTypes, SearchOK, ListOK
<1>2. c = <<>> /\ Len(c) = 0 /\ Lifted(c, 0) = {} /\ Rest(p, c, 0) = Nodes(p)
  BY EmptyStack
<1>3. en \in Rest(p, c, Len(c))
  BY <1>2
<1>4. Explored(ca, c, st) = ca
  BY <1>2 DEF Explored
<1>5. PairAt(c, st, 0) = <<{}, KvInit>>
  BY <1>1, <1>2 DEF PairAt, PathOK
<1> HIDE DEF c, ca, st, en
<1>6. \A i \in Partition(p) : Free(p, {}, i) => Tried(ca, <<{}, KvInit>>, i)
  <2>1. ~IsCall(en)
    BY DEF en
  <2>2. \A i \in Partition(p) \ Lifted(c, Len(c)) :
           Free(p, Lifted(c, Len(c)), i) =>
              Tried(Explored(ca, c, st), PairAt(c, st, Len(c)), i)
    BY <1>1, <1>3, <2>1, FreeTried
  <2> QED BY <1>2, <1>4, <1>5, <2>2
<1>7. /\ \A q \in ca : Partition(p) \ q[1] # {}
      /\ \A q \in ca : \A i \in Partition(p) \ q[1] : Free(p, q[1], i) => Tried(ca, q, i)
  BY <1>1, <1>4 DEF TriedOK
<1> QED BY <1>4, <1>6, <1>7 DEF Closed, c, ca, st

\* There is nothing to undo: the partition is not linearizable.
LEMMA SearchFailed ==
    ASSUME SearchInv, NEW p \in Parts, calls[p] = <<>>, entry[p] \in Nodes(p),
           ~IsCall(entry[p])
    PROVE  linearizable[p] = FALSE
<1> DEFINE P == Partition(p)
           D == cache[p]
<1>1. WellFormed /\ linearizable = Verdicts
  BY DEF SearchInv, SearchTypes
<1>2. Closed(p, D) /\ \A q \in D : P \ q[1] # {}
  BY AllTried
<1> HIDE DEF D
<1>3. ASSUME NEW s \in SetToSeqs(P), Legal(ops, s), InTime(hist, P, s) PROVE FALSE
  <2> DEFINE n == Cardinality(P)
  <2>1. /\ n \in Nat /\ s \in [1 .. n -> P] /\ Len(s) = n /\ Ran(s, n) = P
        /\ \A i, j \in 1 .. n : i # j => s[i] # s[j]
    BY <1>1, Permutation
  <2> HIDE DEF n
  <2>2. n \in 1 .. n
    <3>1. P # {}
      BY DEF Parts, Partition
    <3>2. n # 0
      BY <1>1, <3>1, PartitionFacts, FS_EmptySet DEF n
    <3> QED BY <2>1, <3>2
  <2>3. <<Ran(s, n), TraceOf(ops, s)[n]>> \in D
    BY <1>2, <1>3, <2>1, <2>2, PrefixInside
  <2> QED BY <1>2, <2>1, <2>3
<1> QED BY <1>1, <1>3 DEF Verdicts
LEMMA SearchesStep ==
    ASSUME SearchInv, [CheckNext]_checkVars
    PROVE  [ParNext]_parVars
<1>1. CASE checkParallel
  BY <1>1 DEF checkParallel, ParNext
<1>2. ASSUME NEW p \in Keys, checkSingle(p) PROVE [ParNext]_parVars
  <2>1. CASE Linearize(p) \/ Skip(p) \/ Backtrack(p)
    BY <2>1 DEF Linearize, Skip, Backtrack, parVars
  <2>2. ASSUME p \in Parts, search[p] = "running", NEW r, Finish(p, r),
               r = linearizable[p] \/ (kill /\ r = FALSE)
        PROVE  Goroutine(p)
    BY <2>2 DEF Goroutine, Finish
  <2>3. CASE Fail(p)
    <3>1. /\ p \in Parts /\ search[p] = "running" /\ ~IsCall(entry[p])
          /\ calls[p] = <<>> /\ Finish(p, FALSE) /\ links[p].next[Head0] # Nil
      BY <2>3 DEF Fail, Searching, Running
    <3>2. entry[p] \in Nodes(p)
      BY <3>1 DEF SearchInv, SearchOK, ListOK, Rest
    <3>3. linearizable[p] = FALSE
      BY <3>1, <3>2, SearchFailed
    <3>4. Goroutine(p)
      BY <2>2, <3>1, <3>3
    <3> QED BY <3>4 DEF ParNext
  <2>4. CASE Succeed(p)
    <3>1. /\ p \in Parts /\ search[p] = "running" /\ Finish(p, TRUE)
          /\ links[p].next[Head0] = Nil
      BY <2>4 DEF Succeed, Running
    <3>2. linearizable[p] = TRUE
      BY <3>1, SearchFound
    <3>3. Goroutine(p)
      BY <2>2, <3>1, <3>2
    <3> QED BY <3>3 DEF ParNext
  <2>5. CASE Killed(p)
    <3>1. /\ p \in Parts /\ search[p] = "running" /\ Finish(p, FALSE) /\ kill
      BY <2>5 DEF Killed, Running
    <3>2. Goroutine(p)
      BY <2>2, <3>1
    <3> QED BY <3>2 DEF ParNext
  <2> QED BY <1>2, <2>1, <2>3, <2>4, <2>5 DEF checkSingle
<1>3. CASE UNCHANGED checkVars
  BY <1>3 DEF checkVars
<1> QED BY <1>1, <1>2, <1>3 DEF CheckNext

\* Unless it is stopped, a search ends with true exactly for a linearizable
\* partition: the search of checkSingle keeps the promise checkParallel is
\* built on.
THEOREM SearchesKeepPromise == CheckSpec => SearchesDecide
<1>1. SearchInv /\ [CheckNext]_checkVars => [ParNext]_parVars
  BY SearchesStep
<1> QED BY <1>1, SearchInvariant, PTL DEF CheckSpec, SearchesDecide

\* The checker with its searches implements checkParallel.
THEOREM ChecksInParallel == CheckSpec => ParSpec
<1>1. CheckInit => ParInit
  BY DEF CheckInit
<1> QED BY <1>1, SearchesKeepPromise, PTL DEF CheckSpec, ParSpec, SearchesDecide

\* With the real searches too, nobody writes longest when it is read.
THEOREM NoRace == CheckSpec => []NoRaceOnLongest
BY ChecksInParallel, ParNoRace, PTL
-----------------------------------------------------------------------------
(* The longest prefixes.                                                   *)

\* What is reported for an operation of p is a linearizable prefix with it.
Reported(p, lg) ==
    \A i \in Partition(p) :
        lg[i] = <<>> \/ (lg[i] \in LinPrefixes(p) /\ Contains(lg[i], i))

\* Nothing the search is done with is longer than what is reported.
Covered(p, lg, D) ==
    \A q \in D :
        /\ q[1] \subseteq Partition(p)
        /\ verbose => \A i \in q[1] : Len(lg[i]) >= Cardinality(q[1])

\* How a search ends that is not stopped.
Ended(p, lg, en, c) ==
    \/ Rest(p, c, Len(c)) = {} /\ \A i \in Partition(p) : lg[i] = Order(c)
    \/ c = <<>> /\ en \in Nodes(p) /\ ~IsCall(en)

LongestInv ==
    /\ DOMAIN longest = Ids
    /\ \A p \in Parts :
          /\ Reported(p, longest)
          /\ Covered(p, longest, Explored(cache[p], calls[p], state[p]))
          /\ search[p] = "done" /\ ~kill => Ended(p, longest, entry[p], calls[p])

\* The inductive invariant of the checker.
CheckInv == ParInv /\ SearchInv /\ LongestInv

LEMMA PrefixFacts ==
    ASSUME WellFormed, NEW p, NEW s \in LinPrefixes(p)
    PROVE  /\ \E R \in SUBSET Partition(p) : s \in SetToSeqs(R)
           /\ Legal(ops, s) /\ InTime(hist, Partition(p), s)
           /\ Len(s) \in Nat /\ Len(s) <= Cardinality(Partition(p))
           /\ Cardinality(Partition(p)) \in Nat
<1>1. PICK R \in SUBSET Partition(p) : s \in SetToSeqs(R)
  BY DEF LinPrefixes, SetToAllKPermutations
<1>2. Len(s) = Cardinality(R) /\ Cardinality(R) \in Nat
  BY <1>1, Permutation
<1>3. Cardinality(Partition(p)) \in Nat /\ Cardinality(R) <= Cardinality(Partition(p))
  BY <1>1, PartitionFacts, FS_Subset, FS_CardinalityType
<1>4. Legal(ops, s) /\ InTime(hist, Partition(p), s)
  BY DEF LinPrefixes
<1> QED BY <1>1, <1>2, <1>3, <1>4

\* The stack can be reported for what is on it.
LEMMA StackReported ==
    ASSUME SearchInv, NEW p \in Parts
    PROVE  /\ Order(calls[p]) \in LinPrefixes(p)
           /\ linearized[p] = Lifted(calls[p], Len(calls[p]))
           /\ linearized[p] \subseteq Partition(p)
           /\ \A i \in linearized[p] : Contains(Order(calls[p]), i)
           /\ Len(Order(calls[p])) = Len(calls[p]) /\ Len(calls[p]) \in Nat
           /\ Cardinality(linearized[p]) = Len(calls[p])
<1> DEFINE c == calls[p]
           L == Lifted(c, Len(c))
<1>1. /\ WellFormed /\ c \in Seq(Frames(p)) /\ StackOK(p, c, links[p])
      /\ PathOK(p, entry[p], state[p], c) /\ linearized[p] = L
  BY DEF SearchInv, SearchTypes, SearchOK, ListOK
<1> HIDE DEF c
<1>2. /\ Len(Order(c)) = Len(c) /\ Len(c) \in Nat
      /\ L \subseteq Partition(p) /\ Order(c) \in SetToSeqs(L)
      /\ Cardinality(L) = Len(c)
      /\ \A k \in 1 .. Len(c) : Order(c)[k] = IdOf(c[k].entry)
  BY <1>1, StackDistinct
<1>3. Legal(ops, Order(c)) /\ InTime(hist, Partition(p), Order(c))
  BY <1>1, StackLegal, StackInTime
<1>4. Order(c) \in LinPrefixes(p)
  BY <1>2, <1>3 DEF LinPrefixes, SetToAllKPermutations
<1>5. \A i \in L : Contains(Order(c), i)
  BY <1>2 DEF Contains, Lifted
<1> QED BY <1>1, <1>2, <1>4, <1>5 DEF c

LEMMA ReportedKept ==
    ASSUME UNCHANGED hist, UNCHANGED ops, UNCHANGED verbose
    PROVE  /\ \A p, lg : Reported(p, lg)' = Reported(p, lg)
           /\ \A p, lg, D : Covered(p, lg, D)' = Covered(p, lg, D)
           /\ \A p, lg, en, c : Ended(p, lg, en, c)' = Ended(p, lg, en, c)
<1>1. \A p : LinPrefixes(p)' = LinPrefixes(p)
  BY NodesKept DEF LinPrefixes
<1>2. \A c : Order(c)' = Order(c)
  BY NodesKept DEF Order
<1>3. \A p, lg : Reported(p, lg)' = Reported(p, lg)
  BY NodesKept, <1>1 DEF Reported
<1>4. \A p, lg, D : Covered(p, lg, D)' = Covered(p, lg, D)
  BY NodesKept DEF Covered
<1>5. \A p, lg, en, c : Ended(p, lg, en, c)' = Ended(p, lg, en, c)
  BY NodesKept, <1>2 DEF Ended
<1> QED BY <1>3, <1>4, <1>5

\* A step of the search of p.
LEMMA LongestStep ==
    ASSUME CheckInv, UNCHANGED truth, NEW p \in Parts,
           DOMAIN longest' = Ids, UNCHANGED kill,
           \A q \in Parts \ {p} :
              /\ entry'[q] = entry[q] /\ state'[q] = state[q] /\ cache'[q] = cache[q]
              /\ calls'[q] = calls[q] /\ search'[q] = search[q]
              /\ \A i \in Partition(q) : longest'[i] = longest[i],
           Reported(p, longest'),
           Covered(p, longest', Explored(cache'[p], calls'[p], state'[p])),
           search'[p] = "done" /\ ~kill => Ended(p, longest', entry'[p], calls'[p])
    PROVE  LongestInv'
<1>1. /\ Parts' = Parts /\ Ids' = Ids
      /\ UNCHANGED hist /\ UNCHANGED ops /\ UNCHANGED verbose
  BY TruthKept
<1>2. ASSUME NEW q \in Parts
      PROVE  /\ Reported(q, longest')
             /\ Covered(q, longest', Explored(cache'[q], calls'[q], state'[q]))
             /\ search'[q] = "done" /\ ~kill => Ended(q, longest', entry'[q], calls'[q])
  <2>1. CASE q = p
    BY <2>1
  <2>2. CASE q # p
    <3>1. /\ entry'[q] = entry[q] /\ state'[q] = state[q] /\ cache'[q] = cache[q]
          /\ calls'[q] = calls[q] /\ search'[q] = search[q]
          /\ \A i \in Partition(q) : longest'[i] = longest[i]
      BY <2>2
    <3>2. /\ Reported(q, longest)
          /\ Covered(q, longest, Explored(cache[q], calls[q], state[q]))
          /\ search[q] = "done" /\ ~kill => Ended(q, longest, entry[q], calls[q])
      BY DEF CheckInv, LongestInv
    <3>3. Reported(q, longest')
      BY <3>1, <3>2 DEF Reported
    <3>4. Covered(q, longest', Explored(cache[q], calls[q], state[q]))
      BY <3>1, <3>2 DEF Covered
    <3>5. search[q] = "done" /\ ~kill => Ended(q, longest', entry[q], calls[q])
      BY <3>1, <3>2 DEF Ended
    <3> QED BY <3>1, <3>3, <3>4, <3>5
  <2> QED BY <2>1, <2>2
<1> QED BY <1>1, <1>2, ReportedKept, TriedKept DEF LongestInv

\* The partitions have no operation in common.
LEMMA Disjoint ==
    ASSUME NEW p, NEW q, p # q
    PROVE  Partition(p) \cap Partition(q) = {}
BY DEF Partition

LEMMA LinearizeLongest ==
    ASSUME CheckInv, NEW p, Linearize(p) \/ Skip(p)
    PROVE  LongestInv'
<1>1. SearchInv
  BY DEF CheckInv
<1>2. /\ p \in Parts /\ search[p] = "running" /\ UNCHANGED parVars /\ UNCHANGED longest
  BY DEF Linearize, Skip, Searching, Running
<1>3. UNCHANGED truth /\ UNCHANGED kill /\ UNCHANGED search
  BY <1>2 DEF parVars
<1>4. Explored(cache'[p], calls'[p], state'[p]) = Explored(cache[p], calls[p], state[p])
  BY <1>1, LinearizeInv, SkipInv
<1>5. \A q \in Parts \ {p} :
         /\ entry'[q] = entry[q] /\ state'[q] = state[q] /\ cache'[q] = cache[q]
         /\ calls'[q] = calls[q]
  BY <1>1 DEF Linearize, Skip, SearchInv, SearchTypes
<1>6. /\ DOMAIN longest = Ids /\ Reported(p, longest)
      /\ Covered(p, longest, Explored(cache[p], calls[p], state[p]))
  BY <1>2 DEF CheckInv, LongestInv
<1>7. /\ DOMAIN longest' = Ids /\ Reported(p, longest')
      /\ Covered(p, longest', Explored(cache'[p], calls'[p], state'[p]))
      /\ search'[p] # "done"
  BY <1>2, <1>3, <1>4, <1>6
<1> QED BY <1>2, <1>3, <1>5, <1>7, LongestStep

LEMMA BacktrackLongest ==
    ASSUME CheckInv, NEW p, Backtrack(p)
    PROVE  LongestInv'
<1> DEFINE c == calls[p]
           n == Len(c)
           s == Order(c)
           L == linearized[p]
           D == Explored(cache[p], c, state[p])
<1>1. SearchInv /\ ParInv /\ LongestInv
  BY DEF CheckInv
<1>2. /\ p \in Parts /\ search[p] = "running" /\ UNCHANGED parVars
      /\ longest' = Longer(p)
  BY DEF Backtrack, Searching, Running
<1>3. /\ UNCHANGED truth /\ UNCHANGED kill /\ UNCHANGED search /\ WellFormed
  BY <1>1, <1>2 DEF parVars, SearchInv, SearchTypes
<1>4. /\ s \in LinPrefixes(p) /\ L = Lifted(c, n) /\ L \subseteq Partition(p)
      /\ \A i \in L : Contains(s, i)
      /\ Len(s) = n /\ n \in Nat /\ Cardinality(L) = n
  BY <1>1, <1>2, StackReported
<1>5. Explored(cache'[p], calls'[p], state'[p]) = D \cup {<<L, state[p]>>}
  BY <1>1, <1>4, BacktrackInv
<1>6. \A q \in Parts \ {p} :
         /\ entry'[q] = entry[q] /\ state'[q] = state[q] /\ cache'[q] = cache[q]
         /\ calls'[q] = calls[q]
  BY <1>1 DEF Backtrack, SearchInv, SearchTypes
<1>7. /\ DOMAIN longest = Ids /\ Reported(p, longest) /\ Covered(p, longest, D)
  BY <1>1, <1>2 DEF LongestInv
<1>8. longest' = [i \in Ids |-> IF verbose /\ i \in L /\ n > Len(longest[i])
                                THEN s ELSE longest[i]]
  BY <1>2 DEF Longer
<1>9. Partition(p) \subseteq Ids
  BY DEF Partition
<1> HIDE DEF c, n, s, L, D
<1>10. ASSUME NEW i \in Partition(p)
       PROVE  Len(longest[i]) \in Nat
  <2>1. longest[i] = <<>> \/ longest[i] \in LinPrefixes(p)
    BY <1>7 DEF Reported
  <2>2. longest[i] \in LinPrefixes(p) => Len(longest[i]) \in Nat
    BY <1>3, PrefixFacts
  <2> QED BY <2>1, <2>2
<1>11. ASSUME NEW q \in Parts \ {p}, NEW i \in Partition(q)
       PROVE  longest'[i] = longest[i]
  <2>1. i \notin L /\ i \in Ids
    BY <1>4, Disjoint DEF Partition
  <2> QED BY <1>8, <2>1
<1>12. Reported(p, longest')
  <2> SUFFICES ASSUME NEW i \in Partition(p)
               PROVE  longest'[i] = <<>> \/
                      (longest'[i] \in LinPrefixes(p) /\ Contains(longest'[i], i))
    BY DEF Reported
  <2>1. longest[i] = <<>> \/ (longest[i] \in LinPrefixes(p) /\ Contains(longest[i], i))
    BY <1>7 DEF Reported
  <2>2. longest'[i] = longest[i] \/ (i \in L /\ longest'[i] = s)
    BY <1>8, <1>9
  <2> QED BY <1>4, <2>1, <2>2
<1>13. ASSUME NEW i \in Partition(p), verbose
       PROVE  /\ Len(longest'[i]) \in Nat
              /\ Len(longest'[i]) >= Len(longest[i])
              /\ i \in L => Len(longest'[i]) >= n
  <2>1. CASE i \in L /\ n > Len(longest[i])
    <3>1. longest'[i] = s
      BY <1>8, <1>9, <1>13, <2>1
    <3> QED BY <1>4, <1>10, <2>1, <3>1
  <2>2. CASE ~(i \in L /\ n > Len(longest[i]))
    <3>1. longest'[i] = longest[i]
      BY <1>8, <1>9, <2>2
    <3> QED BY <1>4, <1>10, <2>2, <3>1
  <2> QED BY <2>1, <2>2
<1>14. Covered(p, longest', D \cup {<<L, state[p]>>})
  <2> SUFFICES ASSUME NEW q \in D \cup {<<L, state[p]>>}
               PROVE  /\ q[1] \subseteq Partition(p)
                      /\ verbose => \A i \in q[1] : Len(longest'[i]) >= Cardinality(q[1])
    BY DEF Covered
  <2>1. CASE q \in D
    <3>1. /\ q[1] \subseteq Partition(p)
          /\ verbose => \A i \in q[1] : Len(longest[i]) >= Cardinality(q[1])
      BY <1>7, <2>1 DEF Covered
    <3>2. Cardinality(q[1]) \in Nat
      BY <1>3, <3>1, PartitionFacts, FS_Subset, FS_CardinalityType
    <3>3. ASSUME verbose, NEW i \in q[1] PROVE Len(longest'[i]) >= Cardinality(q[1])
      <4>1. i \in Partition(p) /\ Len(longest[i]) >= Cardinality(q[1])
        BY <3>1, <3>3
      <4>2. Len(longest'[i]) \in Nat /\ Len(longest'[i]) >= Len(longest[i])
        BY <1>13, <3>3, <4>1
      <4>3. Len(longest[i]) \in Nat
        BY <1>10, <4>1
      <4> QED BY <3>2, <4>1, <4>2, <4>3
    <3> QED BY <3>1, <3>3
  <2>2. CASE q = <<L, state[p]>>
    <3>1. q[1] = L
      BY <2>2
    <3>2. ASSUME verbose, NEW i \in L PROVE Len(longest'[i]) >= Cardinality(L)
      <4>1. i \in Partition(p)
        BY <1>4
      <4> QED BY <1>4, <1>13, <3>2, <4>1
    <3> QED BY <1>4, <3>1, <3>2
  <2> QED BY <2>1, <2>2
<1>15. DOMAIN longest' = Ids /\ search'[p] # "done"
  BY <1>2, <1>3, <1>8
<1> QED BY <1>2, <1>3, <1>5, <1>6, <1>11, <1>12, <1>14, <1>15, LongestStep
LEMMA FinishLongest ==
    ASSUME CheckInv, NEW p, Fail(p) \/ Succeed(p) \/ Killed(p)
    PROVE  LongestInv'
<1> DEFINE c == calls[p]
           s == Order(c)
           D == Explored(cache[p], c, state[p])
<1>1. SearchInv /\ ParInv /\ LongestInv /\ WellFormed
  BY DEF CheckInv, SearchInv, SearchTypes
<1>2. /\ p \in Parts /\ UNCHANGED truth /\ UNCHANGED kill /\ UNCHANGED searchVars
      /\ search' = [search EXCEPT ![p] = "done"]
  BY DEF Fail, Succeed, Killed, Finish, Searching, Running
<1>3. UNCHANGED <<entry, state, cache, calls>>
  BY <1>2 DEF searchVars
<1>4. \A q \in Parts \ {p} : search'[q] = search[q]
  BY <1>1, <1>2 DEF ParInv, ParTypeOK
<1>5. DOMAIN longest = Ids /\ Reported(p, longest) /\ Covered(p, longest, D)
  BY <1>1, <1>2 DEF LongestInv
<1>6. CASE Fail(p)
  <2>1. /\ c = <<>> /\ ~IsCall(entry[p]) /\ UNCHANGED longest
        /\ links[p].next[Head0] # Nil
    BY <1>6 DEF Fail, Searching
  <2>2. entry[p] \in Nodes(p)
    BY <1>1, <1>2, <2>1 DEF SearchInv, SearchOK, ListOK, Rest
  <2>3. Ended(p, longest', entry'[p], calls'[p])
    BY <1>3, <2>1, <2>2 DEF Ended
  <2>4. /\ DOMAIN longest' = Ids /\ Reported(p, longest')
        /\ Covered(p, longest', Explored(cache'[p], calls'[p], state'[p]))
    BY <1>3, <1>5, <2>1
  <2> HIDE DEF c, s, D
  <2> QED BY <1>2, <1>3, <1>4, <2>1, <2>3, <2>4, LongestStep
<1>7. CASE Killed(p)
  <2>1. kill /\ UNCHANGED longest
    BY <1>7 DEF Killed
  <2>2. /\ DOMAIN longest' = Ids /\ Reported(p, longest')
        /\ Covered(p, longest', Explored(cache'[p], calls'[p], state'[p]))
    BY <1>3, <1>5, <2>1
  <2> HIDE DEF c, s, D
  <2> QED BY <1>2, <1>3, <1>4, <2>1, <2>2, LongestStep
<1>8. CASE Succeed(p)
  <2>1. /\ links[p].next[Head0] = Nil
        /\ longest' = [i \in Ids |-> IF i \in Partition(p) THEN s ELSE longest[i]]
    BY <1>8 DEF Succeed
  <2>2. Rest(p, c, Len(c)) = {} /\ Lifted(c, Len(c)) = Partition(p)
    BY <1>1, <1>2, <2>1, SearchFound
  <2>3. /\ s \in LinPrefixes(p) /\ \A i \in Partition(p) : Contains(s, i)
        /\ Len(s) = Cardinality(Partition(p))
    BY <1>1, <1>2, <2>2, StackReported
  <2> HIDE DEF c, s, D
  <2>4. \A i \in Partition(p) : longest'[i] = s
    BY <2>1 DEF Partition
  <2>5. Ended(p, longest', entry'[p], calls'[p])
    BY <1>3, <2>2, <2>4 DEF Ended, c, s
  <2>6. Reported(p, longest')
    BY <2>3, <2>4 DEF Reported
  <2>7. Covered(p, longest', D)
    <3> SUFFICES ASSUME NEW q \in D
                 PROVE  /\ q[1] \subseteq Partition(p)
                        /\ \A i \in q[1] : Len(longest'[i]) >= Cardinality(q[1])
      BY DEF Covered
    <3>1. q[1] \subseteq Partition(p)
      BY <1>5 DEF Covered
    <3>2. /\ Cardinality(q[1]) <= Cardinality(Partition(p))
          /\ Cardinality(q[1]) \in Nat /\ Cardinality(Partition(p)) \in Nat
      BY <1>1, <3>1, PartitionFacts, FS_Subset, FS_CardinalityType
    <3> QED BY <2>3, <2>4, <3>1, <3>2
  <2>8. Covered(p, longest', Explored(cache'[p], calls'[p], state'[p]))
    BY <1>3, <2>7 DEF D, c
  <2>9. \A q \in Parts \ {p} : \A i \in Partition(q) : longest'[i] = longest[i]
    <3>1. ASSUME NEW q \in Parts \ {p}, NEW i \in Partition(q)
          PROVE  i \notin Partition(p) /\ i \in Ids
      BY Disjoint DEF Partition
    <3> QED BY <2>1, <3>1
  <2>10. DOMAIN longest' = Ids
    BY <2>1
  <2> QED BY <1>2, <1>3, <1>4, <2>5, <2>6, <2>8, <2>9, <2>10, LongestStep
<1> QED BY <1>6, <1>7, <1>8

\* Steps of the caller.
LEMMA CallerLongest ==
    ASSUME CheckInv, UNCHANGED <<truth, search, searchVars, longest>>, kill => kill'
    PROVE  LongestInv'
<1>1. /\ Parts' = Parts /\ Ids' = Ids
      /\ UNCHANGED hist /\ UNCHANGED ops /\ UNCHANGED verbose
  BY TruthKept
<1>2. UNCHANGED <<search, entry, state, cache, calls, longest>>
  BY DEF searchVars
<1> QED BY <1>1, <1>2, ReportedKept, TriedKept DEF CheckInv, LongestInv

LEMMA LongestNextInv == CheckInv /\ [CheckNext]_checkVars => LongestInv'
<1> SUFFICES ASSUME CheckInv, [CheckNext]_checkVars PROVE LongestInv'
  OBVIOUS
<1>1. CASE checkParallel
  <2>1. UNCHANGED <<truth, search>> /\ (kill => kill')
    BY <1>1 DEF checkParallel, Caller, Timeout, Send, Receive, Drain, Return
  <2>2. UNCHANGED <<searchVars, longest>>
    BY <1>1 DEF checkParallel
  <2> QED BY <2>1, <2>2, CallerLongest
<1>2. ASSUME NEW p \in Keys, checkSingle(p) PROVE LongestInv'
  BY <1>2, LinearizeLongest, BacktrackLongest, FinishLongest DEF checkSingle
<1>3. CASE UNCHANGED checkVars
  BY <1>3, CallerLongest DEF checkVars, parVars
<1> QED BY <1>1, <1>2, <1>3 DEF CheckNext

LEMMA LongestInit == CheckInit => LongestInv
<1> SUFFICES ASSUME CheckInit PROVE LongestInv
  OBVIOUS
<1>1. /\ longest = [i \in Ids |-> <<>>] /\ \A p \in Parts : search[p] = "running"
  BY DEF CheckInit, ParInit
<1>2. ASSUME NEW p \in Parts PROVE Explored(cache[p], calls[p], state[p]) = {}
  <2>1. cache[p] = {}
    BY DEF CheckInit
  <2> QED BY <2>1 DEF Explored
<1>3. \A p \in Parts : Reported(p, longest)
  BY <1>1 DEF Reported, Partition
<1> QED BY <1>1, <1>2, <1>3 DEF LongestInv, Covered

\* The inductive invariant of the whole checker.
THEOREM CheckInvariant == CheckSpec => []CheckInv
<1>1. CheckInit => CheckInv
  BY ParInitInv, InitSearch, LongestInit DEF CheckInv, CheckInit
<1>2. CheckInv /\ [CheckNext]_checkVars => CheckInv'
  <2> SUFFICES ASSUME CheckInv, [CheckNext]_checkVars PROVE CheckInv'
    OBVIOUS
  <2>1. SearchInv /\ ParInv
    BY DEF CheckInv
  <2>2. [ParNext]_parVars
    BY <2>1, SearchesStep
  <2>3. ParInv'
    BY <2>1, <2>2, ParNextInv
  <2>4. SearchInv'
    BY <2>1, SearchNextInv
  <2>5. LongestInv'
    BY LongestNextInv
  <2> QED BY <2>3, <2>4, <2>5 DEF CheckInv
<1> QED BY <1>1, <1>2, PTL DEF CheckSpec

\* What a search that was not stopped reports for an operation is a longest
\* linearizable prefix with it.
LEMMA LongestFound ==
    ASSUME CheckInv, verbose, ~kill, NEW p \in Parts, search[p] = "done",
           NEW i \in Partition(p), NEW s \in LinPrefixes(p), Contains(s, i)
    PROVE  /\ longest[i] \in LinPrefixes(p) /\ Contains(longest[i], i)
           /\ Len(s) <= Len(longest[i])
<1> DEFINE c == calls[p]
           D == cache[p]
<1>1. /\ SearchInv /\ LongestInv /\ WellFormed
      /\ Ended(p, longest, entry[p], c) /\ Reported(p, longest)
      /\ Covered(p, longest, Explored(D, c, state[p]))
  BY DEF CheckInv, LongestInv, SearchInv, SearchTypes
<1>2. /\ Len(s) \in Nat /\ Len(s) <= Cardinality(Partition(p))
      /\ Legal(ops, s) /\ InTime(hist, Partition(p), s)
  BY <1>1, PrefixFacts
<1>3. PICK R \in SUBSET Partition(p) : s \in SetToSeqs(R)
  BY <1>1, PrefixFacts
<1>4. CASE Rest(p, c, Len(c)) = {} /\ \A j \in Partition(p) : longest[j] = Order(c)
  <2>1. c \in Seq(Frames(p)) /\ StackOK(p, c, links[p])
    BY <1>1 DEF SearchInv, SearchOK, ListOK
  <2>2. /\ linearized[p] = Lifted(c, Len(c)) /\ Order(c) \in LinPrefixes(p)
        /\ \A j \in linearized[p] : Contains(Order(c), j)
        /\ Len(Order(c)) = Len(c) /\ Cardinality(linearized[p]) = Len(c)
    BY <1>1, StackReported
  <2> HIDE DEF c
  <2>3. Lifted(c, Len(c)) = Partition(p)
    BY <1>1, <1>4, <2>1, EmptyRest
  <2> QED BY <1>2, <1>4, <2>2, <2>3
<1>5. CASE c = <<>> /\ entry[p] \in Nodes(p) /\ ~IsCall(entry[p])
  <2>1. Closed(p, D) /\ Explored(D, c, state[p]) = D
    BY <1>1, <1>5, AllTried
  <2> DEFINE n == Cardinality(R)
  <2>2. /\ n \in Nat /\ s \in [1 .. n -> Partition(p)] /\ Len(s) = n
        /\ \A k, j \in 1 .. n : k # j => s[k] # s[j]
        /\ Ran(s, n) = R /\ s \in [1 .. n -> R]
    BY <1>1, <1>3, Permutation
  <2>3. PICK k \in 1 .. n : s[k] = i
    BY <2>2 DEF Contains
  <2>4. n \in 1 .. n /\ i \in R
    BY <2>2, <2>3
  <2> HIDE DEF n, D, c
  <2>5. <<Ran(s, n), TraceOf(ops, s)[n]>> \in D
    BY <1>2, <2>1, <2>2, <2>4, PrefixInside
  <2>6. <<R, TraceOf(ops, s)[n]>> \in D
    BY <2>2, <2>5
  <2>7. Len(longest[i]) >= n
    BY <1>1, <2>1, <2>4, <2>6 DEF Covered, n
  <2>8. longest[i] # <<>>
    BY <2>2, <2>4, <2>7
  <2> QED BY <1>1, <2>2, <2>7, <2>8 DEF Reported
<1> QED BY <1>1, <1>4, <1>5 DEF Ended

\* "longest linearizable prefix that includes the given entry", for every
\* operation, however often the search backtracks and cuts off.
THEOREM LongestReported == CheckSpec => []LongestIsLongest
<1>1. CheckInv => LongestIsLongest
  <2> SUFFICES ASSUME CheckInv, verbose, ~kill, NEW p \in Parts, search[p] = "done",
                      NEW i \in Partition(p), NEW with,
                      with = {s \in LinPrefixes(p) : Contains(s, i)}
               PROVE  IF with = {} THEN longest[i] = <<>>
                      ELSE /\ longest[i] \in with
                           /\ \A s \in with : Len(s) <= Len(longest[i])
    BY DEF LongestIsLongest
  <2>1. longest[i] = <<>> \/ longest[i] \in with
    BY DEF CheckInv, LongestInv, Reported
  <2>2. \A s \in with : longest[i] \in with /\ Len(s) <= Len(longest[i])
    BY LongestFound
  <2> QED BY <2>1, <2>2
<1> QED BY <1>1, CheckInvariant, PTL
-----------------------------------------------------------------------------
(* A history is linearizable exactly if each of its partitions is.         *)

\* w[k] is the store after the first k operations of s.
IsStore(w, s) ==
    w = [k \in 0 .. Len(s) |->
           IF k = 0 THEN [p \in Parts |-> KvInit]
           ELSE [w[k - 1] EXCEPT ![ops[s[k]].key] = KvStep(@, ops[s[k]]).state]]
StoreOf(s) == CHOOSE w : IsStore(w, s)

LEMMA StoreLegal ==
    ASSUME NEW s
    PROVE  LegalStore(s) <=>
              \A k \in 1 .. Len(s) :
                 KvStep(StoreOf(s)[k - 1][ops[s[k]].key], ops[s[k]]).ok
BY DEF LegalStore, StoreOf, IsStore

\* What w does with the keys up to n.
StoresUpto(w, s, n) ==
    /\ w[0] = [p \in Parts |-> KvInit]
    /\ \A k \in 1 .. n :
          w[k] = [w[k - 1] EXCEPT ![ops[s[k]].key]
                     = KvStep(w[k - 1][ops[s[k]].key], ops[s[k]]).state]

LEMMA StoreExists ==
    ASSUME NEW s, Len(s) \in Nat
    PROVE  \E w : IsStore(w, s)
<1> DEFINE T == {n \in Nat : ~\E w : StoresUpto(w, s, n)}
<1>1. T = {}
  <2> SUFFICES ASSUME T # {} PROVE FALSE
    OBVIOUS
  <2>1. PICK n \in T : \A m \in T : n <= m
    BY NatMin
  <2>2. n # 0
    <3> DEFINE w == [k \in {0} |-> [p \in Parts |-> KvInit]]
    <3>1. StoresUpto(w, s, 0)
      <4>1. w[0] = [p \in Parts |-> KvInit] /\ 1 .. 0 = {}
        OBVIOUS
      <4> HIDE DEF w
      <4> QED BY <4>1 DEF StoresUpto
    <3> HIDE DEF w
    <3> QED BY <2>1, <3>1
  <2>3. n - 1 \in Nat /\ n - 1 \notin T
    <3>1. n \in Nat
      BY <2>1
    <3> HIDE DEF T
    <3> QED BY <2>1, <2>2, <3>1
  <2>4. PICK v : StoresUpto(v, s, n - 1)
    BY <2>3
  <2> DEFINE new == [v[n - 1] EXCEPT ![ops[s[n]].key]
                        = KvStep(v[n - 1][ops[s[n]].key], ops[s[n]]).state]
             w == [k \in 0 .. n |-> IF k = n THEN new ELSE v[k]]
  <2>5. StoresUpto(w, s, n)
    <3>1. w[0] = [p \in Parts |-> KvInit]
      <4>1. 0 \in 0 .. n /\ 0 # n
        BY <2>2, <2>3
      <4>2. w[0] = v[0]
        BY <4>1
      <4> HIDE DEF w
      <4> QED BY <2>4, <4>2 DEF StoresUpto
    <3>2. ASSUME NEW k \in 1 .. n
          PROVE  w[k] = [w[k - 1] EXCEPT ![ops[s[k]].key]
                           = KvStep(w[k - 1][ops[s[k]].key], ops[s[k]]).state]
      <4>1. w[k - 1] = v[k - 1]
        BY <2>3
      <4>2. CASE k = n
        <5>1. w[k] = new
          BY <4>2
        <5> HIDE DEF w
        <5> QED BY <4>1, <4>2, <5>1
      <4>3. CASE k # n
        <5>1. k \in 1 .. n - 1
          BY <2>3, <4>3
        <5>2. w[k] = v[k]
          BY <4>3
        <5>3. v[k] = [v[k - 1] EXCEPT ![ops[s[k]].key]
                         = KvStep(v[k - 1][ops[s[k]].key], ops[s[k]]).state]
          BY <2>4, <5>1 DEF StoresUpto
        <5> HIDE DEF w
        <5> QED BY <4>1, <5>2, <5>3
      <4> QED BY <4>2, <4>3
    <3> HIDE DEF w
    <3> QED BY <3>1, <3>2 DEF StoresUpto
  <2> HIDE DEF w
  <2> QED BY <2>1, <2>5
<1>2. PICK v : StoresUpto(v, s, Len(s))
  BY <1>1
<1> DEFINE w == [k \in 0 .. Len(s) |-> v[k]]
<1>3. ASSUME NEW k \in 0 .. Len(s)
      PROVE  w[k] = IF k = 0 THEN [p \in Parts |-> KvInit]
                    ELSE [w[k - 1] EXCEPT ![ops[s[k]].key] = KvStep(@, ops[s[k]]).state]
  <2>1. CASE k = 0
    BY <1>2, <2>1 DEF StoresUpto
  <2>2. CASE k # 0
    <3>1. k \in 1 .. Len(s) /\ k - 1 \in 0 .. Len(s)
      BY <2>2
    <3>2. w[k] = v[k] /\ w[k - 1] = v[k - 1]
      BY <3>1
    <3> HIDE DEF w
    <3> QED BY <1>2, <2>2, <3>1, <3>2 DEF StoresUpto
  <2> QED BY <2>1, <2>2
<1>4. IsStore(w, s)
  BY <1>3 DEF IsStore
<1> QED BY <1>4

\* One operation changes its key and no other.
LEMMA StoreSteps ==
    ASSUME NEW s, Len(s) \in Nat, \A k \in 1 .. Len(s) : ops[s[k]].key \in Parts
    PROVE  /\ \A p \in Parts : StoreOf(s)[0][p] = KvInit
           /\ \A k \in 1 .. Len(s), p \in Parts :
                 StoreOf(s)[k][p] = IF ops[s[k]].key = p
                                    THEN KvStep(StoreOf(s)[k - 1][p], ops[s[k]]).state
                                    ELSE StoreOf(s)[k - 1][p]
<1> DEFINE w == StoreOf(s)
<1>1. IsStore(w, s)
  BY StoreExists DEF StoreOf
<1> HIDE DEF w
<1>2. w[0] = [p \in Parts |-> KvInit]
  BY <1>1 DEF IsStore
<1>3. ASSUME NEW k \in 1 .. Len(s)
      PROVE  w[k] = [w[k - 1] EXCEPT ![ops[s[k]].key]
                        = KvStep(w[k - 1][ops[s[k]].key], ops[s[k]]).state]
  <2>1. k \in 0 .. Len(s) /\ k # 0
    OBVIOUS
  <2> QED BY <1>1, <2>1 DEF IsStore
<1> DEFINE T == {k \in 0 .. Len(s) : DOMAIN w[k] # Parts}
<1>4. T = {}
  <2> SUFFICES ASSUME T # {} PROVE FALSE
    OBVIOUS
  <2>1. PICK n \in T : \A m \in T : n <= m
    <3>1. T \in SUBSET Nat
      OBVIOUS
    <3> HIDE DEF T
    <3> QED BY <3>1, NatMin
  <2>2. n # 0
    BY <1>2, <2>1
  <2>3. n \in 1 .. Len(s) /\ n - 1 \in 0 .. Len(s) /\ n - 1 < n
    BY <2>2
  <2>4. n - 1 \notin T
    <3> HIDE DEF T
    <3> QED BY <2>1, <2>3
  <2>5. DOMAIN w[n - 1] = Parts
    BY <2>3, <2>4
  <2>6. DOMAIN w[n] = Parts
    BY <1>3, <2>3, <2>5
  <2> QED BY <2>1, <2>6
<1>5. ASSUME NEW k \in 1 .. Len(s), NEW p \in Parts
      PROVE  w[k][p] = IF ops[s[k]].key = p THEN KvStep(w[k - 1][p], ops[s[k]]).state
                       ELSE w[k - 1][p]
  <2>1. k - 1 \in 0 .. Len(s)
    OBVIOUS
  <2> DEFINE u == w[k - 1]
             kk == ops[s[k]].key
             o == ops[s[k]]
  <2>2. DOMAIN u = Parts
    BY <1>4, <2>1
  <2>3. kk \in Parts
    OBVIOUS
  <2>4. w[k] = [u EXCEPT ![kk] = KvStep(u[kk], o).state]
    BY <1>3
  <2> HIDE DEF u, kk, o
  <2>5. CASE kk = p
    <3>1. w[k][p] = KvStep(u[p], o).state
      BY <2>2, <2>4, <2>5
    <3> QED BY <2>5, <3>1 DEF u, kk, o
  <2>6. CASE kk # p
    <3>1. w[k][p] = u[p]
      BY <2>2, <2>4, <2>6
    <3> QED BY <2>6, <3>1 DEF u, kk
  <2> QED BY <2>5, <2>6
<1> QED BY <1>2, <1>5 DEF w
\* t has the operations of s on key p, in the order of s: the j-th of them is
\* at e[j].
Picks(s, t, e, p) ==
    /\ e \in [1 .. Len(t) -> 1 .. Len(s)]
    /\ \A a, b \in 1 .. Len(t) : a < b => e[a] < e[b]
    /\ \A j \in 1 .. Len(t) : t[j] = s[e[j]] /\ ops[t[j]].key = p
    /\ \A k \in 1 .. Len(s) :
          ops[s[k]].key = p => \E j \in 1 .. Len(t) : e[j] = k

\* j operations of t are among the first k of s.
UpTo(t, e, k, j) ==
    /\ j = 0 \/ e[j] <= k
    /\ j = Len(t) \/ k < e[j + 1]

\* Key p of the store changes with the operations on p only.
LEMMA StoreIsTraces ==
    ASSUME NEW p \in Parts, NEW s, NEW t, NEW e, Len(s) \in Nat, Len(t) \in Nat,
           \A k \in 1 .. Len(s) : ops[s[k]].key \in Parts, Picks(s, t, e, p)
    PROVE  \A j \in 1 .. Len(t) : StoreOf(s)[e[j] - 1][p] = TraceOf(ops, t)[j - 1]
<1> DEFINE w == StoreOf(s)
           v == TraceOf(ops, t)
           N == Len(s)
           m == Len(t)
           T == {k \in 0 .. N : \E j \in 0 .. m : UpTo(t, e, k, j) /\ w[k][p] # v[j]}
<1>1. /\ w[0][p] = KvInit
      /\ \A k \in 1 .. N : w[k][p] = IF ops[s[k]].key = p
                                     THEN KvStep(w[k - 1][p], ops[s[k]]).state
                                     ELSE w[k - 1][p]
  BY StoreSteps
<1>2. v[0] = KvInit /\ \A j \in 1 .. m : v[j] = KvStep(v[j - 1], ops[t[j]]).state
  BY TraceSteps
<1>3. /\ e \in [1 .. m -> 1 .. N] /\ \A a, b \in 1 .. m : a < b => e[a] < e[b]
      /\ \A j \in 1 .. m : t[j] = s[e[j]] /\ ops[t[j]].key = p
      /\ \A k \in 1 .. N : ops[s[k]].key = p => \E j \in 1 .. m : e[j] = k
      /\ N \in Nat /\ m \in Nat
  BY DEF Picks
<1> HIDE DEF w, v, N, m
<1>4. ASSUME NEW k \in 1 .. N, NEW j \in 0 .. m, UpTo(t, e, k, j),
             \A i \in 0 .. m : UpTo(t, e, k - 1, i) => w[k - 1][p] = v[i]
      PROVE  w[k][p] = v[j]
  <2>0. k \in Nat /\ k # 0 /\ j \in Nat
    BY <1>3
  <2>1. CASE ops[s[k]].key = p
    <3>1. PICK i \in 1 .. m : e[i] = k
      BY <1>3, <2>1
    <3>2. i \in Nat
      BY <1>3
    <3>3. ~(i < j)
      <4>1. ASSUME i < j PROVE FALSE
        <5>1. j \in 1 .. m /\ e[i] < e[j]
          BY <1>3, <2>0, <3>1, <3>2, <4>1
        <5>2. e[j] <= k
          BY <1>4, <5>1 DEF UpTo
        <5> QED BY <1>3, <2>0, <3>1, <5>1, <5>2
      <4> QED BY <4>1
    <3>4. ~(j < i)
      <4>1. ASSUME j < i PROVE FALSE
        <5>1. j # m /\ j + 1 \in 1 .. m /\ (j + 1 = i \/ j + 1 < i)
          BY <1>3, <2>0, <3>1, <3>2, <4>1
        <5>2. k < e[j + 1]
          BY <1>4, <5>1 DEF UpTo, m
        <5>3. j + 1 = i \/ e[j + 1] < e[i]
          BY <1>3, <3>1, <5>1
        <5> QED BY <1>3, <2>0, <3>1, <5>1, <5>2, <5>3
      <4> QED BY <4>1
    <3>5. j = i
      BY <2>0, <3>2, <3>3, <3>4
    <3>6. j - 1 \in 0 .. m /\ j \in 1 .. m /\ e[j] = k /\ j - 1 # m /\ (j - 1) + 1 = j
      BY <1>3, <2>0, <3>1, <3>5
    <3>7. j - 1 = 0 \/ e[j - 1] <= k - 1
      <4>1. SUFFICES ASSUME j - 1 # 0 PROVE e[j - 1] <= k - 1
        OBVIOUS
      <4>2. j - 1 \in 1 .. m /\ j - 1 < j
        BY <3>6, <4>1
      <4>3. e[j - 1] < e[j] /\ e[j - 1] \in Int
        BY <1>3, <3>6, <4>2
      <4> QED BY <2>0, <3>6, <4>3
    <3>8. UpTo(t, e, k - 1, j - 1)
      <4>1. k - 1 < k
        BY <2>0
      <4> QED BY <3>6, <3>7, <4>1 DEF UpTo
    <3>9. w[k - 1][p] = v[j - 1]
      BY <1>4, <3>6, <3>8
    <3>10. t[j] = s[k]
      BY <1>3, <3>6
    <3>11. w[k][p] = KvStep(w[k - 1][p], ops[s[k]]).state
      BY <1>1, <2>1
    <3>12. v[j] = KvStep(v[j - 1], ops[t[j]]).state
      BY <1>2, <3>6
    <3> QED BY <3>9, <3>10, <3>11, <3>12
  <2>2. CASE ops[s[k]].key # p
    <3>1. j = 0 \/ e[j] <= k - 1
      <4>1. SUFFICES ASSUME j # 0 PROVE e[j] <= k - 1
        OBVIOUS
      <4>2. j \in 1 .. m /\ e[j] <= k
        BY <1>4, <4>1, <2>0 DEF UpTo
      <4>3. e[j] # k
        BY <1>3, <2>2, <4>2
      <4>4. e[j] \in Int
        BY <1>3, <4>2
      <4> QED BY <2>0, <4>2, <4>3, <4>4
    <3>2. j = m \/ k - 1 < e[j + 1]
      <4>1. SUFFICES ASSUME j # m PROVE k - 1 < e[j + 1]
        OBVIOUS
      <4>2. j + 1 \in 1 .. m
        BY <1>3, <2>0, <4>1
      <4>3. k < e[j + 1] /\ e[j + 1] \in Int
        BY <1>3, <1>4, <4>1, <4>2 DEF UpTo, m
      <4> QED BY <2>0, <4>3
    <3>3. UpTo(t, e, k - 1, j)
      BY <3>1, <3>2 DEF UpTo, m
    <3> QED BY <1>1, <1>4, <2>2, <3>3
  <2> QED BY <2>1, <2>2
<1>5. T = {}
  <2> SUFFICES ASSUME T # {} PROVE FALSE
    OBVIOUS
  <2>1. T \in SUBSET Nat
    BY <1>3
  <2>2. PICK k \in T : \A i \in T : k <= i
    <3> HIDE DEF T
    <3> QED BY <2>1, NatMin
  <2>3. k \in 0 .. N /\ k \in Nat
    BY <1>3
  <2>4. PICK j \in 0 .. m : UpTo(t, e, k, j) /\ w[k][p] # v[j]
    BY <2>2
  <2>5. k # 0
    <3>1. ASSUME k = 0 PROVE FALSE
      <4>1. j = 0
        <5>1. ASSUME j # 0 PROVE FALSE
          <6>1. j \in 1 .. m /\ e[j] <= 0
            BY <1>3, <2>4, <3>1, <5>1 DEF UpTo
          <6> QED BY <1>3, <6>1
        <5> QED BY <5>1
      <4> QED BY <1>1, <1>2, <2>4, <3>1, <4>1
    <3> QED BY <3>1
  <2>6. k \in 1 .. N /\ k - 1 \in 0 .. N /\ k - 1 < k
    BY <1>3, <2>3, <2>5
  <2>7. k - 1 \notin T
    <3>1. k - 1 \in T => k <= k - 1
      BY <2>2
    <3> QED BY <2>6, <2>3, <3>1
  <2>8. \A i \in 0 .. m : UpTo(t, e, k - 1, i) => w[k - 1][p] = v[i]
    BY <2>6, <2>7
  <2> QED BY <1>4, <2>4, <2>6, <2>8
<1>6. ASSUME NEW j \in 1 .. m
      PROVE  w[e[j] - 1][p] = v[j - 1]
  <2>1. e[j] \in 1 .. N /\ e[j] - 1 \in 0 .. N /\ e[j] - 1 < e[j] /\ j \in Nat
    BY <1>3
  <2>2. j - 1 \in 0 .. m /\ j - 1 # m /\ (j - 1) + 1 = j
    BY <1>3, <2>1
  <2>3. j - 1 = 0 \/ e[j - 1] <= e[j] - 1
    <3>1. SUFFICES ASSUME j - 1 # 0 PROVE e[j - 1] <= e[j] - 1
      OBVIOUS
    <3>2. j - 1 \in 1 .. m /\ j - 1 < j
      BY <2>1, <2>2, <3>1
    <3>3. e[j - 1] < e[j] /\ e[j - 1] \in Int
      BY <1>3, <3>2
    <3> QED BY <2>1, <3>3
  <2>4. UpTo(t, e, e[j] - 1, j - 1)
    BY <2>1, <2>2, <2>3 DEF UpTo
  <2> QED BY <1>5, <2>1, <2>2, <2>4
<1> QED BY <1>6 DEF w, v, m

LEMMA PickLegal ==
    ASSUME NEW p \in Parts, NEW s, NEW t, NEW e, Len(s) \in Nat, Len(t) \in Nat,
           \A k \in 1 .. Len(s) : ops[s[k]].key \in Parts, Picks(s, t, e, p)
    PROVE  /\ LegalStore(s) => Legal(ops, t)
           /\ Legal(ops, t) =>
                \A k \in 1 .. Len(s) : ops[s[k]].key = p =>
                   KvStep(StoreOf(s)[k - 1][ops[s[k]].key], ops[s[k]]).ok
<1> DEFINE w == StoreOf(s)
           v == TraceOf(ops, t)
<1>1. \A j \in 1 .. Len(t) : w[e[j] - 1][p] = v[j - 1]
  BY StoreIsTraces
<1>2. /\ LegalStore(s) <=> \A k \in 1 .. Len(s) : KvStep(w[k - 1][ops[s[k]].key], ops[s[k]]).ok
      /\ Legal(ops, t) <=> \A j \in 1 .. Len(t) : KvStep(v[j - 1], ops[t[j]]).ok
  BY StoreLegal, LegalTrace
<1> HIDE DEF w, v
<1>3. ASSUME NEW j \in 1 .. Len(t)
      PROVE  /\ e[j] \in 1 .. Len(s) /\ t[j] = s[e[j]] /\ ops[s[e[j]]].key = p
             /\ w[e[j] - 1][ops[s[e[j]]].key] = v[j - 1]
  BY <1>1 DEF Picks
<1>4. ASSUME LegalStore(s), NEW j \in 1 .. Len(t)
      PROVE  KvStep(v[j - 1], ops[t[j]]).ok
  <2>1. KvStep(w[e[j] - 1][ops[s[e[j]]].key], ops[s[e[j]]]).ok
    BY <1>2, <1>3, <1>4
  <2> QED BY <1>3, <2>1
<1>5. ASSUME Legal(ops, t), NEW k \in 1 .. Len(s), ops[s[k]].key = p
      PROVE  KvStep(w[k - 1][ops[s[k]].key], ops[s[k]]).ok
  <2>1. PICK j \in 1 .. Len(t) : e[j] = k
    BY <1>5 DEF Picks
  <2>2. KvStep(v[j - 1], ops[t[j]]).ok
    BY <1>2, <1>5
  <2>3. w[k - 1][ops[s[k]].key] = v[j - 1] /\ t[j] = s[k]
    BY <1>3, <2>1
  <2> QED BY <2>2, <2>3
<1> QED BY <1>2, <1>4, <1>5 DEF w
\* s has each member of R once.
IsOrder(s, R) ==
    /\ Len(s) \in Nat /\ s \in [1 .. Len(s) -> R]
    /\ \A a, b \in 1 .. Len(s) : a # b => s[a] # s[b]
    /\ \A i \in R : \E k \in 1 .. Len(s) : s[k] = i

LEMMA OrdersOf ==
    ASSUME NEW R, IsFiniteSet(R), NEW s \in SetToSeqs(R)
    PROVE  IsOrder(s, R)
<1> DEFINE n == Cardinality(R)
<1>1. n \in Nat
  BY FS_CardinalityType
<1>2. s \in [1 .. n -> R] /\ \A i, j \in 1 .. n : i # j => s[i] # s[j]
  BY DEF SetToSeqs
<1>3. s \in Injection(1 .. n, R)
  BY <1>2 DEF Injection, IsInjective
<1>4. IsFiniteSet(1 .. n) /\ Cardinality(1 .. n) = n
  BY <1>1, FS_Interval
<1>5. s \in Surjection(1 .. n, R)
  BY <1>3, <1>4, FS_Injection
<1> HIDE DEF n
<1>6. Len(s) = n
  <2>1. s \in Seq(R)
    BY <1>1, <1>2
  <2> QED BY <1>1, <1>2, <2>1
<1> QED BY <1>1, <1>2, <1>5, <1>6 DEF Surjection, IsOrder

LEMMA OrderIn ==
    ASSUME NEW R, IsFiniteSet(R), NEW s, NEW n \in Nat, s \in [1 .. n -> R],
           \A a, b \in 1 .. n : a # b => s[a] # s[b],
           \A i \in R : \E k \in 1 .. n : s[k] = i
    PROVE  s \in SetToSeqs(R) /\ Len(s) = n
<1>1. s \in Injection(1 .. n, R) /\ s \in Surjection(1 .. n, R)
  BY DEF Injection, IsInjective, Surjection
<1>2. IsFiniteSet(1 .. n) /\ Cardinality(1 .. n) = n
  BY FS_Interval
<1>3. Cardinality(R) = n
  BY <1>1, <1>2, FS_Injection
<1>4. s \in Seq(R)
  OBVIOUS
<1> QED BY <1>3, <1>4 DEF SetToSeqs

\* The positions in K, from the first to the last.
Increasing(K, m, e) ==
    /\ e \in [1 .. m -> K]
    /\ \A a, b \in 1 .. m : a < b => e[a] < e[b]
    /\ \A k \in K : \E j \in 1 .. m : e[j] = k

LEMMA Enumeration ==
    ASSUME NEW N \in Nat, NEW K \in SUBSET (1 .. N)
    PROVE  \E m \in Nat : \E e : Increasing(K, m, e)
<1> DEFINE T == {n \in Nat : \E S \in SUBSET (1 .. n) :
                                ~\E m \in Nat : \E e : Increasing(S, m, e)}
<1>1. T = {}
  <2> SUFFICES ASSUME T # {} PROVE FALSE
    OBVIOUS
  <2>1. PICK n \in T : \A i \in T : n <= i
    BY NatMin
  <2>2. PICK S \in SUBSET (1 .. n) : ~\E m \in Nat : \E e : Increasing(S, m, e)
    BY <2>1
  <2>3. n \in Nat
    BY <2>1
  <2>4. n # 0
    <3>1. ASSUME n = 0 PROVE FALSE
      <4>1. S = {} /\ 1 .. 0 = {}
        BY <2>2, <3>1
      <4> DEFINE e == [j \in 1 .. 0 |-> 0]
      <4>2. Increasing(S, 0, e)
        BY <4>1 DEF Increasing
      <4> QED BY <2>2, <4>2
    <3> QED BY <3>1
  <2>5. n - 1 \in Nat /\ n - 1 \notin T
    <3>1. n - 1 \in T => n <= n - 1
      BY <2>1
    <3> QED BY <2>3, <2>4, <3>1
  <2>6. S \ {n} \in SUBSET (1 .. n - 1)
    BY <2>2, <2>3
  <2>7. PICK m \in Nat : \E e : Increasing(S \ {n}, m, e)
    BY <2>5, <2>6
  <2>8. PICK e : Increasing(S \ {n}, m, e)
    BY <2>7
  <2>9. n \in S
    <3>1. ASSUME n \notin S PROVE FALSE
      <4>1. S \ {n} = S
        BY <3>1
      <4> QED BY <2>2, <2>8, <4>1
    <3> QED BY <3>1
  <2> DEFINE f == [j \in 1 .. m + 1 |-> IF j = m + 1 THEN n ELSE e[j]]
  <2>10. /\ m + 1 \in 1 .. m + 1 /\ f[m + 1] = n
         /\ \A j \in 1 .. m : /\ j \in 1 .. m + 1 /\ f[j] = e[j] /\ e[j] \in S
                              /\ e[j] < n
    <3>1. ASSUME NEW j \in 1 .. m PROVE f[j] = e[j]
      BY <2>7
    <3>2. ASSUME NEW j \in 1 .. m PROVE e[j] \in S /\ e[j] \in 1 .. n - 1
      BY <2>6, <2>8 DEF Increasing
    <3>3. ASSUME NEW j \in 1 .. m PROVE e[j] < n
      BY <2>3, <3>2
    <3>4. f[m + 1] = n
      BY <2>7
    <3> QED BY <2>7, <3>1, <3>2, <3>3, <3>4
  <2>11. DOMAIN f = 1 .. m + 1 /\ f = [j \in 1 .. m + 1 |-> f[j]]
    OBVIOUS
  <2>12. \A j \in 1 .. m + 1 : j = m + 1 \/ j \in 1 .. m
    BY <2>7
  <2> HIDE DEF f
  <2>13. f \in [1 .. m + 1 -> S]
    BY <2>9, <2>10, <2>11, <2>12
  <2>14. ASSUME NEW a \in 1 .. m + 1, NEW b \in 1 .. m + 1, a < b
         PROVE  f[a] < f[b]
    <3>1. a \in 1 .. m
      BY <2>7, <2>14
    <3> QED BY <2>8, <2>10, <2>12, <2>14, <3>1 DEF Increasing
  <2>15. ASSUME NEW k \in S PROVE \E j \in 1 .. m + 1 : f[j] = k
    <3>1. CASE k = n
      BY <2>10, <3>1
    <3>2. CASE k # n
      <4>1. PICK j \in 1 .. m : e[j] = k
        BY <2>8, <3>2 DEF Increasing
      <4> QED BY <2>10, <4>1
    <3> QED BY <3>1, <3>2
  <2>16. Increasing(S, m + 1, f) /\ m + 1 \in Nat
    BY <2>7, <2>13, <2>14, <2>15 DEF Increasing
  <2> QED BY <2>2, <2>16
<1> QED BY <1>1

\* An order of the history gives one of each partition.
LEMMA PartOfWhole ==
    ASSUME WellFormed, Linearizable, NEW p \in Parts
    PROVE  \E t \in SetToSeqs(Partition(p)) :
              Legal(ops, t) /\ InTime(hist, Partition(p), t)
<1>1. PICK n \in Nat : Ids = 1 .. n
  BY HistFacts
<1>2. IsFiniteSet(Ids)
  BY <1>1, FS_Interval
<1>3. PICK s \in SetToSeqs(Ids) : LegalStore(s) /\ InTime(hist, Ids, s)
  BY DEF Linearizable
<1>4. IsOrder(s, Ids)
  BY <1>2, <1>3, OrdersOf
<1> DEFINE N == Len(s)
           P == Partition(p)
           K == {k \in 1 .. N : s[k] \in P}
<1>5. /\ N \in Nat /\ s \in [1 .. N -> Ids] /\ DOMAIN s = 1 .. N
      /\ \A a, b \in 1 .. N : a # b => s[a] # s[b]
      /\ \A i \in Ids : \E k \in 1 .. N : s[k] = i
  BY <1>4 DEF IsOrder
<1>6. P \subseteq Ids /\ IsFiniteSet(P) /\ \A i \in Ids : i \in P <=> ops[i].key = p
  BY PartitionFacts DEF Partition
<1>7. \A k \in 1 .. N : ops[s[k]].key \in Parts
  BY <1>5 DEF Parts
<1> HIDE DEF P
<1>8. K \in SUBSET (1 .. N)
  OBVIOUS
<1>9. PICK m \in Nat : \E e : Increasing(K, m, e)
  <2> HIDE DEF K, N
  <2> QED BY <1>5, <1>8, Enumeration
<1>10. PICK e : Increasing(K, m, e)
  BY <1>9
<1>11. /\ e \in [1 .. m -> K] /\ \A a, b \in 1 .. m : a < b => e[a] < e[b]
       /\ \A k \in K : \E j \in 1 .. m : e[j] = k
  BY <1>10 DEF Increasing
<1>12. \A j \in 1 .. m : e[j] \in 1 .. N /\ s[e[j]] \in P /\ e[j] \in Nat
  BY <1>11
<1>13. \A k \in 1 .. N : s[k] \in P => \E j \in 1 .. m : e[j] = k
  BY <1>11
<1> DEFINE t == [j \in 1 .. m |-> s[e[j]]]
<1>14. t \in [1 .. m -> P] /\ DOMAIN t = 1 .. m /\ \A j \in 1 .. m : t[j] = s[e[j]]
  BY <1>12
<1> HIDE DEF t, K, N
<1>15. \A a, b \in 1 .. m : a # b => t[a] # t[b]
  <2> SUFFICES ASSUME NEW a \in 1 .. m, NEW b \in 1 .. m, a # b PROVE t[a] # t[b]
    OBVIOUS
  <2>1. a < b \/ b < a
    BY <1>9
  <2>2. e[a] # e[b]
    BY <1>11, <1>12, <2>1
  <2> QED BY <1>5, <1>12, <1>14, <2>2
<1>16. \A i \in P : \E j \in 1 .. m : t[j] = i
  <2> SUFFICES ASSUME NEW i \in P PROVE \E j \in 1 .. m : t[j] = i
    OBVIOUS
  <2>1. PICK k \in 1 .. N : s[k] = i
    BY <1>5, <1>6
  <2>2. PICK j \in 1 .. m : e[j] = k
    BY <1>13, <2>1
  <2> QED BY <1>14, <2>1, <2>2
<1>17. t \in SetToSeqs(P) /\ Len(t) = m
  BY <1>6, <1>9, <1>14, <1>15, <1>16, OrderIn
<1>18. Picks(s, t, e, p)
  <2>1. e \in [1 .. m -> 1 .. N]
    BY <1>11, <1>12
  <2>2. \A j \in 1 .. m : t[j] = s[e[j]] /\ ops[t[j]].key = p
    BY <1>6, <1>12, <1>14
  <2>3. \A k \in 1 .. N : ops[s[k]].key = p => \E j \in 1 .. m : e[j] = k
    BY <1>5, <1>6, <1>13
  <2> QED BY <1>11, <1>17, <2>1, <2>2, <2>3 DEF Picks, N
<1>19. Legal(ops, t)
  <2>1. Len(s) \in Nat /\ Len(t) \in Nat /\ \A k \in 1 .. Len(s) : ops[s[k]].key \in Parts
    BY <1>5, <1>7, <1>9, <1>17 DEF N
  <2> QED BY <1>3, <1>18, <2>1, PickLegal
<1>20. InTime(hist, P, t)
  <2> SUFFICES ASSUME NEW k \in 1 .. m, NEW i \in P, Precedes(hist, i, t[k])
               PROVE  \E j \in 1 .. k - 1 : t[j] = i
    BY <1>14 DEF InTime
  <2>1. PICK a \in 1 .. e[k] - 1 : s[a] = i
    BY <1>3, <1>5, <1>6, <1>12, <1>14 DEF InTime
  <2>2. a \in 1 .. N /\ a < e[k]
    BY <1>5, <1>12, <2>1
  <2>3. PICK j \in 1 .. m : e[j] = a
    BY <1>13, <2>1, <2>2
  <2>4. ~(k < j) /\ k # j
    BY <1>11, <1>12, <2>2, <2>3
  <2>5. j \in 1 .. k - 1
    BY <1>9, <2>3, <2>4
  <2> QED BY <1>14, <2>1, <2>3, <2>5
<1> QED BY <1>17, <1>19, <1>20 DEF P
\* tt has a linearization of each partition.
PartOrders(tt) ==
    \A p \in Parts : /\ IsOrder(tt[p], Partition(p))
                     /\ Legal(ops, tt[p])
                     /\ InTime(hist, Partition(p), tt[p])

\* i must come before j: in the history, or in their partition's order.
Before(tt, i, j) ==
    \/ Precedes(hist, i, j)
    \/ \E p \in Parts : \E a, b \in 1 .. Len(tt[p]) :
          a < b /\ tt[p][a] = i /\ tt[p][b] = j

\* Among any remaining operations one can be next: the first that remains of
\* the partition that has the earliest return.
LEMMA SomeNext ==
    ASSUME WellFormed, NEW tt, PartOrders(tt), NEW R \in SUBSET Ids, R # {}
    PROVE  \E i \in R : \A j \in R : ~Before(tt, j, i)
<1>1. PICK n \in Nat :
         /\ DOMAIN hist = 1 .. 2 * n
         /\ hist \in [1 .. 2 * n -> [kind : {"call", "return"}, id : 1 .. n]]
         /\ hist \in Histories(n)
         /\ Ids = 1 .. n
  BY HistFacts
<1> DEFINE Ret(i) == [kind |-> "return", id |-> i]
           T == {x \in 1 .. 2 * n : \E i \in R : hist[x] = Ret(i)}
<1>2. T # {} /\ T \in SUBSET Nat
  <2>1. PICK i \in R : TRUE
    OBVIOUS
  <2>2. Ret(i) \in [kind : {"call", "return"}, id : 1 .. n]
    BY <1>1
  <2>3. PICK x \in 1 .. 2 * n : hist[x] = Ret(i)
    BY <1>1, <2>2, AllEntries
  <2>4. x \in T
    BY <2>1, <2>3
  <2>5. T \subseteq 1 .. 2 * n
    OBVIOUS
  <2> HIDE DEF T
  <2> QED BY <1>1, <2>4, <2>5
<1>3. PICK x \in T : \A y \in T : x <= y
  <2> HIDE DEF T
  <2> QED BY <1>2, NatMin
<1>4. PICK r \in R : hist[x] = Ret(r)
  BY <1>3
<1>5. x \in DOMAIN hist /\ x \in Nat
  BY <1>1, <1>3
<1>6. ASSUME NEW j \in R, NEW i, Precedes(hist, j, i)
      PROVE  Precedes(hist, r, i)
  <2>1. PICK y, z \in DOMAIN hist : y < z /\ hist[y] = Ret(j)
                                    /\ hist[z] = [kind |-> "call", id |-> i]
    BY <1>6 DEF Precedes
  <2>2. y \in T
    BY <1>1, <2>1
  <2>3. x < z
    <3>1. x <= y /\ y \in Nat /\ z \in Nat
      BY <1>1, <1>3, <2>1, <2>2
    <3> QED BY <1>5, <2>1, <3>1
  <2> QED BY <1>4, <1>5, <2>1, <2>3 DEF Precedes
<1> HIDE DEF T
<1> DEFINE p == ops[r].key
           t == tt[p]
           U == {k \in 1 .. Len(t) : t[k] \in R}
<1>7. p \in Parts /\ r \in Partition(p)
  BY <1>4 DEF Parts, Partition
<1>8. IsOrder(t, Partition(p)) /\ InTime(hist, Partition(p), t)
  BY <1>7 DEF PartOrders
<1> HIDE DEF p
<1>9. /\ Len(t) \in Nat /\ t \in [1 .. Len(t) -> Partition(p)]
      /\ \A a, b \in 1 .. Len(t) : a # b => t[a] # t[b]
      /\ \A i \in Partition(p) : \E k \in 1 .. Len(t) : t[k] = i
  BY <1>8 DEF IsOrder
<1> HIDE DEF t
<1>10. PICK c \in 1 .. Len(t) : t[c] = r
  BY <1>7, <1>9
<1>11. PICK b \in U : \A k \in U : b <= k
  <2>1. c \in U /\ U \in SUBSET Nat
    BY <1>4, <1>9, <1>10
  <2> HIDE DEF U
  <2> QED BY <2>1, NatMin
<1>12. /\ b \in 1 .. Len(t) /\ t[b] \in R /\ b \in Nat
       /\ \A a \in 1 .. Len(t) : a < b => t[a] \notin R
  <2>1. b \in 1 .. Len(t) /\ t[b] \in R /\ b \in Nat
    BY <1>9, <1>11
  <2>2. ASSUME NEW a \in 1 .. Len(t), a < b, t[a] \in R PROVE FALSE
    <3>1. a \in U
      BY <2>2
    <3>2. b <= a
      BY <1>11, <3>1
    <3> QED BY <1>9, <2>1, <2>2, <3>2
  <2> QED BY <2>1, <2>2
<1> HIDE DEF U
<1>13. ASSUME NEW j \in R, Before(tt, j, t[b]) PROVE FALSE
  <2>1. CASE Precedes(hist, j, t[b])
    <3>1. Precedes(hist, r, t[b])
      BY <1>6, <2>1
    <3>2. b \in DOMAIN t
      BY <1>9, <1>12
    <3>3. PICK a \in 1 .. b - 1 : t[a] = r
      BY <1>7, <1>8, <3>1, <3>2 DEF InTime
    <3>4. a \in 1 .. Len(t) /\ a < b
      BY <1>9, <1>12, <3>3
    <3> QED BY <1>4, <1>12, <3>3, <3>4
  <2>2. CASE \E q \in Parts : \E a, d \in 1 .. Len(tt[q]) :
                a < d /\ tt[q][a] = j /\ tt[q][d] = t[b]
    <3>1. PICK q \in Parts : \E a, d \in 1 .. Len(tt[q]) :
                a < d /\ tt[q][a] = j /\ tt[q][d] = t[b]
      BY <2>2
    <3>2. PICK a, d \in 1 .. Len(tt[q]) : a < d /\ tt[q][a] = j /\ tt[q][d] = t[b]
      BY <3>1
    <3>3. IsOrder(tt[q], Partition(q))
      BY <3>1 DEF PartOrders
    <3>4. tt[q][d] \in Partition(q) /\ t[b] \in Partition(p)
      BY <1>9, <1>12, <3>2, <3>3 DEF IsOrder
    <3>5. q = p
      BY <3>2, <3>4 DEF Partition
    <3>6. a \in 1 .. Len(t) /\ d \in 1 .. Len(t) /\ a < d /\ t[a] = j /\ t[d] = t[b]
      BY <3>2, <3>5 DEF t
    <3>7. d = b
      BY <1>9, <1>12, <3>6
    <3> QED BY <1>12, <1>13, <3>6, <3>7
  <2> QED BY <1>13, <2>1, <2>2 DEF Before
<1> QED BY <1>12, <1>13

\* A beginning of an order of the whole history.
Merged(tt, s, k) ==
    /\ s \in [1 .. k -> Ids]
    /\ \A a, b \in 1 .. k : a # b => s[a] # s[b]
    /\ \A a \in 1 .. k, i \in Ids :
          Before(tt, i, s[a]) => \E b \in 1 .. a - 1 : s[b] = i

LEMMA MergeOne ==
    ASSUME WellFormed, NEW tt, PartOrders(tt), NEW k \in Nat, k < Cardinality(Ids),
           NEW s, Merged(tt, s, k)
    PROVE  \E f : Merged(tt, f, k + 1)
<1>1. PICK n \in Nat : Ids = 1 .. n
  BY HistFacts
<1>2. IsFiniteSet(Ids) /\ Cardinality(Ids) \in Nat
  BY <1>1, FS_Interval, FS_CardinalityType
<1> DEFINE L == {s[a] : a \in 1 .. k}
           R == Ids \ L
<1>3. s \in [1 .. k -> Ids]
  BY DEF Merged
<1>4. R # {}
  <2>1. ASSUME R = {} PROVE FALSE
    <3>1. \A i \in Ids : \E a \in 1 .. k : s[a] = i
      BY <2>1
    <3>2. s \in Surjection(1 .. k, Ids)
      BY <1>3, <3>1 DEF Surjection
    <3>3. IsFiniteSet(1 .. k) /\ Cardinality(1 .. k) = k
      BY FS_Interval
    <3>4. Cardinality(Ids) <= k
      BY <3>2, <3>3, FS_Surjection
    <3> QED BY <1>2, <3>4
  <2> QED BY <2>1
<1>5. R \in SUBSET Ids
  OBVIOUS
<1>6. PICK i \in R : \A j \in R : ~Before(tt, j, i)
  <2> HIDE DEF R
  <2> QED BY <1>4, <1>5, SomeNext
<1> DEFINE f == [a \in 1 .. k + 1 |-> IF a = k + 1 THEN i ELSE s[a]]
<1>7. /\ f[k + 1] = i /\ k + 1 \in 1 .. k + 1
      /\ \A a \in 1 .. k : f[a] = s[a] /\ a \in 1 .. k + 1 /\ s[a] # i /\ s[a] \in Ids
      /\ f = [a \in 1 .. k + 1 |-> f[a]]
  <2>1. ASSUME NEW a \in 1 .. k
        PROVE  f[a] = s[a] /\ a \in 1 .. k + 1 /\ s[a] # i /\ s[a] \in Ids
    <3>1. s[a] # i /\ s[a] \in Ids
      BY <1>3, <1>6
    <3> HIDE DEF L
    <3> QED BY <3>1
  <2>2. f[k + 1] = i /\ k + 1 \in 1 .. k + 1
    OBVIOUS
  <2> QED BY <2>1, <2>2
<1>8. \A a \in 1 .. k + 1 : a = k + 1 \/ a \in 1 .. k
  OBVIOUS
<1>9. i \in Ids /\ \A j \in Ids : Before(tt, j, i) => \E b \in 1 .. k : s[b] = j
  BY <1>6
<1> HIDE DEF f, L
<1>10. f \in [1 .. k + 1 -> Ids]
  BY <1>7, <1>8, <1>9
<1>11. ASSUME NEW a \in 1 .. k + 1, NEW b \in 1 .. k + 1, a # b PROVE f[a] # f[b]
  BY <1>7, <1>8, <1>11 DEF Merged
<1>12. ASSUME NEW a \in 1 .. k + 1, NEW j \in Ids, Before(tt, j, f[a])
       PROVE  \E b \in 1 .. a - 1 : f[b] = j
  <2>1. CASE a = k + 1
    <3>1. PICK b \in 1 .. k : s[b] = j
      BY <1>7, <1>9, <1>12, <2>1
    <3>2. b \in 1 .. a - 1
      BY <2>1
    <3> QED BY <1>7, <3>1, <3>2
  <2>2. CASE a \in 1 .. k
    <3>1. Before(tt, j, s[a])
      BY <1>7, <1>12, <2>2
    <3>2. PICK b \in 1 .. a - 1 : s[b] = j
      BY <2>2, <3>1 DEF Merged
    <3>3. b \in 1 .. k
      BY <2>2, <3>2
    <3> QED BY <1>7, <3>2, <3>3
  <2> QED BY <1>8, <2>1, <2>2
<1>13. Merged(tt, f, k + 1)
  BY <1>10, <1>11, <1>12 DEF Merged
<1> QED BY <1>13

LEMMA MergeAll ==
    ASSUME WellFormed, NEW tt, PartOrders(tt)
    PROVE  \E s : Merged(tt, s, Cardinality(Ids))
<1> DEFINE T == {k \in 0 .. Cardinality(Ids) : ~\E s : Merged(tt, s, k)}
<1>1. PICK n \in Nat : Ids = 1 .. n
  BY HistFacts
<1>2. Cardinality(Ids) = n
  BY <1>1, FS_Interval
<1>3. T \in SUBSET Nat
  BY <1>2
<1>4. T = {}
  <2> SUFFICES ASSUME T # {} PROVE FALSE
    OBVIOUS
  <2>1. PICK k \in T : \A i \in T : k <= i
    <3> HIDE DEF T
    <3> QED BY <1>3, NatMin
  <2>2. k \in 0 .. Cardinality(Ids) /\ k \in Nat /\ ~\E s : Merged(tt, s, k)
    BY <1>2, <2>1
  <2>3. k # 0
    <3>1. ASSUME k = 0 PROVE FALSE
      <4> DEFINE s == [a \in 1 .. 0 |-> 0]
      <4>1. 1 .. 0 = {}
        OBVIOUS
      <4>2. Merged(tt, s, 0)
        BY <4>1 DEF Merged
      <4> QED BY <2>2, <3>1, <4>2
    <3> QED BY <3>1
  <2>4. k - 1 \in 0 .. Cardinality(Ids) /\ k - 1 < Cardinality(Ids) /\ k - 1 \in Nat
        /\ (k - 1) + 1 = k
    BY <1>2, <2>2, <2>3
  <2>5. k - 1 \notin T
    <3>1. k - 1 \in T => k <= k - 1
      BY <2>1
    <3> QED BY <2>2, <3>1
  <2>6. PICK s : Merged(tt, s, k - 1)
    BY <2>4, <2>5
  <2>7. \E f : Merged(tt, f, (k - 1) + 1)
    BY <2>4, <2>6, MergeOne
  <2> QED BY <2>2, <2>4, <2>7
<1>5. Cardinality(Ids) \in 0 .. Cardinality(Ids)
  BY <1>2
<1> QED BY <1>4, <1>5
\* Orders of all the partitions make one of the history.
LEMMA WholeOfParts ==
    ASSUME WellFormed,
           \A p \in Parts : \E t \in SetToSeqs(Partition(p)) :
              Legal(ops, t) /\ InTime(hist, Partition(p), t)
    PROVE  Linearizable
<1> DEFINE tt == [p \in Parts |-> CHOOSE t \in SetToSeqs(Partition(p)) :
                                     Legal(ops, t) /\ InTime(hist, Partition(p), t)]
<1>1. PartOrders(tt)
  <2> SUFFICES ASSUME NEW p \in Parts
               PROVE  /\ IsOrder(tt[p], Partition(p)) /\ Legal(ops, tt[p])
                      /\ InTime(hist, Partition(p), tt[p])
    BY DEF PartOrders
  <2> DEFINE A == SetToSeqs(Partition(p))
  <2>1. tt[p] = CHOOSE t \in A : Legal(ops, t) /\ InTime(hist, Partition(p), t)
    OBVIOUS
  <2>2. \E t \in A : Legal(ops, t) /\ InTime(hist, Partition(p), t)
    OBVIOUS
  <2> HIDE DEF tt, A
  <2>3. tt[p] \in A /\ Legal(ops, tt[p]) /\ InTime(hist, Partition(p), tt[p])
    BY <2>1, <2>2
  <2>4. IsFiniteSet(Partition(p))
    BY PartitionFacts
  <2> QED BY <2>3, <2>4, OrdersOf DEF A
<1> HIDE DEF tt
<1>2. PICK N \in Nat : Ids = 1 .. N
  BY HistFacts
<1>3. IsFiniteSet(Ids) /\ Cardinality(Ids) = N
  BY <1>2, FS_Interval
<1>4. PICK s : Merged(tt, s, N)
  BY <1>1, <1>3, MergeAll
<1>5. /\ s \in [1 .. N -> Ids] /\ DOMAIN s = 1 .. N
      /\ \A a, b \in 1 .. N : a # b => s[a] # s[b]
      /\ \A a \in 1 .. N, i \in Ids :
            Before(tt, i, s[a]) => \E b \in 1 .. a - 1 : s[b] = i
  BY <1>4 DEF Merged
<1>6. s \in SetToSeqs(Ids)
  BY <1>3, <1>5 DEF SetToSeqs
<1>7. Len(s) = N /\ \A i \in Ids : \E k \in 1 .. N : s[k] = i
  <2>1. IsOrder(s, Ids)
    BY <1>3, <1>6, OrdersOf
  <2>2. Len(s) = N
    BY <1>2, <1>5, <2>1 DEF IsOrder
  <2> QED BY <2>1, <2>2 DEF IsOrder
<1>8. InTime(hist, Ids, s)
  BY <1>5 DEF InTime, Before
<1>9. \A k \in 1 .. N : ops[s[k]].key \in Parts
  BY <1>5 DEF Parts
<1>10. ASSUME NEW p \in Parts
       PROVE  \E e : Picks(s, tt[p], e, p)
  <2> DEFINE t == tt[p]
             m == Len(t)
             e == [j \in 1 .. m |-> CHOOSE k \in 1 .. N : s[k] = t[j]]
  <2>1. /\ m \in Nat /\ t \in [1 .. m -> Partition(p)]
        /\ \A a, b \in 1 .. m : a # b => t[a] # t[b]
        /\ \A i \in Partition(p) : \E k \in 1 .. m : t[k] = i
    BY <1>1 DEF PartOrders, IsOrder
  <2>2. \A i \in Ids : i \in Partition(p) <=> ops[i].key = p
    BY DEF Partition
  <2>3. Partition(p) \subseteq Ids
    BY DEF Partition
  <2> HIDE DEF t, m
  <2>4. ASSUME NEW j \in 1 .. m PROVE e[j] \in 1 .. N /\ s[e[j]] = t[j]
    <3>1. e[j] = CHOOSE k \in 1 .. N : s[k] = t[j]
      OBVIOUS
    <3>2. \E k \in 1 .. N : s[k] = t[j]
      BY <1>7, <2>1, <2>3
    <3> HIDE DEF e
    <3> QED BY <3>1, <3>2
  <2>5. e = [j \in 1 .. m |-> e[j]]
    OBVIOUS
  <2> HIDE DEF e
  <2>6. e \in [1 .. m -> 1 .. N]
    BY <2>4, <2>5
  <2>7. ASSUME NEW a \in 1 .. m, NEW b \in 1 .. m, a < b PROVE e[a] < e[b]
    <3>1. Before(tt, t[a], t[b])
      BY <2>7 DEF Before, t, m
    <3>2. t[a] \in Ids
      BY <2>1, <2>3
    <3>3. PICK c \in 1 .. e[b] - 1 : s[c] = t[a]
      BY <1>5, <2>4, <3>1, <3>2
    <3>4. c \in 1 .. N /\ c < e[b]
      BY <1>2, <2>4, <3>3
    <3>5. c = e[a]
      BY <1>5, <2>4, <3>3, <3>4
    <3> QED BY <3>4, <3>5
  <2>8. ASSUME NEW j \in 1 .. m PROVE t[j] = s[e[j]] /\ ops[t[j]].key = p
    BY <2>1, <2>2, <2>3, <2>4
  <2>9. ASSUME NEW k \in 1 .. N, ops[s[k]].key = p PROVE \E j \in 1 .. m : e[j] = k
    <3>1. s[k] \in Partition(p)
      BY <1>5, <2>2, <2>9
    <3>2. PICK j \in 1 .. m : t[j] = s[k]
      BY <2>1, <3>1
    <3>3. e[j] = k
      BY <1>5, <2>4, <3>2
    <3> QED BY <3>3
  <2>10. Picks(s, t, e, p)
    BY <1>7, <2>6, <2>7, <2>8, <2>9 DEF Picks, m
  <2> QED BY <2>10 DEF t
<1>11. LegalStore(s)
  <2> SUFFICES ASSUME NEW k \in 1 .. Len(s)
               PROVE  KvStep(StoreOf(s)[k - 1][ops[s[k]].key], ops[s[k]]).ok
    BY StoreLegal
  <2> DEFINE p == ops[s[k]].key
  <2>1. p \in Parts
    BY <1>7, <1>9
  <2>2. PICK e : Picks(s, tt[p], e, p)
    BY <1>10, <2>1
  <2>3. Len(tt[p]) \in Nat /\ Legal(ops, tt[p])
    BY <1>1, <2>1 DEF PartOrders, IsOrder
  <2>4. Len(s) \in Nat /\ \A a \in 1 .. Len(s) : ops[s[a]].key \in Parts
    BY <1>7, <1>9
  <2>5. \A a \in 1 .. Len(s) : ops[s[a]].key = p =>
           KvStep(StoreOf(s)[a - 1][ops[s[a]].key], ops[s[a]]).ok
    <3> HIDE DEF p
    <3> QED BY <2>1, <2>2, <2>3, <2>4, PickLegal
  <2> QED BY <2>5
<1> QED BY <1>6, <1>8, <1>11 DEF Linearizable

\* "a history is linearizable if and only if each partition is".
LEMMA Locality ==
    ASSUME WellFormed
    PROVE  Linearizable <=> \A p \in Parts : Verdicts[p]
<1>1. \A p \in Parts : Verdicts[p] <=> \E t \in SetToSeqs(Partition(p)) :
                          Legal(ops, t) /\ InTime(hist, Partition(p), t)
  BY DEF Verdicts
<1> QED BY <1>1, PartOfWhole, WholeOfParts

LEMMA InvAnswers == ParInv => AnswerCorrect
<1> SUFFICES ASSUME ParInv PROVE AnswerCorrect
  OBVIOUS
<1>1. VerdictsAnswer /\ WellFormed /\ linearizable = Verdicts
  BY AnswerFromVerdicts DEF ParInv, ParTypeOK
<1>2. Linearizable <=> \A p \in Parts : linearizable[p]
  BY <1>1, Locality
<1> QED BY <1>1, <1>2 DEF VerdictsAnswer, AnswerCorrect

\* Whatever is cut off and whatever order the results come in, checkParallel
\* answers Ok for a linearizable history only and Illegal for one that is not.
THEOREM ParAnswers == ParSpec => []AnswerCorrect
BY ParInvariant, InvAnswers, PTL

\* The same with the searches themselves.
THEOREM CheckAnswers == CheckSpec => []AnswerCorrect
BY ChecksInParallel, ParAnswers, PTL
=============================================================================
