------------------------------ MODULE Porcupine -----------------------------
(***************************************************************************)
(* The linearizability checker that the key/value tests rely on:           *)
(* checkParallel (CheckParallel) with the searches of its goroutines,      *)
(* checkSingle of porcupine/checker.go, for the model of one key in        *)
(* models/kv.go.                                                           *)
(*                                                                         *)
(* A search keeps the entries of its part of the history in a doubly       *)
(* linked list, out of which it lifts the operations it has linearized and *)
(* into which it unlifts them when it backtracks.  One action is one       *)
(* iteration of its loop, which begins with a look at the kill flag.  The  *)
(* nodes of the list are the positions of the entries in the history.      *)
(***************************************************************************)
EXTENDS CheckParallel

VARIABLES
    \* for each partition
    links,       \* the linked list: next and prev of each node
    entry,       \* the node the search is at
    state,       \* the value of the key
    linearized,  \* the operations linearized so far (a bitset)
    cache,       \* the pairs of linearized and state seen so far
    calls,       \* the stack: nodes lifted, with the state before
    \* for each operation
    longest      \* the longest prefix found that includes it

searchVars == <<links, entry, state, linearized, cache, calls>>
checkVars == <<parVars, searchVars, longest>>

Head0 == 0               \* headEntry
Nil == Len(hist) + 1

IdOf(x) == hist[x].id
IsCall(x) == hist[x].kind = "call"
Nodes(p) == {x \in DOMAIN hist : ops[IdOf(x)].key = p}
MatchOf(x) ==
    CHOOSE y \in DOMAIN hist : hist[y] = [kind |-> "return", id |-> IdOf(x)]

-----------------------------------------------------------------------------
(* The list.                                                               *)

Following(nodes, x) == CHOOSE y \in nodes \cup {Nil} :
                           y > x /\ \A z \in nodes : z > x => y <= z
Preceding(nodes, x) == CHOOSE y \in nodes \cup {Head0} :
                           y < x /\ \A z \in nodes : z < x => z <= y

\* makeLinkedEntries, and insertBefore for the head.
makeLinkedEntries(nodes) ==
    [next |-> [x \in nodes \cup {Head0} |-> Following(nodes, x)],
     prev |-> [x \in nodes |-> Preceding(nodes, x)]]

Unlink(l, x) ==
    [next |-> [l.next EXCEPT ![l.prev[x]] = l.next[x]],
     prev |-> IF l.next[x] = Nil THEN l.prev
              ELSE [l.prev EXCEPT ![l.next[x]] = l.prev[x]]]

\* Puts x back where its own links say it was.
Relink(l, x) ==
    [next |-> [l.next EXCEPT ![l.prev[x]] = x],
     prev |-> IF l.next[x] = Nil THEN l.prev
              ELSE [l.prev EXCEPT ![l.next[x]] = x]]

lift(l, x) == Unlink(Unlink(l, x), MatchOf(x))

unlift_Bug(l, x) == [Relink(Relink(l, MatchOf(x)), x) EXCEPT !.prev = l.prev]

unlift(l, x) == Relink(Relink(l, MatchOf(x)), x)

-----------------------------------------------------------------------------
CheckInit ==
    /\ ParInit
    /\ links = [p \in Parts |-> makeLinkedEntries(Nodes(p))]
    /\ entry = [p \in Parts |-> links[p].next[Head0]]
    /\ state = [p \in Parts |-> KvInit]
    /\ linearized = [p \in Parts |-> {}]
    /\ cache = [p \in Parts |-> {}]
    /\ calls = [p \in Parts |-> <<>>]
    /\ longest = [i \in Ids |-> <<>>]

\* A bitset is the set of the positions of its ones.
set(b, pos) == b \cup {pos}
clear(b, pos) == b \ {pos}

Running(p) == p \in Parts /\ search[p] = "running"

\* The loop of the search goes on: the list is not empty and kill not set.
Searching(p) == Running(p) /\ links[p].next[Head0] # Nil /\ ~kill

\* The operation at entry, as the next one in the linearization.
Step(p) == KvStep(state[p], ops[IdOf(entry[p])])
NewEntry_Bug(p) == <<{}, Step(p).state>>

NewEntry(p) == <<set(linearized[p], IdOf(entry[p])), Step(p).state>>

\* The identifiers on the stack.
Order(stack) == [k \in DOMAIN stack |-> IdOf(stack[k].entry)]

\* The operation fits and leads to something new: it is linearized.
Linearize(p) ==
    /\ Searching(p) /\ IsCall(entry[p]) /\ Step(p).ok
    /\ NewEntry(p) \notin cache[p]
    /\ cache' = [cache EXCEPT ![p] = @ \cup {NewEntry(p)}]
    /\ calls' = [calls EXCEPT ![p] =
                    Append(@, [entry |-> entry[p], state |-> state[p]])]
    /\ state' = [state EXCEPT ![p] = Step(p).state]
    /\ linearized' = [linearized EXCEPT ![p] = set(@, IdOf(entry[p]))]
    /\ links' = [links EXCEPT ![p] = lift(@, entry[p])]
    /\ entry' = [entry EXCEPT ![p] = links'[p].next[Head0]]
    /\ UNCHANGED <<parVars, longest>>

\* It does not fit, or was tried before.
Skip_Bug(p) ==
    /\ Searching(p) /\ IsCall(entry[p])
    /\ ~Step(p).ok \/ NewEntry(p) \in cache[p]
    /\ entry' = [entry EXCEPT ![p] = links[p].next[Head0]]
    /\ UNCHANGED <<parVars, links, state, linearized, cache, calls, longest>>

Skip(p) ==
    /\ Searching(p) /\ IsCall(entry[p])
    /\ ~Step(p).ok \/ NewEntry(p) \in cache[p]
    /\ entry' = [entry EXCEPT ![p] = links[p].next[entry[p]]]
    /\ UNCHANGED <<parVars, links, state, linearized, cache, calls, longest>>

\* With computePartial: the stack is the longest prefix so far for some of
\* the operations on it.
Longer_Bug(p) ==
    [i \in Ids |-> IF verbose /\ i \in linearized[p]
                   THEN Order(calls[p]) ELSE longest[i]]

Longer(p) ==
    [i \in Ids |-> IF /\ verbose /\ i \in linearized[p]
                      /\ Len(calls[p]) > Len(longest[i])
                   THEN Order(calls[p]) ELSE longest[i]]

\* An operation returns that is not linearized: undo the last one.
Backtrack(p) ==
    /\ Searching(p) /\ ~IsCall(entry[p]) /\ calls[p] # <<>>
    /\ LET top == Last(calls[p])
       IN  /\ state' = [state EXCEPT ![p] = top.state]
           /\ linearized' = [linearized EXCEPT ![p] = clear(@, IdOf(top.entry))]
           /\ links' = [links EXCEPT ![p] = unlift(@, top.entry)]
           /\ entry' = [entry EXCEPT ![p] = links'[p].next[top.entry]]
    /\ calls' = [calls EXCEPT ![p] = Front(@)]
    /\ longest' = Longer(p)
    /\ UNCHANGED <<parVars, cache>>

\* checkSingle returns r, and longest[p] is written before r is sent.
Finish(p, r) ==
    /\ search' = [search EXCEPT ![p] = "done"]
    /\ unsent' = unsent \cup {<<p, r>>}
    /\ UNCHANGED <<truth, results, ok, timedOut, kill, count, caller, result,
                   searchVars>>

\* There is nothing to undo.
Fail(p) ==
    /\ Searching(p) /\ ~IsCall(entry[p]) /\ calls[p] = <<>>
    /\ Finish(p, FALSE)
    /\ UNCHANGED longest

\* Every operation has been lifted.
Succeed(p) ==
    /\ Running(p) /\ links[p].next[Head0] = Nil
    /\ Finish(p, TRUE)
    /\ longest' = [i \in Ids |-> IF i \in Partition(p) THEN Order(calls[p])
                                 ELSE longest[i]]

\* The kill flag is set: the goroutine gives up.
Killed(p) ==
    /\ Running(p) /\ links[p].next[Head0] # Nil /\ kill
    /\ Finish(p, FALSE)
    /\ UNCHANGED longest

checkSingle(p) ==
    \/ Linearize(p) \/ Skip(p) \/ Backtrack(p)
    \/ Fail(p) \/ Succeed(p) \/ Killed(p)

checkParallel ==
    /\ Caller \/ Timeout \/ \E r \in unsent : Send(r)
    /\ UNCHANGED <<searchVars, longest>>

CheckNext == checkParallel \/ \E p \in Keys : checkSingle(p)

CheckSpec == CheckInit /\ [][CheckNext]_checkVars

\* While something can run, something does.  No search runs for ever and the
\* timer fires once, so that nothing more is needed.
CheckFairSpec == CheckSpec /\ WF_checkVars(CheckNext)
-----------------------------------------------------------------------------
(* Properties.                                                             *)

\* The linearizable prefixes of a partition: legal orders of some of its
\* operations, in which each comes after all those that precede it.
LinPrefixes(p) ==
    {s \in SetToAllKPermutations(Partition(p)) :
        Legal(ops, s) /\ InTime(hist, Partition(p), s)}

\* However often a search lifts and unlifts: its list holds exactly the
\* entries of the operations that are not linearized, in both directions and
\* in the order of the history.
ListIntact ==
    \A p \in Parts :
        LET inList == {x \in Nodes(p) : IdOf(x) \notin linearized[p]}
        IN  \A x \in inList \cup {Head0} :
                LET y == Following(inList, x)
                IN  links[p].next[x] = y /\ (y # Nil => links[p].prev[y] = x)

\* "longest linearizable prefix that includes the given entry": when a search
\* is over that was not cut short, what it reports for an operation is a
\* linearizable prefix with that operation (or none, if there is none), and
\* there is no longer one.
LongestIsLongest ==
    verbose /\ ~kill =>
        \A p \in Parts : search[p] = "done" =>
            \A i \in Partition(p) :
                LET with == {s \in LinPrefixes(p) : Contains(s, i)}
                IN  IF with = {} THEN longest[i] = <<>>
                    ELSE /\ longest[i] \in with
                         /\ \A s \in with : Len(s) <= Len(longest[i])

\* The searches keep the promise that CheckParallel is built on: unless it is
\* stopped, a search ends with true for a partition that is linearizable and
\* with false for one that is not, although it tries no pair of a set of
\* operations and a state twice.  (That it ends at all is part of
\* CheckReturns.)
SearchesDecide == [][ParNext]_parVars
=============================================================================
