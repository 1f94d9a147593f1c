------------------------------ MODULE KvHistory -----------------------------
(***************************************************************************)
(* The histories that the linearizability checker of the key/value tests   *)
(* is given (porcupine/checker.go), the model of one key that it checks    *)
(* them against (models/kv.go), and what linearizability means.            *)
(*                                                                         *)
(* A history of n operations is a sequence of 2n entries, the calls and    *)
(* the returns of the operations 1..n.  The value of a key is the sequence *)
(* of the strings that were put or appended.                               *)
(***************************************************************************)
EXTENDS Integers, Sequences, SequencesExt

\* makeEntries sorts by time and, at equal times, calls before returns: the
\* return of i stands before the call of j exactly if i returned before j was
\* called.  The sorted sequences are those where calls precede their returns.
Histories(n) ==
    {h \in [1 .. 2 * n -> [kind : {"call", "return"}, id : 1 .. n]] :
        /\ \A a, b \in DOMAIN h : a # b => h[a] # h[b]
        /\ \A a, b \in DOMAIN h :
              h[a].id = h[b].id /\ h[a].kind = "return" => b <= a}

\* Init and Step of KvModel: whether the operation may return what it did,
\* and the state after it.
KvInit == <<>>

KvStep(s, o) ==
    CASE o.op = "get" -> [ok |-> o.out = s, state |-> s]
      [] o.op = "put" -> [ok |-> TRUE, state |-> <<o.value>>]
      [] o.op = "append" -> [ok |-> TRUE, state |-> Append(s, o.value)]

-----------------------------------------------------------------------------
(* Linearizability, as it is defined.                                      *)

\* In history h, i returns before j is called.
Precedes(h, i, j) ==
    \E a, b \in DOMAIN h : a < b /\ h[a] = [kind |-> "return", id |-> i]
                                 /\ h[b] = [kind |-> "call", id |-> j]

\* In the order s each operation comes after all those among ids that precede
\* it.
InTime(h, ids, s) ==
    \A k \in DOMAIN s, i \in ids :
        Precedes(h, i, s[k]) => \E m \in 1 .. k - 1 : s[m] = i

\* The operations on one key can be executed one by one in the order s.
Legal(ops, s) ==
    LET value[k \in 0 .. Len(s)] ==  \* after k operations
            IF k = 0 THEN KvInit ELSE KvStep(value[k - 1], ops[s[k]]).state
    IN  \A k \in 1 .. Len(s) : KvStep(value[k - 1], ops[s[k]]).ok
=============================================================================
