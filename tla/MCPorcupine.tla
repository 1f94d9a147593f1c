----------------------------- MODULE MCPorcupine ----------------------------
(* Bounds of the checker: all histories of up to MaxOps operations on two   *)
(* keys, up to the names of the operations.                                *)
EXTENDS Porcupine

Put(k, v) == [key |-> k, op |-> "put", value |-> v]
AppendOp(k, v) == [key |-> k, op |-> "append", value |-> v]
Get(k, out) == [key |-> k, op |-> "get", out |-> out]

\* Writes that can be told apart, and reads of some of their results.
SomeKinds ==
    {Put("x", "a"), AppendOp("x", "b"), Get("x", <<"a", "b">>),
     Put("y", "a"), Get("y", <<>>)}

\* The operations are numbered in the order of their calls.
InCallOrder ==
    {h \in UNION {Histories(n) : n \in 0 .. MaxOps} :
        \A a, b \in DOMAIN h :
            h[a].kind = "call" /\ h[b].kind = "call" /\ h[a].id < h[b].id
            => a < b}
=============================================================================
