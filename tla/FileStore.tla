----------------------------- MODULE FileStore ------------------------------
(***************************************************************************)
(* What the file server promises: each file is an atomic register.  A POST *)
(* answered 201 replaced the whole file at one moment between request and  *)
(* response, a GET answered 200 returns the whole file as it was at one    *)
(* such moment, and an operation that is answered with an error, or not at *)
(* all, did one of these or nothing.                                       *)
(***************************************************************************)
CONSTANTS
    Files,    \* the paths of files
    Bodies,   \* what can be stored
    NoBody,   \* the content of a file that does not exist
    Users     \* those who execute operations, one at a time each

VARIABLES
    store,  \* store[f]: the content of f
    past,   \* past[f]: the contents f may have after a power loss
    op      \* op[u]: the operation of u

Idle == [state |-> "idle"]

\* What can be asked of the store.
Ops ==
    [state : {"get"}, file : Files]
    \cup [state : {"put"}, file : Files, body : Bodies]

StoreInit ==
    /\ store \in [Files -> Bodies \cup {NoBody}]
    /\ past = [f \in Files |-> {store[f]}]
    /\ op = [u \in Users |-> Idle]

Begin(u) ==
    /\ op[u] = Idle
    /\ op'[u] \in Ops
    /\ op' = [op EXCEPT ![u] = op'[u]]
    /\ UNCHANGED <<store, past>>

Get(u) ==
    /\ op[u].state = "get"
    /\ store[op[u].file] # NoBody
    /\ op' = [op EXCEPT ![u] = [state |-> "got", body |-> store[op[u].file]]]
    /\ UNCHANGED <<store, past>>

Put(u) ==
    /\ op[u].state = "put"
    /\ store' = [store EXCEPT ![op[u].file] = op[u].body]
    /\ past' = [past EXCEPT ![op[u].file] = @ \cup {op[u].body}]
    /\ op' = [op EXCEPT ![u] = [state |-> "stored"]]

Fail(u) ==
    /\ op[u].state \in {"get", "put"}
    /\ op' = [op EXCEPT ![u] = [state |-> "failed"]]
    /\ UNCHANGED <<store, past>>

End(u) ==
    /\ op[u].state \in {"got", "stored", "failed"}
    /\ op' = [op EXCEPT ![u] = Idle]
    /\ UNCHANGED <<store, past>>

\* The process dies: the operations end, the files stay.
Restart ==
    /\ op' = [u \in Users |-> Idle]
    /\ UNCHANGED <<store, past>>

\* The machine loses power: a file may be as it was at some earlier time.
Outage ==
    /\ op' = [u \in Users |-> Idle]
    /\ store' \in [Files -> Bodies \cup {NoBody}]
    /\ \A f \in Files : store'[f] \in past[f]
    /\ past' = [f \in Files |-> {store'[f]}]

StoreNext ==
    \/ \E u \in Users :
          Begin(u) \/ Get(u) \/ Put(u) \/ Fail(u) \/ End(u)
    \/ Restart
    \/ Outage

StoreSpec == StoreInit /\ [][StoreNext]_<<store, past, op>>
=============================================================================
