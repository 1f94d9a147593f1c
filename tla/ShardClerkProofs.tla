-------------------------- MODULE ShardClerkProofs --------------------------
(***************************************************************************)
(* Proofs about the clerks of the shard controller and of the sharded      *)
(* key/value service, for any number of clerks, servers, groups, values    *)
(* and configurations: what they return is the result of an execution      *)
(* during the call, and the configuration that a clerk keeps never goes    *)
(* back to an older one.                                                   *)
(***************************************************************************)
EXTENDS ShardClerk, TLAPS

-----------------------------------------------------------------------------
(* The inductive invariant.                                                *)

Replies == [wrong : BOOLEAN, config : Configs]

\* The types of the controller and of its clerks.
CtrlerTypeOK ==
    /\ config \in Configs /\ stable \in BOOLEAN /\ cleader \in 1 .. NCtrlers
    /\ cpc \in [Clerks -> {"idle", "call", "returned"}]
    /\ cop \in [Clerks -> Asked \cup {QueryOp}]
    /\ ci \in [Clerks -> 1 .. NCtrlers]
    /\ crpc \in [Clerks -> {"none", "sent", "answered"}]
    /\ creply \in [Clerks -> Replies]
    /\ executed \in [Clerks -> BOOLEAN]
    /\ began \in [Clerks -> Nat]

\* An answer counts only if it is of a server that has executed the operation
\* since it was begun.
CtrlerSound(c) ==
    /\ began[c] <= config.num
    /\ cop[c] # QueryOp => began[c] = 0
    /\ cpc[c] # "call" => crpc[c] = "none"
    /\ crpc[c] = "answered" => \/ creply[c].wrong
                               \/ /\ executed[c]
                                  /\ creply[c].config.num >= began[c]
    /\ cpc[c] = "returned" => executed[c] /\ creply[c].config.num >= began[c]
    /\ creply[c].config.num <= config.num

CtrlerInv == CtrlerTypeOK /\ \A c \in Clerks : CtrlerSound(c)

-----------------------------------------------------------------------------
(* The controller and its clerks.                                          *)

\* An operation leaves the configuration as it is or makes a new one.
LEMMA ExecutedFacts ==
    ASSUME config \in Configs, NEW new \in Configs, NEW o, Executed(o, new)
    PROVE  /\ new.num \in Nat /\ config.num \in Nat
           /\ config.num <= new.num
           /\ o = QueryOp => new = config
<1>1. new.num \in Nat /\ config.num \in Nat
  BY CtrlerAssumption DEF CtrlerAssumption, Configs
<1>2. new = config \/ new.num = config.num + 1
  BY DEF Executed
<1>3. o = QueryOp => new = config
  BY DEF Executed, QueryOp
<1> QED
  BY <1>1, <1>2, <1>3

\* The numbers that are compared.
LEMMA CtrlerNumbers ==
    ASSUME CtrlerTypeOK, NEW c \in Clerks
    PROVE  /\ config.num \in Nat /\ began[c] \in Nat
           /\ creply[c] \in Replies /\ creply[c].config.num \in Nat
<1>1. \A x \in Configs : x.num \in Nat
  BY CtrlerAssumption DEF CtrlerAssumption, Configs
<1>2. config \in Configs /\ began[c] \in Nat /\ creply[c] \in Replies
  BY DEF CtrlerTypeOK
<1>3. creply[c].config \in Configs
  BY <1>2 DEF Replies
<1> QED
  BY <1>1, <1>2, <1>3

\* Configuration 0 is one, and so the zero value of a reply is a reply.
LEMMA ZeroReply ==
    /\ Config0 \in Configs /\ Config0.num = 0
    /\ NoReply \in Replies /\ NoReply.wrong = FALSE /\ NoReply.config = Config0
<1>1. Config0 \in Configs /\ Config0.num = 0
  BY CtrlerAssumption DEF CtrlerAssumption, Config0, Configs
<1> QED
  BY <1>1 DEF NoReply, Replies

\* A step of one clerk, after which the configuration is no older.
LEMMA OneClerk ==
    ASSUME CtrlerInv, CtrlerTypeOK', NEW c \in Clerks,
           config.num <= config'.num, CtrlerSound(c)',
           \A d \in Clerks \ {c} :
              /\ cpc'[d] = cpc[d] /\ cop'[d] = cop[d] /\ crpc'[d] = crpc[d]
              /\ creply'[d] = creply[d] /\ executed'[d] = executed[d]
              /\ began'[d] = began[d]
    PROVE  CtrlerInv'
<1>1. ASSUME NEW d \in Clerks \ {c} PROVE CtrlerSound(d)'
  <2>1. CtrlerSound(d)
    BY DEF CtrlerInv
  <2>2. /\ config.num \in Nat /\ began[d] \in Nat
        /\ creply[d].config.num \in Nat
    BY CtrlerNumbers DEF CtrlerInv
  <2>3. config'.num \in Nat
    <3>1. config' \in Configs
      BY DEF CtrlerTypeOK
    <3> QED
      BY <3>1, CtrlerAssumption DEF CtrlerAssumption, Configs
  <2>4. began[d] <= config'.num /\ creply[d].config.num <= config'.num
    BY <2>1, <2>2, <2>3 DEF CtrlerSound
  <2> QED
    BY <2>1, <2>4 DEF CtrlerSound
<1> QED
  BY <1>1 DEF CtrlerInv

\* The configuration changes, the clerks do not.
LEMMA NoClerk ==
    ASSUME CtrlerInv, CtrlerTypeOK', config.num <= config'.num,
           UNCHANGED ctrlerVars
    PROVE  CtrlerInv'
<1>1. ASSUME NEW d \in Clerks PROVE CtrlerSound(d)'
  <2>1. CtrlerSound(d)
    BY DEF CtrlerInv
  <2>2. /\ config.num \in Nat /\ began[d] \in Nat
        /\ creply[d].config.num \in Nat
    BY CtrlerNumbers DEF CtrlerInv
  <2>3. config'.num \in Nat
    <3>1. config' \in Configs
      BY DEF CtrlerTypeOK
    <3> QED
      BY <3>1, CtrlerAssumption DEF CtrlerAssumption, Configs
  <2>4. began[d] <= config'.num /\ creply[d].config.num <= config'.num
    BY <2>1, <2>2, <2>3 DEF CtrlerSound
  <2> QED
    BY <2>1, <2>4 DEF CtrlerSound, ctrlerVars
<1> QED
  BY <1>1 DEF CtrlerInv

\* A server executes the operation of c, or says that it is not the leader.
LEMMA HandlesKeeps ==
    ASSUME CtrlerInv, NEW c \in Clerks, CtrlerHandles(c)
    PROVE  CtrlerInv' /\ config.num <= config'.num
<1>1. CtrlerTypeOK /\ CtrlerSound(c)
  BY DEF CtrlerInv
<1>2. /\ crpc[c] = "sent" /\ crpc' = [crpc EXCEPT ![c] = "answered"]
      /\ UNCHANGED <<stable, cleader, late, cpc, cop, ci, began>>
  BY DEF CtrlerHandles
<1>3. /\ creply[c] \in Replies /\ creply \in [Clerks -> Replies]
      /\ executed \in [Clerks -> BOOLEAN] /\ config \in Configs
      /\ crpc \in [Clerks -> {"none", "sent", "answered"}]
  BY <1>1 DEF CtrlerTypeOK
<1>4. config.num \in Nat /\ began[c] \in Nat /\ creply[c].config.num \in Nat
  BY <1>1, CtrlerNumbers
<1>5. PICK r \in Replies, e \in BOOLEAN :
         /\ creply' = [creply EXCEPT ![c] = r]
         /\ executed' = [executed EXCEPT ![c] = e]
         /\ config' \in Configs /\ config.num <= config'.num
         /\ r.wrong \/ (e /\ r.config.num >= began[c])
         /\ r.config.num <= config'.num
  <2>1. CASE /\ creply' = [creply EXCEPT ![c].wrong = TRUE]
             /\ UNCHANGED <<config, executed>>
    <3> DEFINE r == [creply[c] EXCEPT !.wrong = TRUE]
    <3>1. r \in Replies /\ r.wrong /\ r.config = creply[c].config
      BY <1>3 DEF Replies
    <3>2. creply' = [creply EXCEPT ![c] = r]
      BY <2>1
    <3> HIDE DEF r
    <3>3. executed' = [executed EXCEPT ![c] = executed[c]]
      BY <1>3, <2>1
    <3>4. /\ config' \in Configs /\ config.num <= config'.num
          /\ r.config.num <= config'.num
      BY <1>1, <1>3, <1>4, <2>1, <3>1 DEF CtrlerSound
    <3>5. executed[c] \in BOOLEAN
      BY <1>3
    <3> QED
      BY <3>1, <3>2, <3>3, <3>4, <3>5
  <2>2. CASE /\ \E new \in Configs :
                   /\ Executed(cop[c], new)
                   /\ config' = new
                   /\ creply' = [creply EXCEPT ![c].config =
                                    IF cop[c] = QueryOp THEN new ELSE Config0]
             /\ executed' = [executed EXCEPT ![c] = TRUE]
    <3>1. PICK new \in Configs :
             /\ Executed(cop[c], new)
             /\ config' = new
             /\ creply' = [creply EXCEPT ![c].config =
                              IF cop[c] = QueryOp THEN new ELSE Config0]
      BY <2>2
    <3>2. /\ new.num \in Nat /\ config.num <= new.num
          /\ cop[c] = QueryOp => new = config
      BY <1>3, <3>1, ExecutedFacts
    <3> DEFINE x == IF cop[c] = QueryOp THEN new ELSE Config0
               r == [creply[c] EXCEPT !.config = x]
    <3>3. x \in Configs /\ x.num >= began[c] /\ x.num <= new.num
      BY <1>1, <1>4, <3>2, ZeroReply DEF CtrlerSound
    <3>4. creply' = [creply EXCEPT ![c] = r]
      BY <3>1
    <3> HIDE DEF x
    <3>5. r \in Replies /\ r.config = x
      BY <1>3, <3>3 DEF Replies
    <3> HIDE DEF r
    <3> QED
      BY <2>2, <3>1, <3>2, <3>3, <3>4, <3>5
  <2> QED
    BY <2>1, <2>2 DEF CtrlerHandles
<1>6. CtrlerTypeOK'
  <2>1. /\ crpc' \in [Clerks -> {"none", "sent", "answered"}]
        /\ creply' \in [Clerks -> Replies]
        /\ executed' \in [Clerks -> BOOLEAN]
    BY <1>2, <1>3, <1>5
  <2> QED
    BY <1>1, <1>2, <1>5, <2>1 DEF CtrlerTypeOK
<1>7. /\ crpc'[c] = "answered" /\ creply'[c] = r /\ executed'[c] = e
      /\ \A d \in Clerks \ {c} : /\ crpc'[d] = crpc[d]
                                 /\ creply'[d] = creply[d]
                                 /\ executed'[d] = executed[d]
  BY <1>2, <1>3, <1>5
<1>8. CtrlerSound(c)'
  <2>1. cpc[c] = "call"
    BY <1>1, <1>2 DEF CtrlerSound
  <2>2. began[c] <= config'.num
    <3>1. config'.num \in Nat
      BY <1>5, CtrlerAssumption DEF CtrlerAssumption, Configs
    <3> QED
      BY <1>1, <1>4, <1>5, <3>1 DEF CtrlerSound
  <2> QED
    BY <1>1, <1>2, <1>5, <1>7, <2>1, <2>2 DEF CtrlerSound
<1> QED
  BY <1>2, <1>5, <1>6, <1>7, <1>8, OneClerk

\* What was asked by a call that failed is done after all.
LEMMA LateKeeps ==
    ASSUME CtrlerInv, NEW o, CtrlerHandlesLate(o)
    PROVE  CtrlerInv' /\ config.num <= config'.num
<1>1. CtrlerTypeOK /\ config \in Configs
  BY DEF CtrlerInv, CtrlerTypeOK
<1>2. PICK new \in Configs : Executed(o, new) /\ config' = new
  BY DEF CtrlerHandlesLate
<1>3. config' \in Configs /\ config.num <= config'.num
  BY <1>1, <1>2, ExecutedFacts
<1>4. UNCHANGED <<stable, cleader, ctrlerVars>>
  BY DEF CtrlerHandlesLate
<1>5. CtrlerTypeOK'
  BY <1>1, <1>3, <1>4 DEF CtrlerTypeOK, ctrlerVars
<1> QED
  BY <1>3, <1>4, <1>5, NoClerk

\* The clerk calls a server.
LEMMA CallFacts ==
    ASSUME CtrlerTypeOK, NEW c \in Clerks, NEW i \in 1 .. NCtrlers,
           CtrlerCall(c, i)
    PROVE  /\ cpc' \in [Clerks -> {"idle", "call", "returned"}]
           /\ ci' \in [Clerks -> 1 .. NCtrlers]
           /\ crpc' \in [Clerks -> {"none", "sent", "answered"}]
           /\ creply' \in [Clerks -> Replies]
           /\ cpc'[c] = "call" /\ crpc'[c] = "sent"
           /\ creply'[c].config.num = 0
           /\ \A d \in Clerks \ {c} :
                 /\ cpc'[d] = cpc[d] /\ crpc'[d] = crpc[d]
                 /\ creply'[d] = creply[d]
<1>1. /\ cpc \in [Clerks -> {"idle", "call", "returned"}]
      /\ ci \in [Clerks -> 1 .. NCtrlers]
      /\ crpc \in [Clerks -> {"none", "sent", "answered"}]
      /\ creply \in [Clerks -> Replies]
  BY DEF CtrlerTypeOK
<1>2. /\ cpc' = [cpc EXCEPT ![c] = "call"] /\ ci' = [ci EXCEPT ![c] = i]
      /\ crpc' = [crpc EXCEPT ![c] = "sent"]
      /\ creply' = [creply EXCEPT ![c] = NoReply]
  BY DEF CtrlerCall
<1> QED
  BY <1>1, <1>2, ZeroReply

\* Query, Join, Leave or Move begins.
LEMMA BeginKeeps ==
    ASSUME CtrlerInv, NEW c \in Clerks, NEW o \in Asked \cup {QueryOp},
           Begin(c, o)
    PROVE  CtrlerInv' /\ config' = config /\ late' = late
           /\ cpc'[c] = "call" /\ cop'[c] = o
           /\ (o = QueryOp => began'[c] = config.num)
<1>1. CtrlerTypeOK /\ CtrlerSound(c)
  BY DEF CtrlerInv
<1>2. 1 \in 1 .. NCtrlers
  BY CtrlerAssumption DEF CtrlerAssumption
<1>3. config.num \in Nat
  BY <1>1, CtrlerNumbers
<1>4. CtrlerCall(c, 1) /\ UNCHANGED <<config, stable, cleader, late>>
  BY DEF Begin, serviceVars
<1>5. /\ cop' \in [Clerks -> Asked \cup {QueryOp}] /\ cop'[c] = o
      /\ \A d \in Clerks \ {c} : cop'[d] = cop[d]
  BY <1>1 DEF Begin, CtrlerTypeOK
<1>6. /\ executed' \in [Clerks -> BOOLEAN]
      /\ \A d \in Clerks \ {c} : executed'[d] = executed[d]
  BY <1>1 DEF Begin, CtrlerTypeOK
<1>7. /\ began' \in [Clerks -> Nat]
      /\ began'[c] = (IF o = QueryOp THEN config.num ELSE 0)
      /\ \A d \in Clerks \ {c} : began'[d] = began[d]
  BY <1>1, <1>3 DEF Begin, CtrlerTypeOK
<1>8. /\ cpc' \in [Clerks -> {"idle", "call", "returned"}]
      /\ ci' \in [Clerks -> 1 .. NCtrlers]
      /\ crpc' \in [Clerks -> {"none", "sent", "answered"}]
      /\ creply' \in [Clerks -> Replies]
      /\ cpc'[c] = "call" /\ crpc'[c] = "sent"
      /\ creply'[c].config.num = 0
      /\ \A d \in Clerks \ {c} :
            /\ cpc'[d] = cpc[d] /\ crpc'[d] = crpc[d]
            /\ creply'[d] = creply[d]
  BY <1>1, <1>2, <1>4, CallFacts
<1>9. CtrlerTypeOK'
  BY <1>1, <1>4, <1>5, <1>6, <1>7, <1>8 DEF CtrlerTypeOK
<1>10. CtrlerSound(c)'
  BY <1>3, <1>4, <1>5, <1>7, <1>8 DEF CtrlerSound
<1>11. CtrlerInv'
  BY <1>3, <1>4, <1>5, <1>6, <1>7, <1>8, <1>9, <1>10, OneClerk
<1> QED
  BY <1>4, <1>5, <1>7, <1>8, <1>11

\* A call returns: the operation with it, or the next server is tried.
LEMMA ReturnsKeeps ==
    ASSUME CtrlerInv, NEW c \in Clerks, NEW ok \in BOOLEAN,
           CtrlerReturns(c, ok)
    PROVE  /\ CtrlerInv' /\ UNCHANGED <<config, cop, began>>
           /\ cpc'[c] \in {"call", "returned"} /\ cpc[c] = "call"
           /\ late' = late \/ (late' = late \cup {cop[c]} /\ cop[c] # QueryOp)
<1>1. CtrlerTypeOK /\ CtrlerSound(c)
  BY DEF CtrlerInv
<1>2. /\ cpc[c] = "call" /\ (ok => crpc[c] = "answered")
      /\ UNCHANGED <<config, stable, cleader, cop, executed, began>>
      /\ late' = late \/ (late' = late \cup {cop[c]} /\ cop[c] # QueryOp)
  BY DEF CtrlerReturns, serviceVars
<1>3. config.num \in Nat /\ began[c] \in Nat
  BY <1>1, CtrlerNumbers
<1> DEFINE r == Decoded(ok, creply[c], NoReply)
<1>4. CASE /\ Accepts(ok, r)
           /\ cpc' = [cpc EXCEPT ![c] = "returned"]
           /\ crpc' = [crpc EXCEPT ![c] = "none"]
           /\ creply' = [creply EXCEPT ![c] = r]
           /\ ci' = ci
  <2>1. ok /\ r = creply[c] /\ creply[c].wrong = FALSE
    BY <1>4 DEF Accepts, Decoded
  <2>2. executed[c] /\ creply[c].config.num >= began[c]
    BY <1>1, <1>2, <2>1 DEF CtrlerSound
  <2>3. /\ cpc' \in [Clerks -> {"idle", "call", "returned"}]
        /\ crpc' \in [Clerks -> {"none", "sent", "answered"}]
        /\ cpc'[c] = "returned" /\ crpc'[c] = "none"
        /\ \A d \in Clerks \ {c} : cpc'[d] = cpc[d] /\ crpc'[d] = crpc[d]
    BY <1>1, <1>4 DEF CtrlerTypeOK
  <2>4. creply' = creply
    BY <1>1, <1>4, <2>1 DEF CtrlerTypeOK
  <2>5. CtrlerTypeOK'
    BY <1>1, <1>2, <1>4, <2>3, <2>4 DEF CtrlerTypeOK
  <2>6. CtrlerSound(c)'
    BY <1>1, <1>2, <2>2, <2>3, <2>4 DEF CtrlerSound
  <2>7. CtrlerInv'
    BY <1>2, <1>3, <2>3, <2>4, <2>5, <2>6, OneClerk
  <2> QED
    BY <1>2, <2>3, <2>7
<1>5. CASE CtrlerCall(c, IF ci[c] < NCtrlers THEN ci[c] + 1 ELSE 1)
  <2> DEFINE i == IF ci[c] < NCtrlers THEN ci[c] + 1 ELSE 1
  <2>1. i \in 1 .. NCtrlers
    <3>1. ci[c] \in 1 .. NCtrlers /\ NCtrlers \in Nat \ {0}
      BY <1>1, CtrlerAssumption DEF CtrlerAssumption, CtrlerTypeOK
    <3> QED
      BY <3>1
  <2> HIDE DEF i
  <2>2. /\ cpc' \in [Clerks -> {"idle", "call", "returned"}]
        /\ ci' \in [Clerks -> 1 .. NCtrlers]
        /\ crpc' \in [Clerks -> {"none", "sent", "answered"}]
        /\ creply' \in [Clerks -> Replies]
        /\ cpc'[c] = "call" /\ crpc'[c] = "sent"
        /\ creply'[c].config.num = 0
        /\ \A d \in Clerks \ {c} :
              /\ cpc'[d] = cpc[d] /\ crpc'[d] = crpc[d]
              /\ creply'[d] = creply[d]
    BY <1>1, <1>5, <2>1, CallFacts DEF i
  <2>3. CtrlerTypeOK'
    BY <1>1, <1>2, <2>2 DEF CtrlerTypeOK
  <2>4. CtrlerSound(c)'
    BY <1>1, <1>2, <1>3, <2>2 DEF CtrlerSound
  <2>5. CtrlerInv'
    BY <1>2, <1>3, <2>2, <2>3, <2>4, OneClerk
  <2> QED
    BY <1>2, <2>2, <2>5
<1> QED
  BY <1>4, <1>5 DEF CtrlerReturns

\* The caller goes on with the result.
LEMMA DoneKeeps ==
    ASSUME CtrlerInv, NEW c \in Clerks, CtrlerDone(c)
    PROVE  /\ CtrlerInv' /\ config' = config /\ late' = late
           /\ cpc[c] = "returned" /\ cpc'[c] = "idle"
<1>1. CtrlerTypeOK /\ CtrlerSound(c)
  BY DEF CtrlerInv
<1>2. cpc[c] = "returned" /\ UNCHANGED <<config, stable, cleader, late, crpc>>
  BY DEF CtrlerDone, serviceVars
<1>3. 1 \in 1 .. NCtrlers /\ config.num \in Nat
  BY <1>1, CtrlerNumbers, CtrlerAssumption DEF CtrlerAssumption
<1>4. /\ cpc' \in [Clerks -> {"idle", "call", "returned"}]
      /\ cop' \in [Clerks -> Asked \cup {QueryOp}]
      /\ ci' \in [Clerks -> 1 .. NCtrlers]
      /\ creply' \in [Clerks -> Replies]
      /\ executed' \in [Clerks -> BOOLEAN]
      /\ began' \in [Clerks -> Nat]
  BY <1>1, <1>3, ZeroReply DEF CtrlerDone, CtrlerTypeOK
<1>5. cpc'[c] = "idle" /\ began'[c] = 0 /\ creply'[c].config.num = 0
  BY <1>1, ZeroReply DEF CtrlerDone, CtrlerTypeOK
<1>6. \A d \in Clerks \ {c} :
         /\ cpc'[d] = cpc[d] /\ cop'[d] = cop[d] /\ creply'[d] = creply[d]
         /\ executed'[d] = executed[d] /\ began'[d] = began[d]
  BY <1>1 DEF CtrlerDone, CtrlerTypeOK
<1>7. CtrlerTypeOK'
  BY <1>1, <1>2, <1>4 DEF CtrlerTypeOK
<1>8. CtrlerSound(c)'
  <2>1. crpc[c] = "none"
    BY <1>1, <1>2 DEF CtrlerSound
  <2> QED
    BY <1>2, <1>3, <1>5, <2>1 DEF CtrlerSound
<1>9. CtrlerInv'
  BY <1>2, <1>3, <1>6, <1>7, <1>8, OneClerk
<1> QED
  BY <1>2, <1>5, <1>9
-----------------------------------------------------------------------------
(* The clerks of the sharded service.                                      *)

Contents == Values \cup {NoValue}
Answers ==
    [err : {"", "OK", "ErrNoKey", "ErrWrongGroup", "ErrWrongLeader"},
     value : Contents]

\* The types of the groups and of the clerks.
KvTypeOK ==
    /\ late \subseteq Asked \cup Puts
    /\ serving \in Gids \cup {0} /\ leader \in [Gids -> Nat]
    /\ value \in Contents
    /\ kpc \in [KvClerks -> {"idle", "call", "sleep", "query", "returned"}]
    /\ op \in [KvClerks -> {Get} \cup Puts]
    /\ si \in [KvClerks -> Nat]
    /\ rpc \in [KvClerks -> {"none", "sent", "answered"}]
    /\ reply \in [KvClerks -> Answers]
    /\ cached \in [KvClerks -> Configs]
    /\ done \in [KvClerks -> BOOLEAN]
    /\ held \in [KvClerks -> SUBSET Contents]

\* The result in the reply of k is the result of an execution during the call.
Real(k) == done[k] /\ (op[k] = Get => reply[k].value \in held[k])

\* The clerk calls servers that the group has, and takes an answer for a
\* result only if a server has executed the operation meanwhile.
KvSound(k) ==
    /\ kpc[k] # "call" => rpc[k] = "none"
    /\ kpc[k] = "call" => /\ cached[k].gid \in Gids
                          /\ si[k] \in 1 .. NServers[cached[k].gid]
    /\ kpc[k] # "idle" /\ op[k] = Get => value \in held[k]
    /\ rpc[k] = "answered" /\ reply[k].err \in Success(op[k]) => Real(k)
    /\ kpc[k] = "returned" => Real(k)

\* The configuration that is kept is no newer than the latest one, nor than
\* what Query is to return.
CacheSound(k) ==
    /\ cached[k].num <= config.num
    /\ kpc[k] = "query" => cached[k].num <= began[k]

ShardInv ==
    /\ CtrlerInv
    /\ KvTypeOK
    /\ \A k \in KvClerks : KvSound(k) /\ CacheSound(k)

\* The numbers of configurations.
LEMMA CacheNumbers ==
    ASSUME CtrlerInv, KvTypeOK, NEW k \in KvClerks
    PROVE  /\ config.num \in Nat /\ cached[k].num \in Nat /\ began[k] \in Nat
           /\ creply[k].config \in Configs /\ creply[k].config.num \in Nat
<1>1. k \in Clerks
  BY ShardAssumption DEF ShardAssumption
<1>2. cached[k] \in Configs
  BY DEF KvTypeOK
<1>3. cached[k].num \in Nat
  BY <1>2, CtrlerAssumption DEF CtrlerAssumption, Configs
<1>4. creply[k] \in Replies
  BY <1>1 DEF CtrlerInv, CtrlerTypeOK
<1> QED
  BY <1>1, <1>3, <1>4, CtrlerNumbers DEF CtrlerInv, Replies

\* A step that changes nothing of clerk j but what it knows of the values.
LEMMA OtherKv ==
    ASSUME ShardInv, CtrlerInv', KvTypeOK', NEW j \in KvClerks,
           config.num <= config'.num, began'[j] = began[j],
           kpc'[j] = kpc[j], op'[j] = op[j], si'[j] = si[j],
           rpc'[j] = rpc[j], reply'[j] = reply[j], cached'[j] = cached[j],
           done'[j] = done[j], held[j] \subseteq held'[j],
           value \in held[j] => value' \in held'[j]
    PROVE  KvSound(j)' /\ CacheSound(j)'
<1>1. KvSound(j) /\ CacheSound(j)
  BY DEF ShardInv
<1>2. KvSound(j)'
  <2>1. Real(j) => Real(j)'
    BY DEF Real
  <2> QED
    BY <1>1, <2>1 DEF KvSound, Success
<1>3. CacheSound(j)'
  <2>1. config.num \in Nat /\ cached[j].num \in Nat
    BY CacheNumbers DEF ShardInv
  <2>2. config'.num \in Nat
    <3>1. config' \in Configs
      BY DEF CtrlerInv, CtrlerTypeOK
    <3> QED
      BY <3>1, CtrlerAssumption DEF CtrlerAssumption, Configs
  <2>3. cached[j].num <= config'.num
    BY <1>1, <2>1, <2>2 DEF CacheSound
  <2> QED
    BY <1>1, <2>3 DEF CacheSound
<1> QED
  BY <1>2, <1>3

\* A step that changes no clerk.
LEMMA NoKv ==
    ASSUME ShardInv, CtrlerInv', KvTypeOK', config.num <= config'.num,
           UNCHANGED <<kpc, op, si, rpc, reply, cached, done>>,
           \A j \in KvClerks : /\ began'[j] = began[j]
                               /\ held[j] \subseteq held'[j]
                               /\ value \in held[j] => value' \in held'[j]
    PROVE  ShardInv'
<1>1. \A j \in KvClerks : KvSound(j)' /\ CacheSound(j)'
  BY OtherKv
<1> QED
  BY <1>1 DEF ShardInv

\* A step of clerk k that leaves the controller, and the others, as they are.
LEMMA OneKv ==
    ASSUME ShardInv, KvTypeOK', NEW k \in KvClerks,
           UNCHANGED <<serviceVars, ctrlerVars>>,
           \A j \in KvClerks \ {k} :
              /\ kpc'[j] = kpc[j] /\ op'[j] = op[j] /\ si'[j] = si[j]
              /\ rpc'[j] = rpc[j] /\ reply'[j] = reply[j]
              /\ cached'[j] = cached[j] /\ done'[j] = done[j]
              /\ held[j] \subseteq held'[j]
              /\ value \in held[j] => value' \in held'[j],
           KvSound(k)', cached'[k] = cached[k], kpc'[k] # "query"
    PROVE  ShardInv'
<1>1. CtrlerInv /\ CtrlerTypeOK /\ config.num \in Nat
  BY CacheNumbers DEF ShardInv, CtrlerInv
<1>2. CtrlerInv'
  <2>1. CtrlerTypeOK'
    BY <1>1 DEF CtrlerTypeOK, serviceVars, ctrlerVars
  <2>2. config.num <= config'.num
    BY <1>1 DEF serviceVars
  <2> QED
    BY <1>1, <2>1, <2>2, NoClerk
<1>3. \A j \in KvClerks : began'[j] = began[j]
  BY DEF ctrlerVars
<1>4. config.num <= config'.num /\ config' = config
  BY <1>1 DEF serviceVars
<1>5. \A j \in KvClerks \ {k} : KvSound(j)' /\ CacheSound(j)'
  BY <1>2, <1>3, <1>4, OtherKv
<1>6. CacheSound(k)'
  BY <1>4 DEF ShardInv, CacheSound
<1> QED
  BY <1>2, <1>5, <1>6 DEF ShardInv

\* A value is written.
LEMMA WriteFacts ==
    ASSUME KvTypeOK, NEW v \in Contents, Write(v)
    PROVE  /\ value' = v /\ held' \in [KvClerks -> SUBSET Contents]
           /\ \A j \in KvClerks : /\ held[j] \subseteq held'[j]
                                  /\ value \in held[j] => value' \in held'[j]
<1>1. held \in [KvClerks -> SUBSET Contents]
  BY DEF KvTypeOK
<1>2. /\ value' = v
      /\ held' = [j \in KvClerks |->
                    IF held[j] = {} THEN {} ELSE held[j] \cup {v}]
  BY DEF Write
<1>3. \A j \in KvClerks : held'[j] = IF held[j] = {} THEN {} ELSE held[j] \cup {v}
  BY <1>2
<1>4. held' \in [KvClerks -> SUBSET Contents]
  BY <1>1, <1>2
<1> QED
  BY <1>2, <1>3, <1>4

\* What is asked and what is answered.
LEMMA OpFacts ==
    /\ Get \notin Puts /\ Get.name = "Get" /\ NoAnswer \in Answers
    /\ \A o \in Puts : o.name = "PutAppend" /\ o.value \in Values
    /\ Success(Get) = {"OK", "ErrNoKey"}
    /\ \A o \in {Get} \cup Puts :
          /\ "" \notin Success(o) /\ "ErrWrongGroup" \notin Success(o)
          /\ "ErrWrongLeader" \notin Success(o)
          /\ Success(o) \subseteq {"OK", "ErrNoKey"}
<1>1. \A o \in Puts : o.name = "PutAppend" /\ o.value \in Values
  BY DEF Puts
<1>2. Get.name = "Get"
  BY DEF Get
<1>3. Get \notin Puts
  BY <1>1, <1>2
<1>4. NoAnswer \in Answers
  BY DEF NoAnswer, Answers, Contents
<1> QED
  BY <1>1, <1>2, <1>3, <1>4 DEF Success

\* A server answers.
LEMMA AnswerFacts ==
    ASSUME KvTypeOK, NEW k \in KvClerks, NEW v \in Contents,
           NEW err \in {"OK", "ErrNoKey", "ErrWrongGroup", "ErrWrongLeader"},
           Answer(k, err, v)
    PROVE  /\ rpc' \in [KvClerks -> {"none", "sent", "answered"}]
           /\ reply' \in [KvClerks -> Answers]
           /\ rpc'[k] = "answered" /\ reply'[k].err = err
           /\ reply'[k].value = v
           /\ \A j \in KvClerks \ {k} :
                 rpc'[j] = rpc[j] /\ reply'[j] = reply[j]
           /\ UNCHANGED <<serviceVars, late, ctrlerVars, serving, leader, kpc,
                          op, si, cached>>
<1> DEFINE a == [err |-> err, value |-> v]
<1>1. a \in Answers /\ a.err = err /\ a.value = v
  BY DEF Answers
<1>2. /\ rpc' = [rpc EXCEPT ![k] = "answered"]
      /\ reply' = [reply EXCEPT ![k] = a]
      /\ UNCHANGED <<serviceVars, late, ctrlerVars, serving, leader, kpc, op,
                     si, cached>>
  BY DEF Answer
<1> HIDE DEF a
<1> QED
  BY <1>1, <1>2 DEF KvTypeOK

\* A server that is in charge executes the operation.
LEMMA ExecutesKeeps ==
    ASSUME ShardInv, NEW k \in KvClerks, ServerExecutes(k)
    PROVE  ShardInv'
<1>1. KvTypeOK /\ KvSound(k) /\ value \in Contents /\ NoValue \in Contents
      /\ op[k] \in {Get} \cup Puts
  BY DEF ShardInv, KvTypeOK, Contents
<1>2. rpc[k] = "sent" /\ done' = [done EXCEPT ![k] = TRUE]
  BY DEF ServerExecutes
<1>3. kpc[k] = "call"
  BY <1>1, <1>2 DEF KvSound
<1>4. /\ done' \in [KvClerks -> BOOLEAN] /\ done'[k] = TRUE
      /\ \A j \in KvClerks \ {k} : done'[j] = done[j]
  BY <1>1, <1>2 DEF KvTypeOK
<1>5. PICK v \in Contents, err \in {"OK", "ErrNoKey"} :
         /\ Answer(k, err, v)
         /\ op[k] = Get => v = value
         /\ \/ UNCHANGED <<value, held>>
            \/ op[k] \in Puts /\ Write(op[k].value)
  <2>1. CASE /\ op[k].name = "Get"
             /\ Answer(k, IF value = NoValue THEN "ErrNoKey" ELSE "OK", value)
             /\ UNCHANGED <<value, held>>
    BY <1>1, <2>1
  <2>2. CASE /\ op[k].name = "PutAppend"
             /\ Answer(k, "OK", NoValue)
             /\ Write(op[k].value)
    <3>1. op[k] # Get /\ op[k] \in Puts
      BY <1>1, <2>2, OpFacts
    <3> QED
      BY <1>1, <2>2, <3>1
  <2> QED
    BY <2>1, <2>2 DEF ServerExecutes
<1>6. /\ rpc' \in [KvClerks -> {"none", "sent", "answered"}]
      /\ reply' \in [KvClerks -> Answers]
      /\ rpc'[k] = "answered" /\ reply'[k].err = err /\ reply'[k].value = v
      /\ \A j \in KvClerks \ {k} : rpc'[j] = rpc[j] /\ reply'[j] = reply[j]
      /\ UNCHANGED <<serviceVars, late, ctrlerVars, serving, leader, kpc, op,
                     si, cached>>
  BY <1>1, <1>5, AnswerFacts
<1>7. /\ value' \in Contents /\ held' \in [KvClerks -> SUBSET Contents]
      /\ \A j \in KvClerks : /\ held[j] \subseteq held'[j]
                             /\ value \in held[j] => value' \in held'[j]
  <2>1. CASE UNCHANGED <<value, held>>
    BY <1>1, <2>1 DEF KvTypeOK
  <2>2. CASE op[k] \in Puts /\ Write(op[k].value)
    <3>1. op[k].value \in Contents
      BY <2>2, OpFacts DEF Contents
    <3> QED
      BY <1>1, <2>2, <3>1, WriteFacts
  <2> QED
    BY <1>5, <2>1, <2>2
<1>8. KvTypeOK'
  BY <1>1, <1>4, <1>6, <1>7 DEF KvTypeOK
<1>9. KvSound(k)'
  <2>1. op[k] = Get => value \in held[k] /\ v \in held'[k]
    BY <1>1, <1>3, <1>5, <1>7 DEF KvSound
  <2>2. Real(k)'
    BY <1>4, <1>6, <2>1 DEF Real
  <2> QED
    BY <1>1, <1>3, <1>6, <1>7, <2>1, <2>2 DEF KvSound
<1> QED
  BY <1>3, <1>4, <1>6, <1>7, <1>8, <1>9, OneKv

\* A server that is not in charge says so.
LEMMA RefusesKeeps ==
    ASSUME ShardInv, NEW k \in KvClerks, ServerRefuses(k)
    PROVE  ShardInv'
<1>1. KvTypeOK /\ KvSound(k) /\ NoValue \in Contents
      /\ op[k] \in {Get} \cup Puts
  BY DEF ShardInv, KvTypeOK, Contents
<1>2. rpc[k] = "sent" /\ UNCHANGED <<value, held, done>>
  BY DEF ServerRefuses
<1>3. kpc[k] = "call"
  BY <1>1, <1>2 DEF KvSound
<1>4. PICK err \in {"ErrWrongGroup", "ErrWrongLeader"} : Answer(k, err, NoValue)
  BY DEF ServerRefuses
<1>5. /\ rpc' \in [KvClerks -> {"none", "sent", "answered"}]
      /\ reply' \in [KvClerks -> Answers]
      /\ reply'[k].err = err
      /\ \A j \in KvClerks \ {k} : rpc'[j] = rpc[j] /\ reply'[j] = reply[j]
      /\ UNCHANGED <<serviceVars, late, ctrlerVars, serving, leader, kpc, op,
                     si, cached>>
  BY <1>1, <1>4, AnswerFacts
<1>6. KvTypeOK'
  BY <1>1, <1>2, <1>5 DEF KvTypeOK
<1>7. err \notin Success(op[k])
  BY <1>1, OpFacts
<1>8. KvSound(k)'
  BY <1>1, <1>2, <1>3, <1>5, <1>7 DEF KvSound, Success
<1> QED
  BY <1>2, <1>3, <1>5, <1>6, <1>8, OneKv

\* The clerk calls a server of the group or sleeps.
LEMMA TryFacts ==
    ASSUME KvTypeOK, NEW k \in KvClerks, NEW i \in Nat,
           Call(k, i) \/ Sleep(k)
    PROVE  /\ kpc' \in [KvClerks ->
                         {"idle", "call", "sleep", "query", "returned"}]
           /\ si' \in [KvClerks -> Nat]
           /\ rpc' \in [KvClerks -> {"none", "sent", "answered"}]
           /\ reply' \in [KvClerks -> Answers]
           /\ \A j \in KvClerks \ {k} :
                 /\ kpc'[j] = kpc[j] /\ si'[j] = si[j] /\ rpc'[j] = rpc[j]
                 /\ reply'[j] = reply[j]
           /\ \/ kpc'[k] = "call" /\ si'[k] = i /\ rpc'[k] = "sent" /\ Call(k, i)
              \/ kpc'[k] = "sleep" /\ rpc'[k] = "none" /\ Sleep(k)
<1>1. PICK p \in {"call", "sleep"}, n \in Nat, r \in {"none", "sent"} :
         /\ kpc' = [kpc EXCEPT ![k] = p] /\ si' = [si EXCEPT ![k] = n]
         /\ rpc' = [rpc EXCEPT ![k] = r]
         /\ reply' = [reply EXCEPT ![k] = NoAnswer]
         /\ \/ p = "call" /\ n = i /\ r = "sent" /\ Call(k, i)
            \/ p = "sleep" /\ r = "none" /\ Sleep(k)
  BY DEF Call, Sleep
<1>2. /\ kpc \in [KvClerks -> {"idle", "call", "sleep", "query", "returned"}]
      /\ si \in [KvClerks -> Nat] /\ reply \in [KvClerks -> Answers]
      /\ rpc \in [KvClerks -> {"none", "sent", "answered"}]
  BY DEF KvTypeOK
<1>3. /\ kpc' \in [KvClerks -> {"idle", "call", "sleep", "query", "returned"}]
      /\ rpc' \in [KvClerks -> {"none", "sent", "answered"}]
      /\ kpc'[k] = p /\ rpc'[k] = r
      /\ \A j \in KvClerks \ {k} : kpc'[j] = kpc[j] /\ rpc'[j] = rpc[j]
  BY <1>1, <1>2
<1>4. /\ si' \in [KvClerks -> Nat] /\ reply' \in [KvClerks -> Answers]
      /\ si'[k] = n
      /\ \A j \in KvClerks \ {k} : si'[j] = si[j] /\ reply'[j] = reply[j]
  BY <1>1, <1>2, OpFacts
<1> QED
  BY <1>1, <1>3, <1>4

\* The loop over the servers begins, if the configuration has the group.
LEMMA LookupFacts ==
    ASSUME KvTypeOK, NEW k \in KvClerks, NEW c \in Configs, Lookup(k, c)
    PROVE  /\ kpc' \in [KvClerks ->
                         {"idle", "call", "sleep", "query", "returned"}]
           /\ si' \in [KvClerks -> Nat]
           /\ rpc' \in [KvClerks -> {"none", "sent", "answered"}]
           /\ reply' \in [KvClerks -> Answers]
           /\ \A j \in KvClerks \ {k} :
                 /\ kpc'[j] = kpc[j] /\ si'[j] = si[j] /\ rpc'[j] = rpc[j]
                 /\ reply'[j] = reply[j]
           /\ kpc'[k] \in {"call", "sleep"} /\ rpc'[k] # "answered"
           /\ kpc'[k] # "call" => rpc'[k] = "none"
           /\ kpc'[k] = "call" => c.gid \in Gids /\ si'[k] \in 1 .. NServers[c.gid]
<1>1. /\ c.gid \in c.groups => c.gid \in Gids /\ 1 \in 1 .. NServers[c.gid]
  BY ShardAssumption DEF ShardAssumption, Configs
<1>2. CASE c.gid \in c.groups /\ Call(k, 1)
  <2>1. kpc'[k] = "call" \/ kpc'[k] = "sleep"
    BY <1>2, TryFacts
  <2>2. kpc'[k] = "call" /\ si'[k] = 1 /\ rpc'[k] = "sent"
    BY <1>2 DEF Call, KvTypeOK
  <2> QED
    BY <1>1, <1>2, <2>2, TryFacts
<1>3. CASE Sleep(k)
  <2>1. kpc'[k] = "sleep" /\ rpc'[k] = "none"
    BY <1>3 DEF Sleep, KvTypeOK
  <2> QED
    BY <1>3, <2>1, TryFacts
<1> QED
  BY <1>2, <1>3 DEF Lookup

\* Get or PutAppend is called.
LEMMA InvokeKeeps ==
    ASSUME ShardInv, NEW k \in KvClerks, NEW o \in {Get} \cup Puts,
           Invoke(k, o)
    PROVE  ShardInv'
<1>1. KvTypeOK /\ cached[k] \in Configs /\ value \in Contents
  BY DEF ShardInv, KvTypeOK
<1>2. /\ Lookup(k, cached[k])
      /\ UNCHANGED <<serviceVars, late, ctrlerVars, groupVars, cached>>
  BY DEF Invoke
<1>3. /\ op' \in [KvClerks -> {Get} \cup Puts] /\ op'[k] = o
      /\ \A j \in KvClerks \ {k} : op'[j] = op[j]
  BY <1>1 DEF Invoke, KvTypeOK
<1>4. /\ done' \in [KvClerks -> BOOLEAN]
      /\ \A j \in KvClerks \ {k} : done'[j] = done[j]
  BY <1>1 DEF Invoke, KvTypeOK
<1>5. /\ held' \in [KvClerks -> SUBSET Contents]
      /\ o = Get => value \in held'[k]
      /\ \A j \in KvClerks \ {k} : held'[j] = held[j]
  <2> DEFINE h == IF o = Get THEN {value} ELSE {}
  <2>1. h \in SUBSET Contents /\ (o = Get => value \in h)
    BY <1>1
  <2>2. held' = [held EXCEPT ![k] = h]
    BY DEF Invoke
  <2> HIDE DEF h
  <2> QED
    BY <1>1, <2>1, <2>2 DEF KvTypeOK
<1>6. /\ kpc' \in [KvClerks -> {"idle", "call", "sleep", "query", "returned"}]
      /\ si' \in [KvClerks -> Nat]
      /\ rpc' \in [KvClerks -> {"none", "sent", "answered"}]
      /\ reply' \in [KvClerks -> Answers]
      /\ \A j \in KvClerks \ {k} :
            /\ kpc'[j] = kpc[j] /\ si'[j] = si[j] /\ rpc'[j] = rpc[j]
            /\ reply'[j] = reply[j]
      /\ kpc'[k] \in {"call", "sleep"} /\ rpc'[k] # "answered"
      /\ kpc'[k] # "call" => rpc'[k] = "none"
      /\ kpc'[k] = "call" => /\ cached[k].gid \in Gids
                             /\ si'[k] \in 1 .. NServers[cached[k].gid]
  BY <1>1, <1>2, LookupFacts
<1>7. KvTypeOK'
  BY <1>1, <1>2, <1>3, <1>4, <1>5, <1>6 DEF KvTypeOK, groupVars
<1>8. KvSound(k)'
  BY <1>2, <1>3, <1>5, <1>6 DEF KvSound, groupVars
<1> QED
  BY <1>2, <1>3, <1>4, <1>5, <1>6, <1>7, <1>8, OneKv DEF groupVars

\* A call returns: the operation with it, or the next server is tried, or the
\* group is given up.
LEMMA KvReturnsKeeps ==
    ASSUME ShardInv, NEW k \in KvClerks, NEW ok \in BOOLEAN, Returns(k, ok)
    PROVE  ShardInv'
<1>1. /\ KvTypeOK /\ KvSound(k) /\ op[k] \in {Get} \cup Puts
      /\ late \subseteq Asked \cup Puts /\ si[k] \in Nat
  BY DEF ShardInv, KvTypeOK
<1>2. /\ kpc[k] = "call" /\ (ok => rpc[k] = "answered")
      /\ UNCHANGED <<serviceVars, ctrlerVars, groupVars, op, cached, done, held>>
  BY DEF Returns
<1>3. late' \subseteq Asked \cup Puts
  BY <1>1 DEF Returns
<1>4. /\ cached[k].gid \in Gids /\ si[k] \in 1 .. NServers[cached[k].gid]
      /\ NServers[cached[k].gid] \in Nat
      /\ op[k] = Get => value \in held[k]
  BY <1>1, <1>2, ShardAssumption DEF KvSound, ShardAssumption
<1> DEFINE r == Decoded(ok, reply[k], NoAnswer)
<1>5. CASE /\ ok /\ r.err \in Success(op[k])
           /\ kpc' = [kpc EXCEPT ![k] = "returned"]
           /\ rpc' = [rpc EXCEPT ![k] = "none"]
           /\ reply' = [reply EXCEPT ![k] = r]
           /\ UNCHANGED si
  <2>1. r = reply[k]
    BY <1>5 DEF Decoded
  <2>2. Real(k)
    BY <1>1, <1>2, <1>5, <2>1 DEF KvSound
  <2>3. reply' = reply
    BY <1>1, <1>5, <2>1 DEF KvTypeOK
  <2>4. /\ kpc' \in [KvClerks ->
                      {"idle", "call", "sleep", "query", "returned"}]
        /\ rpc' \in [KvClerks -> {"none", "sent", "answered"}]
        /\ kpc'[k] = "returned" /\ rpc'[k] = "none"
        /\ \A j \in KvClerks \ {k} : kpc'[j] = kpc[j] /\ rpc'[j] = rpc[j]
    BY <1>1, <1>5 DEF KvTypeOK
  <2>5. KvTypeOK'
    BY <1>1, <1>2, <1>3, <1>5, <2>3, <2>4 DEF KvTypeOK, groupVars
  <2>6. KvSound(k)'
    BY <1>2, <1>4, <2>2, <2>3, <2>4 DEF KvSound, Real, groupVars
  <2> QED
    BY <1>2, <1>5, <2>3, <2>4, <2>5, <2>6, OneKv DEF groupVars
<1>6. ASSUME NEW i \in Nat, Call(k, i) \/ Sleep(k),
             Call(k, i) => i \in 1 .. NServers[cached[k].gid]
      PROVE  ShardInv'
  <2>1. /\ kpc' \in [KvClerks ->
                      {"idle", "call", "sleep", "query", "returned"}]
        /\ si' \in [KvClerks -> Nat]
        /\ rpc' \in [KvClerks -> {"none", "sent", "answered"}]
        /\ reply' \in [KvClerks -> Answers]
        /\ \A j \in KvClerks \ {k} :
              /\ kpc'[j] = kpc[j] /\ si'[j] = si[j] /\ rpc'[j] = rpc[j]
              /\ reply'[j] = reply[j]
        /\ \/ kpc'[k] = "call" /\ si'[k] = i /\ rpc'[k] = "sent" /\ Call(k, i)
           \/ kpc'[k] = "sleep" /\ rpc'[k] = "none" /\ Sleep(k)
    BY <1>1, <1>6, TryFacts
  <2>2. KvTypeOK'
    BY <1>1, <1>2, <1>3, <2>1 DEF KvTypeOK, groupVars
  <2>3. KvSound(k)'
    BY <1>2, <1>4, <1>6, <2>1 DEF KvSound, groupVars
  <2>4. kpc'[k] # "query"
    BY <2>1
  <2>5. \A j \in KvClerks \ {k} :
           /\ kpc'[j] = kpc[j] /\ op'[j] = op[j] /\ si'[j] = si[j]
           /\ rpc'[j] = rpc[j] /\ reply'[j] = reply[j]
           /\ cached'[j] = cached[j] /\ done'[j] = done[j]
           /\ held[j] \subseteq held'[j]
           /\ value \in held[j] => value' \in held'[j]
    BY <1>2, <2>1 DEF groupVars
  <2> QED
    BY <1>2, <2>2, <2>3, <2>4, <2>5, OneKv
<1>7. CASE Sleep(k)
  BY <1>4, <1>6, <1>7 DEF Sleep
<1>8. CASE si[k] # NServers[cached[k].gid] /\ Call(k, si[k] + 1)
  <2>1. si[k] + 1 \in Nat /\ si[k] + 1 \in 1 .. NServers[cached[k].gid]
    BY <1>4, <1>8
  <2> QED
    BY <1>6, <1>8, <2>1
<1> QED
  BY <1>5, <1>7, <1>8 DEF Returns

\* The clerk asks for the latest configuration.
LEMMA RefreshKeeps ==
    ASSUME ShardInv, NEW k \in KvClerks, Refresh(k)
    PROVE  ShardInv'
<1>1. /\ CtrlerInv /\ KvTypeOK /\ KvSound(k) /\ CacheSound(k) /\ k \in Clerks
      /\ QueryOp \in Asked \cup {QueryOp} /\ config.num \in Nat
  BY CacheNumbers, ShardAssumption DEF ShardInv, ShardAssumption
<1>2. /\ Begin(k, QueryOp) /\ kpc[k] = "sleep"
      /\ kpc' = [kpc EXCEPT ![k] = "query"]
      /\ UNCHANGED <<groupVars, op, si, rpc, reply, cached, done, held>>
  BY DEF Refresh
<1>3. /\ CtrlerInv' /\ config' = config /\ late' = late
      /\ began'[k] = config.num
  BY <1>1, <1>2, BeginKeeps
<1>4. \A j \in KvClerks \ {k} : began'[j] = began[j]
  <2>1. began \in [Clerks -> Nat] /\ KvClerks \subseteq Clerks
    BY <1>1, ShardAssumption DEF CtrlerInv, CtrlerTypeOK, ShardAssumption
  <2> QED
    BY <1>2, <2>1 DEF Begin
<1>5. /\ kpc' \in [KvClerks -> {"idle", "call", "sleep", "query", "returned"}]
      /\ kpc'[k] = "query" /\ \A j \in KvClerks \ {k} : kpc'[j] = kpc[j]
  BY <1>1, <1>2 DEF KvTypeOK
<1>6. KvTypeOK'
  BY <1>1, <1>2, <1>3, <1>5 DEF KvTypeOK, groupVars
<1>7. KvSound(k)'
  BY <1>1, <1>2, <1>5 DEF KvSound, Real, groupVars
<1>8. CacheSound(k)'
  BY <1>1, <1>2, <1>3 DEF CacheSound
<1>9. config.num <= config'.num
  BY <1>1, <1>3
<1>10. \A j \in KvClerks \ {k} : KvSound(j)' /\ CacheSound(j)'
  BY <1>2, <1>3, <1>4, <1>5, <1>6, <1>9, OtherKv DEF groupVars
<1> QED
  BY <1>3, <1>6, <1>7, <1>8, <1>10 DEF ShardInv

\* It keeps what Query returns.
LEMMA RefreshedKeeps ==
    ASSUME ShardInv, NEW k \in KvClerks, Refreshed(k)
    PROVE  ShardInv' /\ cached[k].num <= cached'[k].num
           /\ \A j \in KvClerks \ {k} : cached'[j] = cached[j]
<1>1. /\ CtrlerInv /\ KvTypeOK /\ KvSound(k) /\ CacheSound(k) /\ k \in Clerks
      /\ CtrlerSound(k) /\ creply[k].config \in Configs
      /\ config.num \in Nat /\ cached[k].num \in Nat /\ began[k] \in Nat
      /\ creply[k].config.num \in Nat
  BY CacheNumbers, ShardAssumption DEF ShardInv, CtrlerInv, ShardAssumption
<1>2. /\ CtrlerDone(k) /\ kpc[k] = "query"
      /\ cached' = [cached EXCEPT ![k] = creply[k].config]
      /\ Lookup(k, cached'[k])
      /\ UNCHANGED <<groupVars, op, done, held>>
  BY DEF Refreshed
<1>3. /\ CtrlerInv' /\ config' = config /\ late' = late
      /\ cpc[k] = "returned"
  BY <1>1, <1>2, DoneKeeps
<1>4. \A j \in KvClerks \ {k} : began'[j] = began[j]
  <2>1. began \in [Clerks -> Nat] /\ KvClerks \subseteq Clerks
    BY <1>1, ShardAssumption DEF CtrlerInv, CtrlerTypeOK, ShardAssumption
  <2> QED
    BY <1>2, <2>1 DEF CtrlerDone
<1>5. /\ cached' \in [KvClerks -> Configs]
      /\ cached'[k] = creply[k].config
      /\ \A j \in KvClerks \ {k} : cached'[j] = cached[j]
  BY <1>1, <1>2 DEF KvTypeOK
<1>6. PICK c \in Configs : c = creply[k].config
  BY <1>1
<1>7. Lookup(k, c)
  BY <1>2, <1>5, <1>6
<1>8. /\ kpc' \in [KvClerks -> {"idle", "call", "sleep", "query", "returned"}]
      /\ si' \in [KvClerks -> Nat]
      /\ rpc' \in [KvClerks -> {"none", "sent", "answered"}]
      /\ reply' \in [KvClerks -> Answers]
      /\ \A j \in KvClerks \ {k} :
            /\ kpc'[j] = kpc[j] /\ si'[j] = si[j] /\ rpc'[j] = rpc[j]
            /\ reply'[j] = reply[j]
      /\ kpc'[k] \in {"call", "sleep"} /\ rpc'[k] # "answered"
      /\ kpc'[k] # "call" => rpc'[k] = "none"
      /\ kpc'[k] = "call" => c.gid \in Gids /\ si'[k] \in 1 .. NServers[c.gid]
  BY <1>1, <1>7, LookupFacts
<1>9. KvTypeOK'
  BY <1>1, <1>2, <1>3, <1>5, <1>8 DEF KvTypeOK, groupVars
<1>10. KvSound(k)'
  <2>1. op[k] = Get => value \in held[k]
    BY <1>1, <1>2 DEF KvSound
  <2> QED
    BY <1>2, <1>5, <1>6, <1>8, <2>1 DEF KvSound, groupVars
<1>11. creply[k].config.num <= config.num /\ began[k] <= creply[k].config.num
       /\ cached[k].num <= began[k]
  BY <1>1, <1>2, <1>3 DEF CtrlerSound, CacheSound
<1>12. CacheSound(k)' /\ cached[k].num <= cached'[k].num
  BY <1>1, <1>3, <1>5, <1>8, <1>11 DEF CacheSound
<1>13. config.num <= config'.num
  BY <1>1, <1>3
<1>14. \A j \in KvClerks \ {k} : KvSound(j)' /\ CacheSound(j)'
  BY <1>2, <1>3, <1>4, <1>5, <1>8, <1>9, <1>13, OtherKv DEF groupVars
<1> QED
  BY <1>3, <1>5, <1>9, <1>10, <1>12, <1>14 DEF ShardInv

\* The caller of Get or PutAppend goes on.
LEMMA KvDoneKeeps ==
    ASSUME ShardInv, NEW k \in KvClerks, Done(k)
    PROVE  ShardInv'
<1>1. KvTypeOK /\ KvSound(k)
  BY DEF ShardInv
<1>2. /\ kpc[k] = "returned"
      /\ UNCHANGED <<serviceVars, late, ctrlerVars, groupVars, rpc, cached>>
  BY DEF Done
<1>3. /\ kpc' \in [KvClerks -> {"idle", "call", "sleep", "query", "returned"}]
      /\ op' \in [KvClerks -> {Get} \cup Puts]
      /\ si' \in [KvClerks -> Nat]
      /\ kpc'[k] = "idle"
      /\ \A j \in KvClerks \ {k} :
            kpc'[j] = kpc[j] /\ op'[j] = op[j] /\ si'[j] = si[j]
  BY <1>1 DEF Done, KvTypeOK
<1>4. /\ reply' \in [KvClerks -> Answers]
      /\ done' \in [KvClerks -> BOOLEAN]
      /\ held' \in [KvClerks -> SUBSET Contents]
      /\ \A j \in KvClerks \ {k} :
            reply'[j] = reply[j] /\ done'[j] = done[j] /\ held'[j] = held[j]
  BY <1>1, OpFacts DEF Done, KvTypeOK
<1>5. KvTypeOK'
  BY <1>1, <1>2, <1>3, <1>4 DEF KvTypeOK, groupVars
<1>6. KvSound(k)'
  <2>1. rpc[k] = "none"
    BY <1>1, <1>2 DEF KvSound
  <2> QED
    BY <1>2, <1>3, <2>1 DEF KvSound
<1> QED
  BY <1>2, <1>3, <1>4, <1>5, <1>6, OneKv DEF groupVars

\* The steps of the controller and of its clerks, on behalf of a clerk of the
\* sharded service or of the tests.
LEMMA CtrlerKeeps ==
    ASSUME ShardInv, UNCHANGED <<groupVars, clerkVars>>,
           \/ \E c \in Clerks : CtrlerStep(c)
           \/ \E c \in Clerks \ KvClerks :
                 CtrlerDone(c) \/ \E o \in Asked : Ask(c, o)
           \/ \E o \in late \cap Asked : CtrlerHandlesLate(o)
    PROVE  ShardInv'
<1>1. /\ CtrlerInv /\ CtrlerTypeOK /\ KvTypeOK /\ KvClerks \subseteq Clerks
      /\ config.num \in Nat /\ late \subseteq Asked \cup Puts
      /\ began \in [Clerks -> Nat] /\ cop \in [Clerks -> Asked \cup {QueryOp}]
  BY ShardAssumption, CtrlerAssumption
     DEF ShardInv, CtrlerInv, CtrlerTypeOK, KvTypeOK, ShardAssumption,
         CtrlerAssumption, Configs
<1> DEFINE Kept == /\ CtrlerInv' /\ config.num <= config'.num
                   /\ late' \subseteq Asked \cup Puts
                   /\ \A j \in KvClerks : began'[j] = began[j]
<1>2. Kept
  <2>1. ASSUME NEW c \in Clerks, CtrlerHandles(c)
        PROVE  Kept
    <3>1. UNCHANGED <<late, began>>
      BY <2>1 DEF CtrlerHandles
    <3> QED
      BY <1>1, <2>1, <3>1, HandlesKeeps
  <2>2. ASSUME NEW c \in Clerks, NEW ok \in BOOLEAN, CtrlerReturns(c, ok)
        PROVE  Kept
    <3>1. /\ CtrlerInv' /\ UNCHANGED <<config, cop, began>>
          /\ late' = late \/ (late' = late \cup {cop[c]} /\ cop[c] # QueryOp)
      BY <1>1, <2>2, ReturnsKeeps
    <3>2. cop[c] \in Asked \cup {QueryOp}
      BY <1>1
    <3> QED
      BY <1>1, <3>1, <3>2
  <2>3. ASSUME NEW c \in Clerks \ KvClerks, CtrlerDone(c)
        PROVE  Kept
    <3>1. CtrlerInv' /\ config' = config /\ late' = late
      BY <1>1, <2>3, DoneKeeps
    <3>2. \A j \in KvClerks : began'[j] = began[j]
      BY <1>1, <2>3 DEF CtrlerDone
    <3> QED
      BY <1>1, <3>1, <3>2
  <2>4. ASSUME NEW c \in Clerks \ KvClerks, NEW o \in Asked, Ask(c, o)
        PROVE  Kept
    <3>1. Begin(c, o)
      BY <2>4 DEF Ask
    <3>2. CtrlerInv' /\ config' = config /\ late' = late
      BY <1>1, <3>1, BeginKeeps
    <3>3. \A j \in KvClerks : began'[j] = began[j]
      BY <1>1, <3>1 DEF Begin
    <3> QED
      BY <1>1, <3>2, <3>3
  <2>5. ASSUME NEW o \in late \cap Asked, CtrlerHandlesLate(o)
        PROVE  Kept
    <3>1. late' = late \ {o} /\ UNCHANGED ctrlerVars
      BY <2>5 DEF CtrlerHandlesLate
    <3> QED
      BY <1>1, <2>5, <3>1, LateKeeps DEF ctrlerVars
  <2> QED
    BY <2>1, <2>2, <2>3, <2>4, <2>5 DEF CtrlerStep
<1>3. KvTypeOK'
  BY <1>1, <1>2 DEF KvTypeOK, groupVars, clerkVars
<1> QED
  BY <1>2, <1>3, NoKv DEF groupVars, clerkVars

\* Leaders are elected and stay; the shard moves; what was asked by a call
\* that failed is done after all.
LEMMA GroupsKeep ==
    ASSUME ShardInv,
           \/ Stabilize \/ Handoff
           \/ \E o \in late \cap Puts : ServerExecutesLate(o)
    PROVE  ShardInv'
<1>1. /\ CtrlerInv /\ CtrlerTypeOK /\ KvTypeOK /\ config.num \in Nat
      /\ late \subseteq Asked \cup Puts
  BY CtrlerAssumption DEF ShardInv, CtrlerInv, CtrlerTypeOK, KvTypeOK,
                          CtrlerAssumption, Configs
<1>2. CASE Stabilize
  <2>1. UNCHANGED <<config, late, ctrlerVars, serving, value, clerkVars>>
    BY <1>2 DEF Stabilize
  <2>2. stable' \in BOOLEAN /\ cleader' \in 1 .. NCtrlers
    BY <1>2, CtrlerAssumption DEF CtrlerAssumption, Stabilize
  <2>3. leader' \in [Gids -> Nat]
    BY <1>2, ShardAssumption DEF ShardAssumption, Stabilize
  <2>4. CtrlerInv'
    <3>1. CtrlerTypeOK'
      BY <1>1, <2>1, <2>2 DEF CtrlerTypeOK, ctrlerVars
    <3>2. config.num <= config'.num
      BY <1>1, <2>1
    <3> QED
      BY <1>1, <2>1, <3>1, <3>2, NoClerk
  <2>5. KvTypeOK'
    BY <1>1, <2>1, <2>3 DEF KvTypeOK, clerkVars
  <2> QED
    BY <1>1, <2>1, <2>4, <2>5, NoKv DEF clerkVars, ctrlerVars
<1>3. ASSUME UNCHANGED <<serviceVars, ctrlerVars>> PROVE CtrlerInv'
  <2>1. CtrlerTypeOK' /\ config.num <= config'.num
    BY <1>1, <1>3 DEF CtrlerTypeOK, serviceVars, ctrlerVars
  <2> QED
    BY <1>1, <1>3, <2>1, NoClerk
<1>4. CASE Handoff
  <2>1. UNCHANGED <<serviceVars, late, ctrlerVars, leader, value, clerkVars>>
    BY <1>4 DEF Handoff
  <2>2. serving' \in Gids \cup {0}
    BY <1>1, <1>4 DEF Handoff, CtrlerTypeOK, Configs
  <2>3. KvTypeOK'
    BY <1>1, <2>1, <2>2 DEF KvTypeOK, clerkVars
  <2> QED
    BY <1>1, <1>3, <2>1, <2>3, NoKv DEF clerkVars, ctrlerVars, serviceVars
<1>5. ASSUME NEW o \in late \cap Puts, ServerExecutesLate(o) PROVE ShardInv'
  <2>1. /\ late' = late \ {o} /\ Write(o.value)
        /\ UNCHANGED <<serviceVars, ctrlerVars, serving, leader, kpc, op, si,
                       rpc, reply, cached, done>>
    BY <1>5 DEF ServerExecutesLate
  <2>2. o.value \in Contents
    BY OpFacts DEF Contents
  <2>3. /\ value' = o.value /\ held' \in [KvClerks -> SUBSET Contents]
        /\ \A j \in KvClerks : /\ held[j] \subseteq held'[j]
                               /\ value \in held[j] => value' \in held'[j]
    BY <1>1, <2>1, <2>2, WriteFacts
  <2>4. KvTypeOK'
    BY <1>1, <2>1, <2>2, <2>3 DEF KvTypeOK
  <2> QED
    BY <1>1, <1>3, <2>1, <2>3, <2>4, NoKv DEF ctrlerVars, serviceVars
<1> QED
  BY <1>2, <1>4, <1>5
-----------------------------------------------------------------------------
(* The invariant and what follows from it.                                 *)

\* The clerks start with configuration 0.
LEMMA ShardInitOK == ShardInit => ShardInv
<1> SUFFICES ASSUME ShardInit PROVE ShardInv
  OBVIOUS
<1>1. CtrlerInit
  BY DEF ShardInit
<1>2. 1 \in 1 .. NCtrlers
  BY CtrlerAssumption DEF CtrlerAssumption
<1>3. CtrlerTypeOK
  BY <1>1, <1>2, ZeroReply DEF CtrlerInit, CtrlerTypeOK
<1>4. \A c \in Clerks : CtrlerSound(c)
  BY <1>1, ZeroReply DEF CtrlerInit, CtrlerSound
<1>5. KvTypeOK
  <2>1. late = {} /\ serving = 0 /\ leader = [g \in Gids |-> 1]
        /\ value \in Contents
    BY <1>1 DEF ShardInit, CtrlerInit, Contents
  <2>2. /\ kpc \in [KvClerks -> {"idle", "call", "sleep", "query", "returned"}]
        /\ op \in [KvClerks -> {Get} \cup Puts]
        /\ si \in [KvClerks -> Nat]
        /\ rpc \in [KvClerks -> {"none", "sent", "answered"}]
    BY DEF ShardInit
  <2>3. /\ reply \in [KvClerks -> Answers]
        /\ cached \in [KvClerks -> Configs]
        /\ done \in [KvClerks -> BOOLEAN]
        /\ held \in [KvClerks -> SUBSET Contents]
    BY OpFacts, ZeroReply DEF ShardInit
  <2> QED
    BY <2>1, <2>2, <2>3 DEF KvTypeOK
<1>6. \A k \in KvClerks : kpc[k] = "idle" /\ rpc[k] = "none" /\ cached[k] = Config0
  BY DEF ShardInit
<1>7. \A k \in KvClerks : KvSound(k) /\ CacheSound(k)
  BY <1>1, <1>6, ZeroReply DEF KvSound, CacheSound, CtrlerInit
<1> QED
  BY <1>3, <1>4, <1>5, <1>7 DEF ShardInv, CtrlerInv

\* Every step keeps the invariant, and no clerk goes back to a configuration
\* older than its own.
LEMMA ShardStep ==
    ASSUME ShardInv, [ShardNext]_shardVars
    PROVE  /\ ShardInv'
           /\ \A k \in KvClerks : cached[k].num <= cached'[k].num
<1>1. /\ KvClerks \subseteq Clerks
      /\ \A k \in KvClerks : cached[k].num \in Nat
  BY ShardAssumption, CacheNumbers DEF ShardAssumption, ShardInv
<1>2. ASSUME NEW k \in KvClerks, Refreshed(k)
      PROVE  ShardInv' /\ \A j \in KvClerks : cached[j].num <= cached'[j].num
  BY <1>1, <1>2, RefreshedKeeps
<1>3. ASSUME ShardInv', cached' = cached
      PROVE  ShardInv' /\ \A j \in KvClerks : cached[j].num <= cached'[j].num
  BY <1>1, <1>3
<1>4. CASE UNCHANGED shardVars
  <2>1. UNCHANGED <<serviceVars, late, ctrlerVars, groupVars, clerkVars>>
    BY <1>4 DEF shardVars
  <2>2. KvTypeOK'
    BY <2>1 DEF ShardInv, KvTypeOK, groupVars, clerkVars
  <2>3. CtrlerTypeOK'
    BY <2>1 DEF ShardInv, CtrlerInv, CtrlerTypeOK, serviceVars, ctrlerVars
  <2>4. config.num \in Nat /\ config' = config
    BY <2>1, CtrlerAssumption
       DEF serviceVars, ShardInv, CtrlerInv, CtrlerTypeOK, Configs,
           CtrlerAssumption
  <2>5. CtrlerInv'
    BY <2>1, <2>3, <2>4, NoClerk DEF ShardInv
  <2>6. ShardInv'
    BY <2>1, <2>2, <2>4, <2>5, NoKv DEF groupVars, clerkVars, ctrlerVars
  <2> QED
    BY <1>3, <2>1, <2>6 DEF clerkVars
<1>5. ASSUME NEW k \in KvClerks,
             \/ \E o \in {Get} \cup Puts : Invoke(k, o)
             \/ ServerExecutes(k) \/ ServerRefuses(k)
             \/ \E ok \in BOOLEAN : Returns(k, ok)
             \/ Refresh(k) \/ Done(k)
      PROVE  ShardInv' /\ cached' = cached
  <2>1. ShardInv'
    BY <1>5, InvokeKeeps, ExecutesKeeps, RefusesKeeps, KvReturnsKeeps,
       RefreshKeeps, KvDoneKeeps
  <2>2. cached' = cached
    BY <1>5 DEF Invoke, ServerExecutes, ServerRefuses, Answer, Returns,
                Refresh, Done
  <2> QED
    BY <2>1, <2>2
<1>6. ASSUME UNCHANGED <<groupVars, clerkVars>>,
             \/ \E c \in Clerks : CtrlerStep(c)
             \/ \E c \in Clerks \ KvClerks :
                   CtrlerDone(c) \/ \E o \in Asked : Ask(c, o)
             \/ \E o \in late \cap Asked : CtrlerHandlesLate(o)
      PROVE  ShardInv' /\ cached' = cached
  BY <1>6, CtrlerKeeps DEF clerkVars
<1>7. CASE \/ Stabilize \/ Handoff
           \/ \E o \in late \cap Puts : ServerExecutesLate(o)
  <2>1. cached' = cached
    BY <1>7 DEF Stabilize, Handoff, ServerExecutesLate, clerkVars
  <2> QED
    BY <1>3, <1>7, <2>1, GroupsKeep
<1>8. ASSUME NEW k \in KvClerks, ClerkStep(k)
      PROVE  \/ Refreshed(k)
             \/ ShardInv' /\ cached' = cached
  <2>1. CASE CtrlerStep(k) /\ UNCHANGED <<groupVars, clerkVars>>
    BY <1>1, <1>6, <2>1
  <2> QED
    BY <1>5, <1>8, <2>1 DEF ClerkStep
<1>9. CASE \E k \in KvClerks : \/ \E o \in {Get} \cup Puts : Invoke(k, o)
                               \/ ClerkStep(k) \/ Done(k)
  BY <1>2, <1>3, <1>5, <1>8, <1>9
<1>10. CASE /\ \E c \in Clerks \ KvClerks :
                  \/ \E o \in Asked : Ask(c, o)
                  \/ CtrlerStep(c) \/ CtrlerDone(c)
            /\ UNCHANGED <<groupVars, clerkVars>>
  BY <1>3, <1>6, <1>10
<1>11. CASE \E o \in late \cap Asked :
               CtrlerHandlesLate(o) /\ UNCHANGED <<groupVars, clerkVars>>
  BY <1>3, <1>6, <1>11
<1> QED
  BY <1>4, <1>7, <1>9, <1>10, <1>11 DEF ShardNext

\* The invariant holds in every reachable state.
LEMMA ShardInvariant == ShardSpec => []ShardInv
<1>1. ShardInv /\ [ShardNext]_shardVars => ShardInv'
  BY ShardStep
<1> QED
  BY <1>1, ShardInitOK, PTL DEF ShardSpec

\* What Query, Join, Leave, Move, Get and PutAppend return is the result of an
\* execution during the call, although calls fail, are executed late or twice,
\* reach servers that are not in charge, and shards move meanwhile.
THEOREM ShardResults == ShardSpec => []ResultsAreReal
<1>1. ShardInv => ResultsAreReal
  BY DEF ShardInv, CtrlerInv, CtrlerSound, KvSound, Real, ResultsAreReal
<1> QED
  BY <1>1, ShardInvariant, PTL

\* ck.config never goes back to an older configuration, whichever server
\* answers Query, and the clerk calls only servers that its group has.
THEOREM ShardCache ==
    ShardSpec =>
        /\ [][\A k \in KvClerks : cached[k].num <= cached'[k].num]_shardVars
        /\ [](\A k \in KvClerks : kpc[k] = "call" =>
                 si[k] \in 1 .. NServers[cached[k].gid])
<1>1. ShardInv => \A k \in KvClerks : kpc[k] = "call" =>
                     si[k] \in 1 .. NServers[cached[k].gid]
  BY DEF ShardInv, KvSound
<1>2. ASSUME ShardInv, [ShardNext]_shardVars
      PROVE  [\A k \in KvClerks : cached[k].num <= cached'[k].num]_shardVars
  BY <1>2, ShardStep
<1> QED
  BY <1>1, <1>2, ShardInvariant, PTL DEF ShardSpec
=============================================================================
