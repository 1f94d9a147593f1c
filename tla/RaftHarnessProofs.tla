------------------------- MODULE RaftHarnessProofs --------------------------
(***************************************************************************)
(* Proofs about the oracle of the Raft tests, for every number of servers, *)
(* length of the log, number of crashes and snapshot interval, and for a   *)
(* correct Raft as well as for one that delivers anything.                 *)
(***************************************************************************)
EXTENDS RaftHarness, FiniteSetTheorems, TLAPS

-----------------------------------------------------------------------------
(* The inductive invariant, in parts.                                      *)

Entries == Commands \cup {Absent, Nil}
CommandMsgs == [index : Indexes, cmd : Commands]
SnapshotMsgs == [index : Indexes, log : Logs]
Readers == [pc : PCs, msg : {NoMessage} \cup CommandMsgs \cup SnapshotMsgs,
            err : BOOLEAN]

\* The state of one() while it submits a command and counts.
Trials == [pc : {"start", "scan"}, cmd : Commands, expected : Servers,
           index : 0 .. MaxIndex, next : 1 .. NServers + 1, count : Nat,
           seen : Entries]
Results == [pc : {"returned"}, cmd : Commands, expected : Servers,
            index : Indexes]

\* The types of all variables.
FullTypeOK ==
    /\ correct \in BOOLEAN /\ snapshots \in BOOLEAN
    /\ committed \in Seq(Commands) /\ Len(committed) <= MaxIndex
    /\ delivered \in [Servers -> [Instances -> 0 .. MaxIndex]]
    /\ logs \in [Servers -> Logs]
    /\ lastApplied \in [Servers -> 0 .. MaxIndex]
    /\ saved \in [Servers -> [index : 0 .. MaxIndex, log : Logs]]
    /\ instance \in [Servers -> Instances]
    /\ crashed \in [Servers -> BOOLEAN]
    /\ reader \in [Servers -> [Instances -> Readers]]
    /\ test \in {[pc |-> "idle"]} \cup Trials \cup Results
    /\ test.pc = "scan" => test.index \in Indexes
    /\ failed \in {"", "apply error", "mismatch", "no agreement"}

\* What the program counter of a reader says about the rest of its state.
ReaderSound(i, k) ==
    LET r == reader[i][k]
    IN  /\ r.pc = "ingest" => r.msg \in SnapshotMsgs
        /\ r.pc \in {"compare", "check", "applied", "snapshot"}
              => r.msg \in CommandMsgs
        /\ r.err => r.pc \in {"applied", "snapshot", "fatal"}
        /\ r.pc = "fatal" => r.err
        /\ k > instance[i] => r = Idle
        /\ ~snapshots => r.pc \in {"receive", "check", "fatal"}
        /\ snapshots => r.pc # "check" \/ ~r.err

\* Snapshots hold what is up to their index; without them none is saved.
SavedSound(i) ==
    /\ \A y \in Indexes : saved[i].log[y] = Absent <=> y > saved[i].index
    /\ ~snapshots => saved[i].index = 0

\* Log l is part of what a correct Raft has committed.
PartOf(l) ==
    \A x \in Indexes :
        l[x] # Absent => x <= Len(committed) /\ l[x] = committed[x]

\* What a correct Raft hands over is committed, a snapshot up to its index.
MessageSound(i, k) ==
    LET r == reader[i][k]
    IN  /\ r.pc # "receive" /\ r.msg \in CommandMsgs =>
              r.msg.index <= Len(committed) /\ r.msg.cmd = committed[r.msg.index]
        /\ r.pc = "ingest" =>
              /\ PartOf(r.msg.log)
              /\ \A y \in Indexes : r.msg.log[y] = Absent <=> y > r.msg.index

\* All entries up to x are in the log of server i.
Has(i, x) == \A y \in Indexes : y <= x => logs[i][y] # Absent

\* With snapshots, as long as server i has not been restarted: what its one
\* reader has applied is in the log, and lastApplied is the reader's own.
FirstRun(i) ==
    LET r == reader[i][1]
    IN  /\ Has(i, lastApplied[i])
        /\ r.pc = "receive" => lastApplied[i] = delivered[i][1]
        /\ r.pc \in {"compare", "check"} =>
              r.msg.index = lastApplied[i] + 1 /\ delivered[i][1] = r.msg.index
        /\ r.pc \in {"applied", "snapshot", "fatal"} =>
              delivered[i][1] = r.msg.index /\ Has(i, r.msg.index)
        /\ r.pc = "snapshot" => lastApplied[i] = r.msg.index
        /\ r.pc = "ingest" => delivered[i][1] = r.msg.index
        /\ PartOf(saved[i].log)

\* Without snapshots nothing is ever removed from the log, so that a reader
\* finds all that it has applied before.
Applies(i, k) ==
    /\ Has(i, delivered[i][k] - 1)
    /\ reader[i][k].pc \in {"receive", "fatal"} => Has(i, delivered[i][k])
    /\ reader[i][k].pc = "check" => reader[i][k].msg.index = delivered[i][k]

\* A correct Raft.
CorrectSound ==
    correct =>
        /\ \A i \in Servers, k \in Instances : MessageSound(i, k)
        /\ \A i \in Servers :
              /\ (snapshots => instance[i] <= 2) => PartOf(logs[i])
              /\ snapshots /\ instance[i] = 1 => FirstRun(i)
              /\ ~snapshots => \A k \in Instances : Applies(i, k)
        /\ (snapshots => \A i \in Servers : instance[i] <= 2) =>
              (test.pc = "scan" /\ test.count > 0 =>
                  /\ test.index <= Len(committed)
                  /\ test.seen = committed[test.index])

\* No log has a gap, unless the oracle has seen it.
NoGaps ==
    ~Alarm => \A i \in Servers, x \in Indexes :
                 logs[i][x] # Absent => Has(i, x)

\* Without snapshots no two logs differ, unless the oracle has seen it.
Agreement ==
    ~Alarm /\ ~snapshots =>
        \A i, j \in Servers, x \in Indexes :
            logs[i][x] # Absent => logs[j][x] \in {Absent, logs[i][x]}

\* The servers up to n whose log has value v at index x.
With(n, x, v) == {j \in 1 .. n : logs[j][x] = v}

\* What nCommitted has counted so far is still there.
CountSound ==
    ~Alarm /\ ~snapshots /\ test.pc = "scan" /\ test.count > 0 =>
        /\ test.seen # Absent
        /\ test.count <= Cardinality(With(test.next - 1, test.index, test.seen))

\* crash1 has been called as often as the bound allows.
CrashesBounded == Crashes <= MaxCrashes

\* The part of the invariant that the rest builds on.
BaseInv ==
    /\ FullTypeOK
    /\ snapshots => correct
    /\ \A i \in Servers, k \in Instances : ReaderSound(i, k)
    /\ \A i \in Servers : SavedSound(i)
    /\ CrashesBounded

\* The inductive invariant of the harness.
HarnessInv ==
    /\ BaseInv
    /\ CorrectSound
    /\ NoFalseAlarm
    /\ NoGaps
    /\ Agreement
    /\ CountSound
    /\ OneIsAgreed

-----------------------------------------------------------------------------
(* How often servers have crashed.                                         *)

Restarts == {p \in Servers \X Instances : p[2] < instance[p[1]]}
Down == {i \in Servers : crashed[i]}

\* The two sets whose sizes Crashes adds up are finite.
LEMMA CrashSets ==
    /\ Crashes = Cardinality(Restarts) + Cardinality(Down)
    /\ IsFiniteSet(Restarts) /\ Cardinality(Restarts) \in Nat
    /\ IsFiniteSet(Down) /\ Cardinality(Down) \in Nat
<1>2. IsFiniteSet(Servers) /\ IsFiniteSet(Instances)
  BY HarnessAssumption, FS_Interval DEF HarnessAssumption, Servers, Instances
<1>3. IsFiniteSet(Servers \X Instances)
  BY <1>2, FS_Product
<1>4. Restarts \subseteq Servers \X Instances /\ Down \subseteq Servers
  BY DEF Restarts, Down
<1>5. IsFiniteSet(Restarts) /\ IsFiniteSet(Down)
  BY <1>2, <1>3, <1>4, FS_Subset
<1> QED
  BY <1>5, FS_CardinalityType DEF Crashes, Restarts, Down

\* A server has not been restarted more often than servers have crashed: its
\* earlier instances are among Restarts.
LEMMA InstanceBound ==
    ASSUME NEW i \in Servers, instance \in [Servers -> Instances],
           CrashesBounded, crashed[i]
    PROVE  instance[i] <= MaxCrashes
<1> DEFINE n == instance[i]
           early == 1 .. n - 1
           f == [k \in early |-> <<i, k>>]
<1>1. n \in Nat /\ n >= 1 /\ n <= MaxCrashes + 1 /\ MaxCrashes \in Nat
  BY HarnessAssumption DEF HarnessAssumption, Instances
<1>2. f \in Injection(early, Restarts)
  <2>1. \A k \in early : <<i, k>> \in Restarts
    BY <1>1 DEF Restarts, Instances
  <2> QED
    BY <2>1 DEF Injection, IsInjective
<1>3. Cardinality(early) <= Cardinality(Restarts)
  BY <1>2, CrashSets, FS_Injection
<1>4. Cardinality(early) = n - 1
  BY <1>1, FS_Interval
<1>5. Cardinality(Down) >= 1
  BY CrashSets, FS_EmptySet DEF Down
<1> QED
  BY <1>1, <1>3, <1>4, <1>5, CrashSets DEF CrashesBounded

\* crash1 counts one crash more, start1 turns it into a restart.
LEMMA CrashCounted ==
    ASSUME NEW i \in Servers, instance \in [Servers -> Instances],
           crashed \in [Servers -> BOOLEAN], CrashesBounded,
           Crash(i) \/ Start(i), instance' \in [Servers -> Instances]
    PROVE  CrashesBounded'
<1>1. CASE Crash(i)
  <2>1. Down' = Down \cup {i} /\ i \notin Down /\ Restarts' = Restarts
    BY <1>1 DEF Crash, Down, Restarts
  <2>2. Cardinality(Down') = Cardinality(Down) + 1
    BY <2>1, CrashSets, FS_AddElement
  <2>3. Crashes' = Cardinality(Restarts') + Cardinality(Down')
    BY DEF Crashes, Restarts, Down
  <2>4. Crashes < MaxCrashes /\ MaxCrashes \in Nat
    BY <1>1, HarnessAssumption DEF HarnessAssumption, Crash
  <2> QED
    BY <2>1, <2>2, <2>3, <2>4, CrashSets DEF CrashesBounded
<1>2. CASE Start(i)
  <2>1. /\ crashed' = [crashed EXCEPT ![i] = FALSE] /\ crashed[i]
        /\ instance' = [instance EXCEPT ![i] = instance[i] + 1]
    BY <1>2 DEF Start
  <2>2. Down' = Down \ {i} /\ i \in Down
    BY <2>1 DEF Down
  <2>3. /\ instance[i] \in Instances /\ <<i, instance[i]>> \notin Restarts
        /\ Restarts' = Restarts \cup {<<i, instance[i]>>}
    <3>1. \A k \in Instances : k < instance[i] + 1 <=> k < instance[i] \/ k = instance[i]
      BY HarnessAssumption DEF HarnessAssumption, Instances
    <3>2. instance'[i] = instance[i] + 1
      BY <2>1
    <3>3. \A j \in Servers : j # i => instance'[j] = instance[j]
      BY <2>1
    <3>4. ASSUME NEW p \in Servers \X Instances
          PROVE  p[2] < instance'[p[1]]
                    <=> p[2] < instance[p[1]] \/ p = <<i, instance[i]>>
      BY <3>1, <3>2, <3>3
    <3>5. instance[i] \in Instances /\ ~(instance[i] < instance[i])
      BY HarnessAssumption DEF HarnessAssumption, Instances
    <3> QED
      BY <3>4, <3>5 DEF Restarts
  <2>4. /\ Cardinality(Down') = Cardinality(Down) - 1
        /\ Cardinality(Restarts') = Cardinality(Restarts) + 1
    BY <2>2, <2>3, CrashSets, FS_AddElement, FS_RemoveElement
  <2>5. Crashes' = Cardinality(Restarts') + Cardinality(Down')
    BY DEF Crashes, Restarts, Down
  <2> QED
    BY <2>4, <2>5, CrashSets DEF CrashesBounded
<1> QED
  BY <1>1, <1>2

-----------------------------------------------------------------------------
(* Messages and readers.                                                   *)

\* A message is an entry or a snapshot, and IsSnapshot tells which.
LEMMA MessageKinds ==
    /\ \A m \in CommandMsgs : ~IsSnapshot(m)
    /\ \A m \in SnapshotMsgs : IsSnapshot(m)
    /\ Anything = CommandMsgs
<1>1. \A m \in CommandMsgs : ~IsSnapshot(m)
  BY DEF CommandMsgs, IsSnapshot
<1>2. \A m \in SnapshotMsgs : IsSnapshot(m)
  BY DEF SnapshotMsgs, IsSnapshot
<1>3. Anything = CommandMsgs
  <2>1. Anything \subseteq CommandMsgs
    BY DEF Anything, CommandMsgs, Command
  <2>2. ASSUME NEW m \in CommandMsgs PROVE m \in Anything
    <3>1. /\ m.index \in Indexes /\ m.cmd \in Commands
          /\ m = Command(m.index, m.cmd)
      BY DEF CommandMsgs, Command
    <3> QED
      BY <3>1 DEF Anything
  <2> QED
    BY <2>1, <2>2
<1> QED
  BY <1>1, <1>2, <1>3

\* A snapshot of a log has every entry up to its index and none after it.
LEMMA SnapshotFacts ==
    ASSUME NEW x \in 0 .. MaxIndex, NEW l \in Logs
    PROVE  /\ Snapshot(x, l) \in [index : 0 .. MaxIndex, log : Logs]
           /\ Snapshot(x, l).index = x
           /\ \A y \in Indexes :
                 /\ Snapshot(x, l).log[y] = Absent <=> y > x
                 /\ y <= x /\ l[y] # Absent => Snapshot(x, l).log[y] = l[y]
<1> DEFINE s == [y \in Indexes |->
                   IF y > x THEN Absent ELSE IF l[y] = Absent THEN Nil ELSE l[y]]
<1>1. s \in Logs
  BY DEF Logs
<1>2. Snapshot(x, l) = [index |-> x, log |-> s]
  BY DEF Snapshot
<1>3. \A y \in Indexes : /\ s[y] = Absent <=> y > x
                         /\ y <= x /\ l[y] # Absent => s[y] = l[y]
  BY HarnessAssumption DEF HarnessAssumption, Absent, Nil, Indexes
<1> HIDE DEF s
<1> QED
  BY <1>1, <1>2, <1>3

\* What an instance hands over.  A correct one hands over committed entries:
\* the next one, or a snapshot of all up to a later one.
LEMMA MessageFacts ==
    ASSUME FullTypeOK, NEW i \in Servers, NEW k \in Instances,
           NEW m \in Messages(i, k)
    PROVE  /\ m \in CommandMsgs \cup SnapshotMsgs
           /\ m \in SnapshotMsgs => correct /\ snapshots
           /\ correct => m.index \in 1 .. Len(committed)
           /\ correct /\ m \in CommandMsgs =>
                 m.index = delivered[i][k] + 1 /\ m.cmd = committed[m.index]
           /\ correct /\ m \in SnapshotMsgs =>
                 /\ PartOf(m.log)
                 /\ \A y \in Indexes : m.log[y] = Absent <=> y > m.index
<1>1. CASE ~correct
  BY <1>1, MessageKinds DEF Messages
<1>2. CASE correct
  <2> DEFINE log == [x \in Indexes |->
                       IF x \in DOMAIN committed THEN committed[x] ELSE Absent]
  <2>1. /\ Len(committed) \in Nat /\ DOMAIN committed = 1 .. Len(committed)
        /\ DOMAIN committed \subseteq Indexes
        /\ \A x \in DOMAIN committed : committed[x] \in Commands
    <3> committed \in Seq(Commands) /\ Len(committed) <= MaxIndex
      BY DEF FullTypeOK
    <3>1. Len(committed) \in Nat /\ MaxIndex \in Nat
      BY HarnessAssumption DEF HarnessAssumption
    <3>2. DOMAIN committed = 1 .. Len(committed)
      BY <3>1
    <3>3. \A x \in 1 .. Len(committed) : committed[x] \in Commands
      BY <3>1
    <3> QED
      BY <3>1, <3>2, <3>3 DEF Indexes
  <2>2. /\ log \in Logs
        /\ \A x \in Indexes : x \in DOMAIN committed => log[x] = committed[x]
    BY <2>1 DEF Logs
  <2>3. \A x \in DOMAIN committed : log[x] # Absent
    BY <2>1, <2>2, HarnessAssumption DEF HarnessAssumption, Absent
  <2>4. \/ \E x \in DOMAIN committed :
              x = delivered[i][k] + 1 /\ m = Command(x, log[x])
        \/ \E x \in DOMAIN committed : SnapshotAt(x) /\ m = Snapshot(x, log)
    BY <1>2 DEF Messages, Due
  <2> HIDE DEF log
  <2>5. ASSUME NEW x \in DOMAIN committed, x = delivered[i][k] + 1,
               m = Command(x, log[x])
        PROVE  /\ m \in CommandMsgs /\ m.index = x /\ m.cmd = committed[x]
    BY <2>1, <2>2, <2>5 DEF Command, CommandMsgs
  <2>6. ASSUME NEW x \in DOMAIN committed, SnapshotAt(x), m = Snapshot(x, log)
        PROVE  /\ m \in SnapshotMsgs /\ m.index = x /\ snapshots
               /\ PartOf(m.log)
               /\ \A y \in Indexes : m.log[y] = Absent <=> y > m.index
    <3>1. x \in 0 .. MaxIndex /\ x \in Indexes
      BY <2>1 DEF Indexes
    <3>2. m \in SnapshotMsgs /\ m.index = x
      BY <2>2, <2>6, <3>1, SnapshotFacts DEF SnapshotMsgs
    <3>3. \A y \in Indexes :
             /\ m.log[y] = Absent <=> y > x
             /\ y <= x => m.log[y] = committed[y] /\ y <= Len(committed)
      <4> SUFFICES ASSUME NEW y \in Indexes
                   PROVE  /\ m.log[y] = Absent <=> y > x
                          /\ y <= x =>
                                m.log[y] = committed[y] /\ y <= Len(committed)
        OBVIOUS
      <4>1. y <= x => y \in DOMAIN committed
        BY <2>1 DEF Indexes
      <4> QED
        BY <2>1, <2>2, <2>3, <2>6, <3>1, <4>1, SnapshotFacts
    <3>4. PartOf(m.log)
      BY <2>1, <3>3 DEF PartOf, Indexes
    <3> QED
      BY <2>6, <3>2, <3>3, <3>4 DEF SnapshotAt
  <2>7. CommandMsgs \cap SnapshotMsgs = {}
    BY MessageKinds
  <2> QED
    BY <1>2, <2>1, <2>4, <2>5, <2>6, <2>7
<1>3. correct \in BOOLEAN
  BY DEF FullTypeOK
<1> QED
  BY <1>1, <1>2, <1>3

\* A reader moves on; the others stay where they are.
LEMMA GotoFacts ==
    ASSUME FullTypeOK, NEW i \in Servers, NEW k \in Instances, NEW p \in PCs,
           NEW err \in BOOLEAN, Goto(i, k, p, err)
    PROVE  /\ reader' \in [Servers -> [Instances -> Readers]]
           /\ p = "receive" => reader'[i][k] = Idle
           /\ p # "receive" => reader'[i][k] =
                 [pc |-> p, msg |-> reader[i][k].msg, err |-> err]
           /\ \A j \in Servers, l \in Instances :
                 <<j, l>> # <<i, k>> => reader'[j][l] = reader[j][l]
<1> DEFINE r == IF p = "receive" THEN Idle
                ELSE [pc |-> p, msg |-> reader[i][k].msg, err |-> err]
<1>1. reader \in [Servers -> [Instances -> Readers]]
  BY DEF FullTypeOK
<1>2. reader[i][k] \in Readers
  BY <1>1
<1>3. r \in Readers
  BY <1>2 DEF Readers, Idle, PCs
<1>4. reader' = [reader EXCEPT ![i] = [reader[i] EXCEPT ![k] = r]]
  BY DEF Goto
<1> HIDE DEF r
<1>5. /\ reader' \in [Servers -> [Instances -> Readers]]
      /\ reader'[i][k] = r
      /\ \A j \in Servers, l \in Instances :
            <<j, l>> # <<i, k>> => reader'[j][l] = reader[j][l]
  BY <1>1, <1>3, <1>4
<1> QED
  BY <1>5 DEF r

-----------------------------------------------------------------------------
(* The types, and what the readers' program counters say.                  *)

\* A step of one reader, which keeps the types.
LEMMA OneReader ==
    ASSUME BaseInv, FullTypeOK', NEW i \in Servers, NEW k \in Instances,
           UNCHANGED <<correct, snapshots, instance, crashed>>,
           \A j \in Servers, l \in Instances :
              <<j, l>> # <<i, k>> => reader'[j][l] = reader[j][l],
           ReaderSound(i, k)', \A j \in Servers : SavedSound(j)'
    PROVE  BaseInv'
<1>1. \A j \in Servers, l \in Instances : ReaderSound(j, l)'
  <2> TAKE j \in Servers, l \in Instances
  <2>1. CASE <<j, l>> = <<i, k>>
    BY <2>1
  <2>2. CASE <<j, l>> # <<i, k>>
    BY <2>2 DEF BaseInv, ReaderSound
  <2> QED
    BY <2>1, <2>2
<1>2. CrashesBounded'
  BY DEF BaseInv, CrashesBounded, Crashes
<1> QED
  BY <1>1, <1>2 DEF BaseInv

\* What is known of a reader and of its message.
LEMMA ReaderFacts ==
    ASSUME BaseInv, NEW i \in Servers, NEW k \in Instances
    PROVE  /\ FullTypeOK /\ reader[i][k] \in Readers /\ ReaderSound(i, k)
           /\ reader[i][k].pc \in {"compare", "check", "applied", "snapshot"}
                 => /\ Message(i, k) \in CommandMsgs
                    /\ Message(i, k).index \in Indexes
                    /\ Message(i, k).index \in 0 .. MaxIndex
                    /\ Message(i, k).cmd \in Commands
           /\ reader[i][k].pc = "ingest"
                 => /\ Message(i, k) \in SnapshotMsgs
                    /\ Message(i, k).index \in Indexes
                    /\ Message(i, k).index \in 0 .. MaxIndex
                    /\ Message(i, k).log \in Logs
<1>1. FullTypeOK /\ ReaderSound(i, k)
  BY DEF BaseInv
<1>2. reader[i][k] \in Readers
  <2>1. reader \in [Servers -> [Instances -> Readers]]
    BY <1>1 DEF FullTypeOK
  <2> QED BY <2>1
<1>3. \A m \in CommandMsgs : /\ m.index \in Indexes /\ m.cmd \in Commands
                             /\ m.index \in 0 .. MaxIndex
  BY DEF CommandMsgs, Indexes
<1>4. \A m \in SnapshotMsgs : /\ m.index \in Indexes /\ m.log \in Logs
                              /\ m.index \in 0 .. MaxIndex
  BY DEF SnapshotMsgs, Indexes
<1> QED
  BY <1>1, <1>2, <1>3, <1>4 DEF ReaderSound, Message

\* A reader receives a message.
LEMMA ReceiveBase ==
    ASSUME BaseInv, NEW i \in Servers, NEW k \in Instances,
           NEW m \in Messages(i, k), Receive(i, k, m)
    PROVE  BaseInv'
<1> DEFINE p == IF IsSnapshot(m) THEN "ingest"
                ELSE IF snapshots THEN "compare" ELSE "check"
           r == [pc |-> p, msg |-> m, err |-> FALSE]
<1>1. FullTypeOK /\ m \in CommandMsgs \cup SnapshotMsgs
      /\ (m \in SnapshotMsgs => snapshots)
  BY MessageFacts DEF BaseInv
<1>2. /\ p \in PCs /\ r \in Readers
      /\ p = "ingest" <=> m \in SnapshotMsgs
      /\ p \in {"ingest", "compare", "check"}
      /\ ~snapshots => p = "check"
  BY <1>1, MessageKinds DEF PCs, Readers
<1>3. m.index \in Indexes /\ m.index \in 0 .. MaxIndex
  BY <1>1 DEF CommandMsgs, SnapshotMsgs, Indexes
<1>4. reader' = [reader EXCEPT ![i] = [reader[i] EXCEPT ![k] = r]]
  BY DEF Receive
<1>5. reader \in [Servers -> [Instances -> Readers]]
  BY <1>1 DEF FullTypeOK
<1> HIDE DEF p
<1>6. /\ reader' \in [Servers -> [Instances -> Readers]]
      /\ reader'[i][k] = r
      /\ \A j \in Servers, l \in Instances :
            <<j, l>> # <<i, k>> => reader'[j][l] = reader[j][l]
  <2> HIDE DEF r
  <2> QED
    BY <1>2, <1>4, <1>5
<1>7. delivered' \in [Servers -> [Instances -> 0 .. MaxIndex]]
  <2>1. delivered \in [Servers -> [Instances -> 0 .. MaxIndex]]
    BY <1>1 DEF FullTypeOK
  <2>2. CASE correct
    <3>1. delivered' =
             [delivered EXCEPT ![i] = [delivered[i] EXCEPT ![k] = m.index]]
      BY <2>2 DEF Receive
    <3> QED
      BY <1>3, <2>1, <3>1
  <2>3. CASE ~correct
    BY <2>1, <2>3 DEF Receive
  <2> QED
    BY <2>2, <2>3
<1>8. UNCHANGED <<correct, committed, configVars, test, failed>>
  BY DEF Receive
<1>9. FullTypeOK'
  BY <1>1, <1>6, <1>7, <1>8 DEF FullTypeOK, configVars
<1>10. ReaderSound(i, k)'
  <2>1. k <= instance[i] /\ instance[i] \in Nat /\ k \in Nat
    <3>1. instance[i] \in Instances /\ k <= instance[i]
      BY <1>1 DEF FullTypeOK, Receive
    <3> QED
      BY <3>1 DEF Instances
  <2>2. ~(k > instance'[i]) /\ snapshots' = snapshots
    BY <1>8, <2>1 DEF configVars
  <2>3. p = "compare" \/ p = "check" => m \in CommandMsgs
    BY <1>1, <1>2
  <2> QED
    BY <1>2, <1>6, <2>2, <2>3 DEF ReaderSound
<1>11. \A j \in Servers : SavedSound(j)'
  BY <1>8 DEF BaseInv, SavedSound, configVars
<1> QED
  BY <1>6, <1>8, <1>9, <1>10, <1>11, OneReader DEF configVars

\* A reader compares with lastApplied, or moves on after it.
LEMMA MoveBase ==
    ASSUME BaseInv, NEW i \in Servers, NEW k \in Instances,
           NEW p \in PCs, NEW err \in BOOLEAN, Goto(i, k, p, err),
           reader[i][k].pc \in {"compare", "check", "applied", "snapshot",
                                "ingest"},
           p \in {"check", "applied", "snapshot", "fatal", "receive"},
           p \in {"check", "applied", "snapshot"}
              => reader[i][k].pc # "ingest",
           p \in {"applied", "snapshot"} => snapshots,
           p = "check" => snapshots /\ ~err, p = "fatal" => err,
           p = "receive" => ~err,
           UNCHANGED <<correct, committed, delivered, snapshots, instance,
                       crashed, test, failed>>,
           logs' \in [Servers -> Logs],
           lastApplied' \in [Servers -> 0 .. MaxIndex],
           saved' \in [Servers -> [index : 0 .. MaxIndex, log : Logs]],
           \A j \in Servers : SavedSound(j)'
    PROVE  BaseInv'
<1>1. FullTypeOK /\ ReaderSound(i, k) /\ reader[i][k] \in Readers
  BY ReaderFacts
<1>2. /\ reader' \in [Servers -> [Instances -> Readers]]
      /\ p = "receive" => reader'[i][k] = Idle
      /\ p # "receive" => reader'[i][k] =
            [pc |-> p, msg |-> reader[i][k].msg, err |-> err]
      /\ \A j \in Servers, l \in Instances :
            <<j, l>> # <<i, k>> => reader'[j][l] = reader[j][l]
  BY <1>1, GotoFacts
<1>3. FullTypeOK'
  BY <1>1, <1>2 DEF FullTypeOK
<1>4. ReaderSound(i, k)'
  <2>1. CASE p = "receive"
    BY <1>2, <2>1 DEF ReaderSound, Idle
  <2>2. CASE p # "receive"
    <3>1. /\ reader'[i][k].pc = p /\ reader'[i][k].err = err
          /\ reader'[i][k].msg = reader[i][k].msg
      BY <1>2, <2>2
    <3>2. ~(k > instance[i])
      BY <1>1 DEF ReaderSound, Idle
    <3>3. p \in {"check", "applied", "snapshot"} => reader[i][k].msg \in CommandMsgs
      BY <1>1 DEF ReaderSound
    <3> QED
      BY <2>2, <3>1, <3>2, <3>3 DEF ReaderSound
  <2> QED
    BY <2>1, <2>2
<1> QED
  BY <1>2, <1>3, <1>4, OneReader

\* Snapshots that are already saved stay sound.
LEMMA SavedKept ==
    ASSUME BaseInv, UNCHANGED <<saved, snapshots>>
    PROVE  \A j \in Servers : SavedSound(j)'
BY DEF BaseInv, SavedSound

\* The steps of applier and applierSnap after a message was received.
LEMMA ReaderBase ==
    ASSUME BaseInv, NEW i \in Servers, NEW k \in Instances,
           \/ Compare(i, k) \/ CheckLogs(i, k) \/ Applied(i, k)
           \/ TakeSnapshot(i, k) \/ IngestSnap(i, k)
    PROVE  BaseInv'
<1> DEFINE m == Message(i, k)
           x == m.index
<1>1. FullTypeOK /\ ReaderSound(i, k) /\ reader[i][k] \in Readers
  BY ReaderFacts
<1>2. /\ logs \in [Servers -> Logs] /\ saved \in [Servers -> [index : 0 .. MaxIndex, log : Logs]]
      /\ lastApplied \in [Servers -> 0 .. MaxIndex]
  BY <1>1 DEF FullTypeOK
<1>3. reader[i][k].err \in BOOLEAN
  BY <1>1 DEF Readers
<1>4. \A err \in BOOLEAN : /\ EndOfLoop(err) \in PCs
                           /\ EndOfLoop(err) \in {"fatal", "receive"}
                           /\ EndOfLoop(err) = "fatal" <=> err
  BY DEF EndOfLoop, PCs
<1>5. CASE Compare(i, k)
  <2> DEFINE err == x # lastApplied[i] + 1
             p == IF err THEN "applied" ELSE "check"
  <2>1. /\ reader[i][k].pc = "compare" /\ Goto(i, k, p, err)
        /\ UNCHANGED <<raftVars, configVars, test, failed>>
    BY <1>5 DEF Compare, At
  <2>2. snapshots
    BY <1>1, <2>1 DEF ReaderSound
  <2>3. p \in PCs /\ err \in BOOLEAN /\ p \in {"check", "applied"}
        /\ (p = "check" => ~err)
    BY DEF PCs
  <2> HIDE DEF p, err
  <2> QED
    BY <1>2, <2>1, <2>2, <2>3, MoveBase, SavedKept DEF raftVars, configVars
<1>6. CASE CheckLogs(i, k)
  <2> DEFINE err == Disagrees(i, m) \/ OutOfOrder(i, m)
             p == IF snapshots THEN "applied" ELSE EndOfLoop(err)
  <2>1. /\ reader[i][k].pc = "check" /\ Goto(i, k, p, err)
        /\ logs' = [logs EXCEPT ![i][x] = m.cmd]
        /\ UNCHANGED <<raftVars, snapshots, lastApplied, saved, instance,
                       crashed, test, failed>>
    BY <1>6 DEF CheckLogs, At
  <2>2. err \in BOOLEAN
    BY DEF Disagrees, OutOfOrder
  <2>3. /\ p \in PCs /\ p \in {"applied", "fatal", "receive"}
        /\ p = "applied" => snapshots
        /\ (p = "fatal" => err) /\ (p = "receive" => ~err)
    BY <1>4, <2>2 DEF PCs
  <2>4. logs' \in [Servers -> Logs]
    <3>1. x \in Indexes /\ m.cmd \in Commands \cup {Absent, Nil}
      BY <2>1, ReaderFacts
    <3>2. logs' = [logs EXCEPT ![i] = [logs[i] EXCEPT ![x] = m.cmd]]
      BY <2>1
    <3>3. [logs[i] EXCEPT ![x] = m.cmd] \in Logs
      BY <1>2, <3>1 DEF Logs
    <3> QED
      BY <1>2, <3>2, <3>3
  <2>5. \A j \in Servers : SavedSound(j)'
    BY <2>1, SavedKept
  <2>6. /\ lastApplied' \in [Servers -> 0 .. MaxIndex]
        /\ saved' \in [Servers -> [index : 0 .. MaxIndex, log : Logs]]
        /\ UNCHANGED <<correct, committed, delivered, snapshots, instance,
                       crashed, test, failed>>
        /\ reader[i][k].pc = "check" /\ Goto(i, k, p, err)
    BY <1>2, <2>1 DEF raftVars
  <2> HIDE DEF p, err
  <2> QED
    BY <2>2, <2>3, <2>4, <2>5, <2>6, MoveBase
<1>7. CASE Applied(i, k)
  <2> DEFINE err == reader[i][k].err
             p == IF SnapshotAt(x) THEN "snapshot" ELSE EndOfLoop(err)
  <2>1. /\ reader[i][k].pc = "applied" /\ Goto(i, k, p, err)
        /\ lastApplied' = [lastApplied EXCEPT ![i] = x]
        /\ UNCHANGED <<raftVars, snapshots, logs, saved, instance, crashed,
                       test, failed>>
    BY <1>7 DEF Applied, At
  <2>2. snapshots /\ x \in 0 .. MaxIndex
    BY <1>1, <2>1, ReaderFacts DEF ReaderSound
  <2>3. /\ p \in PCs /\ p \in {"snapshot", "fatal", "receive"}
        /\ (p = "fatal" => err) /\ (p = "receive" => ~err)
    BY <1>3, <1>4 DEF PCs
  <2>4. lastApplied' \in [Servers -> 0 .. MaxIndex]
    BY <1>2, <2>1, <2>2
  <2> HIDE DEF p
  <2> QED
    BY <1>2, <1>3, <2>1, <2>2, <2>3, <2>4, MoveBase, SavedKept DEF raftVars
<1>8. CASE TakeSnapshot(i, k)
  <2> DEFINE err == reader[i][k].err
             p == EndOfLoop(err)
  <2>1. /\ reader[i][k].pc = "snapshot" /\ Goto(i, k, p, err)
        /\ saved' = saved \/ saved' = [saved EXCEPT ![i] = Snapshot(x, logs[i])]
        /\ UNCHANGED <<raftVars, snapshots, logs, lastApplied, instance,
                       crashed, test, failed>>
    BY <1>8 DEF TakeSnapshot, At
  <2>2. snapshots /\ x \in 0 .. MaxIndex /\ logs[i] \in Logs
    BY <1>1, <1>2, <2>1, ReaderFacts DEF ReaderSound
  <2>3. /\ p \in PCs /\ p \in {"fatal", "receive"}
        /\ (p = "fatal" => err) /\ (p = "receive" => ~err)
    BY <1>3, <1>4
  <2>4. /\ saved' \in [Servers -> [index : 0 .. MaxIndex, log : Logs]]
        /\ \A j \in Servers : SavedSound(j)'
    <3>1. CASE saved' = saved
      BY <1>2, <2>1, <3>1, SavedKept
    <3>2. CASE saved' = [saved EXCEPT ![i] = Snapshot(x, logs[i])]
      <4> DEFINE s == Snapshot(x, logs[i])
      <4>1. /\ s \in [index : 0 .. MaxIndex, log : Logs] /\ s.index = x
            /\ \A y \in Indexes : s.log[y] = Absent <=> y > x
        BY <2>2, SnapshotFacts
      <4> HIDE DEF s
      <4>2. /\ saved' \in [Servers -> [index : 0 .. MaxIndex, log : Logs]]
            /\ saved'[i] = s /\ \A j \in Servers \ {i} : saved'[j] = saved[j]
        BY <1>2, <3>2, <4>1 DEF s
      <4>3. \A j \in Servers : SavedSound(j)'
        BY <2>1, <2>2, <4>1, <4>2 DEF BaseInv, SavedSound
      <4> QED
        BY <4>2, <4>3
    <3> QED
      BY <2>1, <3>1, <3>2
  <2> HIDE DEF p
  <2> QED
    BY <1>2, <1>3, <2>1, <2>2, <2>3, <2>4, MoveBase DEF raftVars
<1>9. CASE IngestSnap(i, k)
  <2>1. /\ reader[i][k].pc = "ingest" /\ Goto(i, k, "receive", FALSE)
        /\ logs' = [logs EXCEPT ![i] = m.log]
        /\ lastApplied' = [lastApplied EXCEPT ![i] = x]
        /\ UNCHANGED <<raftVars, snapshots, saved, instance, crashed, test,
                       failed>>
    BY <1>9 DEF IngestSnap, At
  <2>2. m.log \in Logs /\ x \in 0 .. MaxIndex
    BY <2>1, ReaderFacts
  <2>3. /\ logs' \in [Servers -> Logs]
        /\ lastApplied' \in [Servers -> 0 .. MaxIndex]
    BY <1>2, <2>1, <2>2
  <2>4. "receive" \in PCs
    BY DEF PCs
  <2> QED
    BY <1>2, <2>1, <2>3, <2>4, MoveBase, SavedKept DEF raftVars
<1> QED
  BY <1>5, <1>6, <1>7, <1>8, <1>9

\* A step that moves no reader, and starts, stops or saves nothing.
LEMMA BaseFrame ==
    ASSUME BaseInv, FullTypeOK',
           UNCHANGED <<correct, snapshots, instance, crashed, reader, saved>>
    PROVE  BaseInv'
BY DEF BaseInv, ReaderSound, SavedSound, CrashesBounded, Crashes

\* The state of one() while it submits a command, and while it counts.
LEMMA TrialFacts ==
    ASSUME FullTypeOK
    PROVE  /\ \A c \in Commands, n \in Servers :
                 Submitting(c, n) \in Trials /\ Submitting(c, n).pc = "start"
           /\ \A t \in Trials, x \in Indexes :
                 /\ Scan(t, x) \in Trials /\ Scan(t, x).pc = "scan"
                 /\ Scan(t, x).index = x /\ Scan(t, x).count = 0
           /\ test.pc \in {"start", "scan"} =>
                 /\ test \in Trials /\ test.count \in Nat
                 /\ test.cmd \in Commands /\ test.expected \in Servers
                 /\ test.seen \in Entries /\ test.next \in 1 .. NServers + 1
           /\ test.pc = "scan" => test.index \in Indexes
<1>1. \A c \in Commands, n \in Servers :
         Submitting(c, n) \in Trials /\ Submitting(c, n).pc = "start"
  BY HarnessAssumption
     DEF HarnessAssumption, Submitting, Trials, Entries
<1>2. ASSUME NEW t \in Trials, NEW x \in Indexes
      PROVE  /\ Scan(t, x) \in Trials /\ Scan(t, x).pc = "scan"
             /\ Scan(t, x).index = x /\ Scan(t, x).count = 0
  <2>1. 1 \in 1 .. NServers + 1 /\ x \in 0 .. MaxIndex
    BY HarnessAssumption DEF HarnessAssumption, Indexes
  <2> QED
    BY <2>1 DEF Scan, Trials, Entries
<1>3. test.pc \in {"start", "scan"} => test \in Trials
  <2>1. test \in {[pc |-> "idle"]} \cup Trials \cup Results
    BY DEF FullTypeOK
  <2> QED
    BY <2>1 DEF Results
<1>4. \A t \in Trials :
         /\ t.count \in Nat /\ t.cmd \in Commands /\ t.expected \in Servers
         /\ t.seen \in Entries /\ t.next \in 1 .. NServers + 1
  BY DEF Trials
<1>5. test.pc = "scan" => test.index \in Indexes
  BY DEF FullTypeOK
<1> QED
  BY <1>1, <1>2, <1>3, <1>4, <1>5

\* What Count and Conclude make of the state of one().
LEMMA TestBase ==
    ASSUME BaseInv,
           \/ \E c \in Commands, n \in Servers : One(c, n)
           \/ \E x \in Indexes : Submit(x)
           \/ \E i \in Servers : Count(i)
           \/ Conclude \/ GiveUp
    PROVE  BaseInv'
<1>1. FullTypeOK
  BY DEF BaseInv
<1> DEFINE Tests == {[pc |-> "idle"]} \cup Trials \cup Results
<1>2. test' \in Tests /\ (test'.pc = "scan" => test'.index \in Indexes)
  <2>1. CASE \E c \in Commands, n \in Servers : One(c, n)
    BY <1>1, <2>1, TrialFacts DEF One
  <2>2. CASE \E x \in Indexes : Submit(x)
    BY <1>1, <2>2, TrialFacts DEF Submit
  <2>3. CASE \E i \in Servers : Count(i)
    <3>1. PICK i \in Servers : Count(i)
      BY <2>3
    <3> DEFINE c == logs[i][test.index]
               n == IF c = Absent THEN test.count ELSE test.count + 1
               v == IF c = Absent THEN test.seen ELSE c
    <3>2. /\ test.pc = "scan" /\ test \in Trials /\ test.index \in Indexes
          /\ test.count \in Nat /\ test.seen \in Entries
      BY <1>1, <3>1, TrialFacts DEF Count
    <3>3. c \in Entries
      <4>1. logs[i] \in Logs
        BY <1>1 DEF FullTypeOK
      <4> QED
        BY <3>2, <4>1 DEF Logs, Entries
    <3>4. n \in Nat /\ v \in Entries /\ i + 1 \in 1 .. NServers + 1
      BY <3>2, <3>3, HarnessAssumption DEF HarnessAssumption, Servers
    <3>5. test' = [test EXCEPT !.next = i + 1, !.count = n, !.seen = v]
      BY <3>1 DEF Count
    <3> HIDE DEF n, v
    <3>6. test' \in Trials /\ test'.index = test.index
      BY <3>2, <3>4, <3>5 DEF Trials
    <3> QED
      BY <3>2, <3>6
  <2>4. CASE Conclude
    <3>1. /\ test \in Trials /\ test.index \in Indexes
          /\ test.cmd \in Commands /\ test.expected \in Servers
      BY <1>1, <2>4, TrialFacts DEF Conclude
    <3>2. [pc |-> "returned", cmd |-> test.cmd, expected |-> test.expected,
           index |-> test.index] \in Results
      BY <3>1 DEF Results
    <3>3. /\ Scan(test, test.index) \in Trials
          /\ Scan(test, test.index).index \in Indexes
          /\ Submitting(test.cmd, test.expected) \in Trials
          /\ Submitting(test.cmd, test.expected).pc = "start"
      BY <1>1, <3>1, TrialFacts
    <3> QED
      BY <2>4, <3>2, <3>3 DEF Conclude
  <2>5. CASE GiveUp
    BY <1>1, <2>5 DEF GiveUp, FullTypeOK
  <2> QED
    BY <2>1, <2>2, <2>3, <2>4, <2>5
<1>3. failed' \in {"", "apply error", "mismatch", "no agreement"}
  BY <1>1 DEF FullTypeOK, One, Submit, Count, Conclude, GiveUp
<1>4. UNCHANGED <<raftVars, configVars, reader>>
  BY DEF One, Submit, Count, Conclude, GiveUp
<1>5. FullTypeOK'
  BY <1>1, <1>2, <1>3, <1>4 DEF FullTypeOK, raftVars, configVars
<1> QED
  BY <1>4, <1>5, BaseFrame DEF raftVars, configVars

\* Raft commits an entry; a reader ends the test program.
LEMMA CommitBase ==
    ASSUME BaseInv,
           \/ \E c \in Commands : Commit(c)
           \/ \E i \in Servers, k \in Instances : Fatal(i, k)
    PROVE  BaseInv'
<1>1. FullTypeOK
  BY DEF BaseInv
<1>2. CASE \E c \in Commands : Commit(c)
  <2>1. committed' \in Seq(Commands) /\ Len(committed') <= MaxIndex
    <3>1. committed \in Seq(Commands)
      BY <1>1 DEF FullTypeOK
    <3> QED
      BY <1>2, <3>1, HarnessAssumption DEF HarnessAssumption, Commit
  <2>2. UNCHANGED <<correct, delivered, configVars, reader, test, failed>>
    BY <1>2 DEF Commit
  <2>3. FullTypeOK'
    BY <1>1, <2>1, <2>2 DEF FullTypeOK, configVars
  <2> QED
    BY <2>2, <2>3, BaseFrame DEF configVars
<1>3. CASE \E i \in Servers, k \in Instances : Fatal(i, k)
  <2>1. UNCHANGED <<raftVars, configVars, reader, test>>
        /\ failed' = "apply error"
    BY <1>3 DEF Fatal
  <2>2. FullTypeOK'
    BY <1>1, <2>1 DEF FullTypeOK, raftVars, configVars
  <2> QED
    BY <2>1, <2>2, BaseFrame DEF raftVars, configVars
<1> QED
  BY <1>2, <1>3

\* A server crashes, or a new instance of it starts.
LEMMA CrashBase ==
    ASSUME BaseInv, NEW i \in Servers, Crash(i) \/ Start(i)
    PROVE  BaseInv'
<1>1. /\ FullTypeOK /\ CrashesBounded
      /\ instance \in [Servers -> Instances]
      /\ crashed \in [Servers -> BOOLEAN]
      /\ logs \in [Servers -> Logs]
      /\ lastApplied \in [Servers -> 0 .. MaxIndex]
      /\ saved \in [Servers -> [index : 0 .. MaxIndex, log : Logs]]
      /\ delivered \in [Servers -> [Instances -> 0 .. MaxIndex]]
  BY DEF BaseInv, FullTypeOK
<1>2. crashed' \in [Servers -> BOOLEAN]
  BY <1>1 DEF Crash, Start
<1>3. CASE Crash(i)
  <2>1. UNCHANGED <<raftVars, snapshots, logs, lastApplied, saved, instance,
                    reader, test, failed>>
    BY <1>3 DEF Crash
  <2>2. FullTypeOK'
    BY <1>1, <1>2, <2>1 DEF FullTypeOK, raftVars
  <2>3. CrashesBounded'
    BY <1>1, <1>3, <2>1, CrashCounted
  <2> QED
    BY <2>1, <2>2, <2>3 DEF BaseInv, ReaderSound, SavedSound, raftVars
<1>4. CASE Start(i)
  <2>1. UNCHANGED <<correct, committed, snapshots, saved, reader, test, failed>>
    BY <1>4 DEF Start
  <2>2. /\ instance[i] \in Instances /\ instance[i] + 1 \in Instances
        /\ instance' = [instance EXCEPT ![i] = instance[i] + 1]
    <3>1. instance[i] <= MaxCrashes
      BY <1>1, <1>4, InstanceBound DEF Start
    <3> QED
      BY <1>1, <1>4, <3>1, HarnessAssumption
         DEF HarnessAssumption, Instances, Start
  <2>3. instance' \in [Servers -> Instances]
    BY <1>1, <2>2
  <2>4. saved[i].index \in 0 .. MaxIndex /\ saved[i].log \in Logs
    BY <1>1
  <2>5. lastApplied' \in [Servers -> 0 .. MaxIndex]
    BY <1>1, <1>4, <2>4 DEF Start
  <2>6. logs' \in [Servers -> Logs]
    BY <1>1, <1>4, <2>4 DEF Start
  <2>7. delivered' \in [Servers -> [Instances -> 0 .. MaxIndex]]
    <3>1. delivered' = [delivered EXCEPT ![i] =
             [delivered[i] EXCEPT ![instance[i] + 1] = saved[i].index]]
      BY <1>4 DEF Start
    <3> QED
      BY <1>1, <2>2, <2>4, <3>1
  <2>8. FullTypeOK'
    BY <1>1, <1>2, <2>1, <2>3, <2>5, <2>6, <2>7 DEF FullTypeOK
  <2>9. CrashesBounded'
    BY <1>1, <1>4, <2>3, CrashCounted
  <2>10. \A j \in Servers, k \in Instances : ReaderSound(j, k)'
    <3> TAKE j \in Servers, k \in Instances
    <3>1. ReaderSound(j, k)
      BY DEF BaseInv
    <3>2. k > instance'[j] => k > instance[j]
      BY <1>1, <2>2 DEF Instances
    <3> QED
      BY <2>1, <3>1, <3>2 DEF ReaderSound
  <2>11. \A j \in Servers : SavedSound(j)'
    BY <2>1, SavedKept
  <2> QED
    BY <2>1, <2>8, <2>9, <2>10, <2>11 DEF BaseInv
<1> QED
  BY <1>3, <1>4

\* Every step keeps the basic part of the invariant.
LEMMA BaseKept ==
    ASSUME BaseInv, [HarnessNext]_harnessVars
    PROVE  BaseInv'
<1>1. ASSUME NEW i \in Servers, NEW k \in Instances, Reader(i, k) PROVE BaseInv'
  BY <1>1, ReceiveBase, ReaderBase, CommitBase DEF Reader
<1>2. CASE UNCHANGED harnessVars
  <2>1. UNCHANGED <<raftVars, configVars, reader, test, failed>>
    BY <1>2 DEF harnessVars
  <2>2. FullTypeOK'
    BY <2>1 DEF BaseInv, FullTypeOK, raftVars, configVars
  <2> QED
    BY <2>1, <2>2, BaseFrame DEF raftVars, configVars
<1> QED
  BY <1>1, <1>2, TestBase, CommitBase, CrashBase DEF HarnessNext

-----------------------------------------------------------------------------
(* A correct Raft.                                                         *)

\* The types that arithmetic needs.
LEMMA NumberTypes ==
    ASSUME BaseInv, NEW i \in Servers
    PROVE  /\ 1 \in Instances /\ instance[i] \in Instances
           /\ instance[i] \in Nat /\ instance[i] >= 1
           /\ lastApplied[i] \in Nat /\ logs[i] \in Logs
           /\ saved[i].index \in 0 .. MaxIndex /\ saved[i].log \in Logs
           /\ Len(committed) \in Nat
           /\ \A k \in Instances : delivered[i][k] \in Nat /\ k \in Nat /\ k >= 1
<1>1. /\ instance[i] \in Instances /\ lastApplied[i] \in 0 .. MaxIndex
      /\ logs[i] \in Logs
      /\ saved[i] \in [index : 0 .. MaxIndex, log : Logs]
      /\ committed \in Seq(Commands)
      /\ \A k \in Instances : delivered[i][k] \in 0 .. MaxIndex
  <2>1. FullTypeOK
    BY DEF BaseInv
  <2>2. /\ instance \in [Servers -> Instances]
        /\ lastApplied \in [Servers -> 0 .. MaxIndex]
        /\ logs \in [Servers -> Logs]
        /\ saved \in [Servers -> [index : 0 .. MaxIndex, log : Logs]]
        /\ committed \in Seq(Commands)
        /\ delivered \in [Servers -> [Instances -> 0 .. MaxIndex]]
    BY <2>1, Zenon DEF FullTypeOK
  <2> QED BY <2>2
<1>2. \A k \in Instances : k \in Nat /\ k >= 1
  BY DEF Instances
<1>3. 1 \in Instances
  BY HarnessAssumption DEF HarnessAssumption, Instances
<1>4. \A m \in 0 .. MaxIndex : m \in Nat
  OBVIOUS
<1>5. instance[i] \in Nat /\ instance[i] >= 1 /\ lastApplied[i] \in Nat
  BY <1>1, <1>2, <1>4
<1>6. saved[i].index \in 0 .. MaxIndex /\ saved[i].log \in Logs
  BY <1>1
<1>7. Len(committed) \in Nat
  BY <1>1
<1> QED
  BY <1>1, <1>2, <1>3, <1>4, <1>5, <1>6, <1>7

\* A step of reader k of server i, which may change what is known of that
\* server, leaves the others as they are.
LEMMA CorrectReader ==
    ASSUME BaseInv, CorrectSound, NEW i \in Servers, NEW k \in Instances,
           UNCHANGED <<correct, snapshots, committed, instance, test>>,
           \A j \in Servers \ {i} :
              /\ logs'[j] = logs[j] /\ lastApplied'[j] = lastApplied[j]
              /\ saved'[j] = saved[j] /\ delivered'[j] = delivered[j],
           \A j \in Servers, l \in Instances :
              <<j, l>> # <<i, k>> => reader'[j][l] = reader[j][l],
           correct =>
              /\ MessageSound(i, k)'
              /\ (snapshots => instance[i] <= 2) => PartOf(logs[i])'
              /\ snapshots /\ instance[i] = 1 => FirstRun(i)'
              /\ ~snapshots => \A l \in Instances : Applies(i, l)'
    PROVE  CorrectSound'
<1> SUFFICES ASSUME correct' PROVE CorrectSound'
  BY DEF CorrectSound
<1>1. correct
  OBVIOUS
<1>2. \A j \in Servers, l \in Instances : MessageSound(j, l)'
  <2> TAKE j \in Servers, l \in Instances
  <2>1. CASE <<j, l>> = <<i, k>>
    BY <1>1, <2>1
  <2>2. CASE <<j, l>> # <<i, k>>
    BY <1>1, <2>2 DEF CorrectSound, MessageSound, PartOf
  <2> QED
    BY <2>1, <2>2
<1>3. ASSUME NEW j \in Servers \ {i}
      PROVE  /\ (snapshots' => instance'[j] <= 2) => PartOf(logs[j])'
             /\ snapshots' /\ instance'[j] = 1 => FirstRun(j)'
             /\ ~snapshots' => \A l \in Instances : Applies(j, l)'
  <2>1. reader'[j][1] = reader[j][1] /\ 1 \in Instances
    BY NumberTypes
  <2>2. (snapshots' => instance'[j] <= 2) => PartOf(logs[j])'
    BY <1>1 DEF CorrectSound, PartOf
  <2>3. snapshots' /\ instance'[j] = 1 => FirstRun(j)'
    BY <1>1, <2>1 DEF CorrectSound, FirstRun, Has, PartOf
  <2>4. ~snapshots' => \A l \in Instances : Applies(j, l)'
    BY <1>1 DEF CorrectSound, Applies, Has
  <2> QED
    BY <2>2, <2>3, <2>4
<1>4. (snapshots => \A j \in Servers : instance[j] <= 2) =>
         (test.pc = "scan" /\ test.count > 0 =>
             /\ test.index <= Len(committed)
             /\ test.seen = committed[test.index])
  BY <1>1 DEF CorrectSound
<1> QED
  BY <1>1, <1>2, <1>3, <1>4 DEF CorrectSound

\* Raft hands over a message.
LEMMA ReceiveCorrect ==
    ASSUME BaseInv, CorrectSound, NEW i \in Servers, NEW k \in Instances,
           NEW m \in Messages(i, k), Receive(i, k, m)
    PROVE  CorrectSound'
<1> DEFINE p == IF IsSnapshot(m) THEN "ingest"
                ELSE IF snapshots THEN "compare" ELSE "check"
           r == [pc |-> p, msg |-> m, err |-> FALSE]
<1>1. UNCHANGED <<correct, committed, configVars, test, failed>>
  BY DEF Receive
<1>2. /\ reader \in [Servers -> [Instances -> Readers]]
      /\ delivered \in [Servers -> [Instances -> 0 .. MaxIndex]]
      /\ FullTypeOK
  BY DEF BaseInv, FullTypeOK
<1>3. /\ reader[i][k].pc = "receive" /\ k <= instance[i]
      /\ reader' = [reader EXCEPT ![i] = [reader[i] EXCEPT ![k] = r]]
  BY DEF Receive, At
<1> HIDE DEF p
<1>4. /\ reader'[i][k].pc = p /\ reader'[i][k].msg = m
      /\ \A j \in Servers, l \in Instances :
            <<j, l>> # <<i, k>> => reader'[j][l] = reader[j][l]
  BY <1>2, <1>3
<1>5. correct =>
         /\ delivered'[i][k] = m.index
         /\ \A j \in Servers \ {i} : delivered'[j] = delivered[j]
         /\ \A l \in Instances \ {k} : delivered'[i][l] = delivered[i][l]
  <2> SUFFICES ASSUME correct
               PROVE  /\ delivered'[i][k] = m.index
                      /\ \A j \in Servers \ {i} : delivered'[j] = delivered[j]
                      /\ \A l \in Instances \ {k} :
                            delivered'[i][l] = delivered[i][l]
    OBVIOUS
  <2>1. delivered' =
           [delivered EXCEPT ![i] = [delivered[i] EXCEPT ![k] = m.index]]
    BY DEF Receive
  <2> QED
    BY <1>2, <2>1
<1>6. ASSUME correct
      PROVE  /\ MessageSound(i, k)'
             /\ (snapshots => instance[i] <= 2) => PartOf(logs[i])'
             /\ snapshots /\ instance[i] = 1 => FirstRun(i)'
             /\ ~snapshots => \A l \in Instances : Applies(i, l)'
  <2>1. /\ m \in CommandMsgs \cup SnapshotMsgs
        /\ m \in SnapshotMsgs => snapshots
        /\ m.index \in 1 .. Len(committed)
        /\ m \in CommandMsgs =>
              m.index = delivered[i][k] + 1 /\ m.cmd = committed[m.index]
        /\ m \in SnapshotMsgs =>
              /\ PartOf(m.log)
              /\ \A y \in Indexes : m.log[y] = Absent <=> y > m.index
    BY <1>2, <1>6, MessageFacts
  <2>2. p = "ingest" <=> m \in SnapshotMsgs
    BY <2>1, MessageKinds DEF p
  <2>3. MessageSound(i, k)'
    <3>1. /\ m \in CommandMsgs =>
                m.index <= Len(committed) /\ m.cmd = committed[m.index]
          /\ p = "ingest" =>
                /\ PartOf(m.log)
                /\ \A y \in Indexes : m.log[y] = Absent <=> y > m.index
      BY <2>1, <2>2, NumberTypes
    <3> QED
      BY <1>1, <1>4, <3>1 DEF MessageSound, PartOf
  <2>4. (snapshots => instance[i] <= 2) => PartOf(logs[i])'
    BY <1>1, <1>6 DEF CorrectSound, PartOf, configVars
  <2>5. ASSUME snapshots, instance[i] = 1 PROVE FirstRun(i)'
    <3>1. k = 1
      BY <1>3, <2>5, NumberTypes
    <3>2. FirstRun(i)
      BY <1>6, <2>5 DEF CorrectSound
    <3>3. p = "compare" \/ p = "ingest"
      BY <2>5 DEF p
    <3>4. p = "compare" => m.index = lastApplied[i] + 1
      BY <1>3, <2>1, <2>2, <3>1, <3>2 DEF FirstRun
    <3> QED
      BY <1>1, <1>4, <1>5, <1>6, <3>1, <3>2, <3>3, <3>4
         DEF FirstRun, Has, PartOf, configVars
  <2>6. ASSUME ~snapshots, NEW l \in Instances PROVE Applies(i, l)'
    <3>1. Applies(i, l) /\ Applies(i, k)
      BY <1>6, <2>6 DEF CorrectSound
    <3>2. CASE l = k
      <4>1. p = "check" /\ m.index = delivered[i][k] + 1
        BY <2>1, <2>2, <2>6 DEF p
      <4>2. Has(i, delivered[i][k])
        BY <1>3, <3>1 DEF Applies
      <4>3. delivered'[i][k] - 1 = delivered[i][k] /\ logs' = logs
        <5>1. logs' = logs
          BY <1>1 DEF configVars
        <5>2. delivered'[i][k] = delivered[i][k] + 1
          BY <1>5, <1>6, <4>1
        <5>3. delivered[i][k] \in Nat
          BY NumberTypes
        <5> QED
          BY <5>1, <5>2, <5>3
      <4> QED
        BY <1>4, <1>5, <1>6, <3>2, <4>1, <4>2, <4>3 DEF Applies, Has
    <3>3. CASE l # k
      BY <1>1, <1>4, <1>5, <1>6, <3>1, <3>3 DEF Applies, Has, configVars
    <3> QED
      BY <3>2, <3>3
  <2> QED
    BY <2>3, <2>4, <2>5, <2>6
<1>7. \A j \in Servers \ {i} : delivered'[j] = delivered[j]
  BY <1>5 DEF Receive
<1> QED
  BY <1>1, <1>4, <1>6, <1>7, CorrectReader DEF configVars

\* A reader that moves on keeps its message.
LEMMA MessageKept ==
    ASSUME BaseInv, CorrectSound, correct, committed' = committed,
           NEW i \in Servers, NEW k \in Instances, NEW p \in PCs,
           NEW err \in BOOLEAN, Goto(i, k, p, err),
           reader[i][k].pc # "receive", p # "ingest"
    PROVE  MessageSound(i, k)'
<1>1. /\ p = "receive" => reader'[i][k] = Idle
      /\ p # "receive" => reader'[i][k] =
            [pc |-> p, msg |-> reader[i][k].msg, err |-> err]
  BY GotoFacts DEF BaseInv
<1>2. MessageSound(i, k)
  BY DEF CorrectSound
<1>3. CASE p = "receive"
  BY <1>1, <1>3 DEF MessageSound, Idle
<1>4. CASE p # "receive"
  <2>1. reader'[i][k].pc = p /\ reader'[i][k].msg = reader[i][k].msg
    BY <1>1, <1>4
  <2> QED
    BY <1>2, <2>1 DEF MessageSound
<1> QED
  BY <1>3, <1>4

\* While a server has not been restarted, its reader is the first one.
LEMMA FirstReader ==
    ASSUME BaseInv, NEW i \in Servers, NEW k \in Instances, instance[i] = 1,
           reader[i][k].pc # "receive"
    PROVE  k = 1
<1>1. ~(k > instance[i])
  <2>1. ReaderSound(i, k)
    BY ReaderFacts
  <2> QED
    BY <2>1 DEF ReaderSound, Idle
<1> QED
  BY <1>1, NumberTypes

\* applierSnap compares.
LEMMA CompareCorrect ==
    ASSUME BaseInv, CorrectSound, NEW i \in Servers, NEW k \in Instances,
           Compare(i, k)
    PROVE  CorrectSound'
<1> DEFINE err == Message(i, k).index # lastApplied[i] + 1
           p == IF err THEN "applied" ELSE "check"
<1>1. /\ reader[i][k].pc = "compare" /\ Goto(i, k, p, err)
      /\ UNCHANGED <<correct, committed, delivered, snapshots, logs,
                     lastApplied, saved, instance, crashed, test, failed>>
  BY DEF Compare, At, raftVars, configVars
<1>2. /\ p \in PCs /\ err \in BOOLEAN /\ p \in {"applied", "check"}
      /\ FullTypeOK /\ (~err => p = "check")
  BY DEF PCs, BaseInv
<1>3. err <=> reader[i][k].msg.index # lastApplied[i] + 1
  BY DEF Message
<1> HIDE DEF p, err
<1>4. /\ reader'[i][k] = [pc |-> p, msg |-> reader[i][k].msg, err |-> err]
      /\ \A j \in Servers, l \in Instances :
            <<j, l>> # <<i, k>> => reader'[j][l] = reader[j][l]
  BY <1>1, <1>2, GotoFacts
<1>5. snapshots
  <2>1. ReaderSound(i, k)
    BY ReaderFacts
  <2> QED
    BY <1>1, <2>1 DEF ReaderSound
<1>6. ASSUME correct, snapshots, instance[i] = 1 PROVE FirstRun(i)'
  <2>1. k = 1 /\ FirstRun(i)
    BY <1>1, <1>6, FirstReader DEF CorrectSound
  <2>2. reader[i][k].msg.index = lastApplied[i] + 1
        /\ delivered[i][k] = reader[i][k].msg.index
    BY <1>1, <2>1 DEF FirstRun
  <2>3. p = "check"
    BY <1>2, <1>3, <2>2
  <2>4. reader'[i][1].pc = "check" /\ reader'[i][1].msg = reader[i][k].msg
    BY <1>4, <2>1, <2>3
  <2> QED
    BY <1>1, <2>1, <2>2, <2>4 DEF FirstRun, Has, PartOf
<1>7. correct => MessageSound(i, k)'
  BY <1>1, <1>2, MessageKept
<1>8. correct /\ (snapshots => instance[i] <= 2) => PartOf(logs[i])'
  BY <1>1 DEF CorrectSound, PartOf
<1> QED
  BY <1>1, <1>4, <1>5, <1>6, <1>7, <1>8, CorrectReader

\* All entries up to x are in the log of server i after the step.
HasThen(i, x) == \A y \in Indexes : y <= x => logs'[i][y] # Absent

\* What checkLogs does to the log of its server.
LEMMA LogWritten ==
    ASSUME BaseInv, NEW i \in Servers, NEW k \in Instances, CheckLogs(i, k)
    PROVE  /\ Message(i, k).index \in Indexes
           /\ Message(i, k).cmd \in Commands /\ Message(i, k).cmd # Absent
           /\ logs'[i] = [logs[i] EXCEPT ![Message(i, k).index] =
                                            Message(i, k).cmd]
           /\ logs'[i][Message(i, k).index] = Message(i, k).cmd
           /\ \A y \in Indexes :
                 y # Message(i, k).index => logs'[i][y] = logs[i][y]
           /\ \A y : Has(i, y) => HasThen(i, y)
           /\ \A j \in Servers \ {i} : logs'[j] = logs[j]
<1> DEFINE m == Message(i, k)
<1>1. /\ logs' = [logs EXCEPT ![i] = [logs[i] EXCEPT ![m.index] = m.cmd]]
      /\ reader[i][k].pc = "check"
  BY DEF CheckLogs, At
<1>2. /\ m.index \in Indexes /\ m.cmd \in Commands
      /\ logs \in [Servers -> Logs] /\ logs[i] \in Logs
  <2>1. logs \in [Servers -> Logs]
    BY DEF BaseInv, FullTypeOK
  <2> QED
    BY <1>1, <2>1, ReaderFacts
<1>3. m.cmd # Absent
  BY <1>2, HarnessAssumption DEF HarnessAssumption, Absent
<1> HIDE DEF m
<1>4. /\ logs'[i] = [logs[i] EXCEPT ![m.index] = m.cmd]
      /\ \A j \in Servers \ {i} : logs'[j] = logs[j]
  BY <1>1, <1>2
<1>5. /\ logs'[i][m.index] = m.cmd
      /\ \A y \in Indexes : y # m.index => logs'[i][y] = logs[i][y]
  BY <1>2, <1>4 DEF Logs
<1>6. \A y : Has(i, y) => HasThen(i, y)
  BY <1>3, <1>5 DEF Has, HasThen
<1> QED
  BY <1>2, <1>3, <1>4, <1>5, <1>6 DEF m

\* checkLogs writes an entry that is committed.
LEMMA CheckCorrect ==
    ASSUME BaseInv, CorrectSound, NEW i \in Servers, NEW k \in Instances,
           CheckLogs(i, k)
    PROVE  CorrectSound'
<1> DEFINE m == Message(i, k)
           err == Disagrees(i, m) \/ OutOfOrder(i, m)
           p == IF snapshots THEN "applied" ELSE EndOfLoop(err)
<1>1. /\ reader[i][k].pc = "check" /\ Goto(i, k, p, err)
      /\ UNCHANGED <<correct, committed, delivered, snapshots,
                     lastApplied, saved, instance, crashed, test, failed>>
  BY DEF CheckLogs, At, raftVars
<1>2. err \in BOOLEAN
  BY DEF Disagrees, OutOfOrder
<1>3. /\ p \in PCs /\ (snapshots => p = "applied")
      /\ ~snapshots => p \in {"fatal", "receive"}
      /\ p \in {"applied", "fatal", "receive"}
  BY <1>2 DEF PCs, EndOfLoop
<1>4. /\ m.index \in Indexes /\ m.cmd # Absent
      /\ logs'[i][m.index] = m.cmd
      /\ \A y \in Indexes : y # m.index => logs'[i][y] = logs[i][y]
      /\ \A y : Has(i, y) => HasThen(i, y)
      /\ \A j \in Servers \ {i} : logs'[j] = logs[j]
      /\ m \in CommandMsgs /\ m = reader[i][k].msg
  BY <1>1, LogWritten, ReaderFacts DEF Message
<1> HIDE DEF p, err, m
<1>5. /\ reader'[i][k].pc = p
      /\ p # "receive" => reader'[i][k].msg = m
      /\ \A j \in Servers, l \in Instances :
            <<j, l>> # <<i, k>> => reader'[j][l] = reader[j][l]
  <2>1. FullTypeOK
    BY DEF BaseInv
  <2>2. /\ p = "receive" => reader'[i][k] = Idle
        /\ p # "receive" => reader'[i][k] =
              [pc |-> p, msg |-> reader[i][k].msg, err |-> err]
        /\ \A j \in Servers, l \in Instances :
              <<j, l>> # <<i, k>> => reader'[j][l] = reader[j][l]
    BY <1>1, <1>2, <1>3, <2>1, GotoFacts
  <2> QED
    BY <1>4, <2>2 DEF Idle
<1>6. correct => MessageSound(i, k)'
  BY <1>1, <1>2, <1>3, MessageKept
<1>7. correct => m.index <= Len(committed) /\ m.cmd = committed[m.index]
  BY <1>1, <1>4 DEF CorrectSound, MessageSound
<1>8. correct /\ (snapshots => instance[i] <= 2) => PartOf(logs[i])'
  <2> SUFFICES ASSUME correct, snapshots => instance[i] <= 2
               PROVE  PartOf(logs[i])'
    OBVIOUS
  <2>1. PartOf(logs[i])
    BY DEF CorrectSound
  <2> QED
    BY <1>1, <1>4, <1>7, <2>1 DEF PartOf
<1>9. m.index \in Nat /\ (Has(i, m.index - 1) => HasThen(i, m.index))
  <2>1. m.index \in Nat /\ \A y \in Indexes : y \in Nat
    BY <1>4 DEF Indexes
  <2>2. ASSUME Has(i, m.index - 1), NEW y \in Indexes, y <= m.index
        PROVE  logs'[i][y] # Absent
    <3>1. CASE y = m.index
      BY <1>4, <3>1
    <3>2. CASE y # m.index
      <4>1. y <= m.index - 1
        BY <2>1, <2>2, <3>2
      <4> QED
        BY <1>4, <2>2, <3>2, <4>1 DEF Has
    <3> QED
      BY <3>1, <3>2
  <2> QED
    BY <2>1, <2>2 DEF HasThen
<1>10. ASSUME correct, snapshots, instance[i] = 1 PROVE FirstRun(i)'
  <2>1. k = 1 /\ FirstRun(i)
    BY <1>1, <1>10, FirstReader DEF CorrectSound
  <2>2. m.index = lastApplied[i] + 1 /\ delivered[i][1] = m.index
        /\ Has(i, lastApplied[i]) /\ PartOf(saved[i].log)
    BY <1>1, <1>4, <2>1 DEF FirstRun
  <2>3. lastApplied[i] = m.index - 1
    BY <2>2, NumberTypes
  <2>4. HasThen(i, m.index) /\ HasThen(i, lastApplied[i])
    BY <1>4, <1>9, <2>2, <2>3
  <2>5. reader'[i][1].pc = "applied" /\ reader'[i][1].msg = m
    BY <1>3, <1>5, <1>10, <2>1
  <2> QED
    BY <1>1, <2>2, <2>4, <2>5 DEF FirstRun, PartOf, Has, HasThen
<1>11. ASSUME correct, ~snapshots, NEW l \in Instances PROVE Applies(i, l)'
  <2>1. Applies(i, l) /\ Applies(i, k)
    BY <1>11 DEF CorrectSound
  <2>2. CASE l = k
    <3>1. m.index = delivered[i][k] /\ Has(i, delivered[i][k] - 1)
      BY <1>1, <1>4, <2>1 DEF Applies
    <3>2. HasThen(i, m.index) /\ HasThen(i, m.index - 1)
      BY <1>4, <1>9, <3>1
    <3>3. reader'[i][k].pc # "check"
      BY <1>3, <1>5, <1>11
    <3> QED
      BY <1>1, <2>2, <3>1, <3>2, <3>3 DEF Applies, Has, HasThen
  <2>3. CASE l # k
    <3>1. reader'[i][l] = reader[i][l]
      BY <1>5, <2>3
    <3>2. delivered'[i][l] = delivered[i][l]
      BY <1>1
    <3>3. /\ Has(i, delivered[i][l] - 1) => HasThen(i, delivered[i][l] - 1)
          /\ Has(i, delivered[i][l]) => HasThen(i, delivered[i][l])
      BY <1>4
    <3> QED
      BY <1>1, <2>1, <3>1, <3>2, <3>3 DEF Applies, Has, HasThen
  <2> QED
    BY <2>2, <2>3
<1> QED
  BY <1>1, <1>4, <1>5, <1>6, <1>8, <1>10, <1>11, CorrectReader

\* lastApplied becomes the index of an entry that is in the log.
LEMMA AppliedCorrect ==
    ASSUME BaseInv, CorrectSound, NEW i \in Servers, NEW k \in Instances,
           Applied(i, k)
    PROVE  CorrectSound'
<1> DEFINE m == Message(i, k)
           err == reader[i][k].err
           p == IF SnapshotAt(m.index) THEN "snapshot" ELSE EndOfLoop(err)
<1>1. /\ reader[i][k].pc = "applied" /\ Goto(i, k, p, err)
      /\ lastApplied' = [lastApplied EXCEPT ![i] = m.index]
      /\ UNCHANGED <<correct, committed, delivered, snapshots, logs, saved,
                     instance, crashed, test, failed>>
  BY DEF Applied, At, raftVars
<1>2. FullTypeOK /\ reader[i][k] \in Readers /\ ReaderSound(i, k)
  BY ReaderFacts
<1>3. err \in BOOLEAN /\ snapshots /\ m = reader[i][k].msg
  BY <1>1, <1>2 DEF Readers, ReaderSound, Message
<1>4. p \in PCs /\ p \in {"snapshot", "fatal", "receive"}
  BY <1>3 DEF PCs, EndOfLoop
<1>5. /\ lastApplied'[i] = m.index
      /\ \A j \in Servers \ {i} : lastApplied'[j] = lastApplied[j]
  BY <1>1, <1>2 DEF FullTypeOK
<1> HIDE DEF p, err, m
<1>6. /\ reader'[i][k].pc = p
      /\ p # "receive" => reader'[i][k].msg = m
      /\ \A j \in Servers, l \in Instances :
            <<j, l>> # <<i, k>> => reader'[j][l] = reader[j][l]
  <2>1. /\ p = "receive" => reader'[i][k] = Idle
        /\ p # "receive" => reader'[i][k] =
              [pc |-> p, msg |-> reader[i][k].msg, err |-> err]
        /\ \A j \in Servers, l \in Instances :
              <<j, l>> # <<i, k>> => reader'[j][l] = reader[j][l]
    BY <1>1, <1>2, <1>3, <1>4, GotoFacts
  <2> QED
    BY <1>3, <2>1 DEF Idle
<1>7. correct => MessageSound(i, k)'
  BY <1>1, <1>3, <1>4, MessageKept
<1>8. correct /\ (snapshots => instance[i] <= 2) => PartOf(logs[i])'
  BY <1>1 DEF CorrectSound, PartOf
<1>9. ASSUME correct, snapshots, instance[i] = 1 PROVE FirstRun(i)'
  <2>1. k = 1 /\ FirstRun(i)
    BY <1>1, <1>9, FirstReader DEF CorrectSound
  <2>2. /\ delivered[i][1] = m.index /\ Has(i, m.index)
        /\ PartOf(saved[i].log)
    BY <1>1, <1>3, <2>1 DEF FirstRun
  <2>3. reader'[i][1].pc = p /\ (p # "receive" => reader'[i][1].msg = m)
    BY <1>6, <2>1
  <2> QED
    BY <1>1, <1>4, <1>5, <2>2, <2>3 DEF FirstRun, PartOf, Has
<1> QED
  BY <1>1, <1>3, <1>5, <1>6, <1>7, <1>8, <1>9, CorrectReader

\* rf.Snapshot saves what the log has up to lastApplied.
LEMMA SnapshotCorrect ==
    ASSUME BaseInv, CorrectSound, NEW i \in Servers, NEW k \in Instances,
           TakeSnapshot(i, k)
    PROVE  CorrectSound'
<1> DEFINE m == Message(i, k)
           err == reader[i][k].err
           p == EndOfLoop(err)
           s == Snapshot(m.index, logs[i])
<1>1. /\ reader[i][k].pc = "snapshot" /\ Goto(i, k, p, err)
      /\ saved' = saved \/ saved' = [saved EXCEPT ![i] = s]
      /\ UNCHANGED <<correct, committed, delivered, snapshots, logs,
                     lastApplied, instance, crashed, test, failed>>
  BY DEF TakeSnapshot, At, raftVars
<1>2. /\ FullTypeOK /\ reader[i][k] \in Readers /\ ReaderSound(i, k)
      /\ m.index \in 0 .. MaxIndex
  BY <1>1, ReaderFacts
<1>3. err \in BOOLEAN /\ snapshots /\ m = reader[i][k].msg
  BY <1>1, <1>2 DEF Readers, ReaderSound, Message
<1>4. p \in PCs /\ p \in {"fatal", "receive"}
  BY <1>3 DEF PCs, EndOfLoop
<1>5. \A y \in Indexes : /\ s.log[y] = Absent <=> y > m.index
                         /\ y <= m.index /\ logs[i][y] # Absent
                               => s.log[y] = logs[i][y]
  BY <1>2, NumberTypes, SnapshotFacts
<1> HIDE DEF p, err, m, s
<1>6. /\ saved'[i] = saved[i] \/ saved'[i] = s
      /\ \A j \in Servers \ {i} : saved'[j] = saved[j]
  BY <1>1, <1>2 DEF FullTypeOK
<1>7. /\ reader'[i][k].pc = p
      /\ p # "receive" => reader'[i][k].msg = m
      /\ \A j \in Servers, l \in Instances :
            <<j, l>> # <<i, k>> => reader'[j][l] = reader[j][l]
  <2>1. /\ p = "receive" => reader'[i][k] = Idle
        /\ p # "receive" => reader'[i][k] =
              [pc |-> p, msg |-> reader[i][k].msg, err |-> err]
        /\ \A j \in Servers, l \in Instances :
              <<j, l>> # <<i, k>> => reader'[j][l] = reader[j][l]
    BY <1>1, <1>2, <1>3, <1>4, GotoFacts
  <2> QED
    BY <1>3, <2>1 DEF Idle
<1>8. correct => MessageSound(i, k)'
  BY <1>1, <1>3, <1>4, MessageKept
<1>9. correct /\ (snapshots => instance[i] <= 2) => PartOf(logs[i])'
  BY <1>1 DEF CorrectSound, PartOf
<1>10. ASSUME correct, snapshots, instance[i] = 1 PROVE FirstRun(i)'
  <2>1. k = 1 /\ FirstRun(i)
    BY <1>1, <1>10, FirstReader DEF CorrectSound
  <2>2. /\ delivered[i][1] = m.index /\ Has(i, m.index)
        /\ lastApplied[i] = m.index /\ PartOf(saved[i].log)
    BY <1>1, <1>3, <2>1 DEF FirstRun
  <2>3. PartOf(logs[i])
    BY <1>10 DEF CorrectSound
  <2>4. ASSUME NEW y \in Indexes, s.log[y] # Absent
        PROVE  y <= Len(committed) /\ s.log[y] = committed[y]
    <3>1. y <= m.index
      BY <1>2, <1>5, <2>4 DEF Indexes
    <3> QED
      BY <1>5, <2>2, <2>3, <3>1 DEF Has, PartOf
  <2>5. PartOf(saved'[i].log)
    BY <1>6, <2>2, <2>4 DEF PartOf
  <2>6. reader'[i][1].pc = p /\ (p # "receive" => reader'[i][1].msg = m)
    BY <1>7, <2>1
  <2> QED
    BY <1>1, <1>4, <2>2, <2>5, <2>6 DEF FirstRun, PartOf, Has
<1> QED
  BY <1>1, <1>3, <1>6, <1>7, <1>8, <1>9, <1>10, CorrectReader

\* ingestSnap replaces the log by a part of the committed one.
LEMMA IngestCorrect ==
    ASSUME BaseInv, CorrectSound, NEW i \in Servers, NEW k \in Instances,
           IngestSnap(i, k)
    PROVE  CorrectSound'
<1> DEFINE m == Message(i, k)
<1>1. /\ reader[i][k].pc = "ingest" /\ Goto(i, k, "receive", FALSE)
      /\ logs' = [logs EXCEPT ![i] = m.log]
      /\ lastApplied' = [lastApplied EXCEPT ![i] = m.index]
      /\ UNCHANGED <<correct, committed, delivered, snapshots, saved,
                     instance, crashed, test, failed>>
  BY DEF IngestSnap, At, raftVars
<1>2. FullTypeOK /\ ReaderSound(i, k) /\ m.index \in 0 .. MaxIndex
  BY <1>1, ReaderFacts
<1>3. snapshots /\ m = reader[i][k].msg
  BY <1>1, <1>2 DEF ReaderSound, Message
<1> HIDE DEF m
<1>4. /\ lastApplied'[i] = m.index /\ logs'[i] = m.log
      /\ \A j \in Servers \ {i} :
            lastApplied'[j] = lastApplied[j] /\ logs'[j] = logs[j]
  BY <1>1, <1>2 DEF FullTypeOK
<1>5. /\ reader'[i][k] = Idle
      /\ \A j \in Servers, l \in Instances :
            <<j, l>> # <<i, k>> => reader'[j][l] = reader[j][l]
  <2>1. "receive" \in PCs
    BY DEF PCs
  <2> QED
    BY <1>1, <1>2, <2>1, GotoFacts
<1>6. correct => MessageSound(i, k)'
  BY <1>5 DEF MessageSound, Idle
<1>7. correct => PartOf(m.log)
                 /\ \A y \in Indexes : m.log[y] = Absent <=> y > m.index
  BY <1>1, <1>3 DEF CorrectSound, MessageSound
<1>8. correct => PartOf(logs[i])'
  BY <1>1, <1>4, <1>7 DEF PartOf
<1>9. ASSUME correct, snapshots, instance[i] = 1 PROVE FirstRun(i)'
  <2>1. k = 1 /\ FirstRun(i)
    BY <1>1, <1>9, FirstReader DEF CorrectSound
  <2>2. delivered[i][1] = m.index /\ PartOf(saved[i].log)
    BY <1>1, <1>3, <2>1 DEF FirstRun
  <2>3. HasThen(i, m.index)
    BY <1>2, <1>4, <1>7, <1>9 DEF HasThen, Indexes
  <2>4. reader'[i][1].pc = "receive"
    BY <1>5, <2>1 DEF Idle
  <2> QED
    BY <1>1, <1>4, <2>2, <2>3, <2>4 DEF FirstRun, PartOf, Has, HasThen
<1> QED
  BY <1>1, <1>3, <1>4, <1>5, <1>6, <1>8, <1>9, CorrectReader

\* What one() has seen of a correct Raft.
SeenSound ==
    (snapshots => \A i \in Servers : instance[i] <= 2) =>
        (test.pc = "scan" /\ test.count > 0 =>
            /\ test.index <= Len(committed)
            /\ test.seen = committed[test.index])

\* A step that changes no log, no reader and nothing of Raft.
LEMMA CorrectFrame ==
    ASSUME CorrectSound, correct => SeenSound',
           UNCHANGED <<correct, committed, delivered, snapshots, logs,
                       lastApplied, saved, instance, reader>>
    PROVE  CorrectSound'
BY DEF CorrectSound, SeenSound, MessageSound, PartOf, FirstRun, Applies, Has

\* one() sees committed entries only.
LEMMA TestCorrect ==
    ASSUME BaseInv, CorrectSound,
           \/ \E c \in Commands, n \in Servers : One(c, n)
           \/ \E x \in Indexes : Submit(x)
           \/ \E i \in Servers : Count(i)
           \/ Conclude \/ GiveUp
    PROVE  CorrectSound'
<1>1. UNCHANGED <<correct, committed, delivered, snapshots, logs, lastApplied,
                  saved, instance, reader>>
  BY DEF One, Submit, Count, Conclude, GiveUp, raftVars, configVars
<1>2. FullTypeOK
  BY DEF BaseInv
<1>3. ASSUME correct, snapshots => \A i \in Servers : instance[i] <= 2,
             test'.pc = "scan", test'.count > 0
      PROVE  /\ test'.index <= Len(committed)
             /\ test'.seen = committed[test'.index]
  <2>1. CASE \E c \in Commands, n \in Servers : One(c, n)
    BY <1>3, <2>1 DEF One, Submitting
  <2>2. CASE \E x \in Indexes : Submit(x)
    BY <1>2, <1>3, <2>2, TrialFacts DEF Submit
  <2>3. CASE \E i \in Servers : Count(i)
    <3>1. PICK i \in Servers : Count(i)
      BY <2>3
    <3>2. PICK x : x = test.index
      OBVIOUS
    <3>3. PICK c : c = logs[i][x]
      OBVIOUS
    <3>4. /\ test.pc = "scan" /\ test \in Trials /\ x \in Indexes
      BY <1>2, <3>1, <3>2, TrialFacts DEF Count
    <3>5. /\ test'.index = x
          /\ c = Absent => test'.count = test.count /\ test'.seen = test.seen
          /\ c # Absent => test'.seen = c
      <4>1. test' = [test EXCEPT !.next = i + 1,
                       !.count = IF c = Absent THEN test.count
                                 ELSE test.count + 1,
                       !.seen = IF c = Absent THEN test.seen ELSE c]
        BY <3>1, <3>2, <3>3 DEF Count
      <4> QED
        BY <3>2, <3>4, <4>1 DEF Trials
    <3>6. CASE c = Absent
      <4>1. SeenSound
        BY <1>3 DEF CorrectSound, SeenSound
      <4> QED
        BY <1>3, <3>2, <3>4, <3>5, <3>6, <4>1 DEF SeenSound
    <3>7. CASE c # Absent
      <4>1. PartOf(logs[i])
        BY <1>3 DEF CorrectSound
      <4> QED
        BY <3>3, <3>4, <3>5, <3>7, <4>1 DEF PartOf
    <3> QED
      BY <3>6, <3>7
  <2>4. CASE Conclude
    <3>1. /\ test \in Trials /\ test.index \in Indexes
          /\ test.cmd \in Commands /\ test.expected \in Servers
      BY <1>2, <2>4, TrialFacts DEF Conclude
    <3>2. /\ Scan(test, test.index).count = 0
          /\ Submitting(test.cmd, test.expected).pc = "start"
      BY <1>2, <3>1, TrialFacts
    <3> QED
      BY <1>3, <2>4, <3>2 DEF Conclude
  <2>5. CASE GiveUp
    BY <1>3, <2>5 DEF GiveUp, CorrectSound
  <2> QED
    BY <2>1, <2>2, <2>3, <2>4, <2>5
<1> QED
  BY <1>1, <1>3, CorrectFrame DEF SeenSound

\* Raft commits one more entry.
LEMMA CommitCorrect ==
    ASSUME BaseInv, CorrectSound, NEW c \in Commands, Commit(c)
    PROVE  CorrectSound'
<1>1. /\ correct /\ committed' = Append(committed, c)
      /\ UNCHANGED <<correct, delivered, snapshots, logs, lastApplied, saved,
                     instance, reader, test>>
  BY DEF Commit, configVars
<1>2. /\ Len(committed) \in Nat /\ Len(committed) <= Len(committed')
      /\ Len(committed') \in Nat
      /\ \A x \in Nat \ {0} :
            x <= Len(committed) => committed'[x] = committed[x]
  <2>1. committed \in Seq(Commands)
    BY DEF BaseInv, FullTypeOK
  <2> QED
    BY <1>1, <2>1
<1>3. \A x \in Indexes : /\ x \in Nat \ {0}
                         /\ x <= Len(committed) => /\ x <= Len(committed')
                                                   /\ committed'[x] = committed[x]
  BY <1>2 DEF Indexes
<1>4. \A l : PartOf(l) => \A x \in Indexes :
          l[x] # Absent => x <= Len(committed') /\ l[x] = committed'[x]
  BY <1>3 DEF PartOf
<1>5. \A i \in Servers, k \in Instances : MessageSound(i, k)'
  <2> TAKE i \in Servers, k \in Instances
  <2>1. MessageSound(i, k)
    BY <1>1 DEF CorrectSound
  <2>2. reader[i][k].msg \in CommandMsgs => reader[i][k].msg.index \in Indexes
    BY DEF CommandMsgs
  <2> QED
    BY <1>1, <1>3, <1>4, <2>1, <2>2 DEF MessageSound, PartOf
<1>6. ASSUME NEW i \in Servers
      PROVE  /\ (snapshots => instance[i] <= 2) => PartOf(logs[i])'
             /\ snapshots /\ instance[i] = 1 => FirstRun(i)'
             /\ ~snapshots => \A k \in Instances : Applies(i, k)'
  <2>1. (snapshots => instance[i] <= 2) => PartOf(logs[i])'
    BY <1>1, <1>4 DEF CorrectSound, PartOf
  <2>2. snapshots /\ instance[i] = 1 => FirstRun(i)'
    BY <1>1, <1>4 DEF CorrectSound, FirstRun, Has, PartOf
  <2>3. ~snapshots => \A k \in Instances : Applies(i, k)'
    BY <1>1 DEF CorrectSound, Applies, Has
  <2> QED
    BY <2>1, <2>2, <2>3
<1>7. SeenSound'
  <2>1. SeenSound
    BY <1>1 DEF CorrectSound, SeenSound
  <2>2. test.pc = "scan" => test.index \in Indexes
    BY DEF BaseInv, FullTypeOK
  <2> QED
    BY <1>1, <1>3, <2>1, <2>2 DEF SeenSound
<1> QED
  BY <1>1, <1>5, <1>6, <1>7 DEF CorrectSound, SeenSound

\* A new instance starts from what is saved, and has applied nothing after it.
LEMMA StartCorrect ==
    ASSUME BaseInv, CorrectSound, NEW i \in Servers, Start(i)
    PROVE  CorrectSound'
<1> DEFINE n == instance[i] + 1
<1>1. UNCHANGED <<correct, committed, snapshots, saved, reader, test>>
  BY DEF Start
<1>2. /\ instance \in [Servers -> Instances] /\ logs \in [Servers -> Logs]
      /\ lastApplied \in [Servers -> 0 .. MaxIndex]
      /\ delivered \in [Servers -> [Instances -> 0 .. MaxIndex]]
      /\ crashed[i] /\ CrashesBounded
  BY DEF BaseInv, FullTypeOK, Start
<1>3. n \in Instances /\ n > instance[i] /\ n >= 2 /\ (n <= 2 => instance[i] = 1)
  <2>1. instance[i] <= MaxCrashes
    BY <1>2, InstanceBound
  <2> QED
    BY <2>1, NumberTypes, HarnessAssumption DEF HarnessAssumption, Instances
<1>4. /\ instance'[i] = n
      /\ \A j \in Servers \ {i} : /\ instance'[j] = instance[j]
                                  /\ lastApplied'[j] = lastApplied[j]
                                  /\ logs'[j] = logs[j]
                                  /\ delivered'[j] = delivered[j]
      /\ delivered'[i][n] = saved[i].index
      /\ \A k \in Instances \ {n} : delivered'[i][k] = delivered[i][k]
      /\ \/ logs'[i] = logs[i]
         \/ saved[i].index > 0 /\ logs'[i] = saved[i].log
  <2>1. /\ instance' = [instance EXCEPT ![i] = n]
        /\ lastApplied' = [lastApplied EXCEPT ![i] = saved[i].index]
        /\ \/ logs' = logs
           \/ saved[i].index > 0 /\ logs' = [logs EXCEPT ![i] = saved[i].log]
        /\ delivered' = [delivered EXCEPT ![i] =
                           [delivered[i] EXCEPT ![n] = saved[i].index]]
    BY DEF Start
  <2> HIDE DEF n
  <2>2. /\ instance'[i] = n
        /\ \A j \in Servers \ {i} : /\ instance'[j] = instance[j]
                                    /\ lastApplied'[j] = lastApplied[j]
    BY <1>2, <2>1
  <2>3. /\ \A j \in Servers \ {i} : logs'[j] = logs[j]
        /\ \/ logs'[i] = logs[i]
           \/ saved[i].index > 0 /\ logs'[i] = saved[i].log
    BY <1>2, <2>1
  <2>4. /\ \A j \in Servers \ {i} : delivered'[j] = delivered[j]
        /\ delivered'[i][n] = saved[i].index
        /\ \A k \in Instances \ {n} : delivered'[i][k] = delivered[i][k]
    BY <1>2, <1>3, <2>1
  <2> QED
    BY <2>2, <2>3, <2>4
<1>5. reader[i][n] = Idle
  BY <1>3 DEF BaseInv, ReaderSound
<1> HIDE DEF n
<1> SUFFICES ASSUME correct PROVE CorrectSound'
  BY <1>1 DEF CorrectSound
<1>6. \A j \in Servers, k \in Instances : MessageSound(j, k)'
  BY <1>1 DEF CorrectSound, MessageSound, PartOf
<1>7. ASSUME NEW j \in Servers \ {i}
      PROVE  /\ (snapshots' => instance'[j] <= 2) => PartOf(logs[j])'
             /\ snapshots' /\ instance'[j] = 1 => FirstRun(j)'
             /\ ~snapshots' => \A k \in Instances : Applies(j, k)'
  <2>1. (snapshots' => instance'[j] <= 2) => PartOf(logs[j])'
    BY <1>1, <1>4 DEF CorrectSound, PartOf
  <2>2. snapshots' /\ instance'[j] = 1 => FirstRun(j)'
    BY <1>1, <1>4 DEF CorrectSound, FirstRun, Has, PartOf
  <2>3. ~snapshots' => \A k \in Instances : Applies(j, k)'
    BY <1>1, <1>4 DEF CorrectSound, Applies, Has
  <2> QED
    BY <2>1, <2>2, <2>3
<1>8. ~snapshots => logs'[i] = logs[i] /\ saved[i].index = 0
  BY <1>4 DEF BaseInv, SavedSound
<1>9. (snapshots' => instance'[i] <= 2) => PartOf(logs[i])'
  <2>1. CASE ~snapshots
    BY <1>1, <1>8, <2>1 DEF CorrectSound, PartOf
  <2>2. CASE snapshots /\ instance'[i] <= 2
    <3>1. instance[i] = 1
      BY <1>3, <1>4, <2>2
    <3>2. PartOf(logs[i]) /\ PartOf(saved[i].log)
      BY <2>2, <3>1 DEF CorrectSound, FirstRun
    <3> QED
      BY <1>1, <1>4, <3>2 DEF PartOf
  <2> QED
    BY <1>1, <2>1, <2>2
<1>10. ~snapshots' => \A k \in Instances : Applies(i, k)'
  <2> SUFFICES ASSUME ~snapshots, NEW k \in Instances PROVE Applies(i, k)'
    BY <1>1
  <2>1. Applies(i, k)
    BY DEF CorrectSound
  <2>2. CASE k = n
    <3>1. \A y \in Indexes : ~(y <= 0) /\ ~(y <= 0 - 1)
      BY DEF Indexes
    <3>2. delivered'[i][k] = 0 /\ reader'[i][k].pc = "receive"
      BY <1>1, <1>4, <1>5, <1>8, <2>2 DEF Idle
    <3> QED
      BY <3>1, <3>2 DEF Applies, Has
  <2>3. CASE k # n
    BY <1>1, <1>4, <1>8, <2>1, <2>3 DEF Applies, Has
  <2> QED
    BY <2>2, <2>3
<1>11. ~(instance'[i] = 1)
  BY <1>3, <1>4
<1>12. SeenSound'
  <2>1. SeenSound
    BY DEF CorrectSound, SeenSound
  <2>2. (\A j \in Servers : instance'[j] <= 2) =>
            \A j \in Servers : instance[j] <= 2
    BY <1>3, <1>4
  <2> QED
    BY <1>1, <2>1, <2>2 DEF SeenSound
<1> QED
  BY <1>1, <1>6, <1>7, <1>9, <1>10, <1>11, <1>12 DEF CorrectSound, SeenSound

\* Every step keeps what is known of a correct Raft.
LEMMA CorrectKept ==
    ASSUME BaseInv, CorrectSound, [HarnessNext]_harnessVars
    PROVE  CorrectSound'
<1>1. ASSUME NEW i \in Servers, NEW k \in Instances, Reader(i, k)
      PROVE  CorrectSound'
  <2>1. CASE Fatal(i, k)
    <3>1. UNCHANGED <<correct, committed, delivered, snapshots, logs,
                      lastApplied, saved, instance, reader, test>>
      BY <2>1 DEF Fatal, raftVars, configVars
    <3>2. correct => SeenSound'
      BY <3>1 DEF CorrectSound, SeenSound
    <3> QED
      BY <3>1, <3>2, CorrectFrame
  <2> QED
    BY <1>1, <2>1, ReceiveCorrect, CompareCorrect, CheckCorrect,
       AppliedCorrect, SnapshotCorrect, IngestCorrect DEF Reader
<1>2. CASE (\E i \in Servers : Crash(i)) \/ UNCHANGED harnessVars
  <2>1. UNCHANGED <<correct, committed, delivered, snapshots, logs,
                    lastApplied, saved, instance, reader, test>>
    BY <1>2 DEF Crash, harnessVars, raftVars, configVars
  <2>2. correct => SeenSound'
    BY <2>1 DEF CorrectSound, SeenSound
  <2> QED
    BY <2>1, <2>2, CorrectFrame
<1> QED
  BY <1>1, <1>2, TestCorrect, CommitCorrect, StartCorrect DEF HarnessNext

-----------------------------------------------------------------------------
(* No false alarm.                                                         *)

\* No reader has found an error.
NoErrors == \A i \in Servers, k \in Instances : ~reader[i][k].err

\* A reader that moves on without an error adds none.
LEMMA NoErrorAdded ==
    ASSUME BaseInv, NoErrors, NEW i \in Servers, NEW k \in Instances,
           NEW p \in PCs, Goto(i, k, p, FALSE)
    PROVE  NoErrors'
<1>1. /\ p = "receive" => reader'[i][k] = Idle
      /\ p # "receive" => reader'[i][k] =
            [pc |-> p, msg |-> reader[i][k].msg, err |-> FALSE]
      /\ \A j \in Servers, l \in Instances :
            <<j, l>> # <<i, k>> => reader'[j][l] = reader[j][l]
  BY GotoFacts DEF BaseInv
<1>2. ~reader'[i][k].err
  BY <1>1 DEF Idle
<1> SUFFICES ASSUME NEW j \in Servers, NEW l \in Instances
             PROVE  ~reader'[j][l].err
  BY DEF NoErrors
<1>3. CASE <<j, l>> = <<i, k>>
  BY <1>2, <1>3
<1>4. CASE <<j, l>> # <<i, k>>
  BY <1>1, <1>4 DEF NoErrors
<1> QED
  BY <1>3, <1>4

\* checkLogs has nothing to object to what a correct Raft hands over.
LEMMA CheckAccepts ==
    ASSUME BaseInv, CorrectSound, correct, NEW i \in Servers,
           NEW k \in Instances, reader[i][k].pc = "check",
           snapshots => \A j \in Servers : instance[j] = 1
    PROVE  ~Disagrees(i, Message(i, k)) /\ ~OutOfOrder(i, Message(i, k))
<1> DEFINE m == Message(i, k)
<1>1. m \in CommandMsgs /\ m.index \in Indexes /\ m = reader[i][k].msg
  BY ReaderFacts DEF Message
<1> HIDE DEF m
<1>2. m.index <= Len(committed) /\ m.cmd = committed[m.index]
  BY <1>1 DEF CorrectSound, MessageSound
<1>3. \A j \in Servers : PartOf(logs[j])
  BY DEF CorrectSound
<1>4. \A j \in Servers : logs[j][m.index] \in {Absent, m.cmd}
  BY <1>1, <1>2, <1>3 DEF PartOf
<1>5. Has(i, m.index - 1)
  <2>1. CASE snapshots
    <3>1. k = 1 /\ FirstRun(i)
      BY <2>1, FirstReader DEF CorrectSound
    <3>2. m.index = lastApplied[i] + 1 /\ Has(i, lastApplied[i])
      BY <1>1, <3>1 DEF FirstRun
    <3>3. m.index - 1 = lastApplied[i]
      BY <3>2, NumberTypes
    <3> QED
      BY <3>2, <3>3
  <2>2. CASE ~snapshots
    <3>1. Applies(i, k)
      BY <2>2 DEF CorrectSound
    <3> QED
      BY <1>1, <3>1 DEF Applies
  <2> QED
    BY <2>1, <2>2
<1>6. m.index > 1 => logs[i][m.index - 1] # Absent
  <2>1. m.index > 1 => m.index - 1 \in Indexes /\ m.index - 1 <= m.index - 1
    BY <1>1, HarnessAssumption DEF HarnessAssumption, Indexes
  <2> QED
    BY <1>5, <2>1 DEF Has
<1> QED
  BY <1>4, <1>6 DEF Disagrees, OutOfOrder, m

\* No reader of a correct Raft finds an error.
LEMMA ReaderAccepts ==
    ASSUME BaseInv, CorrectSound, correct, NoErrors, NEW i \in Servers,
           NEW k \in Instances, Reader(i, k),
           snapshots => \A j \in Servers : instance[j] = 1
    PROVE  NoErrors' /\ failed' = failed
<1>1. /\ reader[i][k] \in Readers /\ ReaderSound(i, k)
      /\ reader[i][k].err = FALSE
  BY ReaderFacts DEF NoErrors, Readers
<1>2. \A p \in {"receive", "applied", "check", "snapshot"} : p \in PCs
  BY DEF PCs
<1>3. EndOfLoop(FALSE) = "receive"
  BY DEF EndOfLoop
<1>4. CASE \E m \in Messages(i, k) : Receive(i, k, m)
  <2>1. PICK m : Receive(i, k, m)
    BY <1>4
  <2> DEFINE r == [pc |-> IF IsSnapshot(m) THEN "ingest"
                          ELSE IF snapshots THEN "compare" ELSE "check",
                   msg |-> m, err |-> FALSE]
  <2>2. /\ reader' = [reader EXCEPT ![i] = [reader[i] EXCEPT ![k] = r]]
        /\ failed' = failed
    BY <2>1 DEF Receive
  <2>3. r.err = FALSE
    OBVIOUS
  <2> HIDE DEF r
  <2>4. reader \in [Servers -> [Instances -> Readers]]
    BY DEF BaseInv, FullTypeOK
  <2> QED
    BY <2>2, <2>3, <2>4 DEF NoErrors
<1>5. CASE Compare(i, k)
  <2>1. reader[i][k].pc = "compare" /\ snapshots
    BY <1>1, <1>5 DEF Compare, At, ReaderSound
  <2>2. k = 1 /\ FirstRun(i)
    BY <2>1, FirstReader DEF CorrectSound
  <2>3. Message(i, k).index = lastApplied[i] + 1
    BY <2>1, <2>2 DEF FirstRun, Message
  <2>4. Goto(i, k, "check", FALSE) /\ failed' = failed
    BY <1>5, <2>3 DEF Compare
  <2> QED
    BY <1>2, <2>4, NoErrorAdded
<1>6. CASE CheckLogs(i, k)
  <2>1. ~Disagrees(i, Message(i, k)) /\ ~OutOfOrder(i, Message(i, k))
    BY <1>6, CheckAccepts DEF CheckLogs, At
  <2>2. (Disagrees(i, Message(i, k)) \/ OutOfOrder(i, Message(i, k))) = FALSE
    BY <2>1
  <2>3. PICK p \in {"receive", "applied"} : Goto(i, k, p, FALSE)
    BY <1>3, <1>6, <2>2 DEF CheckLogs
  <2>4. failed' = failed
    BY <1>6 DEF CheckLogs
  <2> QED
    BY <1>2, <2>3, <2>4, NoErrorAdded
<1>7. CASE Applied(i, k)
  <2>1. PICK p \in {"receive", "snapshot"} : Goto(i, k, p, FALSE)
    BY <1>1, <1>3, <1>7 DEF Applied
  <2>2. failed' = failed
    BY <1>7 DEF Applied
  <2> QED
    BY <1>2, <2>1, <2>2, NoErrorAdded
<1>8. CASE TakeSnapshot(i, k)
  <2>1. Goto(i, k, "receive", FALSE) /\ failed' = failed
    BY <1>1, <1>3, <1>8 DEF TakeSnapshot
  <2> QED
    BY <1>2, <2>1, NoErrorAdded
<1>9. CASE IngestSnap(i, k)
  <2>1. Goto(i, k, "receive", FALSE) /\ failed' = failed
    BY <1>9 DEF IngestSnap
  <2> QED
    BY <1>2, <2>1, NoErrorAdded
<1>10. CASE Fatal(i, k)
  BY <1>1, <1>10 DEF Fatal, At, ReaderSound
<1> QED
  BY <1>4, <1>5, <1>6, <1>7, <1>8, <1>9, <1>10 DEF Reader

\* nCommitted finds the values of a correct Raft to match.
LEMMA CountAccepts ==
    ASSUME BaseInv, CorrectSound, correct, NEW i \in Servers, Count(i),
           snapshots => \A j \in Servers : instance[j] = 1
    PROVE  failed' = ""
<1>1. test.pc = "scan" /\ test.index \in Indexes
  BY TrialFacts DEF BaseInv, Count
<1>2. PartOf(logs[i]) /\ SeenSound
  BY DEF CorrectSound, SeenSound
<1>3. test.count > 0 => test.seen = committed[test.index]
  <2>1. snapshots => \A j \in Servers : instance[j] <= 2
    BY NumberTypes
  <2> QED
    BY <1>1, <1>2, <2>1 DEF SeenSound
<1>4. logs[i][test.index] # Absent => logs[i][test.index] = committed[test.index]
  BY <1>1, <1>2 DEF PartOf
<1> QED
  BY <1>3, <1>4 DEF Count

\* What no step changes, and what only start1 does.
LEMMA Fixed ==
    ASSUME HarnessNext
    PROVE  /\ correct' = correct /\ snapshots' = snapshots
           /\ instance' = instance \/ \E i \in Servers : Start(i)
<1>1. ASSUME NEW i \in Servers, NEW k \in Instances, Reader(i, k)
      PROVE  correct' = correct /\ snapshots' = snapshots /\ instance' = instance
  BY <1>1 DEF Reader, Receive, Compare, CheckLogs, Applied, TakeSnapshot,
              IngestSnap, Fatal, raftVars, configVars
<1>2. CASE \/ \E c \in Commands : Commit(c)
           \/ \E i \in Servers : Crash(i)
  BY <1>2 DEF Commit, Crash, raftVars, configVars
<1>3. CASE \E i \in Servers : Start(i)
  BY <1>3 DEF Start
<1>4. CASE \/ \E i \in Servers : Count(i)
           \/ \E c \in Commands, n \in Servers : One(c, n)
           \/ \E x \in Indexes : Submit(x)
           \/ Conclude \/ GiveUp
  BY <1>4 DEF Count, One, Submit, Conclude, GiveUp, raftVars, configVars
<1> QED
  BY <1>1, <1>2, <1>3, <1>4 DEF HarnessNext

\* A correct Raft causes no alarm.
LEMMA NoFalseAlarmKept ==
    ASSUME BaseInv, CorrectSound, NoFalseAlarm, [HarnessNext]_harnessVars
    PROVE  NoFalseAlarm'
<1> DEFINE Ones == snapshots => \A i \in Servers : instance[i] = 1
<1>1. CASE UNCHANGED harnessVars
  BY <1>1 DEF NoFalseAlarm, harnessVars, raftVars, configVars
<1>2. CASE HarnessNext
  <2>1. failed = ""
    BY <1>2 DEF HarnessNext
  <2>2. correct' = correct /\ snapshots' = snapshots
    BY <1>2, Fixed
  <2>3. (\E i \in Servers : Start(i)) \/ instance' = instance
    BY <1>2, Fixed
  <2> SUFFICES ASSUME correct, Ones'
               PROVE  failed' \notin {"apply error", "mismatch"} /\ NoErrors'
    BY <2>2 DEF NoFalseAlarm, NoErrors
  <2>4. ASSUME NEW i \in Servers, Start(i)
        PROVE  instance'[i] # 1
    <3>1. instance' = [instance EXCEPT ![i] = instance[i] + 1]
      BY <2>4 DEF Start
    <3>2. instance'[i] = instance[i] + 1
      BY <3>1 DEF BaseInv, FullTypeOK
    <3> QED
      BY <3>2, NumberTypes
  <2>5. Ones
    BY <2>2, <2>3, <2>4
  <2> HIDE DEF Ones
  <2>6. NoErrors
    BY <2>5 DEF NoFalseAlarm, NoErrors, Ones
  <2>7. ASSUME NEW i \in Servers, NEW k \in Instances, Reader(i, k)
        PROVE  failed' \notin {"apply error", "mismatch"} /\ NoErrors'
    BY <2>1, <2>5, <2>6, <2>7, ReaderAccepts DEF Ones
  <2>8. ASSUME NEW i \in Servers, Count(i)
        PROVE  failed' \notin {"apply error", "mismatch"} /\ NoErrors'
    <3>1. reader' = reader
      BY <2>8 DEF Count
    <3>2. failed' = ""
      BY <2>5, <2>8, CountAccepts DEF Ones
    <3> QED
      BY <2>6, <3>1, <3>2 DEF NoErrors
  <2>9. CASE \/ \E c \in Commands : Commit(c)
             \/ \E i \in Servers : Crash(i) \/ Start(i)
             \/ \E c \in Commands, n \in Servers : One(c, n)
             \/ \E x \in Indexes : Submit(x)
             \/ Conclude \/ GiveUp
    <3>1. reader' = reader /\ (failed' = failed \/ failed' = "no agreement")
      BY <2>9 DEF Commit, Crash, Start, One, Submit, Conclude, GiveUp
    <3> QED
      BY <2>1, <2>6, <3>1 DEF NoErrors
  <2> QED
    BY <1>2, <2>7, <2>8, <2>9 DEF HarnessNext
<1> QED
  BY <1>1, <1>2

-----------------------------------------------------------------------------
(* The logs, as long as there is no alarm.                                 *)

\* An alarm lasts: a reader that has found an error keeps it until it ends
\* the test program.
LEMMA AlarmStays ==
    ASSUME BaseInv, HarnessNext, Alarm
    PROVE  Alarm'
<1>1. PICK i \in Servers, k \in Instances : reader[i][k].err
  BY DEF HarnessNext, Alarm
<1>2. reader[i][k] \in Readers /\ ReaderSound(i, k) /\ FullTypeOK
  BY ReaderFacts
<1>3. reader[i][k].pc \in {"applied", "snapshot", "fatal"} /\ reader[i][k].err = TRUE
  BY <1>1, <1>2 DEF ReaderSound, Readers
<1>4. ASSUME NEW j \in Servers, NEW l \in Instances, NEW p \in PCs,
             NEW err \in BOOLEAN, Goto(j, l, p, err),
             <<j, l>> = <<i, k>> => err /\ p # "receive"
      PROVE  Alarm'
  <2>1. /\ p # "receive" => reader'[j][l] =
              [pc |-> p, msg |-> reader[j][l].msg, err |-> err]
        /\ \A a \in Servers, b \in Instances :
              <<a, b>> # <<j, l>> => reader'[a][b] = reader[a][b]
    BY <1>2, <1>4, GotoFacts
  <2>2. CASE <<j, l>> = <<i, k>>
    <3>1. reader'[i][k].err
      BY <1>4, <2>1, <2>2
    <3> QED
      BY <3>1 DEF Alarm
  <2>3. CASE <<j, l>> # <<i, k>>
    <3>1. reader'[i][k].err
      BY <1>1, <2>1, <2>3
    <3> QED
      BY <3>1 DEF Alarm
  <2> QED
    BY <2>2, <2>3
<1>5. \A err \in BOOLEAN : /\ EndOfLoop(err) \in PCs
                           /\ err = TRUE => EndOfLoop(err) # "receive"
  BY DEF EndOfLoop, PCs
<1>6. \A p \in {"receive", "applied", "check", "snapshot"} : p \in PCs
  BY DEF PCs
<1>7. ASSUME NEW j \in Servers, NEW l \in Instances, Reader(j, l)
      PROVE  Alarm'
  <2>1. <<j, l>> = <<i, k>> => j = i /\ l = k
    OBVIOUS
  <2>2. reader[j][l] \in Readers /\ reader[j][l].err \in BOOLEAN
    BY ReaderFacts DEF Readers
  <2>3. CASE \E m \in Messages(j, l) : Receive(j, l, m)
    <3>1. PICK m : Receive(j, l, m)
      BY <2>3
    <3>2. <<j, l>> # <<i, k>>
      BY <1>3, <2>1, <3>1 DEF Receive, At
    <3> DEFINE r == [pc |-> IF IsSnapshot(m) THEN "ingest"
                            ELSE IF snapshots THEN "compare" ELSE "check",
                     msg |-> m, err |-> FALSE]
    <3>3. reader' = [reader EXCEPT ![j] = [reader[j] EXCEPT ![l] = r]]
      BY <3>1 DEF Receive
    <3> HIDE DEF r
    <3>4. reader \in [Servers -> [Instances -> Readers]]
      BY <1>2 DEF FullTypeOK
    <3>5. reader'[i][k] = reader[i][k]
      BY <3>2, <3>3, <3>4
    <3> QED
      BY <1>1, <3>5 DEF Alarm
  <2>4. CASE Compare(j, l)
    <3> DEFINE err == Message(j, l).index # lastApplied[j] + 1
               p == IF err THEN "applied" ELSE "check"
    <3>1. Goto(j, l, p, err) /\ reader[j][l].pc = "compare"
      BY <2>4 DEF Compare, At
    <3>2. err \in BOOLEAN /\ p \in PCs
      BY <1>6
    <3>3. <<j, l>> # <<i, k>>
      BY <1>3, <2>1, <3>1
    <3> HIDE DEF p, err
    <3> QED
      BY <1>4, <3>1, <3>2, <3>3
  <2>5. CASE CheckLogs(j, l)
    <3> DEFINE err == \/ Disagrees(j, Message(j, l))
                      \/ OutOfOrder(j, Message(j, l))
               p == IF snapshots THEN "applied" ELSE EndOfLoop(err)
    <3>1. Goto(j, l, p, err) /\ reader[j][l].pc = "check"
      BY <2>5 DEF CheckLogs, At
    <3>2. err \in BOOLEAN
      BY DEF Disagrees, OutOfOrder
    <3>3. p \in PCs
      BY <1>5, <1>6, <3>2
    <3>4. <<j, l>> # <<i, k>>
      BY <1>3, <2>1, <3>1
    <3> HIDE DEF p, err
    <3> QED
      BY <1>4, <3>1, <3>2, <3>3, <3>4
  <2>6. CASE Applied(j, l)
    <3> DEFINE err == reader[j][l].err
               p == IF SnapshotAt(Message(j, l).index) THEN "snapshot"
                    ELSE EndOfLoop(err)
    <3>1. Goto(j, l, p, err)
      BY <2>6 DEF Applied
    <3>2. p \in PCs /\ (err = TRUE => p # "receive")
      BY <1>5, <1>6, <2>2
    <3>3. <<j, l>> = <<i, k>> => err = TRUE
      BY <1>3, <2>1
    <3> HIDE DEF p
    <3> QED
      BY <1>4, <2>2, <3>1, <3>2, <3>3
  <2>7. CASE TakeSnapshot(j, l)
    <3> DEFINE err == reader[j][l].err
    <3>1. Goto(j, l, EndOfLoop(err), err)
      BY <2>7 DEF TakeSnapshot
    <3>2. <<j, l>> = <<i, k>> => err = TRUE
      BY <1>3, <2>1
    <3> QED
      BY <1>4, <1>5, <2>2, <3>1, <3>2
  <2>8. CASE IngestSnap(j, l)
    <3>1. Goto(j, l, "receive", FALSE) /\ reader[j][l].pc = "ingest"
      BY <2>8 DEF IngestSnap, At
    <3>2. <<j, l>> # <<i, k>>
      BY <1>3, <2>1, <3>1
    <3> QED
      BY <1>4, <1>6, <3>1, <3>2
  <2>9. CASE Fatal(j, l)
    BY <2>9 DEF Fatal, Alarm
  <2> QED
    BY <1>7, <2>3, <2>4, <2>5, <2>6, <2>7, <2>8, <2>9 DEF Reader
<1>8. CASE reader' = reader
  BY <1>1, <1>8 DEF Alarm
<1>9. CASE \/ \E c \in Commands : Commit(c)
           \/ \E j \in Servers : Crash(j) \/ Start(j) \/ Count(j)
           \/ \E c \in Commands, n \in Servers : One(c, n)
           \/ \E x \in Indexes : Submit(x)
           \/ Conclude \/ GiveUp
  BY <1>8, <1>9 DEF Commit, Crash, Start, Count, One, Submit, Conclude, GiveUp
<1> QED
  BY <1>7, <1>9 DEF HarnessNext

\* If checkLogs objects, there is an alarm.
LEMMA CheckAlarms ==
    ASSUME BaseInv, NEW i \in Servers, NEW k \in Instances, CheckLogs(i, k),
           ~Alarm'
    PROVE  ~Disagrees(i, Message(i, k)) /\ ~OutOfOrder(i, Message(i, k))
<1> DEFINE err == Disagrees(i, Message(i, k)) \/ OutOfOrder(i, Message(i, k))
           p == IF snapshots THEN "applied" ELSE EndOfLoop(err)
<1>1. Goto(i, k, p, err)
  BY DEF CheckLogs
<1>2. err \in BOOLEAN /\ p \in PCs /\ (err => p # "receive")
  BY DEF Disagrees, OutOfOrder, PCs, EndOfLoop
<1> SUFFICES ASSUME err PROVE FALSE
  OBVIOUS
<1> HIDE DEF p, err
<1>3. reader'[i][k] = [pc |-> p, msg |-> reader[i][k].msg, err |-> err]
  BY <1>1, <1>2, GotoFacts DEF BaseInv
<1>4. reader'[i][k].err
  BY <1>3
<1> QED
  BY <1>4 DEF Alarm

\* The steps that change a log.
LEMMA LogSteps ==
    ASSUME BaseInv, [HarnessNext]_harnessVars, ~Alarm'
    PROVE  /\ ~Alarm /\ snapshots' = snapshots
           /\ \/ logs' = logs
              \/ \E i \in Servers, k \in Instances :
                    /\ CheckLogs(i, k)
                    /\ ~Disagrees(i, Message(i, k))
                    /\ ~OutOfOrder(i, Message(i, k))
              \/ \E i \in Servers, k \in Instances : IngestSnap(i, k)
              \/ \E i \in Servers : Start(i) /\ saved[i].index > 0
<1>1. CASE UNCHANGED harnessVars
  BY <1>1 DEF harnessVars, configVars, Alarm
<1>2. CASE HarnessNext
  <2>1. ~Alarm /\ snapshots' = snapshots
    BY <1>2, AlarmStays, Fixed
  <2>2. ASSUME NEW i \in Servers, NEW k \in Instances, Reader(i, k)
        PROVE  CheckLogs(i, k) \/ IngestSnap(i, k) \/ logs' = logs
    BY <2>2 DEF Reader, Receive, Compare, Applied, TakeSnapshot, Fatal,
                configVars
  <2>3. CASE \/ \E c \in Commands : Commit(c)
             \/ \E i \in Servers : Crash(i) \/ Count(i)
             \/ \E c \in Commands, n \in Servers : One(c, n)
             \/ \E x \in Indexes : Submit(x)
             \/ Conclude \/ GiveUp
    <3>1. logs' = logs
      BY <2>3 DEF Commit, Crash, Count, One, Submit, Conclude, GiveUp,
                  configVars
    <3> QED
      BY <2>1, <3>1
  <2>4. ASSUME NEW i \in Servers, Start(i)
        PROVE  saved[i].index > 0 \/ logs' = logs
    BY <2>4 DEF Start
  <2> QED
    BY <1>2, <2>1, <2>2, <2>3, <2>4, CheckAlarms DEF HarnessNext
<1> QED
  BY <1>1, <1>2

\* Without snapshots a log changes only where it has no entry yet.
LEMMA LogsGrow ==
    ASSUME BaseInv, [HarnessNext]_harnessVars, ~Alarm', ~snapshots,
           NEW i \in Servers, NEW x \in Indexes, logs[i][x] # Absent
    PROVE  logs'[i][x] = logs[i][x]
<1>1. CASE logs' = logs
  BY <1>1
<1>2. ASSUME NEW j \in Servers, NEW k \in Instances, CheckLogs(j, k),
             ~Disagrees(j, Message(j, k))
      PROVE  logs'[i][x] = logs[i][x]
  <2>1. /\ Message(j, k).index \in Indexes
        /\ logs'[j][Message(j, k).index] = Message(j, k).cmd
        /\ \A y \in Indexes : y # Message(j, k).index => logs'[j][y] = logs[j][y]
        /\ \A l \in Servers \ {j} : logs'[l] = logs[l]
    BY <1>2, LogWritten
  <2>2. logs[j][Message(j, k).index] \in {Absent, Message(j, k).cmd}
    BY <1>2 DEF Disagrees
  <2> QED
    BY <2>1, <2>2
<1>3. ASSUME NEW j \in Servers, NEW k \in Instances, IngestSnap(j, k)
      PROVE  FALSE
  BY <1>3 DEF BaseInv, ReaderSound, IngestSnap, At
<1>4. ASSUME NEW j \in Servers, saved[j].index > 0
      PROVE  FALSE
  BY <1>4 DEF BaseInv, SavedSound
<1> QED
  BY <1>1, <1>2, <1>3, <1>4, LogSteps

\* No log gets a gap.
LEMMA NoGapsKept ==
    ASSUME BaseInv, CorrectSound, NoGaps, [HarnessNext]_harnessVars, ~Alarm',
           NEW i \in Servers, NEW x \in Indexes, logs'[i][x] # Absent
    PROVE  HasThen(i, x)
<1>1. ~Alarm /\ \A j \in Servers, y \in Indexes :
                   logs[j][y] # Absent => Has(j, y)
  BY LogSteps DEF NoGaps
<1>2. CASE logs' = logs
  BY <1>1, <1>2 DEF Has, HasThen
<1>3. ASSUME NEW j \in Servers, NEW k \in Instances, CheckLogs(j, k),
             ~OutOfOrder(j, Message(j, k))
      PROVE  HasThen(i, x)
  <2> DEFINE m == Message(j, k)
  <2>1. /\ m.index \in Indexes /\ m.cmd # Absent
        /\ logs'[j][m.index] = m.cmd
        /\ \A y \in Indexes : y # m.index => logs'[j][y] = logs[j][y]
        /\ \A y : Has(j, y) => HasThen(j, y)
        /\ \A l \in Servers \ {j} : logs'[l] = logs[l]
    BY <1>3, LogWritten
  <2>2. ~OutOfOrder(j, m)
    BY <1>3
  <2> HIDE DEF m
  <2>3. CASE i # j
    BY <1>1, <2>1, <2>3 DEF Has, HasThen
  <2>4. CASE i = j /\ x # m.index
    BY <1>1, <2>1, <2>4
  <2>5. CASE i = j /\ x = m.index
    <3>1. m.index \in Nat /\ m.index >= 1 /\ \A y \in Indexes : y \in Nat /\ y >= 1
      BY <2>1 DEF Indexes
    <3>2. Has(j, m.index - 1)
      <4>1. CASE m.index = 1
        <5>1. \A y \in Indexes : ~(y <= m.index - 1)
          BY <3>1, <4>1
        <5> QED
          BY <5>1 DEF Has
      <4>2. CASE m.index > 1
        <5>1. logs[j][m.index - 1] # Absent
          BY <2>2, <4>2 DEF OutOfOrder
        <5>2. m.index - 1 \in Indexes
          BY <2>1, <4>2, HarnessAssumption DEF HarnessAssumption, Indexes
        <5> QED
          BY <1>1, <5>1, <5>2
      <4> QED
        BY <3>1, <4>1, <4>2
    <3>3. HasThen(j, m.index - 1)
      BY <2>1, <3>2
    <3>4. \A y \in Indexes : y <= m.index => y = m.index \/ y <= m.index - 1
      BY <3>1
    <3> QED
      BY <2>1, <2>5, <3>3, <3>4 DEF HasThen
  <2> QED
    BY <2>3, <2>4, <2>5
<1>4. ASSUME NEW j \in Servers, NEW l \in Logs, NEW n \in 0 .. MaxIndex,
             logs' = [logs EXCEPT ![j] = l],
             \A y \in Indexes : l[y] = Absent <=> y > n
      PROVE  HasThen(i, x)
  <2>1. logs \in [Servers -> Logs]
    BY DEF BaseInv, FullTypeOK
  <2>2. CASE i = j
    <3>1. logs'[i] = l
      BY <1>4, <2>1, <2>2
    <3>2. \A y \in Indexes : y \in Nat
      BY DEF Indexes
    <3>3. x <= n
      BY <1>4, <3>1, <3>2
    <3>4. \A y \in Indexes : y <= x => ~(y > n)
      BY <3>2, <3>3
    <3> QED
      BY <1>4, <3>1, <3>4 DEF HasThen
  <2>3. CASE i # j
    <3>1. logs'[i] = logs[i]
      BY <1>4, <2>1, <2>3
    <3> QED
      BY <1>1, <3>1 DEF Has, HasThen
  <2> QED
    BY <2>2, <2>3
<1>5. ASSUME NEW j \in Servers, NEW k \in Instances, IngestSnap(j, k)
      PROVE  HasThen(i, x)
  <2>1. /\ reader[j][k].pc = "ingest"
        /\ logs' = [logs EXCEPT ![j] = Message(j, k).log]
    BY <1>5 DEF IngestSnap, At
  <2>2. Message(j, k).log \in Logs /\ Message(j, k).index \in 0 .. MaxIndex
    BY <2>1, ReaderFacts
  <2>3. correct
    BY <2>1 DEF BaseInv, ReaderSound
  <2>4. \A y \in Indexes : Message(j, k).log[y] = Absent
                              <=> y > Message(j, k).index
    BY <2>1, <2>3 DEF CorrectSound, MessageSound, Message
  <2> QED
    BY <1>4, <2>1, <2>2, <2>4
<1>6. ASSUME NEW j \in Servers, Start(j), saved[j].index > 0
      PROVE  HasThen(i, x)
  <2>1. logs' = [logs EXCEPT ![j] = saved[j].log]
    BY <1>6 DEF Start
  <2>2. saved[j].log \in Logs /\ saved[j].index \in 0 .. MaxIndex
    BY NumberTypes
  <2>3. \A y \in Indexes : saved[j].log[y] = Absent <=> y > saved[j].index
    BY DEF BaseInv, SavedSound
  <2> QED
    BY <1>4, <2>1, <2>2, <2>3
<1> QED
  BY <1>2, <1>3, <1>5, <1>6, LogSteps

\* No two logs come to differ.
LEMMA AgreementKept ==
    ASSUME BaseInv, Agreement, [HarnessNext]_harnessVars
    PROVE  Agreement'
<1> SUFFICES ASSUME ~Alarm', ~snapshots', NEW i \in Servers, NEW j \in Servers,
                    NEW x \in Indexes, logs'[i][x] # Absent
             PROVE  logs'[j][x] \in {Absent, logs'[i][x]}
  BY DEF Agreement
<1>1. /\ ~Alarm /\ ~snapshots
      /\ \A a, b \in Servers, y \in Indexes :
            logs[a][y] # Absent => logs[b][y] \in {Absent, logs[a][y]}
  BY LogSteps DEF Agreement
<1>2. CASE logs' = logs
  BY <1>1, <1>2
<1>3. ASSUME NEW a \in Servers, NEW k \in Instances, CheckLogs(a, k),
             ~Disagrees(a, Message(a, k))
      PROVE  logs'[j][x] \in {Absent, logs'[i][x]}
  <2> DEFINE m == Message(a, k)
  <2>1. /\ logs'[a][m.index] = m.cmd /\ m.cmd # Absent
        /\ \A y \in Indexes : y # m.index => logs'[a][y] = logs[a][y]
        /\ \A b \in Servers \ {a} : logs'[b] = logs[b]
    BY <1>3, LogWritten
  <2>2. \A b \in Servers : logs[b][m.index] \in {Absent, m.cmd}
    BY <1>3 DEF Disagrees
  <2> HIDE DEF m
  <2>3. CASE x = m.index
    BY <2>1, <2>2, <2>3
  <2>4. CASE x # m.index
    BY <1>1, <2>1, <2>4
  <2> QED
    BY <2>3, <2>4
<1>4. ASSUME NEW a \in Servers, NEW k \in Instances, IngestSnap(a, k)
      PROVE  FALSE
  BY <1>1, <1>4 DEF BaseInv, ReaderSound, IngestSnap, At
<1>5. ASSUME NEW a \in Servers, saved[a].index > 0
      PROVE  FALSE
  BY <1>1, <1>5 DEF BaseInv, SavedSound
<1> QED
  BY <1>2, <1>3, <1>4, <1>5, LogSteps

\* The servers up to n whose log has value v at index x after the step.
WithThen(n, x, v) == {j \in 1 .. n : logs'[j][x] = v}

\* Servers that have an entry keep it.
LEMMA WithGrows ==
    ASSUME BaseInv, [HarnessNext]_harnessVars, ~Alarm', ~snapshots,
           NEW n \in 0 .. NServers, NEW x \in Indexes, NEW v, v # Absent
    PROVE  /\ IsFiniteSet(With(n, x, v)) /\ IsFiniteSet(WithThen(n, x, v))
           /\ Cardinality(With(n, x, v)) \in Nat
           /\ Cardinality(WithThen(n, x, v)) \in Nat
           /\ Cardinality(With(n, x, v)) <= Cardinality(WithThen(n, x, v))
<1>1. IsFiniteSet(1 .. n)
  BY FS_Interval
<1>2. 1 .. n \subseteq Servers
  BY HarnessAssumption DEF HarnessAssumption, Servers
<1>3. With(n, x, v) \subseteq WithThen(n, x, v)
  BY <1>2, LogsGrow DEF With, WithThen
<1>4. IsFiniteSet(With(n, x, v)) /\ IsFiniteSet(WithThen(n, x, v))
  BY <1>1, FS_Subset DEF With, WithThen
<1> QED
  BY <1>3, <1>4, FS_Subset, FS_CardinalityType

\* The steps that change the state of one().
LEMMA TestSteps ==
    ASSUME [HarnessNext]_harnessVars
    PROVE  \/ test' = test
           \/ logs' = logs /\ \/ \E i \in Servers : Count(i)
                              \/ \E c \in Commands, n \in Servers : One(c, n)
                              \/ \E x \in Indexes : Submit(x)
                              \/ Conclude
<1>1. CASE UNCHANGED harnessVars
  BY <1>1 DEF harnessVars
<1>2. ASSUME NEW i \in Servers, NEW k \in Instances, Reader(i, k)
      PROVE  test' = test
  BY <1>2 DEF Reader, Receive, Compare, CheckLogs, Applied, TakeSnapshot,
              IngestSnap, Fatal
<1>3. CASE \/ \E c \in Commands : Commit(c)
           \/ \E i \in Servers : Crash(i) \/ Start(i)
           \/ GiveUp
  BY <1>3 DEF Commit, Crash, Start, GiveUp
<1>4. CASE \/ \E i \in Servers : Count(i)
           \/ \E c \in Commands, n \in Servers : One(c, n)
           \/ \E x \in Indexes : Submit(x)
           \/ Conclude
  BY <1>4 DEF Count, One, Submit, Conclude, configVars
<1> QED
  BY <1>1, <1>2, <1>3, <1>4 DEF HarnessNext

\* nCommitted counts one more server, whose log has the value it has seen.
LEMMA OneMore ==
    ASSUME BaseInv, CountSound, [HarnessNext]_harnessVars, ~Alarm', ~snapshots,
           NEW i \in Servers, Count(i), test'.count > 0
    PROVE  /\ test'.seen # Absent
           /\ test'.count <=
                 Cardinality(WithThen(test'.next - 1, test'.index, test'.seen))
<1>1. PICK x : x = test.index
  OBVIOUS
<1>2. PICK c : c = logs[i][x]
  OBVIOUS
<1>3. /\ test.pc = "scan" /\ test \in Trials /\ x \in Indexes
      /\ test.next = i /\ test.count \in Nat
  BY <1>1, TrialFacts DEF Count, BaseInv
<1>4. i \in Nat /\ i >= 1 /\ i - 1 \in 0 .. NServers /\ i \in 0 .. NServers
  BY HarnessAssumption DEF HarnessAssumption, Servers
<1>5. /\ test'.index = x /\ test'.next = i + 1
      /\ c = Absent => test'.count = test.count /\ test'.seen = test.seen
      /\ c # Absent => test'.count = test.count + 1 /\ test'.seen = c
  <2>1. test' = [test EXCEPT !.next = i + 1,
                   !.count = IF c = Absent THEN test.count ELSE test.count + 1,
                   !.seen = IF c = Absent THEN test.seen ELSE c]
    BY <1>1, <1>2 DEF Count
  <2> QED
    BY <1>1, <1>3, <2>1 DEF Trials
<1>6. test'.next - 1 = i
  BY <1>4, <1>5
<1>7. logs' = logs
  BY DEF Count, configVars
<1>8. ~Alarm
  BY LogSteps
<1>9. test.count > 0 => /\ test.seen # Absent
                        /\ test.count <= Cardinality(With(i - 1, x, test.seen))
  BY <1>1, <1>3, <1>8 DEF CountSound
<1>10. 1 .. i = (1 .. i - 1) \cup {i} /\ i \notin 1 .. i - 1
  BY <1>4
<1>11. CASE c = Absent
  <2>1. test.seen # Absent /\ test.count <= Cardinality(With(i - 1, x, test.seen))
    BY <1>5, <1>9, <1>11
  <2>2. /\ IsFiniteSet(WithThen(i, x, test.seen))
        /\ Cardinality(With(i - 1, x, test.seen)) \in Nat
        /\ Cardinality(WithThen(i, x, test.seen)) \in Nat
    BY <1>3, <1>4, <2>1, WithGrows
  <2>3. With(i - 1, x, test.seen) \subseteq WithThen(i, x, test.seen)
    BY <1>7, <1>10 DEF With, WithThen
  <2>4. Cardinality(With(i - 1, x, test.seen)) <= Cardinality(WithThen(i, x, test.seen))
    BY <2>2, <2>3, FS_Subset
  <2>5. test.count <= Cardinality(WithThen(i, x, test.seen))
    BY <1>3, <2>1, <2>2, <2>4
  <2> QED
    BY <1>5, <1>6, <1>11, <2>1, <2>5
<1>12. CASE c # Absent
  <2>1. test.count > 0 => c = test.seen
    <3>1. failed' = ""
      BY DEF Alarm
    <3> QED
      BY <1>1, <1>2, <1>12, <3>1 DEF Count
  <2>2. /\ IsFiniteSet(With(i - 1, x, c)) /\ IsFiniteSet(WithThen(i, x, c))
        /\ Cardinality(With(i - 1, x, c)) \in Nat
        /\ Cardinality(WithThen(i, x, c)) \in Nat
    BY <1>3, <1>4, <1>12, WithGrows
  <2>3. WithThen(i, x, c) = With(i - 1, x, c) \cup {i} /\ i \notin With(i - 1, x, c)
    BY <1>2, <1>7, <1>10 DEF With, WithThen
  <2>4. Cardinality(WithThen(i, x, c)) = Cardinality(With(i - 1, x, c)) + 1
    BY <2>2, <2>3, FS_AddElement
  <2>5. test.count <= Cardinality(With(i - 1, x, c))
    <3>1. CASE test.count = 0
      BY <2>2, <3>1
    <3>2. CASE test.count > 0
      BY <1>9, <2>1, <3>2
    <3> QED
      BY <1>3, <3>1, <3>2
  <2>6. test.count + 1 <= Cardinality(WithThen(i, x, c))
    BY <1>3, <2>2, <2>4, <2>5
  <2> QED
    BY <1>5, <1>6, <1>12, <2>6
<1> QED
  BY <1>11, <1>12

\* What nCommitted has counted stays.
LEMMA CountKept ==
    ASSUME BaseInv, CountSound, [HarnessNext]_harnessVars
    PROVE  CountSound'
<1> SUFFICES ASSUME ~Alarm', ~snapshots', test'.pc = "scan", test'.count > 0
             PROVE  /\ test'.seen # Absent
                    /\ test'.count <= Cardinality(
                          WithThen(test'.next - 1, test'.index, test'.seen))
  BY DEF CountSound, With, WithThen
<1>1. ~Alarm /\ ~snapshots /\ FullTypeOK
  BY LogSteps DEF BaseInv
<1>2. CASE test' = test
  <2>1. /\ test.index \in Indexes /\ test.next \in 1 .. NServers + 1
        /\ test.count \in Nat
    BY <1>1, <1>2, TrialFacts
  <2>2. PICK n \in 0 .. NServers : n = test.next - 1
    BY <2>1, HarnessAssumption DEF HarnessAssumption
  <2>3. /\ test.seen # Absent
        /\ test.count <= Cardinality(With(n, test.index, test.seen))
    BY <1>1, <1>2, <2>2 DEF CountSound
  <2>4. /\ Cardinality(With(n, test.index, test.seen)) \in Nat
        /\ Cardinality(WithThen(n, test.index, test.seen)) \in Nat
        /\ Cardinality(With(n, test.index, test.seen))
              <= Cardinality(WithThen(n, test.index, test.seen))
    BY <1>1, <2>1, <2>3, WithGrows
  <2>5. test.count <= Cardinality(WithThen(n, test.index, test.seen))
    BY <2>1, <2>3, <2>4
  <2> QED
    BY <1>2, <2>2, <2>3, <2>5
<1>3. ASSUME NEW i \in Servers, Count(i)
      PROVE  /\ test'.seen # Absent
             /\ test'.count <= Cardinality(
                   WithThen(test'.next - 1, test'.index, test'.seen))
  BY <1>1, <1>3, OneMore
<1>4. ~(\E c \in Commands, n \in Servers : One(c, n))
  BY DEF One, Submitting
<1>5. ~(\E x \in Indexes : Submit(x))
  <2> SUFFICES ASSUME NEW x \in Indexes, Submit(x) PROVE FALSE
    OBVIOUS
  <2>1. test \in Trials /\ test' = Scan(test, x)
    BY <1>1, TrialFacts DEF Submit
  <2> QED
    BY <1>1, <2>1, TrialFacts
<1>6. ~Conclude
  <2> SUFFICES ASSUME Conclude PROVE FALSE
    OBVIOUS
  <2>1. /\ test \in Trials /\ test.index \in Indexes
        /\ test.cmd \in Commands /\ test.expected \in Servers
    BY <1>1, TrialFacts DEF Conclude
  <2>2. /\ Scan(test, test.index).count = 0
        /\ Submitting(test.cmd, test.expected).pc = "start"
    BY <1>1, <2>1, TrialFacts
  <2> QED
    BY <2>2 DEF Conclude
<1> QED
  BY <1>2, <1>3, <1>4, <1>5, <1>6, TestSteps

\* one() returns when it has counted enough servers, and they keep the entry.
LEMMA OneKept ==
    ASSUME BaseInv, CountSound, OneIsAgreed, [HarnessNext]_harnessVars
    PROVE  OneIsAgreed'
<1>1. \A x, v : /\ {i \in Servers : logs[i][x] = v} = With(NServers, x, v)
                /\ {i \in Servers : logs'[i][x] = v} = WithThen(NServers, x, v)
  BY DEF Servers, With, WithThen
<1> SUFFICES ASSUME ~Alarm', ~snapshots', test'.pc = "returned"
             PROVE  Cardinality(WithThen(NServers, test'.index, test'.cmd))
                       >= test'.expected
  BY <1>1 DEF OneIsAgreed
<1>2. ~Alarm /\ ~snapshots /\ FullTypeOK
  BY LogSteps DEF BaseInv
<1>3. NServers \in 0 .. NServers
  BY HarnessAssumption DEF HarnessAssumption
<1>4. \A c \in Commands : c # Absent
  BY HarnessAssumption DEF HarnessAssumption, Absent
<1>5. CASE test' = test
  <2>1. test \in Results
    <3>1. test \in {[pc |-> "idle"]} \cup Trials \cup Results
      BY <1>2 DEF FullTypeOK
    <3> QED
      BY <1>5, <3>1 DEF Trials
  <2>2. /\ test.index \in Indexes /\ test.cmd \in Commands
        /\ test.expected \in Servers /\ test.expected \in Nat
    BY <2>1, HarnessAssumption DEF HarnessAssumption, Results, Servers
  <2>3. Cardinality(With(NServers, test.index, test.cmd)) >= test.expected
    BY <1>1, <1>2, <1>5 DEF OneIsAgreed
  <2>4. /\ Cardinality(With(NServers, test.index, test.cmd)) \in Nat
        /\ Cardinality(WithThen(NServers, test.index, test.cmd)) \in Nat
        /\ Cardinality(With(NServers, test.index, test.cmd))
              <= Cardinality(WithThen(NServers, test.index, test.cmd))
    BY <1>2, <1>3, <1>4, <2>2, WithGrows
  <2>5. Cardinality(WithThen(NServers, test.index, test.cmd)) >= test.expected
    BY <2>2, <2>3, <2>4
  <2> QED
    BY <1>5, <2>5
<1>6. CASE Conclude
  <2>1. /\ test \in Trials /\ test.index \in Indexes /\ test.pc = "scan"
        /\ test.cmd \in Commands /\ test.expected \in Servers
        /\ test.next \in 1 .. NServers + 1 /\ test.next > NServers
        /\ test.count \in Nat
    BY <1>2, <1>6, TrialFacts DEF Conclude
  <2>2. /\ Scan(test, test.index).pc = "scan"
        /\ Submitting(test.cmd, test.expected).pc = "start"
    BY <1>2, <2>1, TrialFacts
  <2>3. /\ Agreed /\ test'.cmd = test.cmd /\ test'.index = test.index
        /\ test'.expected = test.expected
    BY <1>6, <2>2 DEF Conclude
  <2>4. test.next - 1 = NServers /\ test.expected \in Nat
    BY <2>1, HarnessAssumption DEF HarnessAssumption, Servers
  <2>5. /\ test.count <= Cardinality(With(NServers, test.index, test.cmd))
        /\ test.count >= test.expected
    BY <1>2, <2>1, <2>3, <2>4 DEF CountSound, Agreed
  <2>6. /\ Cardinality(With(NServers, test.index, test.cmd)) \in Nat
        /\ Cardinality(WithThen(NServers, test.index, test.cmd)) \in Nat
        /\ Cardinality(With(NServers, test.index, test.cmd))
              <= Cardinality(WithThen(NServers, test.index, test.cmd))
    BY <1>2, <1>3, <1>4, <2>1, WithGrows
  <2>7. Cardinality(WithThen(NServers, test.index, test.cmd)) >= test.expected
    BY <2>1, <2>4, <2>5, <2>6
  <2> QED
    BY <2>3, <2>7
<1>7. ~(\E i \in Servers : Count(i))
  <2> SUFFICES ASSUME NEW i \in Servers, Count(i) PROVE FALSE
    OBVIOUS
  <2>1. test \in Trials /\ test.pc = "scan"
    BY <1>2, TrialFacts DEF Count
  <2>2. test'.pc = test.pc
    BY <2>1 DEF Count, Trials
  <2> QED
    BY <2>1, <2>2
<1>8. ~(\E c \in Commands, n \in Servers : One(c, n))
  BY DEF One, Submitting
<1>9. ~(\E x \in Indexes : Submit(x))
  <2> SUFFICES ASSUME NEW x \in Indexes, Submit(x) PROVE FALSE
    OBVIOUS
  <2>1. test \in Trials /\ test' = Scan(test, x)
    BY <1>2, TrialFacts DEF Submit
  <2> QED
    BY <1>2, <2>1, TrialFacts
<1> QED
  BY <1>5, <1>6, <1>7, <1>8, <1>9, TestSteps

-----------------------------------------------------------------------------
(* The invariant and what follows from it.                                 *)

\* make_config establishes the invariant.
LEMMA InitHolds == HarnessInit => HarnessInv
<1> SUFFICES ASSUME HarnessInit PROVE HarnessInv
  OBVIOUS
<1>1. 1 \in Instances /\ 0 \in 0 .. MaxIndex /\ \A k \in Instances : k >= 1
  BY HarnessAssumption DEF HarnessAssumption, Instances
<1>2. NoLog \in Logs /\ \A x \in Indexes : NoLog[x] = Absent
  BY DEF NoLog, Logs
<1> DEFINE s == Snapshot(0, NoLog)
<1>3. /\ s \in [index : 0 .. MaxIndex, log : Logs] /\ s.index = 0
      /\ \A y \in Indexes : s.log[y] = Absent <=> y > 0
  BY <1>1, <1>2, SnapshotFacts
<1>4. \A y \in Indexes : y \in Nat /\ y > 0
  BY DEF Indexes
<1>5. saved = [i \in Servers |-> s]
  BY DEF HarnessInit
<1> HIDE DEF s
<1>6. Idle \in Readers
  BY DEF Idle, Readers, PCs
<1>7. \A i \in Servers : /\ instance[i] = 1 /\ crashed[i] = FALSE
                         /\ lastApplied[i] = 0 /\ logs[i] = NoLog
                         /\ saved[i] = s
                         /\ \A k \in Instances : /\ reader[i][k] = Idle
                                                 /\ delivered[i][k] = 0
  BY <1>5 DEF HarnessInit
<1>8. FullTypeOK
  <2>1. committed \in Seq(Commands) /\ Len(committed) <= MaxIndex
    <3>1. committed = <<>> /\ MaxIndex \in Nat
      BY HarnessAssumption DEF HarnessAssumption, HarnessInit
    <3> QED
      BY <3>1
  <2>2. /\ delivered \in [Servers -> [Instances -> 0 .. MaxIndex]]
        /\ logs \in [Servers -> Logs]
        /\ lastApplied \in [Servers -> 0 .. MaxIndex]
    BY <1>1, <1>2 DEF HarnessInit
  <2>3. saved \in [Servers -> [index : 0 .. MaxIndex, log : Logs]]
    BY <1>3, <1>5
  <2>4. instance \in [Servers -> Instances] /\ crashed \in [Servers -> BOOLEAN]
    BY <1>1 DEF HarnessInit
  <2>5. reader \in [Servers -> [Instances -> Readers]]
    BY <1>6 DEF HarnessInit
  <2>6. /\ correct \in BOOLEAN /\ snapshots \in BOOLEAN
        /\ test = [pc |-> "idle"] /\ failed = ""
    BY DEF HarnessInit
  <2> QED
    BY <2>1, <2>2, <2>3, <2>4, <2>5, <2>6 DEF FullTypeOK
<1>9. CrashesBounded
  <2>1. Restarts = {} /\ Down = {}
    <3>1. \A k \in Instances : ~(k < 1)
      BY DEF Instances
    <3> QED
      BY <1>7, <3>1 DEF Restarts, Down
  <2> QED
    BY <2>1, CrashSets, FS_EmptySet, HarnessAssumption
       DEF HarnessAssumption, CrashesBounded
<1>10. BaseInv
  <2>1. \A i \in Servers, k \in Instances : ReaderSound(i, k)
    <3> SUFFICES ASSUME NEW i \in Servers, NEW k \in Instances
                 PROVE  ReaderSound(i, k)
      OBVIOUS
    <3>1. reader[i][k] = Idle
      BY <1>7
    <3>2. Idle.pc = "receive" /\ Idle.err = FALSE
      BY DEF Idle
    <3> QED
      BY <3>1, <3>2 DEF ReaderSound
  <2>2. \A i \in Servers : SavedSound(i)
    BY <1>3, <1>7 DEF SavedSound
  <2> QED
    BY <1>8, <1>9, <2>1, <2>2 DEF BaseInv, HarnessInit
<1>11. CorrectSound
  <2>1. \A i \in Servers, k \in Instances : MessageSound(i, k)
    BY <1>7 DEF MessageSound, Idle
  <2>2. \A i \in Servers : PartOf(logs[i]) /\ PartOf(saved[i].log)
    BY <1>2, <1>3, <1>4, <1>7 DEF PartOf
  <2>3. \A i \in Servers : Has(i, 0) /\ Has(i, 0 - 1)
    BY <1>4 DEF Has
  <2>4. \A i \in Servers : FirstRun(i)
    BY <1>1, <1>7, <2>2, <2>3 DEF FirstRun, Idle
  <2>5. \A i \in Servers, k \in Instances : Applies(i, k)
    BY <1>7, <2>3 DEF Applies, Idle
  <2>6. test.pc # "scan"
    BY DEF HarnessInit
  <2> QED
    BY <2>1, <2>2, <2>4, <2>5, <2>6 DEF CorrectSound
<1>12. NoFalseAlarm
  BY <1>7 DEF NoFalseAlarm, HarnessInit, Idle
<1>13. NoGaps /\ Agreement
  BY <1>2, <1>7 DEF NoGaps, Agreement
<1>14. CountSound /\ OneIsAgreed
  BY DEF CountSound, OneIsAgreed, HarnessInit
<1> QED
  BY <1>10, <1>11, <1>12, <1>13, <1>14 DEF HarnessInv

\* Every step keeps the invariant.
LEMMA StepHolds == HarnessInv /\ [HarnessNext]_harnessVars => HarnessInv'
<1> SUFFICES ASSUME HarnessInv, [HarnessNext]_harnessVars PROVE HarnessInv'
  OBVIOUS
<1>1. /\ BaseInv /\ CorrectSound /\ NoFalseAlarm /\ NoGaps /\ Agreement
      /\ CountSound /\ OneIsAgreed
  BY DEF HarnessInv
<1>2. BaseInv' /\ CorrectSound' /\ NoFalseAlarm'
  BY <1>1, BaseKept, CorrectKept, NoFalseAlarmKept
<1>3. NoGaps'
  <2>1. ASSUME ~Alarm', NEW i \in Servers, NEW x \in Indexes,
               logs'[i][x] # Absent
        PROVE  Has(i, x)'
    BY <1>1, <2>1, NoGapsKept DEF Has, HasThen
  <2> QED
    BY <2>1 DEF NoGaps
<1>4. Agreement' /\ CountSound' /\ OneIsAgreed'
  BY <1>1, AgreementKept, CountKept, OneKept
<1> QED
  BY <1>2, <1>3, <1>4 DEF HarnessInv

\* The invariant holds in every reachable state.
LEMMA HarnessInvariant == HarnessSpec => []HarnessInv
BY InitHolds, StepHolds, PTL DEF HarnessSpec

\* The type invariant of the harness.
THEOREM HarnessTypes == HarnessSpec => []HarnessTypeOK
<1>1. HarnessInv => HarnessTypeOK
  <2> SUFFICES ASSUME HarnessInv PROVE HarnessTypeOK
    OBVIOUS
  <2>1. BaseInv /\ FullTypeOK
    BY DEF HarnessInv, BaseInv
  <2>2. ASSUME NEW i \in Servers, NEW k \in Instances
        PROVE  /\ reader[i][k].pc \in PCs /\ reader[i][k].err \in BOOLEAN
               /\ reader[i][k].pc = "receive" => ~reader[i][k].err
               /\ reader[i][k].pc = "ingest" => IsSnapshot(reader[i][k].msg)
               /\ reader[i][k].pc \in {"compare", "check"}
                     => reader[i][k].msg \in Anything
    <3>1. reader[i][k] \in Readers /\ ReaderSound(i, k)
      BY <2>1, ReaderFacts
    <3>2. reader[i][k].pc \in PCs /\ reader[i][k].err \in BOOLEAN
      BY <3>1 DEF Readers
    <3> QED
      BY <3>1, <3>2, MessageKinds DEF ReaderSound
  <2> QED
    BY <2>1, <2>2 DEF HarnessTypeOK, FullTypeOK
<1> QED
  BY <1>1, HarnessInvariant, PTL

\* The oracle is sharp enough: unless it raises the alarm, what checkLogs has
\* let through agrees and has no gaps, whatever Raft delivers, with readers of
\* crashed instances at work (with snapshots until a second restart).
THEOREM HarnessAgreement == HarnessSpec => []LogsAgree
<1>1. HarnessInv => LogsAgree
  <2> SUFFICES ASSUME HarnessInv, ~Alarm,
                      snapshots => \A i \in Servers : instance[i] <= 2,
                      NEW i \in Servers, NEW x \in Indexes,
                      logs[i][x] # Absent
               PROVE  /\ \A j \in Servers : logs[j][x] \in {Absent, logs[i][x]}
                      /\ x > 1 => logs[i][x - 1] # Absent
    BY DEF LogsAgree
  <2>1. /\ BaseInv /\ CorrectSound /\ NoGaps /\ Agreement
    BY DEF HarnessInv
  <2>2. \A j \in Servers : logs[j][x] \in {Absent, logs[i][x]}
    <3>1. CASE snapshots
      <4>1. \A j \in Servers : PartOf(logs[j])
        BY <2>1, <3>1 DEF CorrectSound, BaseInv
      <4> QED
        BY <4>1 DEF PartOf
    <3>2. CASE ~snapshots
      BY <2>1, <3>2 DEF Agreement
    <3> QED
      BY <3>1, <3>2
  <2>3. x > 1 => logs[i][x - 1] # Absent
    <3>1. Has(i, x)
      BY <2>1 DEF NoGaps
    <3>2. x > 1 => x - 1 \in Indexes /\ x - 1 <= x
      BY HarnessAssumption DEF HarnessAssumption, Indexes
    <3> QED
      BY <3>1, <3>2 DEF Has
  <2> QED
    BY <2>2, <2>3
<1> QED
  BY <1>1, HarnessInvariant, PTL

\* The oracle is not too sharp: a correct Raft makes no reader and no call of
\* nCommitted fail, however its instances, the crashed ones included, and the
\* restarts interleave.
THEOREM HarnessNoFalseAlarm == HarnessSpec => []NoFalseAlarm
<1>1. HarnessInv => NoFalseAlarm
  BY DEF HarnessInv
<1> QED
  BY <1>1, HarnessInvariant, PTL

\* Without snapshots, one() returns only if enough servers have the command at
\* one index, though nCommitted looks at them one after another.
THEOREM HarnessOne == HarnessSpec => []OneIsAgreed
<1>1. HarnessInv => OneIsAgreed
  BY DEF HarnessInv
<1> QED
  BY <1>1, HarnessInvariant, PTL

\* Without snapshots an entry that checkLogs has recorded stays as it is,
\* across crash1 and start1, or there is an alarm.
THEOREM HarnessKeeps == HarnessSpec => NothingForgotten
<1>1. ASSUME HarnessInv, [HarnessNext]_harnessVars
      PROVE  [\A i \in Servers, x \in Indexes :
                ~snapshots /\ logs[i][x] # Absent /\ logs'[i][x] # logs[i][x]
                   => Alarm']_harnessVars
  <2>1. BaseInv
    BY <1>1 DEF HarnessInv
  <2> QED
    BY <1>1, <2>1, LogsGrow
<1> QED
  BY <1>1, HarnessInvariant, PTL DEF HarnessSpec, NothingForgotten
=============================================================================
