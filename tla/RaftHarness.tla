----------------------------- MODULE RaftHarness ----------------------------
(***************************************************************************)
(* The oracle of the Raft tests (raft/config.go): the goroutines that read *)
(* the apply channels, applier or applierSnap, the log they keep for each  *)
(* server, and one(), which submits a command and waits until enough       *)
(* servers have applied it.                                                *)
(*                                                                         *)
(* raft.go is a skeleton, so Raft is external: an instance of a server     *)
(* hands messages to its channel.  If Raft is correct these are the        *)
(* entries of one committed log, in order; if not, they are anything.  A   *)
(* crashed instance cannot be stopped, and neither can the goroutine that  *)
(* reads its channel: both go on next to the new instance.                 *)
(***************************************************************************)
EXTENDS Integers, Sequences, FiniteSets

CONSTANTS
    NServers,         \* cfg.n
    Commands,
    MaxIndex,         \* bounds the log
    MaxCrashes,       \* bounds the calls of crash1
    SnapShotInterval

ASSUME HarnessAssumption ==
    /\ NServers \in Nat \ {0} /\ MaxIndex \in Nat /\ MaxCrashes \in Nat
    /\ SnapShotInterval \in Nat \ {0}
    /\ \A c \in Commands : c \notin {"absent", "nil"}

VARIABLES
    \* Raft
    correct,      \* whether it keeps its promise
    committed,    \* the log of a correct Raft
    delivered,    \* delivered[i][k]: up to where instance k of i has applied
    \* struct config
    snapshots,    \* make_config's argument: applierSnap instead of applier
    logs, lastApplied,
    saved,        \* the snapshot in the Persister of each server
    instance,     \* the instance of each server
    crashed,      \* crash1 was called, start1 not yet
    \* applier or applierSnap, for each instance of a server
    reader,
    \* one()
    test,
    failed        \* why the test program ended, "" if it did not

raftVars == <<correct, committed, delivered>>
configVars == <<snapshots, logs, lastApplied, saved, instance, crashed>>
harnessVars == <<raftVars, configVars, reader, test, failed>>

Servers == 1 .. NServers
Indexes == 1 .. MaxIndex
Instances == 1 .. MaxCrashes + 1
Absent == "absent"
Nil == "nil"

Logs == [Indexes -> Commands \cup {Absent, Nil}]
NoLog == [x \in Indexes |-> Absent]

Command(x, c) == [index |-> x, cmd |-> c]
\* The entries of log l up to index x; a missing one is encoded as nil.
Snapshot(x, l) ==
    [index |-> x, log |-> [y \in Indexes |->
        IF y > x THEN Absent ELSE IF l[y] = Absent THEN Nil ELSE l[y]]]
NoMessage == [index |-> 0]
IsSnapshot(m) == "log" \in DOMAIN m

\* A reader at the top of its loop.
Idle == [pc |-> "receive", msg |-> NoMessage, err |-> FALSE]

SnapshotAt(x) == snapshots /\ (x + 1) % SnapShotInterval = 0

\* make_config.  Nothing checks the snapshots of an incorrect Raft, so nothing
\* is claimed for them.
HarnessInit ==
    /\ correct \in BOOLEAN
    /\ snapshots \in BOOLEAN /\ (snapshots => correct)
    /\ committed = <<>>
    /\ delivered = [i \in Servers |-> [k \in Instances |-> 0]]
    /\ logs = [i \in Servers |-> NoLog]
    /\ lastApplied = [i \in Servers |-> 0]
    /\ saved = [i \in Servers |-> Snapshot(0, NoLog)]
    /\ instance = [i \in Servers |-> 1]
    /\ crashed = [i \in Servers |-> FALSE]
    /\ reader = [i \in Servers |-> [k \in Instances |-> Idle]]
    /\ test = [pc |-> "idle"]
    /\ failed = ""

-----------------------------------------------------------------------------
(* Raft, as the harness sees it.                                           *)

Commit(c) ==
    /\ correct
    /\ Len(committed) < MaxIndex
    /\ committed' = Append(committed, c)
    /\ UNCHANGED <<correct, delivered, configVars, reader, test, failed>>

\* What a correct instance hands over: the next entry, or a snapshot it got
\* from the leader.
Due(i, k) ==
    LET log == [x \in Indexes |->
                  IF x \in DOMAIN committed THEN committed[x] ELSE Absent]
        later == {x \in DOMAIN committed : x > delivered[i][k]}
    IN  {Command(x, log[x]) : x \in {y \in later : y = delivered[i][k] + 1}}
        \cup {Snapshot(x, log) : x \in {y \in later : SnapshotAt(y)}}

Anything == {Command(x, c) : x \in Indexes, c \in Commands}

Messages(i, k) == IF correct THEN Due(i, k) ELSE Anything

-----------------------------------------------------------------------------
(* applier, applierSnap, checkLogs and ingestSnap.                         *)

At(i, k, p) == reader[i][k].pc = p
Message(i, k) == reader[i][k].msg

Goto(i, k, p, err) ==
    reader' = [reader EXCEPT ![i][k] =
        IF p = "receive" THEN Idle ELSE [pc |-> p, msg |-> @.msg, err |-> err]]

\* The end of the loop body: log.Fatalf if there is an error.
EndOfLoop(err) == IF err THEN "fatal" ELSE "receive"

\* m := <-applyCh.  applierSnap returns before its loop if crash1 has come
\* first (rf is nil): a reader that never receives, which nothing forces to.
Receive_Bug(i, k, m) ==
    /\ k <= instance[i]
    /\ At(i, k, "receive")
    /\ reader' = [reader EXCEPT ![i][k] =
          [pc |-> IF snapshots THEN "compare" ELSE "check",
           msg |-> m, err |-> FALSE]]
    /\ delivered' = IF correct THEN [delivered EXCEPT ![i][k] = m.index]
                    ELSE delivered
    /\ UNCHANGED <<correct, committed, configVars, test, failed>>

Receive(i, k, m) ==
    /\ k <= instance[i]
    /\ At(i, k, "receive")
    /\ reader' = [reader EXCEPT ![i][k] =
          [pc |-> IF IsSnapshot(m) THEN "ingest"
                  ELSE IF snapshots THEN "compare" ELSE "check",
           msg |-> m, err |-> FALSE]]
    /\ delivered' = IF correct THEN [delivered EXCEPT ![i][k] = m.index]
                    ELSE delivered
    /\ UNCHANGED <<correct, committed, configVars, test, failed>>

\* applierSnap compares with lastApplied[i] without the lock.
Compare(i, k) ==
    LET err == Message(i, k).index # lastApplied[i] + 1
    IN  /\ At(i, k, "compare")
        /\ Goto(i, k, IF err THEN "applied" ELSE "check", err)
        /\ UNCHANGED <<raftVars, configVars, test, failed>>

\* Some server has already committed a different value for this entry.
Disagrees_Bug(i, m) == logs[i][m.index] \notin {Absent, m.cmd}

Disagrees(i, m) == \E j \in Servers : logs[j][m.index] \notin {Absent, m.cmd}

OutOfOrder_Bug(i, m) == m.index > 1 /\ logs[i][m.index] = Absent

OutOfOrder(i, m) == m.index > 1 /\ logs[i][m.index - 1] = Absent

\* checkLogs, and what is made of prevok.
CheckLogs(i, k) ==
    LET m == Message(i, k)
        err == Disagrees(i, m) \/ OutOfOrder(i, m)
    IN  /\ At(i, k, "check")
        /\ logs' = [logs EXCEPT ![i][m.index] = m.cmd]
        /\ Goto(i, k, IF snapshots THEN "applied" ELSE EndOfLoop(err), err)
        /\ UNCHANGED <<raftVars, snapshots, lastApplied, saved, instance,
                       crashed, test, failed>>

\* lastApplied[i] = m.CommandIndex
Applied(i, k) ==
    LET x == Message(i, k).index
        err == reader[i][k].err
    IN  /\ At(i, k, "applied")
        /\ lastApplied' = [lastApplied EXCEPT ![i] = x]
        /\ Goto(i, k, IF SnapshotAt(x) THEN "snapshot" ELSE EndOfLoop(err), err)
        /\ UNCHANGED <<raftVars, snapshots, logs, saved, instance, crashed,
                       test, failed>>

\* rf.Snapshot: each instance saves it in a Persister of its own.  That of an
\* instance that has crashed is not looked at any more.
TakeSnapshot(i, k) ==
    LET x == Message(i, k).index
        err == reader[i][k].err
    IN  /\ At(i, k, "snapshot")
        /\ saved' = IF k = instance[i] /\ ~crashed[i]
                    THEN [saved EXCEPT ![i] = Snapshot(x, logs[i])]
                    ELSE saved
        /\ Goto(i, k, EndOfLoop(err), err)
        /\ UNCHANGED <<raftVars, snapshots, logs, lastApplied, instance,
                       crashed, test, failed>>

\* ingestSnap for a message.  It ends the test if the snapshot is nil, cannot
\* be decoded or has another index than the message.  None of these comes
\* from a correct Raft, which hands over what rf.Snapshot was given, and
\* with snapshots there is no other (HarnessInit).
IngestSnap(i, k) ==
    LET m == Message(i, k)
    IN  /\ At(i, k, "ingest")
        /\ logs' = [logs EXCEPT ![i] = m.log]
        /\ lastApplied' = [lastApplied EXCEPT ![i] = m.index]
        /\ Goto(i, k, "receive", FALSE)
        /\ UNCHANGED <<raftVars, snapshots, saved, instance, crashed, test,
                       failed>>

Fatal(i, k) ==
    /\ At(i, k, "fatal")
    /\ failed' = "apply error"
    /\ UNCHANGED <<raftVars, configVars, reader, test>>

-----------------------------------------------------------------------------
(* crash1 and start1.                                                      *)

\* How often crash1 was called.
Crashes ==
    Cardinality({p \in Servers \X Instances : p[2] < instance[p[1]]})
    + Cardinality({i \in Servers : crashed[i]})

Crash(i) ==
    /\ ~crashed[i]
    /\ Crashes < MaxCrashes
    /\ crashed' = [crashed EXCEPT ![i] = TRUE]
    /\ UNCHANGED <<raftVars, snapshots, logs, lastApplied, saved, instance,
                   reader, test, failed>>

\* A new instance begins after the snapshot of the server.  Without one the
\* log that the harness keeps stays as it is.
Start_Bug(i) ==
    /\ crashed[i]
    /\ crashed' = [crashed EXCEPT ![i] = FALSE]
    /\ instance' = [instance EXCEPT ![i] = @ + 1]
    /\ lastApplied' = [lastApplied EXCEPT ![i] = saved[i].index]
    /\ logs' = [logs EXCEPT ![i] = saved[i].log]
    /\ delivered' = [delivered EXCEPT ![i][instance[i] + 1] = saved[i].index]
    /\ UNCHANGED <<correct, committed, snapshots, saved, reader, test, failed>>

Start(i) ==
    /\ crashed[i]
    /\ crashed' = [crashed EXCEPT ![i] = FALSE]
    /\ instance' = [instance EXCEPT ![i] = @ + 1]
    /\ lastApplied' = [lastApplied EXCEPT ![i] = saved[i].index]
    /\ logs' = IF saved[i].index > 0 THEN [logs EXCEPT ![i] = saved[i].log]
               ELSE logs
    /\ delivered' = [delivered EXCEPT ![i][instance[i] + 1] = saved[i].index]
    /\ UNCHANGED <<correct, committed, snapshots, saved, reader, test, failed>>

-----------------------------------------------------------------------------
(* one() and nCommitted().                                                 *)

\* one() waits for a leader that takes the command.
Submitting(c, n) ==
    [pc |-> "start", cmd |-> c, expected |-> n, index |-> 0, next |-> 1,
     count |-> 0, seen |-> Absent]

\* nCommitted(index) begins.
Scan(t, x) == [t EXCEPT !.pc = "scan", !.index = x, !.next = 1, !.count = 0,
                        !.seen = Absent]

One(c, expectedServers) ==
    /\ test.pc = "idle"
    /\ test' = Submitting(c, expectedServers)
    /\ UNCHANGED <<raftVars, configVars, reader, failed>>

\* A server that claims to be the leader has taken the command at index x.
Submit(x) ==
    /\ test.pc = "start"
    /\ \E i \in Servers : ~crashed[i]
    /\ test' = Scan(test, x)
    /\ UNCHANGED <<raftVars, configVars, reader, failed>>

\* nCommitted looks at one server after another; the lock is free in between.
Count(i) ==
    LET c == logs[i][test.index]
    IN  /\ test.pc = "scan" /\ test.next = i
        /\ failed' = IF c # Absent /\ test.count > 0 /\ c # test.seen
                     THEN "mismatch" ELSE ""
        /\ test' = [test EXCEPT !.next = i + 1,
                       !.count = IF c = Absent THEN @ ELSE @ + 1,
                       !.seen = IF c = Absent THEN @ ELSE c]
        /\ UNCHANGED <<raftVars, configVars, reader>>

Agreed_Bug == test.count > 0 /\ test.count >= test.expected

Agreed ==
    /\ test.count > 0 /\ test.count >= test.expected
    /\ test.seen = test.cmd

\* The command is committed, or one() looks again or submits it again.
Conclude ==
    /\ test.pc = "scan" /\ test.next > NServers
    /\ \/ Agreed /\ test' = [pc |-> "returned", cmd |-> test.cmd,
                             expected |-> test.expected, index |-> test.index]
       \/ ~Agreed /\ test' = Scan(test, test.index)
       \/ ~Agreed /\ test' = Submitting(test.cmd, test.expected)
    /\ UNCHANGED <<raftVars, configVars, reader, failed>>

\* Ten seconds are over, or two if the command is not to be submitted again.
GiveUp ==
    /\ test.pc = "start" \/ (test.pc = "scan" /\ test.next > NServers /\ ~Agreed)
    /\ failed' = "no agreement"
    /\ UNCHANGED <<raftVars, configVars, reader, test>>

-----------------------------------------------------------------------------
Reader(i, k) ==
    \/ \E m \in Messages(i, k) : Receive(i, k, m)
    \/ Compare(i, k) \/ CheckLogs(i, k) \/ Applied(i, k)
    \/ TakeSnapshot(i, k) \/ IngestSnap(i, k) \/ Fatal(i, k)

HarnessNext ==
    /\ failed = ""
    /\ \/ \E c \in Commands : Commit(c)
       \/ \E i \in Servers, k \in Instances : Reader(i, k)
       \/ \E i \in Servers : Crash(i) \/ Start(i) \/ Count(i)
       \/ \E c \in Commands, n \in Servers : One(c, n)
       \/ \E x \in Indexes : Submit(x)
       \/ Conclude
       \/ GiveUp

HarnessSpec == HarnessInit /\ [][HarnessNext]_harnessVars
-----------------------------------------------------------------------------
(* Properties.                                                             *)

PCs == {"receive", "ingest", "compare", "check", "applied", "snapshot", "fatal"}

\* The type invariant.
HarnessTypeOK ==
    /\ correct \in BOOLEAN /\ snapshots \in BOOLEAN
    /\ committed \in Seq(Commands)
    /\ delivered \in [Servers -> [Instances -> 0 .. MaxIndex]]
    /\ logs \in [Servers -> Logs]
    /\ lastApplied \in [Servers -> 0 .. MaxIndex]
    /\ saved \in [Servers -> [index : 0 .. MaxIndex, log : Logs]]
    /\ instance \in [Servers -> Instances]
    /\ crashed \in [Servers -> BOOLEAN]
    /\ \A i \in Servers, k \in Instances :
          LET r == reader[i][k]
          IN  /\ r.pc \in PCs /\ r.err \in BOOLEAN
              /\ r.pc = "receive" => ~r.err
              /\ r.pc = "ingest" => IsSnapshot(r.msg)
              /\ r.pc \in {"compare", "check"} => r.msg \in Anything
    /\ failed \in {"", "apply error", "mismatch", "no agreement"}

\* The test program has ended or is about to, with an error of a reader.
Alarm == failed # "" \/ \E i \in Servers, k \in Instances : reader[i][k].err

\* The oracle is sharp enough: unless it raises the alarm, all that the
\* servers have applied agrees and has no gaps, whatever Raft does, across
\* crashes, and with the readers of crashed instances still at work.  With
\* snapshots that holds until a server is restarted for the second time: a
\* reader of its first instance may ingest an old snapshot after the second
\* has applied more, the second then encodes the missing entries as nil in a
\* snapshot of its own, and the third instance starts with them.
LogsAgree ==
    ~Alarm /\ (snapshots => \A i \in Servers : instance[i] <= 2) =>
        \A i \in Servers, x \in Indexes :
            LET c == logs[i][x]
            IN  c # Absent =>
                  /\ \A j \in Servers : logs[j][x] \in {Absent, c}
                  /\ x > 1 => logs[i][x - 1] # Absent

\* Without snapshots an entry that some server has applied stays known to the
\* harness through crashes, so that no later entry can contradict it unseen.
NothingForgotten ==
    [][\A i \in Servers, x \in Indexes :
         ~snapshots /\ logs[i][x] # Absent /\ logs'[i][x] # logs[i][x]
            => Alarm']_harnessVars

\* Without snapshots, one() returns only if that many servers have applied the
\* command at one index, though it looks at one after another while readers
\* go on, servers crash and start again.  With snapshots a restart drops
\* entries that one() may already have counted, so nothing is said of them.
OneIsAgreed ==
    ~Alarm /\ ~snapshots /\ test.pc = "returned" =>
        Cardinality({i \in Servers : logs[i][test.index] = test.cmd})
            >= test.expected

\* The oracle is not too sharp: a correct Raft causes no alarm, although
\* instances that crashed keep applying entries next to the new ones, which
\* begin again.  With snapshots that holds as long as no server has been
\* restarted: lastApplied[i] is shared by the instances of a server and read
\* without the lock, so after a restart a reader may take an entry for one out
\* of order.
NoFalseAlarm ==
    correct /\ (snapshots => \A i \in Servers : instance[i] = 1) =>
        /\ failed \notin {"apply error", "mismatch"}
        /\ \A i \in Servers, k \in Instances : ~reader[i][k].err
=============================================================================
