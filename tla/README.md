# Specifications of the distributed systems labs

TLA+ models of the programs in this repository, TLC configurations that check
them on small instances, and TLAPS proofs of their main safety properties for
every size of the systems. Paths below are relative to `src/Labs/`; `6.5840/` stands for
`Lab2/6.5840/src/`.

Contents: [1 the system](#1-the-system), [2 modules](#2-modules),
[3 runs](#3-runs), [4 fairness](#4-fairness), [5 proofs](#5-proofs),
[6 findings and known limits of the code](#6-findings-and-known-limits-of-the-code),
[7 what is not modelled](#7-what-is-not-modelled), [8 plan](#8-plan),
[9 how to run](#9-how-to-run).

## 1 The system

The repository holds two labs and the test infrastructure the second one comes
with.

### 1.1 MapReduce (`6.5840/mr`, `main/mr*.go`, `mrapps`)

| part | state | operations |
|---|---|---|
| coordinator (`coordinator.go`, `task.go`) | for each map and reduce task its state and the time it was assigned; for each reduce task the address of the producer of every map task; whether `main` has seen `Done()` | RPC handlers `RequestTask`, `ReportTaskCompletion`, `ReportMissingMapOutputs`, each under one mutex; `Done()` polled once a second; exit one sleep later |
| worker (`worker.go`, `bucket.go`) | the task it executes, the buckets it has written, the outputs it still has to fetch; files `mr-m-b` and `mr-out-b` in its directory | ask, map and write buckets (temporary file and rename), fetch buckets from its directory or another worker, reduce and write the output in place, report, exit when the coordinator cannot be reached |
| data service (`worker_rpc.go`) | none | `FetchBucket` reads a file of the worker's directory |
| applications (`mrapps`) | none | `Map` and `Reduce`; `crash.go` exits or sleeps at random |

Workers call the coordinator and each other through `net/rpc` over TCP. What
makes this hard: a task that outlasts ten seconds is handed out again while the
first worker is still at it; calls between workers have no time limit; a completed map task is lost with the machine that
holds its files; a request may be handled after its sender died; and the reply
to `RequestTask` contains a Go map that other handlers write to, encoded after
the mutex is released. What makes it correct: the output is that of a
sequential run, whatever fails; a reduce task is handed out only when all map
outputs are known; completed work is not undone; the job ends, and so do the
workers.

### 1.2 Lab 1 (`Lab1/http`, `Lab1/http_server`, `Lab1/proxy`)

| part | state | operations |
|---|---|---|
| HTTP library (`server.go`) | the channel of open connections, used as a counting semaphore; a goroutine per connection | accept, admit, read a request, dispatch by method, write the response, release a slot |
| file server (`files.go`, `http_server.go`) | the directory `public/` and temporary `upload-` files in it | GET: check the path, stat, read. POST: temporary file, copy, sync, rename |
| proxy (`proxy.go`) | an outgoing connection per request | dial, forward, read the response, pass it on |

Hard: uploads and downloads of one file overlap; a client breaks off in the
middle of a body; the process or the machine dies between two system calls;
neither reads nor writes have a deadline, so a client that sends or reads
nothing and a server that does not answer keep a slot for ever; the proxy may be
asked to call itself.

### 1.3 Infrastructure of the Raft labs (`6.5840/labrpc`, `raft`, `kvraft`, `shardctrler`, `shardkv`, `porcupine`, `models`)

| part | state | operations |
|---|---|---|
| `labrpc` | which ends are enabled and connected to which server, reliability, reordering; the registered server instances | `Call`, `processReq`, `Connect`, `Enable`, `AddServer`, `DeleteServer`, `Cleanup` |
| Persister | the bytes an instance saved | `Save`, `Copy` |
| Raft harness, the cluster (`raft/config.go`) | `connected`, the ends of the last instance of every server, the saved Persister | `start1`, `crash1`, `connect`, `disconnect`, `cleanup` |
| Raft harness, the oracle (`raft/config.go`) | a copy of every server's applied log, `lastApplied` | `applier`, `applierSnap`, `checkLogs`, `ingestSnap`, `one`, `nCommitted` |
| harnesses of `kvraft`, `shardctrler`, `shardkv` (`config.go`) | ends of servers and clerks, the saved Persister, replica groups | `partition`, `ConnectAll`, `makeClient`, `ConnectClient`, `ShutdownServer`, `StartServer`, `ShutdownGroup`, `StartGroup`, `join`, `leave`, `cleanup` |
| clerks (`shardctrler/client.go`, `shardkv/client.go`) | the servers, a cached configuration | `Query`, `Join`, `Leave`, `Move`; `Get`, `PutAppend` |
| `porcupine` | linked list, stack, cache, one goroutine per partition | `checkSingle`, `checkParallel` |
| `models/kv` | value of a key | `Partition`, `Init`, `Step` |

`raft.go`, `kvraft/server.go`, `kvraft/client.go`, `shardctrler/server.go` and
`shardkv/server.go` are the skeletons handed out with the labs; they contain no
algorithm. The harnesses, the network, the checker and the clerks of the sharded
service are complete, and a mistake in them would let a wrong server pass or
fail a right one. Hard: a crashed server cannot really be stopped, so the
goroutines of its old instance keep running next to the new one; replies are
lost, delayed and reordered while the test partitions and restarts servers; a
clerk acts on a configuration that is out of date, and sends again what may have
been executed; the checker prunes its search and its goroutines are cancelled by
a timeout. What makes it correct: links join running instances only and work
both ways; what a call acknowledges survives a restart; the oracle reports each
disagreement and nothing else; an operation returns what really happened during
the call, and returns; the checker's answer is that of the definition.

Every component, modelled or not, is listed in `PROJECT.json` under
`components`; the behaviours that are hard to test, with their lines and the
properties that watch them, under `hazards`.

## 2 Modules

    MRBuckets <- MRTypes <- Coordinator, Worker <- MapReduce (implements Job)
              <- MRData                            MapReduce <- MCMapReduce
       MapReduce, MRData <- MapReduceProofs
    HttpServer <- HttpServerProofs
               <- FileServer (implements FileStore) <- MCFileServer
               <- Proxy <- MCProxy
       FileServer, HttpServerProofs <- FileServerProofs
       Proxy, HttpServerProofs <- ProxyProofs
    LabRPC <- Cluster <- MCLabRPC
                      <- ClusterProofs
    RaftHarness <- MCRaftHarness
                <- RaftHarnessProofs
    CtrlerClerk <- ShardClerk <- MCShardClerk
                              <- ShardClerkProofs
    KvHistory <- CheckParallel <- Porcupine <- MCPorcupine
                                            <- PorcupineProofs

(`A <- B`: B extends A.) Definitions whose names end in `_Bug` are mutated
forms of the definition they precede, each a plausible mistake in that code.
They are used by no specification; `PROJECT.json` says which property each
violates when it takes the place of the original.

**`Coordinator`.** `state`, `timedOut` and `outputs` are `Task.State`, the
result of `IsTimedOut` and `ReduceTask.MapTaskOutputs`. A handler is one action
because it holds the mutex throughout; `RequestTask` has three outcomes, each an
action (`AssignMap`, `AssignReduce`, `AnswerWait`). Go maps are iterated in any
order. Time is the action `TaskTimesOut`: a running task reaches its timeout.
`main` follows `mrcoordinator.go`. `CoordSpec` lets any RPC arrive at any time.

**`Worker`.** One action for every effect that another process can see: a
bucket renamed into place, a bucket fetched, the output truncated, a line
written. Keys and values are abstracted to the map tasks they come from: an
output records which map tasks it was made of and how many of its `NLines`
lines are there. Temporary files are not visible to anybody and are left out.
Workers may share a directory (`test-mr.sh`) or have one each (docker). A worker
that is stopped without dying (`Stops`) still has its port, and `CallWorker` has
no time limit: who fetches from it hangs (`FetchHangs`) until it is killed or the
connection breaks. A worker that hangs still serves its own files.

**`MapReduce`** composes the two. An RPC is the caller waiting at a program
counter and one action for handler and return; when the caller dies or the
connection breaks, the request becomes an orphan in `late`, handled at any later
time or never. `EncodeReply` is separate from `AssignReduce`, because the reply
is encoded after the mutex is released. `Collide` is the data race between the
encoder and a handler that deletes from the same Go map or inserts into it: the
runtime aborts the coordinator, or the reply is garbled. Failures are chosen by `FaultKinds` and
bounded by `MaxFaults`; the race and restarts are not counted.

**`Job`** is what the system promises: map tasks are executed, then reduce
tasks are completed, once and for all, then the program exits. The refinement
mapping takes `mapped` from the files on disk, not from the coordinator's
records, so that it connects the two.

**`MRData`** has the functions on data: `Map` and `Reduce` of `wc` and
`indexer`, bucketing, grouping and reducing, compared with `mrsequential.go`.
Sorting is external: `SortBy` permutes, and nothing is said of the order of equal
elements (`sort.Sort` is not stable). `MRBuckets` has what it shares with the
other modules, the number of buckets.

**`HttpServer`** is the library: the listen loop (`Accept`, `Admit`) and the
goroutine of each connection. The channel is a counter: the code sends a
connection into it and receives any one, so only the number matters. A client
may stop in the middle of a body, and a response is written only as far as the
client reads or breaks off (`WriteResponse`). The status codes are a constant,
`Statuses`: a proxy relays whatever the server answered.
**`FileServer`** adds the two handlers, with a step for each system call whose
order matters, the contents of files as a body and a number of chunks, and what
the disk may hold after a power loss. A path is a sequence of segments, and
`Clean` and `Base` (external, package `path`) do to it what the handlers rely
on. **`FileStore`** is the abstract store of atomic files it implements. **`Proxy`** adds the proxy's
handler, in which forwarding a request waits for the client's body
(`ForwardBody`); a request for its own address opens a connection to the same
server.

**`LabRPC`** follows a call from `ClientEnd.Call` through `processReq` and the
handler's goroutine and back, and has the operations of `Network`: `Connect`,
`Enable`, `AddServer`, `DeleteServer`, `Cleanup`. A handler saves one fact to the
Persister of the instance it runs on. **`Cluster`** puts the test harnesses on top
of it: the variable `harness` selects `raft/config.go`, `kvraft/config.go` (which
`shardctrler/config.go` repeats) or `shardkv/config.go`, and their operations are
the actions, in terms of ends that belong to an instance of a server or to a
clerk. The steps of a shutdown (disable the ends, delete the server, copy the
Persister) are separate, because a call in the network can come between them;
operations that set the flags of several ends are one step, because a call reads
the flag of its own end only.

**`RaftHarness`** has the readers of the apply channels and `one()`; Raft is
external, either correct (it delivers one committed log in order, to every
instance) or arbitrary.

**`CtrlerClerk`** is the controller's clerk and **`ShardClerk`** the clerk of the
sharded service, which calls it. Both are loops over servers and are modelled
call by call; the lines that accept or refuse a reply and refresh the cached
configuration are operators of their own (`Accepts`, `Refreshed`). The services
behind are external: a controller whose leader executes operations on a sequence
of configurations, groups of which at most one serves the shard, following the
configurations with a delay. A call that fails was executed or not, or is
executed later. The history variables `executed`, `began`, `done` and `held`
record what happened during an operation.

**`KvHistory`** defines histories, the model of one key and linearizability;
**`CheckParallel`** is `checkParallel`: the goroutine of each partition, the
results, the timeout and the kill flag; **`Porcupine`** refines the goroutines to
`checkSingle`, with one action per iteration of its loop.

## 3 Runs

| run | checks | what it shows |
|---|---|---|
| `one_machine` | `TypeOK` `DoneIsWritten` `NoEarlyExit` `OutputsFinal` | The setting of `test-mr.sh`, with crashes of the application, no task slower than its timeout: outputs are complete when their task is Done and are not touched after the exit. |
| `two_machines` | `OutputsAgree` `DrainedIsReduced` `ProducersHoldOutputs` `MapBarrier` `ImplementsJob` `ReduceSeesAllOutputs` `ProducerStays` | A directory and an address per worker, all kinds of failures and the data race, slow reducers: the coordinator's records stay consistent with each other and with the disks,, no trace of a reduce task appears before all map tasks have been executed, and the system implements `Job`. `ReduceSeesAllOutputs` is about the coordinator's map in the step of the handler; what arrives is the subject of `stale_reply`. |
| `job_finishes` | `JobFinishes` `WorkersStop` | Liveness with any task slow and one failure: the job finishes and the workers end. The exception, stated in the property, is a producer of map outputs that is stopped without dying. |
| `stale_reply`, `torn_output` | one property each, violated | The two findings, section 6. |
| `data` | `SameAsSequential` | Outputs equal those of the sequential program for all inputs within the bounds, all hashes, all orders of Go maps. |
| `files` | `FileTypeOK` `TempsRemoved` `PathsSound` `ImplementsStore` | Two connections, uploads and downloads of the same file by different paths, broken requests, death of the process, power loss. |
| `proxy` | `ProxyTypeOK` `SlotsMatch` `ConnectionLimit` `OutgoingLimit` `StarvedOnlyByStuck` | Three connections and two slots, clients that are silent, stop in a body, do not read or break off, servers that fail or never answer, requests for the proxy itself: slots are counted exactly, and a connection starves only while every slot is kept by one of these. |
| `labrpc` | `RPCTypeOK` `AckedIsSaved` `LinksSound` `CallsReturn` | A call of any instance of a server or of a clerk, against all that the three harnesses do meanwhile: what is acknowledged is in the state the server restarts from, links are sound, and calls return. |
| `raft_harness` | `HarnessTypeOK` `LogsAgree` `OneIsAgreed` `NoFalseAlarm` `NothingForgotten` | The oracle lets no disagreement pass and raises no false alarm; with snapshots the former holds until a server is restarted a second time, the latter until the first restart. `OneIsAgreed` is stated without snapshots: with them a restart drops entries that `nCommitted` has counted. |
| `shard_clerk` | `ResultsAreReal` `ClerksReturn` | A clerk reads and writes while another one joins, moves and leaves, the shard is handed over late, leaders change and calls fail before, during and after their execution. |
| `porcupine` | `ListIntact` `LongestIsLongest` `AnswerCorrect` `NoRaceOnLongest` `SearchesDecide` `CheckReturns` | For all histories of up to three operations on two keys: the searches, their cancellation by a timeout and the collection of their results give the answer of the definition of linearizability. |

**Bounds, and why they are enough for these questions.** Two map tasks and two
buckets are the least with which a map task can be missing from one reduce task
and not from another, and with which a worker can die between two buckets; two
workers are the least for a duplicate execution, three (`one_machine`) for one
that overlaps with a crash and its replacement. One failure in the large
deployment is combined with slow tasks, duplicates and orphaned requests, which
are not counted as failures; `one_machine` allows two. What happens at larger
sizes is the subject of the proofs. `job_finishes` has one bucket: the
interplay of buckets is safety. In `data`, three words are enough for two to
share a bucket and one not to, and two files for a key that occurs in both.
Two connections are enough for two operations on a file to overlap; paths have
up to four of six kinds of segments. Three connections on two slots leave one
waiting. One call sees every network step, on any end of two servers and a
clerk; two instances of each server are an old one that cannot be stopped and a
new one. Two controllers and a group of two servers are the least with a wrong
leader to be refused by; two groups and two configurations let the clerk's
configuration be out of date in both directions, before and after the shard is
handed over; one request executed after its call has failed is enough for a
duplicate. Two indexes and two servers let an old and a
new instance of a server apply different prefixes, and a snapshot interval of
two takes the snapshot at index 1. Three operations are the least for a search
that has to backtrack over an operation it had linearized too early and come to
it again through the cache, with two keys for two searches at once.

Deadlock is checked except where the system may stop: `data` ends when all
buckets are reduced, `proxy` when all slots are stuck, `raft_harness` when the
test has failed, `labrpc` after the cleanup, `shard_clerk` when nothing more is
asked, `porcupine` when the check has returned.

## 4 Fairness

- `MapReduce.Fairness`: weak fairness for every worker's RPCs and steps, for
  time (`TimesOut`) and for `main`. A process that lives is scheduled, and a TCP
  call returns or fails. No failure is fair and orphaned requests need never be
  handled. A stopped process (`StopWorker`) takes no step, and a call to it does
  not return: fairness does not help who hangs on it.
- `ProxyFairness`: weak fairness for the accept loop and for what a goroutine
  can do by itself. Neither clients nor other servers owe anything: a client may
  never send, stop in the middle of a body or never read, a server may never
  answer. A write is therefore only owed to a connection that is closed, where
  it fails at once, and a handler only runs while it waits neither for a body
  nor for an answer. Failures of a connection of the proxy to itself (`HopFails`)
  are not owed either.
- `ClusterFairSpec`: the network's goroutines and timers run; handlers and tests
  owe nothing, and `CallsReturn` says what follows if a handler hangs.
- `ShardFairSpec`: once `stable` (leaders stay and calls to them succeed, which
  is what `labrpc` and a server with a majority give in the end), clerks run and
  shards are handed over. Before that, any call may fail, for ever.
- `CheckFairSpec`: some goroutine of the checker that can run does (weak fairness
  of the whole next-state relation, no more than the Go scheduler gives). No
  timeout is assumed to fire.

## 5 Proofs

Eight modules of proofs are checked by TLAPS. Each establishes an inductive
invariant, with a lemma for every action, and derives from it the properties the
runs check on small instances; three of them prove refinements. The constants are
arbitrary, up to the named assumptions of the modules that declare them. Every
invariant and every action property that a run checks is now also a theorem;
what is left to TLC is liveness.

| module | for any | theorems | property of a run |
|---|---|---|---|
| `MapReduceProofs` | tasks, buckets, addresses, RPCs in any order | `CoordinatorAgreement` `CoordinatorDrained` `CoordinatorSeesAll` `CoordinatorProducerStays` `CoordinatorTypes` `CoordinatorReduceStays` | `OutputsAgree` `DrainedIsReduced` `ReduceSeesAllOutputs` `ProducerStays` |
| | deployment, failures, slow tasks | `SystemInvariant` `SystemTypes` `SystemProducers` `SystemBarrier` `SystemImplementsJob` | `TypeOK` `ProducersHoldOutputs` `MapBarrier` `ImplementsJob` |
| | deployment without failing calls, files and the data race (`OnlyQuietFaults`) | `WorkersOutstay` | `NoEarlyExit` |
| | tasks and workers on one machine (`OneMachine`) | `OneMachineInvariant` `OneMachineDone` `OneMachineOutputs` `OneMachineFinal` | `DoneIsWritten` `OutputsFinal` |
| | documents, words, hashes, buckets, orders of Go maps | `DataInvariant` `DataSame` | `SameAsSequential` |
| `HttpServerProofs` | connections, capacity, handlers | `HttpSlots` `HttpLimit` | `SlotsMatch` `ConnectionLimit` |
| `FileServerProofs` | connections, requests, bodies, chunks, deaths | `FileImplementsStore` `FileTypes` `FileTemps` `FileSlots` `FileServable` `FilePaths` | `ImplementsStore` `FileTypeOK` `TempsRemoved` `PathsSound` |
| `ProxyProofs` | connections, capacity | `ProxyTypes` `ProxySlots` `ProxyOutgoing` `ProxyHops` | `ProxyTypeOK` `SlotsMatch` `ConnectionLimit` `OutgoingLimit` |
| `ClusterProofs` | servers, clerks, calls, restarts, the three harnesses | `ClusterTypes` `ClusterAcked` `ClusterLinks` | `RPCTypeOK` `AckedIsSaved` `LinksSound` |
| `RaftHarnessProofs` | servers, log length, crashes, snapshot interval, a correct or an arbitrary Raft | `HarnessTypes` `HarnessAgreement` `HarnessNoFalseAlarm` `HarnessOne` `HarnessKeeps` | `HarnessTypeOK` `LogsAgree` `NoFalseAlarm` `OneIsAgreed` `NothingForgotten` |
| `ShardClerkProofs` | clerks, servers, groups, values, configurations | `ShardResults` `ShardCache` | `ResultsAreReal` |
| `PorcupineProofs` | histories, keys, operations, partitions | `CheckAnswers` `SearchesKeepPromise` `ListsIntact` `LongestReported` `NoRace` `ChecksInParallel` `ParAnswers` `CheckInvariant` | `AnswerCorrect` `SearchesDecide` `ListIntact` `LongestIsLongest` `NoRaceOnLongest` |

*Assumptions.* MapReduce (`MRBuckets`, `MRTypes`, `Worker`, `MapReduce`): there is a map task
(`mrcoordinator` refuses to start without input files) and a bucket, no map task
is a number that names a bucket, `NoTask` and `NoAddress` are none of the
others, every worker has a directory and an address, and an output has at least
one line to write. `HttpAssumption`: finitely many connections, a capacity that
is a natural number (0 included), `NoRequest` is no request, and the statuses
the library answers with itself are among `Statuses`. `FileAssumption`:
the handlers are those that `main` registers, GET and POST, a POST request has a
body, `NoBody` is no body, errors of the operating system are answered with
400, 404 or 500, and the server's statuses are among `Statuses`. `PathAssumption`: paths are sequences of segments, and no
ordinary name is empty, `.` or `..`. `DataAssumption`: words and hash values are
natural numbers (words stand for strings, in their order). `ProxyAssumption`: the names for a remote server, a closed
connection and no connection are not connections. `RPCAssumption` and
`ClusterAssumption`: ends belong to an instance of a server or to a clerk and
lead to a server, there is one, and servers are not clerks. `HarnessAssumption`:
there is a server, the snapshot interval is positive, "absent" and "nil" are not
commands. `CtrlerAssumption` and `ShardAssumption`: there is a controller and
every group has a server, gid 0 is no group, the clerks of the sharded service
are clerks of the controller. `ParAssumption`: histories have a call and, later,
a return for each operation (`Histories`), which is a get, a put or an append.
TLC evaluates all of them in the runs.

*Coordinator.* `CoordInv` is inductive: types, `OutputsAgree` (a producer is
recorded exactly while the map task is Done), `OneProducer` (all reduce tasks
have the same record), `DrainedIsReduced`. `OneProducer` is what the loop over
all reduce tasks in two handlers amounts to. From it follow the theorems on
steps: when a handler assigns a reduce task, it sees all outputs
(`CoordinatorSeesAll`; the reply is encoded later, and may have lost one), a Done reduce task stays (`CoordinatorReduceStays`),
a producer is never replaced (`CoordinatorProducerStays`).

*MapReduce.* The goal is `SystemImplementsJob`: `Spec => JobSpec` under the
mapping, and `SystemProducers`. Neither is inductive. "Every map task is Done
before a reduce task completes" is not even true of the coordinator's table,
because a report of missing outputs makes a map task Unassigned again while
reducers run. `IndInv` therefore speaks of the disks: `MapBarrier` says that as
soon as there is any trace of a reduce task, at the coordinator, at a worker or
in an orphaned report, all map tasks have been executed, and files are never
removed. `ProducersHoldOutputs` and `LateIsMapped` say the same of recorded
producers and of reports under way, and rest on `WorkerInv`: a worker that maps
has written the buckets before its position, and one that reports has written
them all. Steps that touch only one side are handled by two lemmas on what such
a step preserves (`QuietStep`, `OrphanStep`). The refinement proof maps every
action to a step of `Job` or a stutter.

*When workers exit, and complete outputs.* These hold in some deployments only, so
the theorems have the deployment as a hypothesis on the constants; each is
satisfied by `Shared.cfg`. `WorkersOutstay`: a worker exits early only after a
call that failed, a file that could not be read or a garbled reply. `OneMachine`
is the setting of `test-mr.sh`: one address and one directory, no reduce task
slower than its timeout, and no failure that would orphan a report or lose a
line in silence. There no output is ever reported missing (`NothingMissing`), so
map tasks stay Done (`ReduceAfterMap`), a reduce task that is not slow has one
worker at a time, and what it has written is a prefix of the complete output.
The two findings of section 6 show why both parts of the hypothesis are needed.

*Data.* The job and the sequential program handle the same pairs in different
orders, so the proof speaks of what a sequence lists: `Lists(s, S, v)` says that
`s` has `v[x]` for each `x` in `S`, once. Every pair has an origin, a place of a
document (`wc`) or a word of it (`indexer`). Appending, filtering by key,
permuting and sorting turn a listing of origins into another one (`ListsConcat`,
`KeepLists`, `ListsPermuted`, `SortLists`), so the invariant `DataInv` is that
bucket files and `mappedContents` list just the origins they should. On both
sides a line is then `Reduce` of some listing of all origins of the key, on the
sequential side because a run of equal keys in a sorted sequence is not
interrupted (`RunLists`), and `Reduce` does not depend on the listing
(`ReduceSame`): two sorted listings of the same numbers are equal, or the `k`
smallest of one would have fewer than `k` places in the other (`SortedBelow`).

*HTTP library.* `HttpInv` adds to `SlotsMatch` that the backlog holds each queued
connection once and nothing else (`QueueSound`) and that the accept loop holds
one at most (`OneHeld`): without them `Accept` could take a connection that is
being served. How many goroutines there are changes by one where the channel's
count does (`OneStarts`, `OneEnds`) and nowhere else (`NoneMoves`). The lemmas
are stated per action, so that the two programs on the library cite them.

*File server.* `FileInv` connects the program counter of a handler with its
request and its upload- file (`StepSound`): all of the body is in it before the
sync, and it is synced before the rename. Hence the directory, and all that the
disk may make of it, holds whole files only (`FilesWhole`), which is what the
refinement needs: `os.Rename` is the store's `Put` with the request's body,
`os.ReadFile` its `Get` (the file `os.Stat` has found cannot have gone, since
nothing removes files and a power loss ends all handlers), a response with an
error is `Fail`, and all else is invisible. `FilePaths` needs what `Clean` and
`Base` compute for a path of any length: `Clean` yields ordinary names only, is
the identity on them, and POST and GET agree on the name of a file. Its
hypothesis `FirstServable` says that the files which are in `public/` at the
start can be fetched.

*Proxy.* `ProxyInv` adds that an outgoing connection belongs to a running handler
(`PeersServed`), from which `OutgoingLimit` follows by counting, and that a
connection of the proxy to itself is open on both sides and is nobody else's
(`HopsSound`).

*Network and harnesses.* `CallInv` follows a call through the network: a handler
has run once, on an instance that was started, and what it saved is in that
instance's Persister (`CallSound`). An answer passes the last `isServerDead` only
while the instance is the one the server would restart from, and saved state is
handed on by each restart. `LinkInv` has what makes `LinksSound` inductive: with
the raft and kvraft harnesses no link leads to a server that is down
(`NoneToDown`), with shardkv all links within a group are up (`AllInGroup`), and
`cfg.connected` is only set for running servers (`ConnectedUp`). They say why a
restarted server comes back with links that work both ways or not at all,
for a different reason in each harness.

*The oracle.* `HarnessInv` has for a correct Raft that messages and logs are part
of what was committed (`MessageSound`, `PartOf`) and that a reader finds what it
has applied before (`Applies`; with snapshots, until a restart, `FirstRun`); for
any Raft, that no log has a gap (`NoGaps`) and no two logs differ (`Agreement`)
unless an alarm was raised; and for `one()` that what `nCommitted` has counted
so far is still there (`CountSound`). The proof showed that `LogsAgree` had been
stated for more than is true: with snapshots it ends with the second restart of
a server (section 6). TLC confirms it with three indexes and two crashes.

*Clerks.* `ShardInv` says that an answer that is not refused was given by a server
that executed the operation after it had begun (`CtrlerSound`, `KvSound`), and
that the cached configuration is not newer than the controller's, nor than the
one at which a query under way began (`CacheSound`). The second half is what
makes a refresh go forward only, which `ShardCache` states as an action property.

*The checker.* `checkParallel` is proved against the promise of a search
(`SearchesDecide`), and the search is shown to keep it (`ChecksInParallel` is the
refinement, `SearchesKeepPromise` the promise). A goroutine writes `longest[p]` before it sends
its result, in two steps, so each search that is over has one result, unsent, in
the channel or counted (`Counted`, `SentOnce`). The invariant `CheckInv` has four
parts. The list links exactly the entries that are not on the stack, and an
entry that was lifted keeps the links it had when it was lifted, so that `unlift`
in the reverse order restores the list. The stack is a path, a linearization of a
prefix, and `state` its value. Every pair of a set of operations and a value in
the cache is reached by a path, and all that could follow it is in the cache or
is still to be tried from an entry on the stack: when the stack is empty, the cache
is closed under steps, so it has every reachable pair and a complete one would
have been found. `longest` has for each operation a prefix at least as long as
any path explored so far that includes it. `CheckAnswers` finally needs locality,
because the answer is about the whole history and the searches are about one key
each: an order of all operations gives one for each key (`PartOfWhole`), and
orders of the keys can be merged into one that respects real time, because of the
operations left one may always be next: the first one of the key that has the
earliest return (`SomeNext`, `MergeOne`, `WholeOfParts`).

*Induction over data.* The induction theorems of the library cannot be
instantiated, but a set of natural numbers has a least element (`NatMin`, from
`WFMin`), and a least counterexample does the same for a predicate that is written
out. Recursive functions are shown to exist in this way first (`KeptExists`,
`MappedExists`, `TraceExists`, `StoreExists`).

*Only model-checked.* Liveness under fairness (`JobFinishes`, `WorkersStop`,
`StarvedOnlyByStuck`, `CallsReturn`, `ClerksReturn`, `CheckReturns`) and `ENABLED`
are outside what TLAPS 1.4.5 proves. The theorems on outputs leave out orphaned
reports (`OneMachine`) for a reason: one that arrives after the task was handed
out again counts it as Done while the second worker has truncated the output.

## 6 Findings and known limits of the code

Two runs end in a counterexample; `PROJECT.json` quotes the lines.

- `stale_reply`: `RequestTask` replies with the coordinator's own
  `MapTaskOutputs` map, which is encoded after the mutex is released
  (`mr/coordinator.go:86`). If another worker reports a missing output in
  between, the reducer receives fewer entries, reduces what it has, and reports
  success. The job ends with a wrong output.
- `torn_output`: `mr-out-b` is truncated and rewritten in place
  (`mr/bucket.go:36`). A reducer slower than the timeout does so after the
  coordinator has counted the task as Done and exited. No failure is needed.

Seen while modelling, without a run of their own:

- An input file that cannot be read makes the worker that asked exit in the
  middle of the job (`mr/coordinator.go:65`, `mr/worker.go:36`); the task is
  handed out again after its timeout, to the next worker that then exits.
- The error of writing an output line is ignored (`mr/bucket.go:43`).
- Workers without `MR_WORKER_PUBLIC_ADDRESS` all announce `127.0.0.1:`
  (`mr/worker_rpc.go:64`) and read every bucket from their own directory. That is
  right on one machine (`one_machine`); on several, outputs are reported missing
  again and again. The safety theorems hold for any assignment of addresses.
- A path below a regular file is answered with 500, not 404
  (`Lab1/http_server/http_server.go:75`; `Lab1/README.md:111`).
- `-maxConnections 0` makes the accept loop block on the first connection.
- `upload-` files stay in `public/` when the process dies during an upload.
  They cannot be fetched.
- No read and no write has a deadline (`Lab1/http/server.go:73`, `130`,
  `Lab1/proxy/proxy.go:60`, `65`): a client that is silent, stops in the middle of a
  body or does not read a large response, and a server that does not answer,
  keep their slot for ever. `StarvedOnlyByStuck` names them one by one.
- A request for the proxy's own address is forwarded to itself until the slots
  are used up.
- In snapshot mode the instances of a server share `lastApplied`
  (`raft/config.go:227`): a message of an old instance compared after `start1`
  has reset it ends the test although Raft is correct. `NoFalseAlarm` is
  therefore stated for snapshots only up to the first restart. A restart also
  makes the harness forget what the server had applied after its snapshot, and
  snapshots of an incorrect Raft are not compared with anything.
- The instances of a server also share its log in the harness. After a restart, the
  reader of the old instance may still ingest an old snapshot and so remove
  entries that the new one has applied; the new one then encodes the missing
  entries as nil in its next snapshot (`raft/config.go:251`), and after a second
  restart the harness takes these for applied. Two servers then differ, although
  Raft is correct and nothing was reported. `LogsAgree` is stated for snapshots
  only up to the second restart of a server.
- An empty history makes `checkParallel` wait for ever if there is no timeout;
  `CheckReturns` has the exception.
- A worker that is stopped without dying holds up the job for ever once it is
  recorded as the producer of a map output (`mr/worker_rpc.go:52`); `JobFinishes`
  has the exception.
- The ends that `shardkv`'s `make_end` makes (`shardkv/config.go:163`) are enabled
  when they are made and never disabled: an instance that was shut down can go
  on sending to other groups. `LinksSound` leaves them out.
- Requests of the clerks carry no identifier: an operation whose reply was lost
  is sent again and may be executed twice (`shardkv/client.go:108`).
  `ResultsAreReal` claims at least once, not exactly once; telling duplicates
  apart is left to whoever completes the servers.
- `shardkv/config.go` uses one number as an index for servers and controllers:
  other sizes than three of each would end `make_config` or `makeClient` with a
  panic (lines 124, 370).
- The crash test of `test-mr.sh` (lines 297-313) tests for a Unix socket that
  the coordinator, which listens on TCP, never creates.

## 7 What is not modelled

- Raft, kvraft (server and clerk) and the two shard servers: skeletons. There is
  no algorithm to model; what the harnesses and clerks expect of them is the
  external part of `LabRPC`, `RaftHarness`, `CtrlerClerk` and `ShardClerk`.
- labgob and the visualization of porcupine: encoding and presentation.
- Of the Raft harness `wait`, `checkOneLeader`, `checkTerms` and `checkNoLeader`
  (polls of what the missing Raft says of itself) and statistics; of the other
  harnesses the tests themselves.
- The main programs of packages that are not in the repository, the applications
  that only measure parallelism, flags, logging and the wording of responses.
- The error paths of `ingestSnap` and the early return of `applierSnap`
  (`raft/config.go:184`, `216`): the first need a snapshot or an index
  that Raft made up, and the model combines snapshots with a correct Raft only;
  the second is a reader that never receives, a behaviour of the model already.
- JSON and gob encoding are taken to be lossless for the values used. Symbolic
  links in `public/` and changes to it from outside are left out.

## 8 Plan

Done: MapReduce first, since it is the repository's own distributed system, with
its refinement and proofs and a fault model from crashes to stopped workers;
then Lab 1; then the infrastructure of the Raft labs: the network, the three
harnesses on top of it, the oracle, the clerks and the checker. What is left of
the code to model is listed in section 7.

The proofs cover every invariant and action property of the runs. What would come
next are models of the servers of the Raft labs, once they are written.

## 9 How to run

    tlc -workers 2 -config Private.cfg MCMapReduce     # a run of PROJECT.json
    for m in MapReduce HttpServer FileServer Proxy Cluster RaftHarness \
             ShardClerk Porcupine; do tlapm ${m}Proofs.tla; done

The largest run (`raft_harness`) has 3.4 million states; `shard_clerk` has 0.9,
`two_machines`, `porcupine`, `proxy` and `labrpc` 0.5 to 0.7 million. Each takes one to four minutes.
