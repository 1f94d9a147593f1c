------------------------------- MODULE MRData -------------------------------
(***************************************************************************)
(* What the MapReduce workers compute (mr/worker.go, mr/data.go), for the  *)
(* applications wc and indexer (mrapps): words are mapped to key/value     *)
(* pairs, the pairs are split into buckets by the hash of the key, and     *)
(* each bucket is gathered from all map tasks, grouped and reduced.  The   *)
(* reference is the sequential program main/mrsequential.go.               *)
(*                                                                         *)
(* Keys and document names are numbers, ordered like the strings they      *)
(* stand for.  The order of the tasks, their failures and their repetition *)
(* are the subject of MapReduce; here every task is executed once.         *)
(***************************************************************************)
EXTENDS MRBuckets, Sequences, SequencesExt

CONSTANTS
    Keys,      \* the words
    NFiles,    \* the number of input files
    MaxWords,  \* the length of a file
    HashOf     \* the values of ihash

ASSUME DataAssumption ==
    /\ Keys \subseteq Nat /\ HashOf \subseteq Nat
    /\ NFiles \in Nat /\ MaxWords \in Nat

VARIABLES
    app,       \* the plugin
    contents,  \* contents[d]: the words of document d
    hash,      \* ihash of each key
    buckets,   \* buckets[d]: the files mr-d-b, <<>> before the map task ran
    fetched,   \* fetched[b]: the documents in mappedContents
    mappedContents,
    output     \* output[b]: the lines of mr-out-b

inputs == <<app, contents, hash>>
dataVars == <<inputs, buckets, fetched, mappedContents, output>>

Documents == 1 .. NFiles
Pair(k, v) == [key |-> k, value |-> v]
Values(keyValues) == [i \in DOMAIN keyValues |-> keyValues[i].value]

\* sort.Strings and sort.Sort: in the order of rank[i], the place of s[i]; the
\* order of elements of equal rank is any.
SortBy(s, rank) ==
    LET D == DOMAIN s
        p == CHOOSE p \in Bijection(D, D) :
                \A i, j \in D : i < j => rank[p[i]] <= rank[p[j]]
    IN  [i \in D |-> s[p[i]]]

\* for ... { if key is in K { append } }
Keep(keyValues, K) ==
    LET kept[n \in 0 .. Len(keyValues)] ==  \* of the first n
            IF n = 0 THEN <<>>
            ELSE IF keyValues[n].key \in K THEN Append(kept[n - 1], keyValues[n])
            ELSE kept[n - 1]
    IN  kept[Len(keyValues)]

-----------------------------------------------------------------------------
(* The applications.                                                       *)

\* Map of wc: a pair for each word, in order.
MapWc(words) == [i \in DOMAIN words |-> Pair(words[i], 1)]

\* Map of indexer: a pair for each different word, in the order of a Go map.
MapIndexer(d, words) ==
    {[i \in DOMAIN seen |-> Pair(seen[i], d)] : seen \in SetToSeqs(ToSet(words))}

\* What Map may return for document d.
MapResults(d) ==
    IF app = "wc" THEN {MapWc(contents[d])} ELSE MapIndexer(d, contents[d])

\* Reduce of wc: the number of values; of indexer: the sorted values too.
ReduceWc(values) == <<Len(values)>>
ReduceIndexer_Bug(values) == <<Len(values)>> \o values

ReduceIndexer(values) == <<Len(values)>> \o SortBy(values, values)

Reduce(values) == IF app = "wc" THEN ReduceWc(values) ELSE ReduceIndexer(values)

-----------------------------------------------------------------------------
(* The helpers of worker.go.                                               *)

\* The keys whose hash belongs to bucket b.
KeysOf(b) == {k \in Keys : hash[k] % NReduce = b}

bucketContents(keyValues) == [b \in Buckets |-> Keep(keyValues, KeysOf(b))]

groupByKey(keyValues) ==
    [k \in {keyValues[i].key : i \in DOMAIN keyValues} |->
        Values(Keep(keyValues, {k}))]

reduceContents(grouped) ==
    LET keys == SetToSeq(DOMAIN grouped)
        sortedKeys == SortBy(keys, keys)
    IN  [i \in DOMAIN sortedKeys |->
            Pair(sortedKeys[i], Reduce(grouped[sortedKeys[i]]))]

-----------------------------------------------------------------------------
DataInit ==
    /\ app \in {"wc", "indexer"}
    /\ contents \in [Documents -> BoundedSeq(Keys, MaxWords)]
    /\ hash \in [Keys -> HashOf]
    /\ buckets = [d \in Documents |-> <<>>]
    /\ fetched = [b \in Buckets |-> {}]
    /\ mappedContents = [b \in Buckets |-> <<>>]
    /\ output = [b \in Buckets |-> <<>>]

AllMapped == \A d \in Documents : buckets[d] # <<>>

runMapTask(d) ==
    /\ buckets[d] = <<>>
    /\ \E kva \in MapResults(d) :
          buckets' = [buckets EXCEPT ![d] = bucketContents(kva)]
    /\ UNCHANGED <<inputs, fetched, mappedContents, output>>

\* One turn of the loop over data.MapTaskOutputs, a Go map: any order.
Gather(b, d) ==
    /\ AllMapped
    /\ d \notin fetched[b]
    /\ fetched' = [fetched EXCEPT ![b] = @ \cup {d}]
    /\ mappedContents' = [mappedContents EXCEPT ![b] = @ \o buckets[d][b]]
    /\ UNCHANGED <<inputs, buckets, output>>

\* The rest of runReduceTask.
runReduceTask(b) ==
    /\ fetched[b] = Documents
    /\ output[b] = <<>>
    /\ output' = [output EXCEPT ![b] =
                    reduceContents(groupByKey(mappedContents[b]))]
    /\ UNCHANGED <<inputs, buckets, fetched, mappedContents>>

DataNext ==
    \/ \E d \in Documents : runMapTask(d)
    \/ \E b \in Buckets, d \in Documents : Gather(b, d)
    \/ \E b \in Buckets : runReduceTask(b)

DataSpec == DataInit /\ [][DataNext]_dataVars

-----------------------------------------------------------------------------
(* main() of mrsequential.go.                                              *)

\* The key/value pairs of the first n files.
sequentialMap(n) ==
    LET intermediate[k \in 0 .. n] ==
            IF k = 0 THEN <<>>
            ELSE intermediate[k - 1] \o (CHOOSE kva \in MapResults(k) : TRUE)
    IN  intermediate[n]

\* The first place after the run of equal keys that starts at i.
RunEnd(sorted, i) ==
    Min({j \in i + 1 .. Len(sorted) + 1 :
            j \in DOMAIN sorted => sorted[j].key # sorted[i].key})

\* The lines for the runs of equal keys in the sorted pairs.
sequentialReduce(sorted) ==
    LET starts == {i \in DOMAIN sorted : i = 1 \/ sorted[i].key # sorted[i - 1].key}
        Run(i) == SubSeq(sorted, i, RunEnd(sorted, i) - 1)
    IN  {Pair(sorted[i].key, Reduce(Values(Run(i)))) : i \in starts}

sequentialOutput ==
    LET intermediate == sequentialMap(NFiles)
    IN  sequentialReduce(
            SortBy(intermediate, [i \in DOMAIN intermediate |-> intermediate[i].key]))

-----------------------------------------------------------------------------
(* Properties.                                                             *)

\* The test of test-mr.sh: when every bucket is reduced, the outputs together
\* hold the lines of the sequential program, each once, whatever the hashes
\* are and in whatever order the buckets were filled and fetched.
SameAsSequential ==
    (\A b \in Buckets : fetched[b] = Documents
        /\ (output[b] # <<>> \/ mappedContents[b] = <<>>))
    => /\ UNION {ToSet(output[b]) : b \in Buckets} = sequentialOutput
       /\ \A b, c \in Buckets : \A i \in DOMAIN output[b], j \in DOMAIN output[c] :
             output[b][i] = output[c][j] => b = c /\ i = j
=============================================================================
