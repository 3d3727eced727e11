----------------------------- MODULE MergeRuns -----------------------------
(***************************************************************************)
(* mergeRunsToSSTable (internal/pebbleq/ingest_sorted_external.go): the    *)
(* sorted runs of one keyspace are merged through a heap of run readers    *)
(* into one table, duplicates dropped.  A table wants strictly increasing  *)
(* keys: its writer fails otherwise.                                       *)
(*                                                                         *)
(* Keys are numbers: bytes.Compare is a total order and the merge uses     *)
(* nothing else of a key.                                                  *)
(***************************************************************************)
EXTENDS Integers, SequencesExt

CONSTANTS
  Key,         \* the keys, a set of numbers
  RunsChoice   \* what there is to merge: sequences of sorted sequences of keys

\* Runs are written sorted; a run may hold a key several times.
Sorted(s) == \A i, j \in DOMAIN s : i <= j => s[i] <= s[j]

ASSUME MergeAssumption ==
  /\ Key \subseteq Nat
  /\ RunsChoice \subseteq Seq(Seq(Key))
  /\ \A rs \in RunsChoice : \A r \in DOMAIN rs : Sorted(rs[r])

VARIABLES
  runs,      \* the run files
  at,        \* at[r]: the key reader r stands on; beyond the end at eof
  heap,      \* the readers in the heap
  table,     \* the keys written to the table
  deduped,   \* keys dropped
  state      \* "merging", "closed" (success) or "failed"

vars == <<runs, at, heap, table, deduped, state>>

Cur(r) == runs[r][at[r]]

Eof(r, i) == i > Len(runs[r])

\* Mutated Init: a reader of an empty run is pushed too.
InitPushesAll ==
  /\ runs \in RunsChoice
  /\ at = [r \in DOMAIN runs |-> 1]
  /\ heap = DOMAIN runs
  /\ table = <<>>
  /\ deduped = 0
  /\ state = "merging"

Init ==
  /\ runs \in RunsChoice
  /\ at = [r \in DOMAIN runs |-> 1]
  /\ heap = {r \in DOMAIN runs : runs[r] # <<>>}
  /\ table = <<>>
  /\ deduped = 0
  /\ state = "merging"

\* Mutated Least: the heap is only a stack of readers.
AnyReader(r) == r \in heap

\* heap.Pop returns a reader whose key is least, any one of several.
Least(r) == r \in heap /\ \A o \in heap : Cur(r) <= Cur(o)

\* Mutated Advance: a reader is not pushed back after its second key.
AdvanceTwice(r) ==
  /\ at' = [at EXCEPT ![r] = @ + 1]
  /\ heap' = IF Eof(r, at[r] + 1) \/ at[r] = 2 THEN heap \ {r} ELSE heap

\* The popped reader moves to its next key and goes back unless it has none.
Advance(r) ==
  /\ at' = [at EXCEPT ![r] = @ + 1]
  /\ heap' = IF Eof(r, at[r] + 1) THEN heap \ {r} ELSE heap

\* Mutated Repeated: nothing counts as a duplicate.
NeverRepeated(k) == FALSE

Repeated(k) == table # <<>> /\ k = Last(table)

\* Mutated Drop: the reader stays where it is.
DropWithoutAdvance(r) ==
  /\ state = "merging"
  /\ Least(r)
  /\ Repeated(Cur(r))
  /\ deduped' = deduped
  /\ UNCHANGED <<runs, at, heap, table, state>>

Drop(r) ==
  /\ state = "merging"
  /\ Least(r)
  /\ Repeated(Cur(r))
  /\ deduped' = deduped + 1
  /\ Advance(r)
  /\ UNCHANGED <<runs, table, state>>

Emit(r) ==
  /\ state = "merging"
  /\ Least(r)
  /\ ~Repeated(Cur(r))
  /\ table' = Append(table, Cur(r))
  /\ Advance(r)
  /\ UNCHANGED <<runs, deduped, state>>

\* A run that cannot be read, or a table that cannot be written: the merge
\* gives up and the table is not used.
Fail ==
  /\ state = "merging"
  /\ state' = "failed"
  /\ UNCHANGED <<runs, at, heap, table, deduped>>

Finish ==
  /\ state = "merging"
  /\ heap = {}
  /\ state' = "closed"
  /\ UNCHANGED <<runs, at, heap, table, deduped>>

Work == Finish \/ \E r \in DOMAIN runs : Drop(r) \/ Emit(r)

Next == Work \/ Fail

\* The merge is one goroutine that nothing blocks; no failure is owed to it.
Spec == Init /\ [][Next]_vars /\ WF_vars(Work)

----------------------------------------------------------------------------
(* Properties *)

TypeOK ==
  /\ runs \in Seq(Seq(Key))
  /\ at \in [DOMAIN runs -> Nat]
  /\ \A r \in DOMAIN runs : at[r] \in 1..(Len(runs[r]) + 1)
  /\ heap = {r \in DOMAIN runs : at[r] <= Len(runs[r])}
  /\ table \in Seq(Key)
  /\ deduped \in Nat
  /\ state \in {"merging", "closed", "failed"}

\* The table gets strictly increasing keys, as the sstable format demands: no
\* input makes its writer refuse a key.
TableIncreases == \A i, j \in DOMAIN table : i < j => table[i] < table[j]

\* A finished table holds every key of every run, and nothing else.
TableComplete ==
  state = "closed" => Range(table) = UNION {Range(runs[r]) : r \in DOMAIN runs}

(* The other way: IngestSorted sorts everything in memory. *)

\* dedupSorted: drop what equals the last key kept.
dedupSorted(s) ==
  FoldLeft(LAMBDA out, k : IF out # <<>> /\ k = Last(out) THEN out ELSE Append(out, k),
           <<>>, s)

\* sort.Slice: position i gets the i-th least key.
sortByteSlices(s) ==
  [i \in DOMAIN s |->
     CHOOSE k \in Range(s) :
       Cardinality({j \in DOMAIN s : s[j] < k}) < i /\ i <= Cardinality({j \in DOMAIN s : s[j] <= k})]

InMemory(rs) == dedupSorted(sortByteSlices(FlattenSeq(rs)))

\* Both ways of ingesting write the same table and report the same duplicates.
AgreesWithInMemory ==
  state = "closed" =>
    /\ table = InMemory(runs)
    /\ deduped = Len(FlattenSeq(runs)) - Len(InMemory(runs))

\* The merge comes to an end: every turn of its loop consumes a key, the ones
\* it drops included.
MergeEnds == <>(state # "merging")

=============================================================================
