-------------------------- MODULE PebbleReadsProofs --------------------------
(* Theorems about PebbleReads, for every value of its constants: what a     *)
(* checkpoint holds that is taken while others write, and that every answer *)
(* of Find, Count, LabelCounts, Stats and CommitStatsAt is that of a moment *)
(* of the call.                                                             *)
EXTENDS PebbleReads, PebbleStoreProofs, Induction, SequenceTheorems

\* A step of the composition is a step of the store, or none.
LEMMA ReaderStepOrWrite ==
  ASSUME [RNext]_<<vars, rd>>
  PROVE  [Next]_vars
<1>1. CASE Reader /\ UNCHANGED vars
  BY <1>1
<1>2. CASE \E p \in Proc : Writer(p) \/ Loader(p) \/ Importer(p)
  BY <1>2 DEF Next
<1>3. CASE Crash \/ Reopen
  BY <1>3 DEF Next
<1>4. CASE UNCHANGED <<vars, rd>>
  BY <1>4
<1> QED
  BY <1>1, <1>2, <1>3, <1>4 DEF RNext

\* Find, Count, the statistics and Checkpoint write nothing: with a reader the
\* store behaves as one of its behaviours without.
THEOREM ReaderLeavesWriters == RSpec => Spec
<1>1. RInit => Init
  BY DEF RInit
<1>2. [RNext]_<<vars, rd>> => [Next]_vars
  BY ReaderStepOrWrite
<1> QED
  BY <1>1, <1>2, PTL DEF RSpec, Spec

----------------------------------------------------------------------------
(* No operation without its commit. *)

Journalled(kv) == \A o \in kv.ops : o.id \in kv.commits

JournalClosed == \A w \in worlds : Journalled(w)

LEMMA CommitIsJournalled ==
  ASSUME NEW kv \in Contents, Journalled(kv), NEW id, NEW b
  PROVE  Journalled(CommittedTo(kv, id, b))
<1>1. /\ CommittedTo(kv, id, b).ops = kv.ops \cup CommitOps(id, b)
      /\ CommittedTo(kv, id, b).commits = kv.commits \cup CommitRows(id, b)
  BY DEF CommittedTo, Contents
<1>2. \A o \in CommitOps(id, b) : o.id \in CommitRows(id, b)
  BY DEF CommitOps, CommitRows
<1> QED
  BY <1>1, <1>2 DEF Journalled

\* The other writes leave the journal alone.
LEMMA OthersLeaveJournal ==
  ASSUME NEW kv \in Contents, Journalled(kv), NEW id, NEW x
  PROVE  /\ Journalled(FlushedTo(kv, id, x))
         /\ Journalled(IngestedTo(kv, id, x))
         /\ Journalled(CountedIn(kv, x))
         /\ Journalled(RecountedTo(kv, x))
BY DEF Journalled, FlushedTo, IngestedTo, CountedIn, RecountedTo, Contents

LEMMA StepKeepsJournal ==
  ASSUME TypeInv, JournalClosed, StoreStep
  PROVE  JournalClosed'
<1>1. db \in worlds /\ worlds \subseteq Contents /\ db \in Contents /\ Journalled(db)
  BY DEF TypeInv, TypeOK, JournalClosed
<1>2. ASSUME NEW new, Journalled(new), WriteNoSync(new) \/ WriteSync(new)
      PROVE  JournalClosed'
  BY <1>2 DEF JournalClosed, Journalled, WriteNoSync, WriteSync
<1>3. CASE UNCHANGED <<db, worlds>>
  BY <1>3 DEF JournalClosed, Journalled
<1>4. ASSUME NEW id \in Id, NEW b \in BatchChoice, WriteNoSync(CommittedTo(db, id, b))
      PROVE  JournalClosed'
  BY <1>1, <1>2, <1>4, CommitIsJournalled
<1>5. ASSUME NEW id \in Id, NEW loader \in LoaderState, WriteNoSync(FlushedTo(db, id, loader))
      PROVE  JournalClosed'
  BY <1>1, <1>2, <1>5, OthersLeaveJournal
<1>6. ASSUME NEW id \in Id, NEW g \in IngestChoice, NEW kept \in {worlds, {db}},
             IngestStep(id, g, kept)
      PROVE  JournalClosed'
  <2>1. \A w \in worlds : Journalled(IngestedTo(w, id, g))
    BY <1>1, OthersLeaveJournal DEF JournalClosed
  <2>2. worlds' = {IngestedTo(w, id, g) : w \in kept} /\ kept \subseteq worlds
    BY <1>1, <1>6 DEF IngestStep
  <2> QED
    BY <2>1, <2>2 DEF JournalClosed, Journalled
<1>7. ASSUME NEW f, WriteSync(CountedIn(db, f)) \/ WriteSync(RecountedTo(db, f))
      PROVE  JournalClosed'
  BY <1>1, <1>2, <1>7, OthersLeaveJournal
<1>8. ASSUME NEW w \in worlds, WriteSync(w)
      PROVE  JournalClosed'
  BY <1>2, <1>8 DEF JournalClosed
<1> QED
  BY <1>1, <1>3, <1>4, <1>5, <1>6, <1>7, <1>8
     DEF StoreStep, CommitStep, LoadStep, HardenStep, RecoverStep

\* In every state, and in every state a crash can leave, the commit of each
\* operation is there: an audited commit is journalled whole or not at all.
THEOREM JournalAlwaysClosed == Spec => []JournalClosed
<1>1. Init => JournalClosed
  BY DEF Init, JournalClosed, Journalled, EmptyContents
<1>2. TypeInv /\ JournalClosed /\ [Next]_vars => JournalClosed'
  BY NextIsStoreStep, StepKeepsJournal
<1> QED
  BY <1>1, <1>2, TypeInvariant, PTL DEF Spec

----------------------------------------------------------------------------
(***************************************************************************)
(* Checkpoints.  What was promised when one began is still promised when   *)
(* it is taken, and the copy is a state a crash could leave: it holds what *)
(* every such state holds.                                                 *)
(***************************************************************************)
ReadFields == {"op", "done", "arg", "snap", "from", "found", "since", "cut"}

BackupInv ==
  /\ rd = [f \in ReadFields |-> rd[f]] /\ rd.done \in BOOLEAN
  /\ rd.op = "checkpoint" /\ ~rd.done => rd.arg \subseteq promised
  /\ BackupWhole

WorldsWhole == KeyspacesAgree /\ SyncedWritesSurvive /\ JournalClosed

LEMMA NoReadShape ==
  NoRead = [f \in ReadFields |-> NoRead[f]] /\ NoRead.done = FALSE /\ NoRead.op = "none"
BY DEF NoRead, ReadFields

LEMMA BeginShape ==
  ASSUME NEW op, NEW arg, Begin(op, arg)
  PROVE  /\ rd.op = "none" /\ rd'.op = op /\ rd'.arg = arg /\ rd'.done = FALSE
         /\ rd' = [f \in ReadFields |-> rd'[f]]
BY DEF Begin, NoRead, ReadFields

LEMMA LabelCountsShape ==
  ASSUME LabelCounts
  PROVE  /\ rd.op = "none" /\ rd'.op = "labels" /\ rd'.done = FALSE
         /\ rd' = [f \in ReadFields |-> rd'[f]]
BY DEF LabelCounts, NoRead, ReadFields

\* No step of a goroutine takes a promise back.
LEMMA PromisesGrow ==
  ASSUME [Next]_vars
  PROVE  promised \subseteq promised'
<1>1. ASSUME NEW p \in Proc, Writer(p) \/ Loader(p) \/ Importer(p)
      PROVE  promised \subseteq promised'
  BY <1>1 DEF Writer, OpenWriter, CloseWriter, BeginCommit, ApplyCommit, SyncCommit,
              Loader, OpenLoader, LoaderAdd, LoaderFlush, LoaderClose, LoaderHarden,
              Importer, IngestTables, IngestCounters, RebuildScan, RebuildReplace
<1>2. CASE Crash \/ Reopen \/ UNCHANGED vars
  BY <1>2 DEF Crash, Reopen, vars
<1> QED
  BY <1>1, <1>2 DEF Next

\* A call other than Checkpoint never becomes one.
LEMMA OtherCallsStayOther ==
  ASSUME BackupInv, rd.op # "checkpoint", Reader, ~Checkpoint
  PROVE  BackupInv' /\ rd'.op # "checkpoint"
<1>1. /\ rd' = [f \in ReadFields |-> rd'[f]] /\ rd'.done \in BOOLEAN
      /\ rd'.op # "checkpoint"
  <2>1. CASE Find \/ Count \/ LabelCounts \/ Stats \/ CommitStatsAt \/ ReadFails \/ Return
    BY <2>1, BeginShape, LabelCountsShape, NoReadShape
       DEF Find, Count, Stats, CommitStatsAt, ReadFails, Return
  <2>2. CASE CountLabel \/ CountLabelCut \/ StatsQuads \/ StatsCommits
    BY <2>2 DEF BackupInv, CountLabel, CountLabelCut, StatsQuads, StatsCommits, Step, ReadFields
  <2>3. CASE Drain \/ Counted \/ LabelsDone \/ StatsPredicates \/ StatsOps
    BY <2>3 DEF BackupInv, Drain, Counted, LabelsDone, StatsPredicates, StatsOps,
                Answer, Step, ReadFields
  <2>4. ~TakeCheckpoint
    BY DEF TakeCheckpoint, Answer, Step
  <2> QED
    BY <2>1, <2>2, <2>3, <2>4 DEF Reader
<1> QED
  BY <1>1 DEF BackupInv, BackupWhole, Answered

LEMMA ReaderKeepsBackup ==
  ASSUME WorldsWhole, BackupInv, Reader, UNCHANGED vars
  PROVE  BackupInv'
<1>1. CASE Checkpoint
  BY <1>1, BeginShape DEF Checkpoint, BackupInv, BackupWhole, Answered, vars
<1>2. CASE TakeCheckpoint
  <2>1. PICK w \in worlds : Answer("checkpoint", w)
    BY <1>2 DEF TakeCheckpoint
  <2>2. rd.arg \subseteq promised
    BY <2>1 DEF Answer, Step, BackupInv
  <2>3. rd'.found = w /\ rd'.arg = rd.arg /\ rd'.done = TRUE /\ rd' = [f \in ReadFields |-> rd'[f]]
    BY <2>1 DEF Answer, Step, BackupInv, ReadFields
  <2>4. /\ promised \subseteq w.applied
        /\ \A ks \in Keyspace : Held(w, ks) = Held(w, "SPO")
        /\ \A o \in w.ops : o.id \in w.commits
    BY DEF WorldsWhole, KeyspacesAgree, SyncedWritesSurvive, JournalClosed, Journalled
  <2> QED
    BY <2>2, <2>3, <2>4 DEF BackupInv, BackupWhole, Held
<1>3. CASE ReadFails \/ Return
  BY <1>3, NoReadShape DEF ReadFails, Return, BackupInv, BackupWhole, Answered
<1>4. CASE ~Checkpoint /\ ~TakeCheckpoint /\ ~ReadFails /\ ~Return
  <2>1. rd.op # "checkpoint"
    BY <1>4, BeginShape, LabelCountsShape
       DEF Reader, Find, Count, Stats, CommitStatsAt, Drain, Counted, CountLabel, CountLabelCut, LabelsDone,
           StatsQuads, StatsPredicates, StatsCommits, StatsOps, Answer, Step
  <2> QED
    BY <1>4, <2>1, OtherCallsStayOther
<1> QED
  BY <1>1, <1>2, <1>3, <1>4

\* While others write, a call in progress goes on and an answer stands.
LEMMA WritersKeepBackup ==
  ASSUME BackupInv, promised \subseteq promised', Meanwhile
  PROVE  BackupInv'
<1>1. /\ rd' = [f \in ReadFields |-> rd'[f]] /\ rd'.done = FALSE
      /\ rd'.op = rd.op /\ rd'.arg = rd.arg
  BY DEF BackupInv, Meanwhile, ReadFields
<1> QED
  BY <1>1 DEF BackupInv, BackupWhole, Answered, Meanwhile

\* However commits, loads, ingests and crashes interleave with a checkpoint,
\* it holds every write promised when it began, and only whole writes.
THEOREM CheckpointsAreWhole == RSpec => []BackupWhole
<1>1. RInit => BackupInv
  BY NoReadShape DEF RInit, BackupInv, BackupWhole, Answered
<1>2. WorldsWhole /\ BackupInv /\ [RNext]_<<vars, rd>> => BackupInv'
  <2> SUFFICES ASSUME WorldsWhole, BackupInv, [RNext]_<<vars, rd>>
               PROVE  BackupInv'
    OBVIOUS
  <2>1. promised \subseteq promised'
    BY ReaderStepOrWrite, PromisesGrow
  <2>2. CASE Crash /\ rd' = NoRead
    BY <2>2, NoReadShape DEF BackupInv, BackupWhole, Answered
  <2>3. CASE UNCHANGED rd
    BY <2>1, <2>3 DEF BackupInv, BackupWhole, Answered, Held
  <2> QED
    BY <2>1, <2>2, <2>3, ReaderKeepsBackup, WritersKeepBackup DEF RNext
<1>3. RSpec => []WorldsWhole
  BY ReaderLeavesWriters, KeyspacesAlwaysAgree, AcknowledgedWritesSurvive, JournalAlwaysClosed, PTL
     DEF WorldsWhole
<1>4. BackupInv => BackupWhole
  BY DEF BackupInv
<1> QED
  BY <1>1, <1>2, <1>3, <1>4, PTL DEF RSpec

(***************************************************************************)
(* Bytes and numbers                                                       *)
(***************************************************************************)

\* bytes.HasPrefix(k, pre).
HasPrefix(k, pre) == Len(pre) <= Len(k) /\ \A i \in 1..Len(pre) : k[i] = pre[i]

\* The keys of a range from a prefix to its upper bound are those that begin
\* with the prefix.
LEMMA RangeOfPrefix ==
  ASSUME NEW k \in Seq(Nat), NEW pre \in Seq(Nat), pre # <<>>
  PROVE  ~Less(k, pre) /\ Less(k, upperBoundForPrefix(pre)) <=> HasPrefix(k, pre)
<1> DEFINE top == upperBoundForPrefix(pre)
           n   == Len(pre)
<1>1. /\ n \in Nat \ {0} /\ Len(top) = n /\ top[n] = pre[n] + 1 /\ pre[n] \in Nat
      /\ \A i \in 1..(n - 1) : top[i] = pre[i]
      /\ \A i \in 1..n : pre[i] \in Nat
  BY DEF upperBoundForPrefix
<1>2. Len(k) \in Nat /\ \A i \in 1..Len(k) : k[i] \in Nat
  OBVIOUS
<1> HIDE DEF top, n
<1>3. ASSUME HasPrefix(k, pre)
      PROVE  ~Less(k, pre) /\ Less(k, top)
  <2>1. Len(k) >= n /\ \A i \in 1..n : k[i] = pre[i]
    BY <1>3 DEF HasPrefix, n
  <2>2. ~Less(k, pre)
    BY <1>1, <1>2, <2>1, SMTT(30) DEF Less, n
  <2>3. n - 1 \in 0..Len(k) /\ n - 1 < Len(top) /\ (\A j \in 1..(n - 1) : k[j] = top[j]) /\ k[n] < top[n]
    BY <1>1, <1>2, <2>1
  <2>4. Less(k, top)
    <3> DEFINE m == n - 1
    <3>1. m \in 0..Len(k) /\ m < Len(top) /\ (\A j \in 1..m : k[j] = top[j]) /\ k[m + 1] < top[m + 1]
      BY <1>1, <2>3
    <3> HIDE DEF m
    <3> QED
      BY <3>1 DEF Less
  <2> QED
    BY <2>2, <2>4
<1>4. ASSUME ~Less(k, pre), Less(k, top)
      PROVE  HasPrefix(k, pre)
  <2>1. PICK i \in 0..Len(k) : /\ i < n /\ (\A j \in 1..i : k[j] = top[j])
                               /\ i = Len(k) \/ k[i + 1] < top[i + 1]
    BY <1>1, <1>4 DEF Less
  <2>2. \A j \in 1..i : k[j] = pre[j]
    BY <1>1, <1>2, <2>1
  <2>3. i # Len(k) /\ ~(k[i + 1] < pre[i + 1])
    BY <1>4, <2>1, <2>2 DEF Less, n
  <2>4. i + 1 = n
    BY <1>1, <1>2, <2>1, <2>3
  <2>5. k[n] = pre[n]
    <3>1. i + 1 \in 1..Len(k)
      BY <1>2, <2>1, <2>3
    <3>2. k[n] \in Nat /\ pre[n] \in Nat /\ k[n] < pre[n] + 1 /\ ~(k[n] < pre[n])
      BY <1>1, <1>2, <2>1, <2>3, <2>4, <3>1, Zenon
    <3>3. \A u, v \in Nat : u < v + 1 /\ ~(u < v) => u = v
      OBVIOUS
    <3> QED
      BY <3>2, <3>3, Zenon
  <2>6. \A j \in 1..n : j \in 1..i \/ j = n
    BY <1>1, <1>2, <2>1, <2>4
  <2>7. n <= Len(k)
    BY <1>1, <1>2, <2>1, <2>3, <2>4
  <2> QED
    BY <2>2, <2>5, <2>6, <2>7 DEF HasPrefix, n
<1> QED
  BY <1>3, <1>4 DEF top

\* What the division of a number yields.
LEMMA Division ==
  ASSUME NEW b \in Nat, b >= 2, NEW n \in Nat
  PROVE  /\ n \div b \in Nat /\ n % b \in 0..(b - 1)
         /\ n = b * (n \div b) + (n % b)
         /\ n >= b => n \div b < n
<1>1. n \div b \in Nat
  BY SMT
<1>2. n % b \in 0..(b - 1)
  BY SMT
<1>3. n = b * (n \div b) + (n % b)
  BY SMT
<1>4. ASSUME NEW q \in Nat, NEW r \in Nat, n = b * q + r, n >= b
      PROVE  q < n
  BY <1>4, SMT
<1> QED
  BY <1>1, <1>2, <1>3, <1>4

\* A uvarint is its lowest digit and what it is of the rest.
LEMMA UvarintRecursive ==
  /\ uvarint \in [Nat -> Seq(Nat)]
  /\ \A n \in Nat : n < VarintBase => uvarint[n] = <<n>>
  /\ \A n \in Nat : n >= VarintBase =>
       uvarint[n] = <<VarintBase + (n % VarintBase)>> \o uvarint[n \div VarintBase]
<1> DEFINE Stop == {n \in Nat : n < VarintBase}
           size == [n \in Nat |-> n]
           base == [n \in Nat |-> <<n>>]
           next == [n \in Nat |-> n \div VarintBase]
           step == [a \in Nat \X Seq(Nat) |-> <<VarintBase + (a[1] % VarintBase)>> \o a[2]]
           rec(f) == [n \in Nat |-> IF n < VarintBase THEN <<n>>
                        ELSE <<VarintBase + (n % VarintBase)>> \o f[n \div VarintBase]]
<1>1. VarintBase \in Nat /\ VarintBase >= 2
  BY ReadsAssumption
<1>2. Stop \in SUBSET Nat /\ size \in [Nat -> Nat]
  OBVIOUS
<1>3. base \in [Nat -> Seq(Nat)]
  OBVIOUS
<1>4. \A n \in Nat : n \div VarintBase \in Nat /\ n % VarintBase \in Nat /\ (n >= VarintBase => n \div VarintBase < n)
  BY <1>1, Division
<1>5. next \in [Nat -> Nat] /\ \A n \in Nat \ Stop : size[next[n]] < size[n]
  BY <1>1, <1>4
<1>6. step \in [Nat \X Seq(Nat) -> Seq(Nat)]
  <2>1. ASSUME NEW m \in Nat, NEW s \in Seq(Nat)
        PROVE  <<VarintBase + m>> \o s \in Seq(Nat)
    BY <1>1
  <2> QED
    BY <1>4, <2>1
<1>7. PICK f \in [Nat -> Seq(Nat)] : f = OneStep(Nat, Stop, base, next, step, f)
  <2> DEFINE X == Nat
             V == Seq(Nat)
  <2> HIDE DEF Stop, size, base, next, step
  <2>1. Terminates(X, V, Stop, size, base, next, step)
    BY <1>2, <1>3, <1>5, <1>6 DEF Terminates
  <2> HIDE DEF X, V
  <2>2. \E f \in [X -> V] : f = OneStep(X, Stop, base, next, step, f)
    BY <2>1, RecursiveFunction
  <2> QED
    BY <2>2 DEF X, V
<1>8. f = rec(f)
  <2>1. ASSUME NEW n \in Nat
        PROVE  OneStep(Nat, Stop, base, next, step, f)[n] = rec(f)[n]
    <3>1. next[n] \in Nat /\ f[next[n]] \in Seq(Nat)
      BY <1>5
    <3>2. step[<<n, f[next[n]]>>] = <<VarintBase + (n % VarintBase)>> \o f[next[n]]
      BY <3>1
    <3> QED
      BY <3>2 DEF OneStep
  <2> QED
    BY <1>7, <2>1 DEF OneStep
<1>9. uvarint = CHOOSE g : g = rec(g)
  BY DEF uvarint
<1>10. uvarint = rec(uvarint)
  BY <1>8, <1>9
<1>11. /\ \A n \in Nat : n < VarintBase => uvarint[n] = <<n>>
       /\ \A n \in Nat : n >= VarintBase =>
            uvarint[n] = <<VarintBase + (n % VarintBase)>> \o uvarint[n \div VarintBase]
  <2> HIDE DEF Stop, size, base, next, step
  <2>0. \A n \in Nat : n >= VarintBase => ~(n < VarintBase)
    BY <1>1
  <2>1. ASSUME NEW g, NEW n \in Nat
        PROVE  /\ n < VarintBase => rec(g)[n] = <<n>>
               /\ n >= VarintBase => rec(g)[n] = <<VarintBase + (n % VarintBase)>> \o g[n \div VarintBase]
    BY <2>0, Zenon
  <2> HIDE DEF rec
  <2> QED
    BY <1>10, <2>1
<1>12. \A n \in Nat : uvarint[n] \in Seq(Nat)
  <2> DEFINE Odd == {n \in Nat : uvarint[n] \notin Seq(Nat)}
  <2> SUFFICES ASSUME Odd # {} PROVE FALSE
    OBVIOUS
  <2>1. PICK n \in Odd : \A m \in Odd : n <= m
    BY LeastNumber
  <2>2. CASE n < VarintBase
    <3>1. uvarint[n] = <<n>>
      BY <1>11, <2>2
    <3>2. <<n>> \in Seq(Nat)
      OBVIOUS
    <3> QED
      BY <3>1, <3>2, Zenon
  <2>3. CASE n >= VarintBase
    <3> DEFINE d == n \div VarintBase
               r == VarintBase + (n % VarintBase)
    <3>0. n \in Nat
      OBVIOUS
    <3>1. d \in Nat /\ r \in Nat /\ d < n
      <4> HIDE DEF Odd
      <4>1. n \div VarintBase \in Nat /\ n % VarintBase \in Nat /\ n \div VarintBase < n
        BY <1>4, <2>3, <3>0, Zenon
      <4>2. \A u, v \in Nat : u + v \in Nat
        OBVIOUS
      <4> QED
        BY <1>1, <4>1, <4>2, Zenon
    <3>2. uvarint[n] = <<r>> \o uvarint[d]
      BY <1>1, <1>11, <2>3
    <3> HIDE DEF d, r
    <3>3. uvarint[d] \in Seq(Nat)
      <4> SUFFICES ASSUME uvarint[d] \notin Seq(Nat) PROVE FALSE
        OBVIOUS
      <4>1. d \in Odd
        BY <3>1
      <4> HIDE DEF Odd
      <4> QED
        BY <2>1, <3>1, <4>1
    <3>4. <<r>> \o uvarint[d] \in Seq(Nat)
      BY <3>1, <3>3
    <3> QED
      BY <3>2, <3>4, Zenon
  <2> QED
    BY <1>1, <2>2, <2>3
<1>13. uvarint \in [Nat -> Seq(Nat)]
  BY <1>10, <1>12
<1> QED
  BY <1>11, <1>13

\* No two numbers are written alike.
LEMMA UvarintInjective ==
  ASSUME NEW n \in Nat, NEW m \in Nat, uvarint[n] = uvarint[m]
  PROVE  n = m
<1> DEFINE Told == {k \in Nat : \A j \in Nat : uvarint[k] = uvarint[j] => k = j}
<1>1. VarintBase \in Nat /\ VarintBase >= 2
  BY ReadsAssumption
<1>2. \A k \in Nat : /\ k \div VarintBase \in Nat /\ k % VarintBase \in Nat
                     /\ k = VarintBase * (k \div VarintBase) + (k % VarintBase)
                     /\ k >= VarintBase => k \div VarintBase < k
  BY <1>1, Division
<1>3. \A k \in Nat : uvarint[k] \in Seq(Nat)
  BY UvarintRecursive
<1>4. ASSUME NEW k \in Nat, k < VarintBase
      PROVE  Len(uvarint[k]) = 1 /\ uvarint[k][1] = k
  <2>1. uvarint[k] = <<k>>
    BY <1>4, UvarintRecursive
  <2>2. Len(<<k>>) = 1 /\ <<k>>[1] = k
    OBVIOUS
  <2> QED
    BY <2>1, <2>2, Zenon
<1>5. ASSUME NEW k \in Nat, k >= VarintBase
      PROVE  /\ uvarint[k][1] = VarintBase + (k % VarintBase)
             /\ Tail(uvarint[k]) = uvarint[k \div VarintBase]
  <2>1. uvarint[k] = <<VarintBase + (k % VarintBase)>> \o uvarint[k \div VarintBase]
    BY <1>1, <1>5, UvarintRecursive
  <2>2. ASSUME NEW d \in Nat, NEW s \in Seq(Nat)
        PROVE  (<<d>> \o s)[1] = d /\ Tail(<<d>> \o s) = s
    OBVIOUS
  <2>3. k \div VarintBase \in Nat /\ VarintBase + (k % VarintBase) \in Nat
    BY <1>1, <1>2
  <2> DEFINE d == VarintBase + (k % VarintBase)
             t == uvarint[k \div VarintBase]
  <2>4. d \in Nat /\ t \in Seq(Nat) /\ uvarint[k] = <<d>> \o t
    BY <1>3, <2>1, <2>3
  <2> HIDE DEF d, t
  <2>5. uvarint[k][1] = d /\ Tail(uvarint[k]) = t
    BY <2>2, <2>4
  <2> QED
    BY <2>5 DEF d, t
<1>6. Told = Nat
  <2> SUFFICES ASSUME Nat \ Told # {} PROVE FALSE
    OBVIOUS
  <2>1. PICK k \in Nat \ Told : \A j \in Nat \ Told : k <= j
    BY LeastNumber
  <2>2. PICK j \in Nat : uvarint[k] = uvarint[j] /\ k # j
    OBVIOUS
  <2>3. CASE k < VarintBase
    BY <1>1, <1>2, <1>4, <1>5, <2>2, <2>3
  <2>4. CASE k >= VarintBase /\ j < VarintBase
    BY <1>1, <1>2, <1>4, <1>5, <2>2, <2>4
  <2>5. CASE k >= VarintBase /\ j >= VarintBase
    <3> DEFINE kd == k \div VarintBase
               kr == k % VarintBase
               jd == j \div VarintBase
               jr == j % VarintBase
    <3>1. kd \in Nat /\ jd \in Nat /\ kr \in Nat /\ jr \in Nat /\ kd < k
      BY <1>2, <2>5
    <3>2. k = VarintBase * kd + kr /\ j = VarintBase * jd + jr
      BY <1>2
    <3>3. uvarint[k][1] = VarintBase + kr /\ uvarint[j][1] = VarintBase + jr
          /\ Tail(uvarint[k]) = uvarint[kd] /\ Tail(uvarint[j]) = uvarint[jd]
      BY <1>5, <2>5
    <3> HIDE DEF kd, kr, jd, jr
    <3>4. kr = jr
      BY <1>1, <2>2, <3>1, <3>3
    <3>5. kd \in Told
      BY <2>1, <3>1
    <3>6. kd = jd
      BY <2>2, <3>1, <3>3, <3>5
    <3> QED
      BY <2>2, <3>2, <3>4, <3>6
  <2> QED
    BY <1>1, <2>3, <2>4, <2>5
<1> QED
  BY <1>6

(***************************************************************************)
(* The keys of the keyspaces                                               *)
(***************************************************************************)

\* What FlattenSeq builds up, at the first three parts.
LEMMA PartsAt ==
  ASSUME NEW seqs, Len(seqs) \in Nat, NEW f
  PROVE  /\ Parts(seqs, f) = [i \in 1..Len(seqs) |-> Parts(seqs, f)[i]]
         /\ 1 \in 1..Len(seqs) => Parts(seqs, f)[1] = seqs[1]
         /\ 2 \in 1..Len(seqs) => Parts(seqs, f)[2] = f[1] \o seqs[2]
         /\ 3 \in 1..Len(seqs) => Parts(seqs, f)[3] = f[2] \o seqs[3]
<1>1. Parts(seqs, f) = [i \in 1..Len(seqs) |-> Parts(seqs, f)[i]]
  BY DEF Parts
<1>2. \A i \in 1..Len(seqs) : Parts(seqs, f)[i] = IF i = 1 THEN seqs[i] ELSE f[i - 1] \o seqs[i]
  BY Zenon DEF Parts
<1>3. 2 - 1 = 1 /\ 3 - 1 = 2 /\ 2 # 1 /\ 3 # 1
  OBVIOUS
<1>4. 1 \in 1..Len(seqs) => Parts(seqs, f)[1] = seqs[1]
  BY <1>2, Zenon
<1>5. 2 \in 1..Len(seqs) => Parts(seqs, f)[2] = f[1] \o seqs[2]
  BY <1>2, <1>3, Zenon
<1>6. 3 \in 1..Len(seqs) => Parts(seqs, f)[3] = f[2] \o seqs[3]
  BY <1>2, <1>3, Zenon
<1> QED
  BY <1>1, <1>4, <1>5, <1>6

\* Up to three sequences, one after another.
Run(seqs, n) ==
  IF n = 1 THEN seqs[1] ELSE IF n = 2 THEN seqs[1] \o seqs[2] ELSE (seqs[1] \o seqs[2]) \o seqs[3]

\* FlattenSeq of one, two or three parts.
LEMMA FlattenFew ==
  ASSUME NEW seqs, NEW n \in 1..3, Len(seqs) = n
  PROVE  FlattenSeq(seqs) = Run(seqs, n)
<1> DEFINE f == [i \in 1..n |-> Run(seqs, i)]
<1>0. Len(seqs) \in Nat /\ Len(seqs) # 0 /\ 1..Len(seqs) = 1..n /\ n \in 1..n
  OBVIOUS
<1>1. /\ Run(seqs, 1) = seqs[1]
      /\ Run(seqs, 2) = Run(seqs, 1) \o seqs[2]
      /\ Run(seqs, 3) = Run(seqs, 2) \o seqs[3]
  <2>1. 2 # 1 /\ 3 # 1 /\ 3 # 2
    OBVIOUS
  <2> QED
    BY <2>1, Zenon DEF Run
<1>2. \A i \in 1..n : f[i] = Run(seqs, i)
  OBVIOUS
<1>3. f = [i \in 1..n |-> f[i]]
  OBVIOUS
<1> HIDE DEF f
<1>4. \A i \in 1..n : i = 1 \/ (i = 2 /\ 1 \in 1..n) \/ (i = 3 /\ 2 \in 1..n)
  OBVIOUS
<1>5. f = Parts(seqs, f)
  <2>1. Parts(seqs, f) = [i \in 1..n |-> Parts(seqs, f)[i]]
    BY <1>0, PartsAt, Zenon
  <2>2. /\ 1 \in 1..n => Parts(seqs, f)[1] = seqs[1]
        /\ 2 \in 1..n => Parts(seqs, f)[2] = f[1] \o seqs[2]
        /\ 3 \in 1..n => Parts(seqs, f)[3] = f[2] \o seqs[3]
    BY <1>0, PartsAt, Zenon
  <2>3. ASSUME NEW i \in 1..n
        PROVE  f[i] = Parts(seqs, f)[i]
    <3>1. CASE i = 1
      BY <1>1, <1>2, <2>2, <3>1, Zenon
    <3>2. CASE i = 2 /\ 1 \in 1..n
      BY <1>1, <1>2, <2>2, <3>2, Zenon
    <3>3. CASE i = 3 /\ 2 \in 1..n
      BY <1>1, <1>2, <2>2, <3>3, Zenon
    <3> QED
      BY <1>4, <3>1, <3>2, <3>3
  <2> QED
    BY <1>3, <2>1, <2>3, Zenon
<1>6. PICK g : g = Parts(seqs, g) /\ FlattenSeq(seqs) = g[Len(seqs)]
  BY <1>0, <1>5, FlattenIsParts, Zenon
<1>7. /\ 1 \in 1..n => g[1] = seqs[1]
      /\ 2 \in 1..n => g[2] = g[1] \o seqs[2]
      /\ 3 \in 1..n => g[3] = g[2] \o seqs[3]
  <2>1. /\ 1 \in 1..n => Parts(seqs, g)[1] = seqs[1]
        /\ 2 \in 1..n => Parts(seqs, g)[2] = g[1] \o seqs[2]
        /\ 3 \in 1..n => Parts(seqs, g)[3] = g[2] \o seqs[3]
    BY <1>0, PartsAt, Zenon
  <2>2. g[1] = Parts(seqs, g)[1] /\ g[2] = Parts(seqs, g)[2] /\ g[3] = Parts(seqs, g)[3]
    BY <1>6
  <2> QED
    BY <2>1, <2>2, Zenon
<1>8. n = 1 \/ (n = 2 /\ 1 \in 1..n) \/ (n = 3 /\ 1 \in 1..n /\ 2 \in 1..n)
  OBVIOUS
<1>9. g[n] = Run(seqs, n)
  BY <1>0, <1>1, <1>7, <1>8, Zenon
<1> QED
  BY <1>6, <1>9, Zenon

\* FlattenSeq of no parts at all.
LEMMA FlattenNone == ASSUME NEW seqs, Len(seqs) = 0, seqs = <<>> PROVE FlattenSeq(seqs) = <<>>
BY DEF FlattenSeq

\* What encodeKey yields for one, two, three and four fields.
Encodes(x, a, b, c, d) ==
  /\ encodeKey(x, <<a>>) = <<x>> \o a
  /\ encodeKey(x, <<a, b>>) = (<<x>> \o a) \o (<<sep>> \o b)
  /\ encodeKey(x, <<a, b, c>>) = (<<x>> \o a) \o ((<<sep>> \o b) \o (<<sep>> \o c))
  /\ encodeKey(x, <<a, b, c, d>>)
       = (<<x>> \o a) \o (((<<sep>> \o b) \o (<<sep>> \o c)) \o (<<sep>> \o d))

\* encodeKey writes the prefix and then the fields, a separator before each but the
\* first.
LEMMA EncodedKey ==
  ASSUME NEW x \in Nat, NEW a \in Seq(Nat), NEW b \in Seq(Nat), NEW c \in Seq(Nat), NEW d \in Seq(Nat)
  PROVE  Encodes(x, a, b, c, d)
<1> DEFINE rest(fields) == [i \in 1..(Len(fields) - 1) |-> <<sep>> \o fields[i + 1]]
<1>1. \A fields : encodeKey(x, fields) = (<<x>> \o fields[1]) \o FlattenSeq(rest(fields))
  BY DEF encodeKey
<1>2. /\ Len(rest(<<a>>)) = 0 /\ rest(<<a>>) = <<>>
      /\ Len(rest(<<a, b>>)) = 1 /\ rest(<<a, b>>)[1] = <<sep>> \o b
      /\ Len(rest(<<a, b, c>>)) = 2 /\ rest(<<a, b, c>>)[1] = <<sep>> \o b /\ rest(<<a, b, c>>)[2] = <<sep>> \o c
  OBVIOUS
<1>3. /\ Len(rest(<<a, b, c, d>>)) = 3 /\ rest(<<a, b, c, d>>)[1] = <<sep>> \o b
      /\ rest(<<a, b, c, d>>)[2] = <<sep>> \o c /\ rest(<<a, b, c, d>>)[3] = <<sep>> \o d
  OBVIOUS
<1>4. <<a>>[1] = a /\ <<a, b>>[1] = a /\ <<a, b, c>>[1] = a /\ <<a, b, c, d>>[1] = a
  OBVIOUS
<1> HIDE DEF rest
<1>5. (<<x>> \o a) \o <<>> = <<x>> \o a
  OBVIOUS
<1>6. 1 \in 1..3 /\ 2 \in 1..3 /\ 3 \in 1..3 /\ 2 # 1 /\ 3 # 1 /\ 3 # 2
  OBVIOUS
<1>7. FlattenSeq(rest(<<a>>)) = <<>>
  BY <1>2, FlattenNone, Zenon
<1>8. FlattenSeq(rest(<<a, b>>)) = <<sep>> \o b
  BY <1>2, <1>6, FlattenFew, Zenon DEF Run
<1>9. FlattenSeq(rest(<<a, b, c>>)) = (<<sep>> \o b) \o (<<sep>> \o c)
  BY <1>2, <1>6, FlattenFew, Zenon DEF Run
<1>10. FlattenSeq(rest(<<a, b, c, d>>)) = ((<<sep>> \o b) \o (<<sep>> \o c)) \o (<<sep>> \o d)
  BY <1>3, <1>6, FlattenFew, Zenon DEF Run
<1> QED
  BY <1>1, <1>4, <1>5, <1>7, <1>8, <1>9, <1>10, Zenon DEF Encodes

\* Text without the byte that separates fields.
Text == Seq(Nat \ {sep})

\* No byte of a text is the separator.
LEMMA TextIsBytes == ASSUME NEW t \in Text PROVE t \in Seq(Nat) /\ \A i \in 1..Len(t) : t[i] # sep
BY DEF Text

\* IndexByte yields a position of the bytes, or 0.
LEMMA IndexByteType ==
  ASSUME NEW b \in Seq(Nat)
  PROVE  IndexByte(b) \in 0..Len(b)
<1> DEFINE S == {i \in 1..Len(b) : b[i] = sep}
<1>1. IndexByte(b) = IF S # {} THEN Min(S) ELSE 0
  BY DEF IndexByte, SelectInSeq
<1>2. CASE S # {}
  <2>1. S \in SUBSET Nat
    OBVIOUS
  <2>2. PICK n \in S : \A m \in S : n <= m
    BY <1>2, <2>1, LeastNumber
  <2>3. n \in 1..Len(b)
    OBVIOUS
  <2> HIDE DEF S
  <2> QED
    BY <1>1, <1>2, <2>1, <2>2, <2>3, LeastIsMin
<1>3. CASE S = {}
  BY <1>1, <1>3
<1> QED
  BY <1>2, <1>3

\* The first separator is where the text before it ends.
LEMMA IndexByteOfFirst ==
  ASSUME NEW t \in Text, NEW r \in Seq(Nat)
  PROVE  IndexByte(t \o (<<sep>> \o r)) = Len(t) + 1
<1> DEFINE b == t \o (<<sep>> \o r)
           S == {i \in 1..Len(b) : b[i] = sep}
           n == Len(t) + 1
<1>1. t \in Seq(Nat) /\ \A i \in 1..Len(t) : t[i] # sep
  BY TextIsBytes
<1>2. /\ b \in Seq(Nat) /\ Len(b) = Len(t) + 1 + Len(r) /\ b[Len(t) + 1] = sep
      /\ \A i \in 1..Len(t) : b[i] = t[i]
  BY <1>1 DEF sep
<1>3. n \in Nat /\ S \in SUBSET Nat
  BY <1>1
<1> HIDE DEF b
<1>4. n \in S
  BY <1>1, <1>2
<1>5. \A m \in S : n <= m
  <2> SUFFICES ASSUME NEW m \in S, m < n PROVE FALSE
    BY <1>3
  <2>1. m \in 1..Len(t) /\ b[m] = sep
    BY <1>1, <1>2
  <2> QED
    BY <1>1, <1>2, <2>1
<1>6. IndexByte(b) = IF S # {} THEN Min(S) ELSE 0
  BY DEF IndexByte, SelectInSeq
<1> HIDE DEF S, n
<1>7. Min(S) = n
  BY <1>3, <1>4, <1>5, LeastIsMin
<1> QED
  BY <1>4, <1>6, <1>7 DEF b, n

\* One step of SplitN, from what g makes of the rest.
Cut(n, g) ==
  [b \in Seq(Nat) |->
     IF n = 1 \/ IndexByte(b) = 0 THEN <<b>>
     ELSE <<SubSeq(b, 1, IndexByte(b) - 1)>> \o g[SubSeq(b, IndexByte(b) + 1, Len(b))]]

\* A step of SplitN yields parts.
LEMMA CutType ==
  ASSUME NEW n, NEW g \in [Seq(Nat) -> Seq(Seq(Nat))]
  PROVE  Cut(n, g) \in [Seq(Nat) -> Seq(Seq(Nat))]
<1>1. ASSUME NEW b \in Seq(Nat)
      PROVE  /\ <<b>> \in Seq(Seq(Nat))
             /\ <<SubSeq(b, 1, IndexByte(b) - 1)>> \o g[SubSeq(b, IndexByte(b) + 1, Len(b))] \in Seq(Seq(Nat))
  <2>1. IndexByte(b) \in 0..Len(b) /\ Len(b) \in Nat
    BY IndexByteType
  <2>2. ASSUME NEW i \in 0..Len(b)
        PROVE  SubSeq(b, 1, i - 1) \in Seq(Nat) /\ SubSeq(b, i + 1, Len(b)) \in Seq(Nat)
    OBVIOUS
  <2>3. ASSUME NEW s \in Seq(Nat), NEW t \in Seq(Seq(Nat))
        PROVE  <<s>> \o t \in Seq(Seq(Nat))
    OBVIOUS
  <2>4. SubSeq(b, 1, IndexByte(b) - 1) \in Seq(Nat) /\ SubSeq(b, IndexByte(b) + 1, Len(b)) \in Seq(Nat)
    BY <2>1, <2>2
  <2>5. g[SubSeq(b, IndexByte(b) + 1, Len(b))] \in Seq(Seq(Nat))
    BY <2>4
  <2>6. <<b>> \in Seq(Seq(Nat))
    OBVIOUS
  <2> QED
    BY <2>3, <2>4, <2>5, <2>6
<1> QED
  BY <1>1 DEF Cut

\* SplitN is its step applied to itself with one part less.
LEMMA SplitNRecursive ==
  \A n \in Nat \ {0} : SplitN[n] = Cut(n, SplitN[n - 1])
<1> DEFINE X    == Nat \ {0}
           V    == [Seq(Nat) -> Seq(Seq(Nat))]
           none == [b \in Seq(Nat) |-> <<b>>]
           Stop == {1}
           size == [n \in X |-> n]
           base == [n \in X |-> none]
           next == [n \in X |-> IF n = 1 THEN 1 ELSE n - 1]
           step == [a \in X \X V |-> Cut(a[1], a[2])]
           rec(f) == [n \in X |-> Cut(n, f[n - 1])]
<1>1. none \in V
  OBVIOUS
<1>2. \A n \in X, g \in V : step[<<n, g>>] = Cut(n, g) /\ Cut(n, g) \in V
  BY CutType
<1>3. step \in [X \X V -> V]
  BY CutType
<1>4. Terminates(X, V, Stop, size, base, next, step)
  <2>1. Stop \in SUBSET X /\ size \in [X -> Nat] /\ next \in [X -> X]
    OBVIOUS
  <2>2. \A n \in X \ Stop : size[next[n]] < size[n]
    OBVIOUS
  <2>3. base \in [X -> V]
    <3> HIDE DEF none, V, X
    <3> QED
      BY <1>1
  <2> HIDE DEF none, Stop, size, base, next, step, X, V
  <2> QED
    BY <1>3, <2>1, <2>2, <2>3 DEF Terminates
<1>5. PICK f \in [X -> V] : f = OneStep(X, Stop, base, next, step, f)
  <2> HIDE DEF none, Stop, size, base, next, step, X, V
  <2> QED
    BY <1>4, RecursiveFunction
<1>6. \A g : Cut(1, g) = none
  BY DEF Cut
<1>7. f = rec(f)
  <2>1. ASSUME NEW n \in X
        PROVE  OneStep(X, Stop, base, next, step, f)[n] = Cut(n, f[n - 1])
    <3>1. CASE n = 1
      <4>1. OneStep(X, Stop, base, next, step, f)[n] = none
        BY <3>1 DEF OneStep
      <4> QED
        BY <1>6, <3>1, <4>1
    <3>2. CASE n # 1
      <4>1. next[n] = n - 1 /\ n - 1 \in X
        BY <3>2
      <4>2. f[n - 1] \in V
        BY <4>1
      <4>3. OneStep(X, Stop, base, next, step, f)[n] = step[<<n, f[n - 1]>>]
        <5> HIDE DEF next, step, base
        <5> QED
          BY <3>2, <4>1 DEF OneStep
      <4> QED
        BY <1>2, <4>2, <4>3
    <3> QED
      BY <3>1, <3>2
  <2> HIDE DEF Stop, base, next, step, V
  <2> QED
    BY <1>5, <2>1 DEF OneStep
<1>8. SplitN = CHOOSE g : g = rec(g)
  BY DEF SplitN, Cut
<1>9. SplitN = rec(SplitN)
  BY <1>7, <1>8
<1>10. \A g : \A n \in X : rec(g)[n] = Cut(n, g[n - 1])
  OBVIOUS
<1> HIDE DEF rec
<1> QED
  BY <1>9, <1>10

\* A field, the separator and what follows; a part and the parts after it.
Field(t, r) == t \o (<<sep>> \o r)
Part1(t, parts) == <<t>> \o parts

\* SplitN cuts a text off what follows the separator.
LEMMA CutAtFirst ==
  ASSUME NEW n \in Nat \ {0, 1}, NEW t \in Text, NEW r \in Seq(Nat)
  PROVE  SplitN[n][Field(t, r)] = Part1(t, SplitN[n - 1][r])
<1> DEFINE b == t \o (<<sep>> \o r)
<1>1. t \in Seq(Nat) /\ Len(t) \in Nat
  BY TextIsBytes
<1>2. b \in Seq(Nat) /\ Len(b) = Len(t) + 1 + Len(r)
  BY <1>1 DEF sep
<1>3. IndexByte(b) = Len(t) + 1
  BY IndexByteOfFirst
<1>4. SubSeq(b, 1, Len(t)) = t /\ SubSeq(b, Len(t) + 2, Len(b)) = r
  <2>1. Len(SubSeq(b, 1, Len(t))) = Len(t) /\ \A i \in 1..Len(t) : SubSeq(b, 1, Len(t))[i] = t[i]
    BY <1>1, <1>2 DEF sep
  <2>2. Len(SubSeq(b, Len(t) + 2, Len(b))) = Len(r) /\ \A i \in 1..Len(r) : SubSeq(b, Len(t) + 2, Len(b))[i] = r[i]
    <3>1. Len(r) \in Nat /\ \A i \in 1..Len(r) : b[(Len(t) + 1) + i] = r[i]
      <4> DEFINE c == <<sep>> \o r
      <4>1. c \in Seq(Nat) /\ Len(c) = Len(r) + 1 /\ \A i \in 1..Len(r) : c[i + 1] = r[i]
        BY DEF sep
      <4>2. b = t \o c
        OBVIOUS
      <4> HIDE DEF b, c
      <4>3. \A i \in 1..Len(r) : b[Len(t) + (i + 1)] = c[i + 1]
        <5>1. \A j \in 1..Len(c) : (t \o c)[Len(t) + j] = c[j]
          BY <1>1, <4>1, ConcatProperties
        <5>2. \A i \in 1..Len(r) : i + 1 \in 1..Len(c)
          BY <4>1
        <5> QED
          BY <4>2, <5>1, <5>2
      <4>4. \A i \in 1..Len(r) : Len(t) + (i + 1) = (Len(t) + 1) + i
        BY <1>1
      <4> QED
        BY <4>1, <4>3, <4>4
    <3> HIDE DEF b
    <3>2. Len(SubSeq(b, Len(t) + 2, Len(b))) = Len(r)
      BY <1>1, <1>2, <3>1
    <3>3. \A i \in 1..Len(r) : SubSeq(b, Len(t) + 2, Len(b))[i] = b[(Len(t) + 1) + i]
      BY <1>1, <1>2, <3>1
    <3> QED
      BY <3>1, <3>2, <3>3
  <2>3. SubSeq(b, 1, Len(t)) \in Seq(Nat) /\ SubSeq(b, Len(t) + 2, Len(b)) \in Seq(Nat)
    <3> HIDE DEF b
    <3>1. \A i \in 1..Len(b) : b[i] \in Nat
      BY <1>2, ElementOfSeq
    <3>2. 1 \in Int /\ Len(t) \in Int /\ Len(t) + 2 \in Int /\ Len(b) \in Int
      BY <1>1, <1>2
    <3>3. (\A i \in 1..Len(t) : b[i] \in Nat) /\ \A i \in (Len(t) + 2)..Len(b) : b[i] \in Nat
      BY <1>1, <1>2, <3>1
    <3> QED
      BY <3>2, <3>3, SubSeqProperties
  <2> QED
    BY <1>1, <2>1, <2>2, <2>3, SeqEqual
<1>5. SplitN[n] = Cut(n, SplitN[n - 1])
  BY SplitNRecursive
<1> HIDE DEF b
<1>6. Cut(n, SplitN[n - 1])[b] = <<SubSeq(b, 1, IndexByte(b) - 1)>> \o SplitN[n - 1][SubSeq(b, IndexByte(b) + 1, Len(b))]
  <2>1. n # 1 /\ IndexByte(b) # 0
    BY <1>1, <1>3
  <2> QED
    BY <1>2, <2>1, Zenon DEF Cut
<1>7. IndexByte(b) - 1 = Len(t) /\ IndexByte(b) + 1 = Len(t) + 2
  BY <1>1, <1>3
<1> QED
  BY <1>4, <1>5, <1>6, <1>7, Zenon DEF b, Field, Part1

\* The last part of SplitN is what is left.
LEMMA CutNoMore ==
  ASSUME NEW t \in Text
  PROVE  SplitN[1][t] = <<t>>
<1>1. SplitN[1] = Cut(1, SplitN[1 - 1])
  BY SplitNRecursive
<1> QED
  BY <1>1, TextIsBytes DEF Cut

\* A field and what follows are bytes.
LEMMA FieldType ==
  ASSUME NEW t \in Seq(Nat), NEW r \in Seq(Nat)
  PROVE  Field(t, r) \in Seq(Nat)
BY DEF Field, sep

\* The parts by number, when one more is put before them.
LEMMA PartsProperties ==
  ASSUME NEW t \in Seq(Nat), NEW parts \in Seq(Seq(Nat))
  PROVE  /\ Part1(t, parts) \in Seq(Seq(Nat)) /\ Len(Part1(t, parts)) = Len(parts) + 1
         /\ Part1(t, parts)[1] = t
         /\ Len(parts) = 1 => Len(Part1(t, parts)) = 2 /\ Part1(t, parts)[2] = parts[1]
         /\ Len(parts) = 2 => /\ Len(Part1(t, parts)) = 3 
                              /\ Part1(t, parts)[2] = parts[1] /\ Part1(t, parts)[3] = parts[2]
         /\ Len(parts) = 3 => /\ Len(Part1(t, parts)) = 4 /\ Part1(t, parts)[2] = parts[1]
                              /\ Part1(t, parts)[3] = parts[2] /\ Part1(t, parts)[4] = parts[3]
<1>1. /\ Part1(t, parts) \in Seq(Seq(Nat)) /\ Len(Part1(t, parts)) = Len(parts) + 1 /\ Part1(t, parts)[1] = t
      /\ \A i \in 2..(Len(parts) + 1) : Part1(t, parts)[i] = parts[i - 1]
  BY DEF Part1
<1>2. Len(parts) = 1 => 2 \in 2..(Len(parts) + 1) /\ Len(parts) + 1 = 2
  OBVIOUS
<1>3. Len(parts) = 2 => {2, 3} \subseteq 2..(Len(parts) + 1) /\ Len(parts) + 1 = 3
  OBVIOUS
<1>4. Len(parts) = 3 => {2, 3, 4} \subseteq 2..(Len(parts) + 1) /\ Len(parts) + 1 = 4
  OBVIOUS
<1>5. 2 - 1 = 1 /\ 3 - 1 = 2 /\ 4 - 1 = 3
  OBVIOUS
<1> QED
  BY <1>1, <1>2, <1>3, <1>4, <1>5, Zenon

\* Four fields, the separator between them.
Joined(a, b, c, d) == Field(a, Field(b, Field(c, d)))

\* SplitN recovers the four texts that a key joins.
LEMMA FourFields ==
  ASSUME NEW a \in Text, NEW b \in Text, NEW c \in Text, NEW d \in Text, NEW f,
         f = SplitN[4][Joined(a, b, c, d)]
  PROVE  Len(f) = 4 /\ f[1] = a /\ f[2] = b /\ f[3] = c /\ f[4] = d
<1>0. a \in Seq(Nat) /\ b \in Seq(Nat) /\ c \in Seq(Nat) /\ d \in Seq(Nat)
  BY TextIsBytes
<1>1. Field(c, d) \in Seq(Nat) /\ Field(b, Field(c, d)) \in Seq(Nat)
  BY <1>0, FieldType
<1>2. SplitN[4][Joined(a, b, c, d)] = Part1(a, SplitN[3][Field(b, Field(c, d))])
  BY <1>1, CutAtFirst DEF Joined
<1>3. SplitN[3][Field(b, Field(c, d))] = Part1(b, SplitN[2][Field(c, d)])
  BY <1>1, CutAtFirst
<1>4. SplitN[2][Field(c, d)] = Part1(c, SplitN[1][d])
  BY <1>0, CutAtFirst
<1>5. SplitN[1][d] = <<d>>
  BY CutNoMore
<1> DEFINE f1 == SplitN[1][d]
           f2 == Part1(c, f1)
           f3 == Part1(b, f2)
<1>6. f1 \in Seq(Seq(Nat)) /\ Len(f1) = 1 /\ f1[1] = d
  <2>1. <<d>> \in Seq(Seq(Nat)) /\ Len(<<d>>) = 1 /\ <<d>>[1] = d
    BY <1>0
  <2> QED
    BY <1>5, <2>1, Zenon
<1>7. f = Part1(a, f3)
  BY <1>2, <1>3, <1>4, Zenon
<1> HIDE DEF f1
<1>8. f2 \in Seq(Seq(Nat)) /\ Len(f2) = 2 /\ f2[1] = c /\ f2[2] = d
  BY <1>0, <1>6, PartsProperties, Zenon
<1> HIDE DEF f2
<1>9. f3 \in Seq(Seq(Nat)) /\ Len(f3) = 3 /\ f3[1] = b /\ f3[2] = c /\ f3[3] = d
  BY <1>0, <1>8, PartsProperties, Zenon
<1> HIDE DEF f3
<1> QED
  <2>1. /\ Len(Part1(a, f3)) = 4 /\ Part1(a, f3)[1] = a /\ Part1(a, f3)[2] = b
        /\ Part1(a, f3)[3] = c /\ Part1(a, f3)[4] = d
    BY <1>0, <1>9, PartsProperties, Zenon
  <2> QED
    BY <1>7, <2>1

\* What is put before other bytes is a prefix of the result.
LEMMA PrefixOfConcat ==
  ASSUME NEW p \in Seq(Nat), NEW r \in Seq(Nat)
  PROVE  HasPrefix(p \o r, p)
BY DEF HasPrefix

\* Concatenation under a name of its own, so that its laws can be applied.
Cat(s, t) == s \o t

\* A concatenation of bytes is bytes.
LEMMA CatType ==
  \A s, t \in Seq(Nat) : Cat(s, t) \in Seq(Nat)
BY DEF Cat

\* Concatenation is associative.
LEMMA CatAssociative ==
  \A s, t, u \in Seq(Nat) : Cat(Cat(s, t), u) = Cat(s, Cat(t, u))
BY DEF Cat

\* The key of a keyspace prefix and four fields.
KeyOf(x, a, b, c, d) == <<x>> \o Joined(a, b, c, d)

\* The same fields after one another, grouped from the left as encodeKey does
\* and from the right.
Groupings(X, O, a, b, c, d, cd, bcd, abcd) ==
  /\ Cat(X, abcd) = Cat(Cat(Cat(X, a), O), bcd)
  /\ Cat(X, abcd) = Cat(Cat(Cat(Cat(X, a), Cat(O, b)), O), cd)
  /\ Cat(X, abcd) = Cat(Cat(Cat(Cat(X, a), Cat(Cat(O, b), Cat(O, c))), O), d)
  /\ Cat(X, abcd) = Cat(Cat(X, a), Cat(Cat(Cat(O, b), Cat(O, c)), Cat(O, d)))

\* Both groupings of the fields are the same bytes.
LEMMA Regrouped ==
  ASSUME NEW X \in Seq(Nat), NEW O \in Seq(Nat), NEW a \in Seq(Nat), NEW b \in Seq(Nat), NEW c \in Seq(Nat), NEW d \in Seq(Nat),
         NEW cd, cd = Cat(c, Cat(O, d)), NEW bcd, bcd = Cat(b, Cat(O, cd)), NEW abcd, abcd = Cat(a, Cat(O, bcd))
  PROVE  Groupings(X, O, a, b, c, d, cd, bcd, abcd)
<1> DEFINE V == Seq(Nat)
<1>1. \A s, t \in V : Cat(s, t) \in V
  BY CatType
<1>2. \A s, t, u \in V : Cat(Cat(s, t), u) = Cat(s, Cat(t, u))
  BY CatAssociative
<1>0. X \in V /\ O \in V /\ a \in V /\ b \in V /\ c \in V /\ d \in V
  OBVIOUS
<1> HIDE DEF V
<1> DEFINE od == Cat(O, d)
           ocd == Cat(O, cd)
           obcd == Cat(O, bcd)
           xa == Cat(X, a)
           ob == Cat(O, b)
           oc == Cat(O, c)
<1>3. od \in V /\ cd \in V /\ ocd \in V /\ bcd \in V /\ obcd \in V /\ xa \in V /\ ob \in V /\ oc \in V
  BY <1>0, <1>1
<1>4. ocd = Cat(oc, od)
  BY <1>0, <1>2, <1>3
<1>5. obcd = Cat(ob, ocd)
  BY <1>0, <1>2, <1>3
<1>6. Cat(X, abcd) = Cat(xa, obcd)
  BY <1>0, <1>2, <1>3
<1>7. Cat(Cat(xa, O), bcd) = Cat(xa, obcd)
  BY <1>0, <1>2, <1>3
<1> HIDE DEF xa, ob, oc
<1>8. Cat(Cat(Cat(xa, ob), O), cd) = Cat(xa, Cat(ob, ocd))
  <2>1. Cat(xa, ob) \in V
    BY <1>0, <1>1, <1>3
  <2>2. Cat(Cat(Cat(xa, ob), O), cd) = Cat(Cat(xa, ob), ocd)
    BY <1>0, <1>2, <1>3, <2>1
  <2> QED
    BY <1>0, <1>2, <1>3, <2>2
<1> HIDE DEF ocd, obcd
<1>9. Cat(xa, obcd) = Cat(xa, Cat(Cat(ob, oc), od))
  BY <1>0, <1>2, <1>3, <1>4, <1>5
<1>10. Cat(Cat(Cat(xa, Cat(ob, oc)), O), d) = Cat(xa, Cat(Cat(ob, oc), od))
  <2>1. Cat(ob, oc) \in V /\ Cat(xa, Cat(ob, oc)) \in V
    BY <1>0, <1>1, <1>3
  <2>2. Cat(Cat(Cat(xa, Cat(ob, oc)), O), d) = Cat(Cat(xa, Cat(ob, oc)), od)
    BY <1>0, <1>2, <1>3, <2>1
  <2> QED
    BY <1>0, <1>2, <1>3, <2>1, <2>2
<1> QED
  BY <1>5, <1>6, <1>7, <1>8, <1>9, <1>10 DEF Groupings, od, ocd, obcd, xa, ob, oc

\* Bytes to scan by, which begin with the byte of a keyspace.
IsPrefixFor(x, pre) == pre \in Seq(Nat) /\ pre # <<>> /\ pre[1] = x

\* A prefix of a key begins with the byte the key begins with.
LEMMA FirstOfKey ==
  ASSUME NEW x \in Nat, NEW r \in Seq(Nat), NEW t \in Seq(Nat), NEW k \in Seq(Nat), k = Cat(<<x>>, r),
         HasPrefix(k, Cat(t, <<sep>>))
  PROVE  IsPrefixFor(x, Cat(t, <<sep>>))
<1> DEFINE pre == Cat(t, <<sep>>)
<1>1. pre \in Seq(Nat) /\ Len(pre) >= 1
  BY DEF Cat, sep
<1>2. k[1] = x
  BY DEF Cat
<1> HIDE DEF pre
<1>3. 1 \in 1..Len(pre) /\ pre # <<>>
  BY <1>1
<1>4. HasPrefix(k, pre)
  BY DEF pre
<1> QED
  BY <1>1, <1>2, <1>3, <1>4 DEF IsPrefixFor, HasPrefix, pre

\* The key of four fields, and that it begins with the encoding of one, two or three of
\* them and a separator.
KeyFacts(x, a, b, c, d) ==
  /\ KeyOf(x, a, b, c, d) \in Seq(Nat)
  /\ encodeKey(x, <<a, b, c, d>>) = KeyOf(x, a, b, c, d)
  /\ IsPrefixFor(x, encodeKey(x, <<a>>) \o <<sep>>)
  /\ IsPrefixFor(x, encodeKey(x, <<a, b>>) \o <<sep>>)
  /\ IsPrefixFor(x, encodeKey(x, <<a, b, c>>) \o <<sep>>)
  /\ HasPrefix(KeyOf(x, a, b, c, d), encodeKey(x, <<a>>) \o <<sep>>)
  /\ HasPrefix(KeyOf(x, a, b, c, d), encodeKey(x, <<a, b>>) \o <<sep>>)
  /\ HasPrefix(KeyOf(x, a, b, c, d), encodeKey(x, <<a, b, c>>) \o <<sep>>)

\* Every key of four fields is as KeyFacts says.
LEMMA KeyForms ==
  ASSUME NEW x \in Nat, NEW a \in Seq(Nat), NEW b \in Seq(Nat), NEW c \in Seq(Nat), NEW d \in Seq(Nat)
  PROVE  KeyFacts(x, a, b, c, d)
<1> DEFINE O == <<sep>>
           X == <<x>>
           cd == Cat(c, Cat(O, d))
           bcd == Cat(b, Cat(O, cd))
           abcd == Cat(a, Cat(O, bcd))
           P1 == Cat(Cat(X, a), O)
           P2 == Cat(Cat(Cat(X, a), Cat(O, b)), O)
           P3 == Cat(Cat(Cat(X, a), Cat(Cat(O, b), Cat(O, c))), O)
<1>1. O \in Seq(Nat) /\ X \in Seq(Nat)
  BY DEF sep
<1>2. /\ encodeKey(x, <<a>>) \o <<sep>> = P1 /\ encodeKey(x, <<a, b>>) \o <<sep>> = P2
      /\ encodeKey(x, <<a, b, c>>) \o <<sep>> = P3
      /\ encodeKey(x, <<a, b, c, d>>) = Cat(Cat(X, a), Cat(Cat(Cat(O, b), Cat(O, c)), Cat(O, d)))
  <2>1. /\ encodeKey(x, <<a>>) = Cat(X, a) /\ encodeKey(x, <<a, b>>) = Cat(Cat(X, a), Cat(O, b))
        /\ encodeKey(x, <<a, b, c>>) = Cat(Cat(X, a), Cat(Cat(O, b), Cat(O, c)))
        /\ encodeKey(x, <<a, b, c, d>>) = Cat(Cat(X, a), Cat(Cat(Cat(O, b), Cat(O, c)), Cat(O, d)))
    <3>1. Encodes(x, a, b, c, d)
      BY EncodedKey
    <3> QED
      BY <3>1, Zenon DEF Encodes, Cat
  <2>2. \A s : s \o <<sep>> = Cat(s, O)
    BY DEF Cat
  <2> HIDE DEF O, X
  <2> QED
    BY <2>1, <2>2, Zenon
<1>3. KeyOf(x, a, b, c, d) = Cat(X, abcd)
  BY Zenon DEF Field, KeyOf, Joined, Cat
<1> HIDE DEF O, X
<1>4. cd \in Seq(Nat) /\ bcd \in Seq(Nat) /\ abcd \in Seq(Nat)
  BY <1>1, CatType
<1>5. P1 \in Seq(Nat) /\ P2 \in Seq(Nat) /\ P3 \in Seq(Nat) /\ Cat(X, abcd) \in Seq(Nat)
  BY <1>1, <1>4, CatType
<1> HIDE DEF cd, bcd, abcd
<1>6. /\ Cat(X, abcd) = Cat(P1, bcd) /\ Cat(X, abcd) = Cat(P2, cd) /\ Cat(X, abcd) = Cat(P3, d)
      /\ Cat(X, abcd) = Cat(Cat(X, a), Cat(Cat(Cat(O, b), Cat(O, c)), Cat(O, d)))
  <2>1. cd = Cat(c, Cat(O, d)) /\ bcd = Cat(b, Cat(O, cd)) /\ abcd = Cat(a, Cat(O, bcd))
    BY DEF abcd, bcd, cd
  <2> QED
    <3>1. Groupings(X, O, a, b, c, d, cd, bcd, abcd)
      BY <1>1, <2>1, Regrouped
    <3> QED
      BY <3>1, Zenon DEF Groupings
<1> HIDE DEF P1, P2, P3, cd, bcd, abcd
<1>7. HasPrefix(Cat(P1, bcd), P1) /\ HasPrefix(Cat(P2, cd), P2) /\ HasPrefix(Cat(P3, d), P3)
  BY <1>4, <1>5, PrefixOfConcat, Zenon DEF Cat
<1>8. IsPrefixFor(x, P1) /\ IsPrefixFor(x, P2) /\ IsPrefixFor(x, P3)
  <2>1. Cat(X, a) \in Seq(Nat) /\ Cat(Cat(X, a), Cat(O, b)) \in Seq(Nat) /\ Cat(Cat(X, a), Cat(Cat(O, b), Cat(O, c))) \in Seq(Nat)
    BY <1>1, CatType
  <2> QED
    BY <1>4, <1>5, <1>6, <1>7, <2>1, FirstOfKey DEF O, X, P1, P2, P3
<1> QED
  BY <1>2, <1>3, <1>5, <1>6, <1>7, <1>8, Zenon DEF KeyFacts

\* The quad of three fields and a label, and those whose fields are text.
TheQuad(s, p, o, l) == [stmt |-> <<s, p, o>>, label |-> l]

\* The byte before the fields of a key.
LEMMA TailOfKey ==
  ASSUME NEW x \in Nat, NEW t \in Seq(Nat)
  PROVE  /\ Head(<<x>> \o t) = x /\ Tail(<<x>> \o t) = t
         /\ (<<x>> \o t)[1] = x /\ <<x>> \o t \in Seq(Nat) /\ <<x>> \o t # <<>> /\ Len(<<x>> \o t) = Len(t) + 1
<1>1. /\ <<x>> \o t \in Seq(Nat) /\ Len(<<x>> \o t) = Len(t) + 1 /\ (<<x>> \o t)[1] = x
      /\ \A i \in 1..Len(t) : (<<x>> \o t)[i + 1] = t[i]
  OBVIOUS
<1> DEFINE k == <<x>> \o t
<1>2. k \in Seq(Nat) /\ Len(k) = Len(t) + 1 /\ k[1] = x /\ \A i \in 1..Len(t) : k[i + 1] = t[i]
  BY <1>1
<1> HIDE DEF k
<1>3. k # <<>> /\ Head(k) = x /\ Tail(k) \in Seq(Nat) /\ Len(Tail(k)) = Len(t) /\ \A i \in 1..Len(t) : Tail(k)[i] = t[i]
  BY <1>2
<1>4. Tail(k) = t
  BY <1>3, SeqEqual
<1> QED
  BY <1>2, <1>3, <1>4 DEF k

\* Four fields joined are bytes.
LEMMA JoinedType ==
  ASSUME NEW a \in Seq(Nat), NEW b \in Seq(Nat), NEW c \in Seq(Nat), NEW d \in Seq(Nat)
  PROVE  Joined(a, b, c, d) \in Seq(Nat)
BY FieldType DEF Joined

\* The keyspaces and the journal each begin with a byte of their own.
LEMMA PrefixesDiffer ==
  /\ PrefixOf["SPO"] = prefSPO /\ PrefixOf["POS"] = prefPOS /\ PrefixOf["OSP"] = prefOSP /\ PrefixOf["LSP"] = prefLSP
  /\ \A ks \in Keyspace : PrefixOf[ks] \in Nat /\ PrefixOf[ks] # prefC /\ PrefixOf[ks] # prefCO
  /\ \A ks, other \in Keyspace : PrefixOf[ks] = PrefixOf[other] => ks = other
BY DEF PrefixOf, Keyspace, prefSPO, prefPOS, prefOSP, prefLSP, prefC, prefCO

\* The order in which each keyspace writes the fields of a quad.
LEMMA KeyOfQuad ==
  ASSUME NEW s \in Seq(Nat), NEW p \in Seq(Nat), NEW o \in Seq(Nat), NEW l \in Seq(Nat)
  PROVE  /\ KeyBytes("SPO", TheQuad(s, p, o, l)) = KeyOf(prefSPO, s, p, o, l)
         /\ KeyBytes("POS", TheQuad(s, p, o, l)) = KeyOf(prefPOS, p, o, s, l)
         /\ KeyBytes("OSP", TheQuad(s, p, o, l)) = KeyOf(prefOSP, o, s, p, l)
         /\ KeyBytes("LSP", TheQuad(s, p, o, l)) = KeyOf(prefLSP, l, s, p, o)
<1>1. /\ Fields("SPO", TheQuad(s, p, o, l)) = <<s, p, o, l>>
      /\ Fields("POS", TheQuad(s, p, o, l)) = <<p, o, s, l>>
      /\ Fields("OSP", TheQuad(s, p, o, l)) = <<o, s, p, l>>
      /\ Fields("LSP", TheQuad(s, p, o, l)) = <<l, s, p, o>>
  BY DEF Fields, TheQuad
<1>2. prefSPO \in Nat /\ prefPOS \in Nat /\ prefOSP \in Nat /\ prefLSP \in Nat
  BY DEF prefSPO, prefPOS, prefOSP, prefLSP
<1>3. /\ encodeKey(prefSPO, <<s, p, o, l>>) = KeyOf(prefSPO, s, p, o, l)
      /\ encodeKey(prefPOS, <<p, o, s, l>>) = KeyOf(prefPOS, p, o, s, l)
      /\ encodeKey(prefOSP, <<o, s, p, l>>) = KeyOf(prefOSP, o, s, p, l)
      /\ encodeKey(prefLSP, <<l, s, p, o>>) = KeyOf(prefLSP, l, s, p, o)
  <2>1. /\ KeyFacts(prefSPO, s, p, o, l) /\ KeyFacts(prefPOS, p, o, s, l)
        /\ KeyFacts(prefOSP, o, s, p, l) /\ KeyFacts(prefLSP, l, s, p, o)
    BY <1>2, KeyForms
  <2> QED
    BY <2>1, Zenon DEF KeyFacts
<1> QED
  BY <1>1, <1>3, PrefixesDiffer, Zenon DEF KeyBytes

\* decodeQuadKey puts the fields of a key back in the order of the quad.
LEMMA Decoded ==
  ASSUME NEW x \in Nat, NEW a \in Text, NEW b \in Text, NEW c \in Text, NEW d \in Text,
         NEW key, key = KeyOf(x, a, b, c, d)
  PROVE  /\ x = prefSPO => decodeQuadKey(key) = {TheQuad(a, b, c, d)}
         /\ x = prefPOS => decodeQuadKey(key) = {TheQuad(c, a, b, d)}
         /\ x = prefOSP => decodeQuadKey(key) = {TheQuad(b, c, a, d)}
         /\ x = prefLSP => decodeQuadKey(key) = {TheQuad(b, c, d, a)}
<1> DEFINE f == SplitN[4][Tail(key)]
<1>1. Head(key) = x /\ Tail(key) = Joined(a, b, c, d)
  BY TailOfKey, JoinedType, TextIsBytes DEF KeyOf
<1>2. Len(f) = 4 /\ f[1] = a /\ f[2] = b /\ f[3] = c /\ f[4] = d
  <2>1. f = SplitN[4][Joined(a, b, c, d)]
    BY <1>1
  <2> HIDE DEF f
  <2> QED
    BY <2>1, FourFields
<1>3. decodeQuadKey(key) =
        IF Len(f) # 4 THEN {}
        ELSE CASE Head(key) = prefSPO -> {TheQuad(f[1], f[2], f[3], f[4])}
               [] Head(key) = prefPOS -> {TheQuad(f[3], f[1], f[2], f[4])}
               [] Head(key) = prefOSP -> {TheQuad(f[2], f[3], f[1], f[4])}
               [] Head(key) = prefLSP -> {TheQuad(f[2], f[3], f[4], f[1])}
               [] OTHER -> {}
  BY DEF decodeQuadKey, TheQuad
<1> HIDE DEF f
<1> QED
  BY <1>1, <1>2, <1>3 DEF prefSPO, prefPOS, prefOSP, prefLSP

\* What encodeKey leaves to its caller (internal/pebbleq/store.go:190-192, "Caller is
\* responsible for ensuring fields contain no NULs"): no field of a quad holds the separator.
Encodable == \A q \in Quad : \E s, p, o, l \in Text : q = TheQuad(s, p, o, l)

(***************************************************************************)
(* Scans                                                                   *)
(***************************************************************************)

\* A key of a keyspace that decodes to one quad.
StandsFor(key, ks, q) ==
  /\ key \in Seq(Nat) /\ key # <<>> /\ key[1] = PrefixOf[ks]
  /\ decodeQuadKey(key) = {q}

\* Each of the four keys of a quad stands for that quad and no other.
LEMMA KeyStandsForQuad ==
  ASSUME Encodable, NEW ks \in Keyspace, NEW q \in Quad
  PROVE  StandsFor(KeyBytes(ks, q), ks, q)
<1>1. PICK s \in Text, p \in Text, o \in Text, l \in Text : q = TheQuad(s, p, o, l)
  BY DEF Encodable
<1>2. s \in Seq(Nat) /\ p \in Seq(Nat) /\ o \in Seq(Nat) /\ l \in Seq(Nat)
  BY TextIsBytes
<1>3. ASSUME NEW x \in Nat, NEW a \in Seq(Nat), NEW b \in Seq(Nat), NEW c \in Seq(Nat), NEW d \in Seq(Nat)
      PROVE  IsPrefixFor(x, KeyOf(x, a, b, c, d))
  BY JoinedType, TailOfKey DEF KeyOf, IsPrefixFor
<1>4. /\ prefSPO \in Nat /\ prefPOS \in Nat /\ prefOSP \in Nat /\ prefLSP \in Nat
      /\ ks \in {"SPO", "POS", "OSP", "LSP"}
  BY DEF prefSPO, prefPOS, prefOSP, prefLSP, Keyspace
<1>5. CASE ks = "SPO"
  <2>1. KeyBytes(ks, q) = KeyOf(prefSPO, s, p, o, l)
    BY <1>1, <1>2, <1>5, KeyOfQuad
  <2>2. decodeQuadKey(KeyBytes(ks, q)) = {q}
    BY <1>1, <1>4, <2>1, Decoded
  <2> QED
    BY <1>2, <1>3, <1>4, <1>5, <2>1, <2>2, PrefixesDiffer DEF StandsFor, IsPrefixFor
<1>6. CASE ks = "POS"
  <2>1. KeyBytes(ks, q) = KeyOf(prefPOS, p, o, s, l)
    BY <1>1, <1>2, <1>6, KeyOfQuad
  <2>2. decodeQuadKey(KeyBytes(ks, q)) = {q}
    BY <1>1, <1>4, <2>1, Decoded
  <2> QED
    BY <1>2, <1>3, <1>4, <1>6, <2>1, <2>2, PrefixesDiffer DEF StandsFor, IsPrefixFor
<1>7. CASE ks = "OSP"
  <2>1. KeyBytes(ks, q) = KeyOf(prefOSP, o, s, p, l)
    BY <1>1, <1>2, <1>7, KeyOfQuad
  <2>2. decodeQuadKey(KeyBytes(ks, q)) = {q}
    BY <1>1, <1>4, <2>1, Decoded
  <2> QED
    BY <1>2, <1>3, <1>4, <1>7, <2>1, <2>2, PrefixesDiffer DEF StandsFor, IsPrefixFor
<1>8. CASE ks = "LSP"
  <2>1. KeyBytes(ks, q) = KeyOf(prefLSP, l, s, p, o)
    BY <1>1, <1>2, <1>8, KeyOfQuad
  <2>2. decodeQuadKey(KeyBytes(ks, q)) = {q}
    BY <1>1, <1>4, <2>1, Decoded
  <2> QED
    BY <1>2, <1>3, <1>4, <1>8, <2>1, <2>2, PrefixesDiffer DEF StandsFor, IsPrefixFor
<1> QED
  BY <1>4, <1>5, <1>6, <1>7, <1>8

\* The first two bytes of a key of the journal.
LEMMA ThreeBytes ==
  ASSUME NEW x \in Nat, NEW y \in Nat, NEW z \in Nat, NEW t \in Seq(Nat)
  PROVE  /\ <<x, y, z>> \o t \in Seq(Nat) /\ <<x, y, z>> \o t # <<>>
         /\ (<<x, y, z>> \o t)[1] = x /\ (<<x, y, z>> \o t)[2] = y
OBVIOUS

\* A key of the store is the key of a quad it holds or a key of the journal.
LEMMA KeysOfStore ==
  ASSUME Encodable, NEW kv \in Contents, NEW k \in ByteKeys(kv)
  PROVE  /\ k \in Seq(Nat) /\ k # <<>>
         /\ \/ \E ks \in Keyspace, q \in Quad : <<ks, q>> \in kv.keys /\ k = KeyBytes(ks, q)
            \/ \E id \in kv.commits : k = <<prefC, id>> /\ k[1] = prefC /\ k[2] = id
            \/ \E o \in kv.ops : k = commitOpKey(o.id, o.seq - 1) /\ k[1] = prefCO /\ k[2] = o.id
<1>1. /\ kv.keys \subseteq Keyspace \X Quad /\ kv.commits \subseteq Nat
      /\ \A o \in kv.ops : o.id \in Nat /\ o.seq - 1 \in Nat
  BY DEF Contents, OpRow, Id
<1>2. prefC \in Nat /\ prefCO \in Nat /\ sep \in Nat
  BY DEF prefC, prefCO, sep
<1>3. ASSUME NEW key \in kv.keys, k = KeyBytes(key[1], key[2])
      PROVE  /\ k \in Seq(Nat) /\ k # <<>>
             /\ \E ks \in Keyspace, q \in Quad : <<ks, q>> \in kv.keys /\ k = KeyBytes(ks, q)
  <2>1. key[1] \in Keyspace /\ key[2] \in Quad /\ key = <<key[1], key[2]>>
    BY <1>1
  <2> QED
    BY <1>3, <2>1, KeyStandsForQuad DEF StandsFor
<1>4. ASSUME NEW id \in kv.commits, k = <<prefC, id>>
      PROVE  k \in Seq(Nat) /\ k # <<>> /\ k[1] = prefC /\ k[2] = id
  BY <1>1, <1>2, <1>4
<1>5. ASSUME NEW o \in kv.ops, k = commitOpKey(o.id, o.seq - 1)
      PROVE  k \in Seq(Nat) /\ k # <<>> /\ k[1] = prefCO /\ k[2] = o.id
  <2>1. o.id \in Nat /\ uvarint[o.seq - 1] \in Seq(Nat)
    BY <1>1, UvarintRecursive
  <2> QED
    BY <1>2, <1>5, <2>1, ThreeBytes DEF commitOpKey
<1> QED
  BY <1>3, <1>4, <1>5 DEF ByteKeys

\* A scan of a keyspace finds the keys that begin with the prefix, all of
\* quads that keyspace holds.
LEMMA ScanOfKeyspace ==
  ASSUME Encodable, NEW kv \in Contents, NEW ks \in Keyspace, NEW pre, IsPrefixFor(PrefixOf[ks], pre)
  PROVE  Scan(kv, pre) = {KeyBytes(ks, q) : q \in {q \in Held(kv, ks) : HasPrefix(KeyBytes(ks, q), pre)}}
<1>1. ASSUME NEW k \in Scan(kv, pre)
      PROVE  \E q \in Held(kv, ks) : HasPrefix(KeyBytes(ks, q), pre) /\ k = KeyBytes(ks, q)
  <2>1. k \in ByteKeys(kv) /\ HasPrefix(k, pre) /\ k \in Seq(Nat)
    BY RangeOfPrefix, KeysOfStore DEF Scan, KeyRange, IsPrefixFor
  <2>2. k[1] = PrefixOf[ks]
    <3>1. 1 \in 1..Len(pre)
      BY DEF IsPrefixFor
    <3> QED
      BY <2>1, <3>1 DEF HasPrefix, IsPrefixFor
  <2>3. PICK other \in Keyspace, q \in Quad : <<other, q>> \in kv.keys /\ k = KeyBytes(other, q)
    BY <2>1, <2>2, KeysOfStore, PrefixesDiffer
  <2>4. k[1] = PrefixOf[other]
    BY <2>3, KeyStandsForQuad DEF StandsFor
  <2>5. other = ks
    BY <2>2, <2>4, PrefixesDiffer
  <2> QED
    BY <2>1, <2>3, <2>5 DEF Held
<1>2. ASSUME NEW q \in Held(kv, ks), HasPrefix(KeyBytes(ks, q), pre)
      PROVE  KeyBytes(ks, q) \in Scan(kv, pre)
  <2>1. q \in Quad /\ <<ks, q>> \in kv.keys
    BY DEF Held
  <2>2. KeyBytes(ks, q) \in Seq(Nat)
    BY <2>1, KeyStandsForQuad DEF StandsFor
  <2>3. KeyBytes(ks, q) \in ByteKeys(kv)
    <3>1. <<ks, q>>[1] = ks /\ <<ks, q>>[2] = q
      OBVIOUS
    <3> QED
      BY <2>1, <3>1, Zenon DEF ByteKeys
  <2> QED
    BY <1>2, <2>2, <2>3, RangeOfPrefix DEF Scan, KeyRange, IsPrefixFor
<1> QED
  BY <1>1, <1>2

(***************************************************************************)
(* What a pattern scans                                                    *)
(***************************************************************************)

\* One, two and three fields in one sequence.
LEMMA FieldsJoined ==
  ASSUME NEW V, NEW a \in V, NEW b \in V, NEW c \in V
  PROVE  <<a>> \o <<>> = <<a>> /\ <<a>> \o <<b>> = <<a, b>> /\ <<a>> \o <<b, c>> = <<a, b, c>>
<1>1. <<a>> \o <<>> = <<a>>
  OBVIOUS
<1>2. <<a>> \o <<b>> = <<a, b>>
  <2> DEFINE s == <<a>> \o <<b>>
             t == <<a, b>>
  <2>1. s \in Seq(V) /\ t \in Seq(V) /\ Len(s) = 2 /\ Len(t) = 2
    OBVIOUS
  <2>2. (<<a>> \o <<b>>)[1] = a /\ (<<a>> \o <<b>>)[2] = b
    OBVIOUS
  <2>3. <<a, b>>[1] = a /\ <<a, b>>[2] = b
    OBVIOUS
  <2>4. s[1] = t[1] /\ s[2] = t[2]
    BY <2>2, <2>3, Zenon
  <2> HIDE DEF s, t
  <2>5. \A i \in 1..Len(s) : s[i] = t[i]
    BY <2>1, <2>4
  <2>6. s = t
    BY <2>1, <2>5, SeqEqual
  <2> QED
    BY <2>6 DEF s, t
<1>3. <<a>> \o <<b, c>> = <<a, b, c>>
  <2> DEFINE s == <<a>> \o <<b, c>>
             t == <<a, b, c>>
  <2>1. s \in Seq(V) /\ t \in Seq(V) /\ Len(s) = 3 /\ Len(t) = 3
    OBVIOUS
  <2>2. (<<a>> \o <<b, c>>)[1] = a /\ (<<a>> \o <<b, c>>)[2] = b /\ (<<a>> \o <<b, c>>)[3] = c
    OBVIOUS
  <2>3. <<a, b, c>>[1] = a /\ <<a, b, c>>[2] = b /\ <<a, b, c>>[3] = c
    OBVIOUS
  <2>4. s[1] = t[1] /\ s[2] = t[2] /\ s[3] = t[3]
    BY <2>2, <2>3, Zenon
  <2> HIDE DEF s, t
  <2>5. \A i \in 1..Len(s) : s[i] = t[i]
    BY <2>1, <2>4
  <2>6. s = t
    BY <2>1, <2>5, SeqEqual
  <2> QED
    BY <2>6 DEF s, t
<1> QED
  BY <1>1, <1>2, <1>3

\* The prefix Find scans, by the fields the pattern binds.
LEMMA PrefixByFields ==
  ASSUME NEW pat \in Pattern
  PROVE  /\ pat.s # Wild /\ pat.p = Wild => ScanPrefix(pat) = encodeKey(prefSPO, <<pat.s>>) \o <<sep>>
         /\ pat.s # Wild /\ pat.p # Wild /\ pat.o = Wild =>
              ScanPrefix(pat) = encodeKey(prefSPO, <<pat.s, pat.p>>) \o <<sep>>
         /\ pat.s # Wild /\ pat.p # Wild /\ pat.o # Wild =>
              ScanPrefix(pat) = encodeKey(prefSPO, <<pat.s, pat.p, pat.o>>) \o <<sep>>
         /\ pat.s = Wild /\ pat.p # Wild /\ pat.o = Wild =>
              ScanPrefix(pat) = encodeKey(prefPOS, <<pat.p>>) \o <<sep>>
         /\ pat.s = Wild /\ pat.p # Wild /\ pat.o # Wild =>
              ScanPrefix(pat) = encodeKey(prefPOS, <<pat.p, pat.o>>) \o <<sep>>
         /\ pat.s = Wild /\ pat.p = Wild /\ pat.o # Wild =>
              ScanPrefix(pat) = encodeKey(prefOSP, <<pat.o>>) \o <<sep>>
         /\ pat.s = Wild /\ pat.p = Wild /\ pat.o = Wild /\ pat.l # Wild =>
              ScanPrefix(pat) = encodeKey(prefLSP, <<pat.l>>) \o <<sep>>
         /\ pat.s = Wild /\ pat.p = Wild /\ pat.o = Wild /\ pat.l = Wild =>
              ScanPrefix(pat) = <<prefSPO>>
<1> DEFINE s == pat.s
           p == pat.p
           o == pat.o
           l == pat.l
           tail == IF p = Wild THEN <<>> ELSE Bound(p, o)
           fields == <<s>> \o tail
           pre == ScanPrefix(pat)
           key(x, f) == encodeKey(x, f) \o <<sep>>
<1>1. /\ s # Wild => pre = key(prefSPO, fields)
      /\ s = Wild /\ p # Wild => pre = key(prefPOS, Bound(p, o))
      /\ s = Wild /\ p = Wild /\ o # Wild => pre = key(prefOSP, <<o>>)
      /\ s = Wild /\ p = Wild /\ o = Wild /\ l # Wild => pre = key(prefLSP, <<l>>)
      /\ s = Wild /\ p = Wild /\ o = Wild /\ l = Wild => pre = <<prefSPO>>
  <2> HIDE DEF key
  <2>1. pre = CASE s # Wild -> key(prefSPO, fields)
                [] s = Wild /\ p # Wild -> key(prefPOS, Bound(p, o))
                [] s = Wild /\ p = Wild /\ o # Wild -> key(prefOSP, <<o>>)
                [] s = Wild /\ p = Wild /\ o = Wild /\ l # Wild -> key(prefLSP, <<l>>)
                [] OTHER -> <<prefSPO>>
    BY Zenon DEF ScanPrefix, key
  <2> HIDE DEF s, p, o, l, fields, pre
  <2> QED
    BY <2>1
<1>0. s \in Seq(Nat) /\ p \in Seq(Nat) /\ o \in Seq(Nat)
  BY DEF Pattern
<1>2. /\ o = Wild => Bound(p, o) = <<p>>
      /\ o # Wild => Bound(p, o) = <<p, o>>
  BY DEF Bound
<1>3. /\ p = Wild => fields = <<s>>
      /\ p # Wild /\ o = Wild => fields = <<s, p>>
      /\ p # Wild /\ o # Wild => fields = <<s, p, o>>
  <2> HIDE DEF s, p, o
  <2> QED
    BY <1>0, <1>2, FieldsJoined, Zenon
<1> HIDE DEF fields, pre
<1>4. /\ s # Wild /\ p = Wild => pre = key(prefSPO, <<s>>)
      /\ s # Wild /\ p # Wild /\ o = Wild => pre = key(prefSPO, <<s, p>>)
      /\ s # Wild /\ p # Wild /\ o # Wild => pre = key(prefSPO, <<s, p, o>>)
      /\ s = Wild /\ p # Wild /\ o = Wild => pre = key(prefPOS, <<p>>)
      /\ s = Wild /\ p # Wild /\ o # Wild => pre = key(prefPOS, <<p, o>>)
  BY <1>1, <1>2, <1>3, Zenon
<1> QED
  BY <1>1, <1>4, Zenon DEF pre

\* The scanned keyspace holds every match under the scanned prefix.
LEMMA MatchesAreInScan ==
  ASSUME Encodable, NEW pat \in Pattern
  PROVE  \E ks \in Keyspace :
           /\ IsPrefixFor(PrefixOf[ks], ScanPrefix(pat))
           /\ \A q \in Quad : Matches(pat, q) => HasPrefix(KeyBytes(ks, q), ScanPrefix(pat))
<1> DEFINE s == pat.s
           p == pat.p
           o == pat.o
           l == pat.l
<1>1. s \in Seq(Nat) /\ p \in Seq(Nat) /\ o \in Seq(Nat) /\ l \in Seq(Nat)
  BY DEF Pattern
<1>2. prefSPO \in Nat /\ prefPOS \in Nat /\ prefOSP \in Nat /\ prefLSP \in Nat
  BY DEF prefSPO, prefPOS, prefOSP, prefLSP
<1>3. "SPO" \in Keyspace /\ "POS" \in Keyspace /\ "OSP" \in Keyspace /\ "LSP" \in Keyspace
  BY DEF Keyspace
<1>4. /\ KeyFacts(prefSPO, s, p, o, l) /\ KeyFacts(prefPOS, p, o, s, l)
      /\ KeyFacts(prefOSP, o, s, p, l) /\ KeyFacts(prefLSP, l, s, p, o)
  BY <1>1, <1>2, KeyForms
<1> HIDE DEF s, p, o, l
<1>5. ASSUME NEW q \in Quad, Matches(pat, q)
      PROVE  /\ s # Wild => HasPrefix(KeyBytes("SPO", q), encodeKey(prefSPO, <<s>>) \o <<sep>>)
             /\ s # Wild /\ p # Wild => HasPrefix(KeyBytes("SPO", q), encodeKey(prefSPO, <<s, p>>) \o <<sep>>)
             /\ s # Wild /\ p # Wild /\ o # Wild =>
                  HasPrefix(KeyBytes("SPO", q), encodeKey(prefSPO, <<s, p, o>>) \o <<sep>>)
             /\ p # Wild => HasPrefix(KeyBytes("POS", q), encodeKey(prefPOS, <<p>>) \o <<sep>>)
             /\ p # Wild /\ o # Wild => HasPrefix(KeyBytes("POS", q), encodeKey(prefPOS, <<p, o>>) \o <<sep>>)
             /\ o # Wild => HasPrefix(KeyBytes("OSP", q), encodeKey(prefOSP, <<o>>) \o <<sep>>)
             /\ l # Wild => HasPrefix(KeyBytes("LSP", q), encodeKey(prefLSP, <<l>>) \o <<sep>>)
  <2>1. PICK a \in Text, b \in Text, c \in Text, d \in Text : q = TheQuad(a, b, c, d)
    BY DEF Encodable
  <2>2. a \in Seq(Nat) /\ b \in Seq(Nat) /\ c \in Seq(Nat) /\ d \in Seq(Nat)
    BY TextIsBytes
  <2>3. (s # Wild => a = s) /\ (p # Wild => b = p) /\ (o # Wild => c = o) /\ (l # Wild => d = l)
    BY <1>5, <2>1 DEF Matches, TheQuad, Accepts, s, p, o, l
  <2>4. /\ KeyFacts(prefSPO, a, b, c, d) /\ KeyFacts(prefPOS, b, c, a, d)
        /\ KeyFacts(prefOSP, c, a, b, d) /\ KeyFacts(prefLSP, d, a, b, c)
    BY <1>2, <2>2, KeyForms
  <2>5. /\ KeyBytes("SPO", q) = KeyOf(prefSPO, a, b, c, d)
        /\ KeyBytes("POS", q) = KeyOf(prefPOS, b, c, a, d)
        /\ KeyBytes("OSP", q) = KeyOf(prefOSP, c, a, b, d)
        /\ KeyBytes("LSP", q) = KeyOf(prefLSP, d, a, b, c)
    BY <2>1, <2>2, KeyOfQuad
  <2>6. /\ HasPrefix(KeyBytes("SPO", q), encodeKey(prefSPO, <<a>>) \o <<sep>>)
        /\ HasPrefix(KeyBytes("SPO", q), encodeKey(prefSPO, <<a, b>>) \o <<sep>>)
        /\ HasPrefix(KeyBytes("SPO", q), encodeKey(prefSPO, <<a, b, c>>) \o <<sep>>)
        /\ HasPrefix(KeyBytes("POS", q), encodeKey(prefPOS, <<b>>) \o <<sep>>)
        /\ HasPrefix(KeyBytes("POS", q), encodeKey(prefPOS, <<b, c>>) \o <<sep>>)
        /\ HasPrefix(KeyBytes("OSP", q), encodeKey(prefOSP, <<c>>) \o <<sep>>)
        /\ HasPrefix(KeyBytes("LSP", q), encodeKey(prefLSP, <<d>>) \o <<sep>>)
    BY <2>4, <2>5, Zenon DEF KeyFacts
  <2> QED
    BY <2>3, <2>6, Zenon
<1> DEFINE pre == ScanPrefix(pat)
           Fits(ks) == /\ IsPrefixFor(PrefixOf[ks], pre)
                       /\ \A q \in Quad : Matches(pat, q) => HasPrefix(KeyBytes(ks, q), pre)
<1>6. CASE s # Wild /\ p = Wild
  <2>1. pre = encodeKey(prefSPO, <<s>>) \o <<sep>>
    BY <1>6, PrefixByFields DEF s, p
  <2>2. IsPrefixFor(PrefixOf["SPO"], pre)
    BY <1>4, <2>1, PrefixesDiffer DEF KeyFacts
  <2>3. ASSUME NEW q \in Quad, Matches(pat, q) PROVE HasPrefix(KeyBytes("SPO", q), pre)
    BY <1>5, <1>6, <2>1, <2>3
  <2> QED
    BY <1>3, <2>2, <2>3
<1>7. CASE s # Wild /\ p # Wild /\ o = Wild
  <2>1. pre = encodeKey(prefSPO, <<s, p>>) \o <<sep>>
    BY <1>7, PrefixByFields DEF s, p, o
  <2>2. IsPrefixFor(PrefixOf["SPO"], pre)
    BY <1>4, <2>1, PrefixesDiffer DEF KeyFacts
  <2>3. ASSUME NEW q \in Quad, Matches(pat, q) PROVE HasPrefix(KeyBytes("SPO", q), pre)
    BY <1>5, <1>7, <2>1, <2>3
  <2> QED
    BY <1>3, <2>2, <2>3
<1>8. CASE s # Wild /\ p # Wild /\ o # Wild
  <2>1. pre = encodeKey(prefSPO, <<s, p, o>>) \o <<sep>>
    BY <1>8, PrefixByFields DEF s, p, o
  <2>2. IsPrefixFor(PrefixOf["SPO"], pre)
    BY <1>4, <2>1, PrefixesDiffer DEF KeyFacts
  <2>3. ASSUME NEW q \in Quad, Matches(pat, q) PROVE HasPrefix(KeyBytes("SPO", q), pre)
    BY <1>5, <1>8, <2>1, <2>3
  <2> QED
    BY <1>3, <2>2, <2>3
<1>9. CASE s = Wild /\ p # Wild /\ o = Wild
  <2>1. pre = encodeKey(prefPOS, <<p>>) \o <<sep>>
    BY <1>9, PrefixByFields DEF s, p, o
  <2>2. IsPrefixFor(PrefixOf["POS"], pre)
    BY <1>4, <2>1, PrefixesDiffer DEF KeyFacts
  <2>3. ASSUME NEW q \in Quad, Matches(pat, q) PROVE HasPrefix(KeyBytes("POS", q), pre)
    BY <1>5, <1>9, <2>1, <2>3
  <2> QED
    BY <1>3, <2>2, <2>3
<1>10. CASE s = Wild /\ p # Wild /\ o # Wild
  <2>1. pre = encodeKey(prefPOS, <<p, o>>) \o <<sep>>
    BY <1>10, PrefixByFields DEF s, p, o
  <2>2. IsPrefixFor(PrefixOf["POS"], pre)
    BY <1>4, <2>1, PrefixesDiffer DEF KeyFacts
  <2>3. ASSUME NEW q \in Quad, Matches(pat, q) PROVE HasPrefix(KeyBytes("POS", q), pre)
    BY <1>5, <1>10, <2>1, <2>3
  <2> QED
    BY <1>3, <2>2, <2>3
<1>11. CASE s = Wild /\ p = Wild /\ o # Wild
  <2>1. pre = encodeKey(prefOSP, <<o>>) \o <<sep>>
    BY <1>11, PrefixByFields DEF s, p, o
  <2>2. IsPrefixFor(PrefixOf["OSP"], pre)
    BY <1>4, <2>1, PrefixesDiffer DEF KeyFacts
  <2>3. ASSUME NEW q \in Quad, Matches(pat, q) PROVE HasPrefix(KeyBytes("OSP", q), pre)
    BY <1>5, <1>11, <2>1, <2>3
  <2> QED
    BY <1>3, <2>2, <2>3
<1>12. CASE s = Wild /\ p = Wild /\ o = Wild /\ l # Wild
  <2>1. pre = encodeKey(prefLSP, <<l>>) \o <<sep>>
    BY <1>12, PrefixByFields DEF s, p, o, l
  <2>2. IsPrefixFor(PrefixOf["LSP"], pre)
    BY <1>4, <2>1, PrefixesDiffer DEF KeyFacts
  <2>3. ASSUME NEW q \in Quad, Matches(pat, q) PROVE HasPrefix(KeyBytes("LSP", q), pre)
    BY <1>5, <1>12, <2>1, <2>3
  <2> QED
    BY <1>3, <2>2, <2>3
<1>13. CASE s = Wild /\ p = Wild /\ o = Wild /\ l = Wild
  <2>1. pre = <<prefSPO>>
    BY <1>13, PrefixByFields DEF s, p, o, l
  <2>2. IsPrefixFor(PrefixOf["SPO"], <<prefSPO>>)
    BY <1>2, PrefixesDiffer DEF IsPrefixFor
  <2>3. ASSUME NEW q \in Quad PROVE HasPrefix(KeyBytes("SPO", q), <<prefSPO>>)
    <3>1. KeyBytes("SPO", q) \in Seq(Nat) /\ KeyBytes("SPO", q) # <<>> /\ KeyBytes("SPO", q)[1] = prefSPO
      BY <1>3, KeyStandsForQuad, PrefixesDiffer DEF StandsFor
    <3> HIDE DEF KeyBytes
    <3> QED
      BY <3>1 DEF HasPrefix
  <2> QED
    BY <1>3, <2>1, <2>2, <2>3, Zenon
<1> QED
  BY <1>6, <1>7, <1>8, <1>9, <1>10, <1>11, <1>12, <1>13 DEF pre

\* What one keyspace of a store holds, all hold.
Whole(kv) == kv \in Contents /\ \A ks \in Keyspace : Held(kv, ks) = Held(kv, "SPO")

\* The matches of a store that is whole, read from any keyspace.
LEMMA MatchingIsHeld ==
  ASSUME NEW kv, Whole(kv), NEW pat, NEW ks \in Keyspace
  PROVE  Matching(kv, pat) = {q \in Held(kv, ks) : Matches(pat, q)}
<1>1. \A q \in Quad : FourKeys(q) \subseteq kv.keys <=> \A other \in Keyspace : <<other, q>> \in kv.keys
  BY DEF FourKeys
<1>2. \A q \in Quad : q \in Held(kv, ks) <=> \A other \in Keyspace : <<other, q>> \in kv.keys
  <2>1. \A other \in Keyspace : Held(kv, other) = Held(kv, ks)
    BY DEF Whole
  <2> QED
    BY <2>1 DEF Held
<1>3. Held(kv, ks) \subseteq Quad
  BY DEF Held
<1> QED
  BY <1>1, <1>2, <1>3 DEF Matching

\* Find yields the quads of the store that match, and no others.
LEMMA FindIsMatching ==
  ASSUME Encodable, NEW kv, Whole(kv), NEW pat \in Pattern
  PROVE  FindIn(kv, pat) = Matching(kv, pat)
<1>1. PICK ks \in Keyspace :
        /\ IsPrefixFor(PrefixOf[ks], ScanPrefix(pat))
        /\ \A q \in Quad : Matches(pat, q) => HasPrefix(KeyBytes(ks, q), ScanPrefix(pat))
  BY MatchesAreInScan
<1> DEFINE pre == ScanPrefix(pat)
           In  == {q \in Held(kv, ks) : HasPrefix(KeyBytes(ks, q), pre)}
<1>2. Scan(kv, pre) = {KeyBytes(ks, q) : q \in In}
  BY <1>1, ScanOfKeyspace DEF Whole
<1>3. In \subseteq Quad /\ In \subseteq Held(kv, ks)
  BY DEF Held
<1>4. \A q \in In : decodeQuadKey(KeyBytes(ks, q)) = {q}
  BY <1>3, KeyStandsForQuad DEF StandsFor
<1> HIDE DEF In
<1>5. UNION {decodeQuadKey(k) : k \in Scan(kv, pre)} = In
  BY <1>2, <1>4
<1>6. FindIn(kv, pat) = {q \in In : Matches(pat, q)}
  BY <1>5, Zenon DEF FindIn
<1>7. \A q \in Held(kv, ks) : Matches(pat, q) => q \in In
  BY <1>1 DEF In, Held
<1> QED
  BY <1>3, <1>6, <1>7, MatchingIsHeld

(***************************************************************************)
(* The moments of a call                                                   *)
(***************************************************************************)

\* A call opens its iterators while it runs: the contents of its moments are
\* contents of the store, each whole, and what it reads is among them.
MomentInv ==
  /\ rd = [f \in ReadFields |-> rd[f]] /\ rd.done \in BOOLEAN
  /\ rd.op = "none" => rd.done = FALSE
  /\ rd.op # "none" /\ ~rd.done => db \in rd.since /\ rd.snap \in rd.since
  /\ \A kv \in rd.since : Whole(kv)

\* A call begins with the contents of the store as its first moment.
LEMMA BeginMoment ==
  ASSUME NEW op, NEW arg, Begin(op, arg)
  PROVE  /\ rd.op = "none" /\ rd'.op = op /\ rd'.arg = arg /\ rd'.done = FALSE
         /\ rd'.snap = db /\ rd'.since = {db} /\ rd'.found = <<>>
         /\ rd' = [f \in ReadFields |-> rd'[f]]
BY DEF Begin, NoRead, ReadFields

\* An answer ends a call and leaves its moments alone.
LEMMA AnswerMoment ==
  ASSUME MomentInv, NEW op, NEW found, Answer(op, found)
  PROVE  /\ rd.op = op /\ rd.done = FALSE /\ rd'.op = op /\ rd'.done = TRUE /\ rd'.found = found
         /\ rd'.arg = rd.arg /\ rd'.since = rd.since /\ rd'.cut = rd.cut
         /\ rd' = [f \in ReadFields |-> rd'[f]]
BY DEF Answer, Step, MomentInv, ReadFields

\* LabelCounts begins at the first key of its keyspace.
LEMMA LabelCountsMoment ==
  ASSUME LabelCounts
  PROVE  /\ rd.op = "none" /\ rd'.op = "labels" /\ rd'.done = FALSE
         /\ rd'.snap = db /\ rd'.since = {db} /\ rd'.found = <<>> /\ rd'.from = <<prefLSP>>
         /\ rd'.cut = {}
         /\ rd' = [f \in ReadFields |-> rd'[f]]
BY DEF LabelCounts, NoRead, ReadFields

\* The steps in the middle of a call.
LEMMA MiddleMoment ==
  ASSUME MomentInv, CountLabel \/ CountLabelCut \/ StatsQuads \/ StatsCommits
  PROVE  /\ rd.done = FALSE /\ rd'.done = FALSE /\ rd'.arg = rd.arg /\ rd'.since = rd.since /\ rd'.snap = rd.snap
         /\ rd' = [f \in ReadFields |-> rd'[f]]
         /\ \/ (CountLabel \/ CountLabelCut) /\ rd.op = "labels" /\ rd'.op = "labels"
            \/ StatsQuads /\ rd.op = "stats" /\ rd'.op = "predicates"
            \/ StatsCommits /\ rd.op = "commits" /\ rd'.op = "ops"
<1>1. CASE CountLabel \/ CountLabelCut
  BY <1>1 DEF CountLabel, CountLabelCut, Step, MomentInv, ReadFields
<1>2. CASE StatsQuads
  BY <1>2 DEF StatsQuads, Step, MomentInv, ReadFields
<1>3. CASE StatsCommits
  BY <1>3 DEF StatsCommits, Step, MomentInv, ReadFields
<1> QED
  BY <1>1, <1>2, <1>3

\* Between two calls there is no moment.
LEMMA NoReadMoment ==
  /\ NoRead = [f \in ReadFields |-> NoRead[f]] /\ NoRead.done = FALSE /\ NoRead.op = "none"
  /\ NoRead.since = {}
BY DEF NoRead, ReadFields

\* What another goroutine stores during a call is one more moment of it.
LEMMA MeanwhileMoment ==
  ASSUME MomentInv, Meanwhile
  PROVE  /\ rd.done = FALSE /\ rd'.done = FALSE /\ rd'.op = rd.op /\ rd'.arg = rd.arg
         /\ rd'.snap = rd.snap /\ rd'.from = rd.from /\ rd'.found = rd.found /\ rd'.cut = rd.cut
         /\ rd.op = "none" => rd' = rd
         /\ rd.op # "none" => rd'.since = rd.since \cup {db'}
         /\ rd.since \subseteq rd'.since
         /\ rd' = [f \in ReadFields |-> rd'[f]]
BY DEF Meanwhile, MomentInv, ReadFields

\* What the reader does in a step: the calls that begin, go on and answer.
LEMMA ReaderSteps ==
  ASSUME Reader
  PROVE  \/ \E op \in {"find", "count", "stats", "commits", "checkpoint"} : \E arg : Begin(op, arg)
         \/ LabelCounts
         \/ CountLabel \/ CountLabelCut \/ StatsQuads \/ StatsCommits
         \/ Drain \/ Counted \/ LabelsDone \/ StatsPredicates \/ StatsOps \/ TakeCheckpoint
         \/ ReadFails \/ Return
BY DEF Reader, Find, Count, Stats, CommitStatsAt, Checkpoint

\* Each step that answers is an answer to one of the calls.
LEMMA Answers ==
  ASSUME Drain \/ Counted \/ LabelsDone \/ StatsPredicates \/ StatsOps \/ TakeCheckpoint
  PROVE  \E op \in {"find", "count", "labels", "predicates", "ops", "checkpoint"} : \E found : Answer(op, found)
<1>1. CASE StatsPredicates
  BY <1>1 DEF StatsPredicates
<1>2. CASE StatsOps
  BY <1>2 DEF StatsOps
<1> QED
  BY <1>1, <1>2 DEF Drain, Counted, LabelsDone, TakeCheckpoint

\* The call each step is of.
LEMMA OpAfter ==
  ASSUME MomentInv, Reader
  PROVE  \/ (Find \/ Drain) /\ rd'.op = "find"
         \/ (Count \/ Counted) /\ rd'.op = "count"
         \/ (LabelCounts \/ CountLabel \/ CountLabelCut \/ LabelsDone) /\ rd'.op = "labels"
         \/ Stats /\ rd'.op = "stats"
         \/ (StatsQuads \/ StatsPredicates) /\ rd'.op = "predicates"
         \/ CommitStatsAt /\ rd'.op = "commits"
         \/ (StatsCommits \/ StatsOps) /\ rd'.op = "ops"
         \/ (Checkpoint \/ TakeCheckpoint) /\ rd'.op = "checkpoint"
         \/ (ReadFails \/ Return) /\ rd' = NoRead
<1>1. CASE Find \/ Count \/ Stats \/ CommitStatsAt \/ Checkpoint
  BY <1>1, BeginMoment DEF Find, Count, Stats, CommitStatsAt, Checkpoint
<1>2. CASE Drain \/ Counted \/ LabelsDone
  BY <1>2, AnswerMoment DEF Drain, Counted, LabelsDone
<1>3. CASE StatsPredicates
  BY <1>3, AnswerMoment DEF StatsPredicates
<1>4. CASE StatsOps
  BY <1>4, AnswerMoment DEF StatsOps
<1>5. CASE TakeCheckpoint
  BY <1>5, AnswerMoment DEF TakeCheckpoint
<1>6. CASE LabelCounts \/ CountLabel \/ CountLabelCut \/ StatsQuads \/ StatsCommits
  BY <1>6, LabelCountsMoment, MiddleMoment
<1>7. CASE ReadFails \/ Return
  BY <1>7 DEF ReadFails, Return
<1> QED
  BY <1>1, <1>2, <1>3, <1>4, <1>5, <1>6, <1>7 DEF Reader

\* The reader leaves the moments of its call whole.
LEMMA ReaderKeepsMoment ==
  ASSUME MomentInv, Whole(db), Reader, UNCHANGED vars
  PROVE  MomentInv'
<1>0. UNCHANGED db
  BY DEF vars
<1>1. ASSUME NEW op \in {"find", "count", "stats", "commits", "checkpoint"}, NEW arg, Begin(op, arg)
      PROVE  MomentInv'
  BY <1>0, <1>1, BeginMoment DEF MomentInv
<1>2. CASE LabelCounts
  BY <1>0, <1>2, LabelCountsMoment DEF MomentInv
<1>3. CASE CountLabel \/ CountLabelCut \/ StatsQuads \/ StatsCommits
  BY <1>0, <1>3, MiddleMoment DEF MomentInv
<1>4. CASE Drain \/ Counted \/ LabelsDone \/ StatsPredicates \/ StatsOps \/ TakeCheckpoint
  <2>1. PICK op \in {"find", "count", "labels", "predicates", "ops", "checkpoint"} : \E found : Answer(op, found)
    BY <1>4, Answers
  <2> QED
    BY <1>0, <2>1, AnswerMoment DEF MomentInv
<1>5. CASE ReadFails \/ Return
  BY <1>5, NoReadMoment DEF ReadFails, Return, MomentInv
<1> QED
  BY <1>1, <1>2, <1>3, <1>4, <1>5, ReaderSteps

\* The steps of the whole, as an invariant about the reader needs them.
LEMMA ReadSteps ==
  ASSUME [RNext]_<<vars, rd>>
  PROVE  \/ Reader /\ UNCHANGED vars
         \/ Meanwhile /\ \E p \in Proc : Writer(p) \/ Loader(p) \/ Importer(p)
         \/ rd' = NoRead
         \/ UNCHANGED rd /\ (UNCHANGED vars \/ rd = NoRead)
BY DEF RNext

\* So does every step.
LEMMA MomentKept ==
  ASSUME MomentInv, Whole(db), Whole(db'), [RNext]_<<vars, rd>>
  PROVE  MomentInv'
<1>1. CASE Reader /\ UNCHANGED vars
  BY <1>1, ReaderKeepsMoment
<1>2. CASE Meanwhile
  BY <1>2, MeanwhileMoment DEF MomentInv
<1>3. CASE rd' = NoRead
  BY <1>3, NoReadMoment DEF MomentInv
<1>4. CASE UNCHANGED rd /\ UNCHANGED vars
  BY <1>4 DEF MomentInv, vars
<1>5. CASE UNCHANGED rd /\ rd = NoRead
  BY <1>5, NoReadMoment DEF MomentInv
<1> QED
  BY <1>1, <1>2, <1>3, <1>4, <1>5, ReadSteps

\* The contents of the store are whole: every batch writes all four keyspaces.
LEMMA StoreIsWhole == RSpec => []Whole(db)
<1>1. KeyspacesAgree /\ TypeOK => Whole(db)
  BY DEF KeyspacesAgree, TypeOK, Whole
<1> QED
  BY <1>1, ReaderLeavesWriters, KeyspacesAlwaysAgree, TypeCorrect, PTL

\* Every moment of every call is whole.
LEMMA MomentsAreWhole == RSpec => []MomentInv
<1>1. RInit => MomentInv
  BY NoReadMoment DEF RInit, MomentInv
<1>2. MomentInv /\ Whole(db) /\ Whole(db)' /\ [RNext]_<<vars, rd>> => MomentInv'
  BY MomentKept
<1> QED
  BY <1>1, <1>2, StoreIsWhole, PTL DEF RSpec

----------------------------------------------------------------------------
(***************************************************************************)
(* Find                                                                    *)
(***************************************************************************)

\* Find answers what its snapshot matches.
FindInv ==
  /\ rd.op = "find" /\ ~rd.done => rd.arg \in PatternChoice
  /\ FindExact

\* FindInv is inductive: Drain reads the snapshot, which is a moment of the call.
LEMMA FindKept ==
  ASSUME Encodable, MomentInv, FindInv, [RNext]_<<vars, rd>>
  PROVE  FindInv'
<1>1. CASE Find
  BY <1>1, BeginMoment DEF Find, FindInv, FindExact, Answered
<1>2. CASE Drain
  <2>1. /\ rd.op = "find" /\ rd.done = FALSE /\ rd'.done = TRUE /\ rd'.found = FindIn(rd.snap, rd.arg)
        /\ rd'.arg = rd.arg /\ rd'.since = rd.since
    BY <1>2, AnswerMoment DEF Drain
  <2>2. rd.snap \in rd.since /\ Whole(rd.snap) /\ rd.arg \in Pattern
    BY <2>1, ReadsAssumption DEF MomentInv, FindInv
  <2>3. rd'.found = Matching(rd.snap, rd.arg)
    BY <2>1, <2>2, FindIsMatching
  <2> QED
    BY <2>1, <2>2, <2>3 DEF FindInv, FindExact, Answered, Matching
<1>3. CASE Meanwhile
  BY <1>3, MeanwhileMoment DEF FindInv, FindExact, Answered
<1>4. CASE rd' = NoRead
  BY <1>4, NoReadMoment DEF FindInv, FindExact, Answered
<1>5. CASE UNCHANGED rd
  BY <1>5 DEF FindInv, FindExact, Answered, Matching
<1>6. CASE Reader /\ ~Find /\ ~Drain /\ rd' # NoRead
  BY <1>6, OpAfter DEF FindInv, FindExact, Answered
<1> QED
  BY <1>1, <1>2, <1>3, <1>4, <1>5, <1>6, ReadSteps

(***************************************************************************)
(* Count                                                                   *)
(***************************************************************************)

\* No import of sorted rows is let in: each is refused, or there is none.  IngestSorted
\* adds its counters in a second step, after the rows can be read, and until then the
\* counters say less than the keyspaces do.
NoImports == "ingest" \in Kinds => \A g \in IngestChoice : Refused(g)

\* Nothing was stored whose counters are still to be added.
AllCounted ==
  /\ \A w \in worlds : w.uncounted = Zero
  /\ \A p \in Proc : pc[p] # "counting"

\* Which batches leave rows uncounted.
LEMMA UncountedAfter ==
  ASSUME NEW kv \in Contents, NEW id, NEW x
  PROVE  /\ CommittedTo(kv, id, x).uncounted = kv.uncounted
         /\ FlushedTo(kv, id, x).uncounted = kv.uncounted
         /\ RecountedTo(kv, x).uncounted = Zero
BY DEF CommittedTo, FlushedTo, RecountedTo, Contents

\* Without imports no quad is ever stored ahead of its counter.
LEMMA EverythingCounted ==
  ASSUME NoImports
  PROVE  Spec => []AllCounted
<1>1. Init => AllCounted
  BY DEF Init, AllCounted, EmptyContents
<1>2. TypeInv /\ AllCounted /\ [Next]_vars => AllCounted'
  <2> SUFFICES ASSUME TypeInv, AllCounted, [Next]_vars
               PROVE  AllCounted'
    OBVIOUS
  <2>0. db \in worlds /\ worlds \subseteq Contents /\ db \in Contents /\ db.uncounted = Zero
        /\ pc \in [Proc -> PC]
    BY DEF TypeInv, TypeOK, AllCounted
  <2>1. ASSUME NEW p \in Proc, Writer(p)
        PROVE  AllCounted'
    <3>1. \A o \in Proc : pc'[o] # "counting"
      BY <2>0, <2>1 DEF Writer, OpenWriter, CloseWriter, BeginCommit, ApplyCommit, SyncCommit, Goto, AllCounted
    <3>2. \A w \in worlds' : w.uncounted = Zero
      BY <2>0, <2>1, UncountedAfter
         DEF Writer, OpenWriter, CloseWriter, BeginCommit, ApplyCommit, SyncCommit, WriteSync, WriteNoSync, AllCounted
    <3> QED
      BY <3>1, <3>2 DEF AllCounted
  <2>2. ASSUME NEW p \in Proc, Loader(p)
        PROVE  AllCounted'
    <3>1. \A o \in Proc : pc'[o] # "counting"
      BY <2>0, <2>2 DEF Loader, OpenLoader, LoaderAdd, LoaderFlush, LoaderClose, LoaderHarden, Goto, AllCounted
    <3>2. ASSUME NEW loader, Flush(p, loader) PROVE \A w \in worlds' : w.uncounted = Zero
      BY <2>0, <3>2, UncountedAfter DEF Flush, WriteNoSync, AllCounted
    <3>3. \A w \in worlds' : w.uncounted = Zero
      BY <2>0, <2>2, <3>2
         DEF Loader, OpenLoader, LoaderAdd, LoaderFlush, LoaderClose, LoaderHarden, WriteSync, AllCounted
    <3> QED
      BY <3>1, <3>3 DEF AllCounted
  <2>3. ASSUME NEW p \in Proc, Importer(p)
        PROVE  AllCounted'
    <3>1. \A g \in IngestChoice : ~IngestTables(p, g)
      BY DEF IngestTables, NoImports, Refused
    <3>2. ~IngestCounters(p)
      BY DEF IngestCounters, Goto, AllCounted
    <3>3. CASE RebuildScan(p)
      BY <2>0, <3>3 DEF RebuildScan, Goto, AllCounted
    <3>4. CASE RebuildReplace(p)
      BY <2>0, <3>4, UncountedAfter DEF RebuildReplace, Goto, WriteSync, AllCounted
    <3> QED
      BY <2>3, <3>1, <3>2, <3>3, <3>4 DEF Importer
  <2>4. CASE Crash \/ Reopen
    BY <2>0, <2>4 DEF Crash, Reopen, NoHandles, WriteSync, AllCounted
  <2>5. CASE UNCHANGED vars
    BY <2>5 DEF vars, AllCounted
  <2> QED
    BY <2>1, <2>2, <2>3, <2>4, <2>5 DEF Next
<1> QED
  BY <1>1, <1>2, TypeInvariant, PTL DEF Spec

----------------------------------------------------------------------------
\* The counters of these contents are the numbers of quads.
CountersTrue(kv) == kv.count = LabelScan(kv)

\* A label asked for alone is one of the labels there are, stored or not.
LabelPatterns == \A pat \in PatternChoice : LabelOnly(pat) => pat.l \in AnyLabel

\* Count answers the counter of its moment, or what it finds in its snapshot.
CountedInv ==
  /\ \A kv \in rd.since : CountersTrue(kv)
  /\ rd.op = "count" /\ ~rd.done => rd.arg \in PatternChoice
  /\ CountExact

\* The matches of a label alone are the quads that carry it.
LEMMA LabelMatching ==
  ASSUME NEW kv, Whole(kv), NEW pat \in Pattern, LabelOnly(pat), pat.l \in AnyLabel
  PROVE  Cardinality(Matching(kv, pat)) = LabelScan(kv)[pat.l]
<1>1. Matching(kv, pat) = {q \in Held(kv, "LSP") : Matches(pat, q)}
  BY MatchingIsHeld DEF Keyspace
<1>2. \A q : Matches(pat, q) <=> q.label = pat.l
  BY DEF Matches, LabelOnly, Accepts
<1>3. Matching(kv, pat) = {q \in Held(kv, "LSP") : q.label = pat.l}
  BY <1>1, <1>2
<1> QED
  BY <1>3 DEF LabelScan

\* The two ways to count, by a counter and by a scan, agree.
LEMMA CountOfMoment ==
  ASSUME Encodable, LabelPatterns, NEW kv, Whole(kv), CountersTrue(kv), NEW pat \in PatternChoice
  PROVE  CountIn(kv, pat) = Cardinality(Matching(kv, pat))
<1>1. pat \in Pattern
  BY ReadsAssumption
<1>2. CASE LabelOnly(pat)
  BY <1>1, <1>2, LabelMatching DEF CountIn, CountersTrue, LabelPatterns
<1>3. CASE ~LabelOnly(pat)
  BY <1>1, <1>3, FindIsMatching DEF CountIn
<1> QED
  BY <1>2, <1>3

\* CountedInv is inductive, while the counters are true.
LEMMA CountKept ==
  ASSUME Encodable, LabelPatterns, MomentInv, CountedInv, CountersTrue(db), CountersTrue(db'), [RNext]_<<vars, rd>>
  PROVE  CountedInv'
<1>0. ASSUME UNCHANGED vars PROVE CountersTrue(db')
  BY <1>0 DEF vars
<1> DEFINE Since == \A kv \in rd'.since : CountersTrue(kv)
<1>1. CASE Count
  BY <1>0, <1>1, BeginMoment DEF Count, CountedInv, CountExact, Answered
<1>2. CASE Counted
  <2>1. /\ rd.op = "count" /\ rd.done = FALSE /\ rd'.done = TRUE /\ rd'.found = CountIn(rd.snap, rd.arg)
        /\ rd'.arg = rd.arg /\ rd'.since = rd.since
    BY <1>2, AnswerMoment DEF Counted
  <2>2. rd.snap \in rd.since /\ Whole(rd.snap) /\ CountersTrue(rd.snap) /\ rd.arg \in PatternChoice
    BY <2>1 DEF MomentInv, CountedInv
  <2>3. rd'.found = Cardinality(Matching(rd.snap, rd.arg))
    BY <2>1, <2>2, CountOfMoment
  <2> QED
    BY <2>1, <2>2, <2>3 DEF CountedInv, CountExact, Answered, Matching
<1>3. CASE Meanwhile
  <2>1. Since
    BY <1>3, MeanwhileMoment DEF CountedInv
  <2> QED
    BY <1>3, <2>1, MeanwhileMoment DEF CountedInv, CountExact, Answered
<1>4. CASE rd' = NoRead
  BY <1>4, NoReadMoment DEF CountedInv, CountExact, Answered
<1>5. CASE UNCHANGED rd
  BY <1>5 DEF CountedInv, CountExact, Answered, Matching
<1>6. CASE Reader /\ ~Count /\ ~Counted /\ rd' # NoRead
  <2>1. rd'.op # "count"
    BY <1>6, OpAfter
  <2>2. rd'.since = rd.since \/ rd'.since = {db}
    BY <1>6, BeginMoment, LabelCountsMoment, MiddleMoment, AnswerMoment, Answers, ReaderSteps DEF ReadFails, Return
  <2> QED
    BY <2>1, <2>2 DEF CountedInv, CountExact, Answered
<1> QED
  BY <1>1, <1>2, <1>3, <1>4, <1>5, <1>6, ReadSteps

(***************************************************************************)
(* Stats                                                                   *)
(***************************************************************************)

\* Where a function tells the members of a finite set apart, its values are
\* as many as they.
LEMMA AsMany ==
  ASSUME NEW S, IsFiniteSet(S), NEW f, \A x, y \in S : f[x] = f[y] => x = y
  PROVE  /\ Cardinality({f[x] : x \in S}) = Cardinality(S)
         /\ IsFiniteSet({f[x] : x \in S})
<1> DEFINE T == {f[x] : x \in S}
           g == [x \in S |-> f[x]]
<1>1. g \in Bijection(S, T)
  BY DEF Bijection, Injection, IsInjective, Surjection
<1>2. ExistsBijection(S, T)
  BY <1>1 DEF ExistsBijection
<1> HIDE DEF T
<1>3. IsFiniteSet(T) /\ Cardinality(T) = Cardinality(S)
  BY <1>2, FS_Bijection
<1> QED
  BY <1>3 DEF T

\* A keyspace holds finitely many quads.
LEMMA HeldFinite ==
  ASSUME NEW kv, NEW ks
  PROVE  Held(kv, ks) \subseteq Quad /\ IsFiniteSet(Held(kv, ks)) /\ IsFiniteSet(Quad)
<1>1. Held(kv, ks) \subseteq Quad
  BY DEF Held
<1> QED
  BY <1>1, ConstantsAssumption, FS_Subset

\* The keys of a scan are as many as the quads they stand for.
LEMMA ScanCounts ==
  ASSUME Encodable, NEW kv \in Contents, NEW ks \in Keyspace, NEW pre, IsPrefixFor(PrefixOf[ks], pre)
  PROVE  Cardinality(Scan(kv, pre)) = Cardinality({q \in Held(kv, ks) : HasPrefix(KeyBytes(ks, q), pre)})
<1> DEFINE S == {q \in Held(kv, ks) : HasPrefix(KeyBytes(ks, q), pre)}
           f == [q \in Quad |-> KeyBytes(ks, q)]
<1>1. S \subseteq Quad /\ IsFiniteSet(S)
  BY HeldFinite, FS_Subset
<1>2. \A q \in S : f[q] = KeyBytes(ks, q)
  BY <1>1
<1>3. Scan(kv, pre) = {KeyBytes(ks, q) : q \in S}
  BY ScanOfKeyspace
<1>4. \A x, y \in S : f[x] = f[y] => x = y
  <2> SUFFICES ASSUME NEW x \in S, NEW y \in S, KeyBytes(ks, x) = KeyBytes(ks, y) PROVE x = y
    BY <1>2
  <2>1. decodeQuadKey(KeyBytes(ks, x)) = {x} /\ decodeQuadKey(KeyBytes(ks, y)) = {y}
    BY <1>1, KeyStandsForQuad DEF StandsFor
  <2> QED
    BY <2>1
<1> HIDE DEF S, f
<1>5. Scan(kv, pre) = {f[q] : q \in S}
  BY <1>2, <1>3
<1> QED
  BY <1>1, <1>4, <1>5, AsMany DEF S

\* A scan of a whole keyspace.
LEMMA ScanOfAll ==
  ASSUME Encodable, NEW kv \in Contents, NEW ks \in Keyspace
  PROVE  /\ Scan(kv, <<PrefixOf[ks]>>) = {KeyBytes(ks, q) : q \in Held(kv, ks)}
         /\ Cardinality(Scan(kv, <<PrefixOf[ks]>>)) = Cardinality(Held(kv, ks))
<1> DEFINE x == PrefixOf[ks]
<1>1. x \in Nat
  BY PrefixesDiffer
<1>2. IsPrefixFor(x, <<x>>)
  BY <1>1 DEF IsPrefixFor
<1>3. ASSUME NEW k \in Seq(Nat), k # <<>>, k[1] = x PROVE HasPrefix(k, <<x>>)
  BY <1>1, <1>3 DEF HasPrefix
<1> HIDE DEF x
<1>4. \A q \in Held(kv, ks) : HasPrefix(KeyBytes(ks, q), <<x>>)
  BY <1>3, HeldFinite, KeyStandsForQuad DEF StandsFor, x
<1>5. {q \in Held(kv, ks) : HasPrefix(KeyBytes(ks, q), <<x>>)} = Held(kv, ks)
  BY <1>4
<1> QED
  BY <1>2, <1>5, ScanOfKeyspace, ScanCounts DEF x

\* The first field of a key, with the bytes that enclose it.
FirstPart(x, a) == Cat(Cat(<<x>>, a), <<sep>>)

\* What is between the bytes that enclose the first field.
LEMMA FirstPartFacts ==
  ASSUME NEW x \in Nat, NEW a \in Seq(Nat)
  PROVE  /\ FirstPart(x, a) \in Seq(Nat) /\ Len(FirstPart(x, a)) = Len(a) + 2
         /\ SubSeq(FirstPart(x, a), 2, Len(FirstPart(x, a)) - 1) = a
         /\ IsPrefixFor(x, FirstPart(x, a))
<1> DEFINE t == FirstPart(x, a)
<1>1. /\ t \in Seq(Nat) /\ Len(t) = Len(a) + 2 /\ t[1] = x
      /\ \A i \in 1..Len(a) : t[i + 1] = a[i]
  BY DEF FirstPart, Cat, sep
<1> HIDE DEF t
<1>2. Len(SubSeq(t, 2, Len(t) - 1)) = Len(a)
      /\ \A i \in 1..Len(a) : SubSeq(t, 2, Len(t) - 1)[i] = a[i]
  BY <1>1
<1>3. SubSeq(t, 2, Len(t) - 1) \in Seq(Nat)
  BY <1>1
<1>4. SubSeq(t, 2, Len(t) - 1) = a
  BY <1>2, <1>3, SeqEqual
<1>5. t # <<>>
  BY <1>1
<1> QED
  BY <1>1, <1>4, <1>5 DEF t, IsPrefixFor

\* What FirstField cuts off a key.
LEMMA FirstFieldOfKey ==
  ASSUME NEW x \in Nat, NEW a \in Text, NEW b \in Seq(Nat), NEW c \in Seq(Nat), NEW d \in Seq(Nat),
         NEW key, key = KeyOf(x, a, b, c, d)
  PROVE  FirstField(key) = FirstPart(x, a) /\ HasPrefix(key, FirstPart(x, a)) /\ key \in Seq(Nat)
<1> DEFINE pre == FirstPart(x, a)
<1>1. a \in Seq(Nat)
  BY TextIsBytes
<1>2. KeyFacts(x, a, b, c, d)
  BY <1>1, KeyForms
<1>3. encodeKey(x, <<a>>) \o <<sep>> = pre
  <2>1. Encodes(x, a, a, a, a)
    BY <1>1, EncodedKey
  <2>2. encodeKey(x, <<a>>) = <<x>> \o a
    BY <2>1 DEF Encodes
  <2> QED
    BY <2>2, Zenon DEF FirstPart, Cat
<1>4. HasPrefix(key, pre) /\ key \in Seq(Nat)
  BY <1>2, <1>3, Zenon DEF KeyFacts
<1>5. Field(b, Field(c, d)) \in Seq(Nat)
  BY FieldType
<1>6. Tail(key) = a \o (<<sep>> \o Field(b, Field(c, d)))
  <2>1. Tail(key) = Joined(a, b, c, d)
    BY <1>1, JoinedType, TailOfKey DEF KeyOf
  <2> QED
    BY <2>1, Zenon DEF Joined, Field
<1>7. IndexByte(Tail(key)) = Len(a) + 1
  BY <1>5, <1>6, IndexByteOfFirst
<1>8. pre \in Seq(Nat) /\ Len(pre) = Len(a) + 2 /\ Len(a) \in Nat
  BY <1>1, FirstPartFacts
<1> HIDE DEF pre
<1>9. FirstField(key) = SubSeq(key, 1, Len(pre))
  <2>1. 1 + IndexByte(Tail(key)) = Len(pre)
    BY <1>7, <1>8
  <2> QED
    BY <2>1 DEF FirstField
<1>10. SubSeq(key, 1, Len(pre)) = pre
  <2>1. Len(SubSeq(key, 1, Len(pre))) = Len(pre) /\ \A i \in 1..Len(pre) : SubSeq(key, 1, Len(pre))[i] = pre[i]
    BY <1>4, <1>8 DEF HasPrefix
  <2>2. SubSeq(key, 1, Len(pre)) \in Seq(Nat)
    BY <1>4, <1>8 DEF HasPrefix
  <2> QED
    BY <1>8, <2>1, <2>2, SeqEqual
<1> QED
  BY <1>4, <1>9, <1>10 DEF pre

\* The predicate of a POS key and the label of an LSP key.
LEMMA FirstFieldOfQuad ==
  ASSUME Encodable, NEW q \in Quad
  PROVE  /\ q.stmt[2] \in Text /\ q.label \in Text
         /\ FirstField(KeyBytes("POS", q)) = FirstPart(prefPOS, q.stmt[2])
         /\ FirstField(KeyBytes("LSP", q)) = FirstPart(prefLSP, q.label)
         /\ HasPrefix(KeyBytes("LSP", q), FirstPart(prefLSP, q.label))
<1>1. PICK s \in Text, p \in Text, o \in Text, l \in Text : q = TheQuad(s, p, o, l)
  BY DEF Encodable
<1>2. s \in Seq(Nat) /\ p \in Seq(Nat) /\ o \in Seq(Nat) /\ l \in Seq(Nat)
  BY TextIsBytes
<1>3. q.stmt[2] = p /\ q.label = l
  BY <1>1 DEF TheQuad
<1>4. prefPOS \in Nat /\ prefLSP \in Nat
  BY DEF prefPOS, prefLSP
<1>5. KeyBytes("POS", q) = KeyOf(prefPOS, p, o, s, l) /\ KeyBytes("LSP", q) = KeyOf(prefLSP, l, s, p, o)
  BY <1>1, <1>2, KeyOfQuad
<1> QED
  BY <1>2, <1>3, <1>4, <1>5, FirstFieldOfKey

----------------------------------------------------------------------------
\* The first fields of the POS keys are as many as the predicates.
LEMMA PredicatesCounted ==
  ASSUME Encodable, NEW kv \in Contents
  PROVE  Cardinality({FirstField(k) : k \in Scan(kv, <<prefPOS>>)})
           = Cardinality({q.stmt[2] : q \in Held(kv, "POS")})
<1> DEFINE H == Held(kv, "POS")
           P == {q.stmt[2] : q \in H}
           f == [p \in Text |-> FirstPart(prefPOS, p)]
<1>1. H \subseteq Quad /\ IsFiniteSet(H)
  BY HeldFinite
<1>2. Scan(kv, <<prefPOS>>) = {KeyBytes("POS", q) : q \in H}
  BY ScanOfAll, PrefixesDiffer DEF Keyspace
<1> HIDE DEF H
<1>3. P \subseteq Text
  BY <1>1, FirstFieldOfQuad
<1>4. IsFiniteSet(P)
  <2> DEFINE g == [q \in H |-> q.stmt[2]]
  <2>1. g \in Surjection(H, P)
    BY DEF Surjection
  <2> HIDE DEF g, P
  <2> QED
    BY <1>1, <2>1, FS_Surjection
<1>5. {FirstField(k) : k \in Scan(kv, <<prefPOS>>)} = {f[p] : p \in P}
  <2>1. \A q \in H : FirstField(KeyBytes("POS", q)) = f[q.stmt[2]]
    BY <1>1, FirstFieldOfQuad
  <2> HIDE DEF f
  <2> QED
    BY <1>2, <2>1
<1>6. \A x, y \in P : f[x] = f[y] => x = y
  <2>0. prefPOS \in Nat
    BY DEF prefPOS
  <2> SUFFICES ASSUME NEW x \in P, NEW y \in P, FirstPart(prefPOS, x) = FirstPart(prefPOS, y) PROVE x = y
    BY <1>3
  <2>1. x \in Seq(Nat) /\ y \in Seq(Nat)
    BY <1>3, TextIsBytes
  <2>2. \A a \in Seq(Nat) : SubSeq(FirstPart(prefPOS, a), 2, Len(FirstPart(prefPOS, a)) - 1) = a
    BY <2>0, FirstPartFacts
  <2> QED
    BY <2>1, <2>2, Zenon
<1> HIDE DEF P, f
<1>7. Cardinality({f[p] : p \in P}) = Cardinality(P)
  BY <1>4, <1>6, AsMany
<1> QED
  BY <1>5, <1>7, Zenon DEF P, H

\* Stats counts the quads in one scan and the predicates in another, each of some moment.
StatsInv ==
  /\ rd.op = "predicates" /\ ~rd.done =>
       \E n : rd.found = <<n>> /\ \E kv \in rd.since : n = Cardinality(Held(kv, "SPO"))
  /\ StatsExact

\* StatsInv is inductive.
LEMMA StatsKept ==
  ASSUME Encodable, MomentInv, StatsInv, Whole(db), [RNext]_<<vars, rd>>
  PROVE  StatsInv'
<1>0. ASSUME NEW n, NEW m, NEW s, s = Append(<<n>>, m) PROVE s[1] = n /\ s[2] = m
  BY <1>0
<1>1. CASE StatsQuads
  <2>1. /\ rd.op = "stats" /\ rd.done = FALSE /\ rd'.since = rd.since /\ rd'.done = FALSE
        /\ rd'.found = <<Cardinality(Scan(rd.snap, <<prefSPO>>))>>
    BY <1>1, MiddleMoment DEF StatsQuads, Step, MomentInv, ReadFields
  <2>2. rd.snap \in rd.since /\ rd.snap \in Contents
    BY <2>1 DEF MomentInv, Whole
  <2>3. Cardinality(Scan(rd.snap, <<prefSPO>>)) = Cardinality(Held(rd.snap, "SPO"))
    BY <2>2, ScanOfAll, PrefixesDiffer DEF Keyspace
  <2> QED
    BY <2>1, <2>2, <2>3 DEF StatsInv, StatsExact, Answered, Held
<1>2. CASE StatsPredicates
  <2>1. /\ rd.op = "predicates" /\ rd.done = FALSE /\ rd'.since = rd.since /\ rd'.done = TRUE
        /\ rd'.op = "predicates"
        /\ rd'.found = Append(rd.found, Cardinality({FirstField(k) : k \in Scan(db, <<prefPOS>>)}))
    BY <1>2, AnswerMoment DEF StatsPredicates
  <2>2. PICK n : rd.found = <<n>> /\ \E kv \in rd.since : n = Cardinality(Held(kv, "SPO"))
    BY <2>1 DEF StatsInv
  <2>3. db \in rd.since
    BY <2>1 DEF MomentInv
  <2>4. rd'.found[1] = n /\ rd'.found[2] = Cardinality({q.stmt[2] : q \in Held(db, "POS")})
    <3>1. Cardinality({FirstField(k) : k \in Scan(db, <<prefPOS>>)}) = Cardinality({q.stmt[2] : q \in Held(db, "POS")})
      BY PredicatesCounted DEF Whole
    <3> QED
      BY <1>0, <2>1, <2>2, <3>1
  <2> QED
    BY <2>1, <2>2, <2>3, <2>4 DEF StatsInv, StatsExact, Answered, Held
<1>3. CASE Meanwhile
  BY <1>3, MeanwhileMoment DEF StatsInv, StatsExact, Answered
<1>4. CASE rd' = NoRead
  BY <1>4, NoReadMoment DEF StatsInv, StatsExact, Answered
<1>5. CASE UNCHANGED rd
  BY <1>5 DEF StatsInv, StatsExact, Answered, Held
<1>6. CASE Reader /\ ~StatsQuads /\ ~StatsPredicates /\ rd' # NoRead
  BY <1>6, OpAfter DEF StatsInv, StatsExact, Answered
<1> QED
  BY <1>1, <1>2, <1>3, <1>4, <1>5, <1>6, ReadSteps

(***************************************************************************)
(* The rows of the journal                                                 *)
(***************************************************************************)

\* No two operations of the journal have the same commit and number.
DistinctOps(kv) == \A o, u \in kv.ops : o.id = u.id /\ o.seq = u.seq => o = u

\* The journal of a store: operations of commits there are, all different.
GoodJournal(kv) == Journalled(kv) /\ DistinctOps(kv) /\ IsFiniteSet(kv.ops)

\* Every store that can come back has a good journal, and a commit on its way has an id
\* that no store and no other commit has.
RowsInv ==
  /\ \A w \in worlds : GoodJournal(w) /\ \A i \in w.commits : i < nextId
  /\ \A p \in Proc : pc[p] = "committing" =>
       /\ cur[p].id < nextId
       /\ \A w \in worlds : cur[p].id \notin w.commits
       /\ \A o \in Proc : o # p /\ pc[o] = "committing" => cur[o].id # cur[p].id

\* The operations of a commit are numbered apart.
LEMMA CommitOpsDistinct ==
  ASSUME NEW id \in Id, NEW b \in Batch
  PROVE  /\ IsFiniteSet(CommitOps(id, b))
         /\ \A o, u \in CommitOps(id, b) : o.seq = u.seq => o = u
         /\ \A o \in CommitOps(id, b) : o.id = id
<1> DEFINE add(i) == [id |-> id, seq |-> i, kind |-> "add", quad |-> Effective(b.adds[i], b.label)]
           remove(i) == [id |-> id, seq |-> Len(b.adds) + i, kind |-> "remove", quad |-> b.removes[i]]
           A == {add(i) : i \in DOMAIN b.adds}
           R == {remove(i) : i \in DOMAIN b.removes}
<1>1. b.adds \in Seq(Quad) /\ b.removes \in Seq(Quad) /\ b.audit \in BOOLEAN
  BY DEF Batch
<1>2. DOMAIN b.adds = 1..Len(b.adds) /\ DOMAIN b.removes = 1..Len(b.removes)
      /\ Len(b.adds) \in Nat /\ Len(b.removes) \in Nat
  BY <1>1
<1>3. IsFiniteSet(1..Len(b.adds)) /\ IsFiniteSet(1..Len(b.removes))
  <2>1. \A n \in Nat : IsFiniteSet(1..n)
    <3> SUFFICES ASSUME NEW n \in Nat PROVE IsFiniteSet(1..n)
      OBVIOUS
    <3>1. 1 \in Int /\ n \in Int
      OBVIOUS
    <3> QED
      BY <3>1, FS_Interval
  <2> QED
    BY <1>2, <2>1
<1>4. IsFiniteSet(A)
  <2> DEFINE f == [i \in DOMAIN b.adds |-> add(i)]
  <2>1. f \in Surjection(DOMAIN b.adds, A)
    BY DEF Surjection
  <2> HIDE DEF f, A
  <2> QED
    BY <1>2, <1>3, <2>1, FS_Surjection
<1>5. IsFiniteSet(R)
  <2> DEFINE f == [i \in DOMAIN b.removes |-> remove(i)]
  <2>1. f \in Surjection(DOMAIN b.removes, R)
    BY DEF Surjection
  <2> HIDE DEF f, R
  <2> QED
    BY <1>2, <1>3, <2>1, FS_Surjection
<1>6. CommitOps(id, b) = IF b.audit THEN A \cup R ELSE {}
  BY DEF CommitOps
<1>7. ASSUME NEW o \in A \cup R
      PROVE  /\ o.id = id
             /\ \/ o.seq \in 1..Len(b.adds) /\ o = add(o.seq)
                \/ o.seq - Len(b.adds) \in 1..Len(b.removes) /\ o = remove(o.seq - Len(b.adds)) /\ o.seq > Len(b.adds)
  <2>1. ASSUME NEW i \in 1..Len(b.adds), o = add(i) PROVE o.id = id /\ o.seq = i
    BY <2>1
  <2>2. ASSUME NEW i \in 1..Len(b.removes), o = remove(i) PROVE o.id = id /\ o.seq = Len(b.adds) + i
    BY <2>2
  <2>3. \A i \in 1..Len(b.removes) : Len(b.adds) + i - Len(b.adds) = i /\ Len(b.adds) + i > Len(b.adds)
    BY <1>2
  <2>4. (\E i \in 1..Len(b.adds) : o = add(i)) \/ (\E i \in 1..Len(b.removes) : o = remove(i))
    BY <1>2
  <2> HIDE DEF add, remove
  <2> QED
    BY <2>1, <2>2, <2>3, <2>4
<1>8. \A o, u \in A \cup R : o.seq = u.seq => o = u
  <2> SUFFICES ASSUME NEW o \in A \cup R, NEW u \in A \cup R, o.seq = u.seq PROVE o = u
    OBVIOUS
  <2> HIDE DEF A, R, add, remove
  <2> QED
    BY <1>2, <1>7
<1>9. IsFiniteSet(A \cup R)
  BY <1>4, <1>5, FS_Union
<1> HIDE DEF A, R
<1> QED
  BY <1>6, <1>7, <1>8, <1>9, FS_EmptySet

\* A commit that is not in the journal makes a good journal longer.
LEMMA GoodAfterCommit ==
  ASSUME NEW kv \in Contents, GoodJournal(kv), NEW id \in Id, id \notin kv.commits, NEW b \in Batch
  PROVE  LET new == CommittedTo(kv, id, b)
         IN  /\ GoodJournal(new)
             /\ kv.ops \subseteq new.ops /\ kv.commits \subseteq new.commits /\ new.commits \subseteq kv.commits \cup {id}
             /\ \A o \in new.ops : o \in kv.ops \/ o.id \notin kv.commits
<1> DEFINE new == CommittedTo(kv, id, b)
<1>1. new.ops = kv.ops \cup CommitOps(id, b) /\ new.commits = kv.commits \cup CommitRows(id, b)
  BY DEF CommittedTo, Contents
<1>2. CommitRows(id, b) \subseteq {id}
  BY DEF CommitRows
<1>3. Journalled(new)
  BY CommitIsJournalled DEF GoodJournal
<1>4. IsFiniteSet(new.ops)
  <2>1. IsFiniteSet(kv.ops) /\ IsFiniteSet(CommitOps(id, b))
    BY CommitOpsDistinct DEF GoodJournal
  <2>2. IsFiniteSet(kv.ops \cup CommitOps(id, b))
    BY <2>1, FS_Union, Zenon
  <2> HIDE DEF new
  <2> QED
    BY <1>1, <2>2, Zenon
<1>5. DistinctOps(new)
  <2>1. \A o \in kv.ops : o.id # id
    BY DEF GoodJournal, Journalled
  <2> HIDE DEF new
  <2> QED
    BY <1>1, <2>1, CommitOpsDistinct DEF DistinctOps, GoodJournal
<1>6. \A o \in new.ops : o \in kv.ops \/ o.id \notin kv.commits
  BY <1>1, CommitOpsDistinct
<1> HIDE DEF new
<1> QED
  BY <1>1, <1>2, <1>3, <1>4, <1>5, <1>6 DEF GoodJournal, new

\* Flushes, imports and recounts leave the journal alone.
LEMMA OthersLeaveRows ==
  ASSUME NEW kv \in Contents, NEW id, NEW x
  PROVE  /\ FlushedTo(kv, id, x).ops = kv.ops /\ FlushedTo(kv, id, x).commits = kv.commits
         /\ IngestedTo(kv, id, x).ops = kv.ops /\ IngestedTo(kv, id, x).commits = kv.commits
         /\ CountedIn(kv, x).ops = kv.ops /\ CountedIn(kv, x).commits = kv.commits
         /\ RecountedTo(kv, x).ops = kv.ops /\ RecountedTo(kv, x).commits = kv.commits
BY DEF FlushedTo, IngestedTo, CountedIn, RecountedTo, Contents

\* The journals are the same.
SameRows(kv, new) == new.ops = kv.ops /\ new.commits = kv.commits

\* The journal after a step of a goroutine: it grew by the rows of commits that
\* were not in it, or stayed as it was.
Grown(kv, new) ==
  /\ kv.ops \subseteq new.ops /\ kv.commits \subseteq new.commits
  /\ \A o \in new.ops : o \in kv.ops \/ o.id \notin kv.commits

\* A journal like a good one is good.
LEMMA GoodIfSame ==
  ASSUME NEW kv, NEW new, SameRows(kv, new)
  PROVE  GoodJournal(kv) => GoodJournal(new)
BY DEF SameRows, GoodJournal, Journalled, DistinctOps

\* The commits that still have to be applied, in a step that draws no id and
\* applies none.
LEMMA RowsSame ==
  ASSUME TypeInv, RowsInv, nextId' \in Int, nextId' >= nextId,
         \A w \in worlds' : \E v \in worlds : SameRows(v, w),
         \A p \in Proc : pc'[p] = "committing" => pc[p] = "committing" /\ cur'[p].id = cur[p].id
  PROVE  RowsInv'
<1>1. nextId \in Int /\ \A w \in worlds : w.commits \subseteq Int
  BY ConstantsAssumption DEF TypeInv, TypeOK, Contents, Id
<1>2. \A p \in Proc : cur[p].id \in Int
  BY ConstantsAssumption DEF TypeInv, TypeOK, CommitState, Id
<1>3. \A w \in worlds' : GoodJournal(w) /\ \A i \in w.commits : i < nextId'
  <2> SUFFICES ASSUME NEW w \in worlds' PROVE GoodJournal(w) /\ \A i \in w.commits : i < nextId'
    OBVIOUS
  <2>1. PICK v \in worlds : SameRows(v, w)
    OBVIOUS
  <2> QED
    BY <1>1, <2>1, GoodIfSame DEF RowsInv, SameRows
<1>4. ASSUME NEW p \in Proc, pc'[p] = "committing"
      PROVE  /\ cur'[p].id < nextId'
             /\ \A w \in worlds' : cur'[p].id \notin w.commits
             /\ \A o \in Proc : o # p /\ pc'[o] = "committing" => cur'[o].id # cur'[p].id
  <2>1. pc[p] = "committing" /\ cur'[p].id = cur[p].id
    BY <1>4
  <2>2. cur'[p].id < nextId'
    BY <1>1, <1>2, <2>1 DEF RowsInv
  <2>3. \A w \in worlds' : cur'[p].id \notin w.commits
    BY <2>1 DEF RowsInv, SameRows
  <2>4. \A o \in Proc : o # p /\ pc'[o] = "committing" => cur'[o].id # cur'[p].id
    BY <2>1 DEF RowsInv
  <2> QED
    BY <2>2, <2>3, <2>4
<1> QED
  BY <1>3, <1>4 DEF RowsInv

\* A Writer applies a commit of its own and nothing else.
LEMMA WriterKeepsRows ==
  ASSUME TypeInv, RowsInv, NEW p \in Proc, Writer(p)
  PROVE  RowsInv' /\ Grown(db, db')
<1>0. /\ db \in worlds /\ worlds \subseteq Contents /\ db \in Contents /\ nextId \in Int
      /\ pc \in [Proc -> PC] /\ cur \in [Proc -> CommitState] /\ \A o \in Proc : cur[o].id \in Int
  BY ConstantsAssumption DEF TypeInv, TypeOK, CommitState, Id
<1>1. CASE OpenWriter(p) \/ CloseWriter(p)
  <2>1. UNCHANGED <<db, worlds, nextId, cur>> /\ \A o \in Proc : pc'[o] = "committing" => pc[o] = "committing"
    BY <1>0, <1>1 DEF OpenWriter, CloseWriter, Goto
  <2> QED
    BY <1>0, <2>1, RowsSame DEF SameRows, Grown
<1>2. ASSUME NEW b \in BatchChoice, NEW sync \in BOOLEAN, BeginCommit(p, b, sync)
      PROVE  RowsInv' /\ Grown(db, db')
  <2>1. /\ UNCHANGED <<db, worlds>> /\ nextId' = nextId + 1
        /\ cur'[p].id = nextId /\ pc'[p] = "committing"
        /\ \A o \in Proc : o # p => cur'[o] = cur[o] /\ pc'[o] = pc[o]
    BY <1>0, <1>2 DEF BeginCommit, Goto
  <2>2. \A w \in worlds : nextId \notin w.commits /\ \A i \in w.commits : i < nextId + 1
    <3>1. \A w \in worlds : w.commits \subseteq Int
      BY <1>0, ConstantsAssumption DEF Contents, Id
    <3> QED
      BY <1>0, <3>1 DEF RowsInv
  <2>3. ASSUME NEW o \in Proc, pc'[o] = "committing"
        PROVE  /\ cur'[o].id < nextId'
               /\ \A w \in worlds' : cur'[o].id \notin w.commits
               /\ \A r \in Proc : r # o /\ pc'[r] = "committing" => cur'[r].id # cur'[o].id
    <3>1. \A r \in Proc : r # p /\ pc[r] = "committing" => cur[r].id < nextId /\ cur[r].id # nextId
      BY <1>0 DEF RowsInv
    <3>2. CASE o = p
      BY <1>0, <2>1, <2>2, <3>1, <3>2
    <3>3. CASE o # p
      BY <1>0, <2>1, <2>2, <2>3, <3>1, <3>3 DEF RowsInv
    <3> QED
      BY <3>2, <3>3
  <2>4. RowsInv'
    BY <2>1, <2>2, <2>3 DEF RowsInv
  <2> QED
    BY <2>1, <2>4 DEF Grown
<1>3. CASE ApplyCommit(p)
  <2> DEFINE b == cur[p].batch
             id == cur[p].id
             new == CommittedTo(db, id, b)
  <2>1. b \in Batch /\ id \in Id /\ id < nextId /\ pc[p] = "committing"
    BY <1>0, <1>3, ConstantsAssumption DEF ApplyCommit, Goto, TypeInv, Midway, RowsInv
  <2>2. db' = new /\ worlds' = worlds \cup {new} /\ nextId' = nextId
    BY <1>3 DEF ApplyCommit, WriteNoSync
  <2>3. /\ pc'[p] # "committing"
        /\ \A o \in Proc : o # p => cur'[o] = cur[o] /\ pc'[o] = pc[o]
    BY <1>0, <1>3 DEF ApplyCommit, Goto
  <2>4. id \notin db.commits /\ GoodJournal(db)
    BY <1>0, <2>1 DEF RowsInv
  <2> HIDE DEF b, id, new
  <2>5. GoodJournal(new) /\ Grown(db, new) /\ new.commits \subseteq db.commits \cup {id}
    BY <1>0, <2>1, <2>4, GoodAfterCommit DEF Grown, new
  <2>6. \A w \in worlds' : GoodJournal(w) /\ \A i \in w.commits : i < nextId'
    BY <1>0, <2>1, <2>2, <2>5 DEF RowsInv
  <2>7. ASSUME NEW o \in Proc, pc'[o] = "committing"
        PROVE  /\ cur'[o].id < nextId'
               /\ \A w \in worlds' : cur'[o].id \notin w.commits
               /\ \A r \in Proc : r # o /\ pc'[r] = "committing" => cur'[r].id # cur'[o].id
    <3>1. o # p /\ cur'[o] = cur[o] /\ pc[o] = "committing"
      BY <2>3, <2>7
    <3>2. cur[o].id # id
      BY <2>1, <3>1 DEF RowsInv, id
    <3> QED
      BY <1>0, <2>2, <2>3, <2>5, <3>1, <3>2 DEF RowsInv
  <2> QED
    BY <2>2, <2>5, <2>6, <2>7 DEF RowsInv
<1>4. CASE SyncCommit(p)
  <2>1. /\ db' = db /\ worlds' = {db} /\ nextId' = nextId /\ pc'[p] # "committing"
        /\ \A o \in Proc : o # p => cur'[o] = cur[o] /\ pc'[o] = pc[o]
    BY <1>0, <1>4 DEF SyncCommit, WriteSync, Goto
  <2> QED
    BY <1>0, <2>1, RowsSame DEF SameRows, Grown
<1> QED
  BY <1>1, <1>2, <1>3, <1>4 DEF Writer

\* Bulk loads and imports write no journal.
LEMMA OthersKeepRows ==
  ASSUME TypeInv, RowsInv, NEW p \in Proc, Loader(p) \/ Importer(p)
  PROVE  RowsInv' /\ Grown(db, db')
<1>0. /\ db \in worlds /\ worlds \subseteq Contents /\ db \in Contents /\ nextId \in Int
      /\ pc \in [Proc -> PC] /\ cur \in [Proc -> CommitState]
  BY ConstantsAssumption DEF TypeInv, TypeOK
<1>1. ASSUME NEW loader, Flush(p, loader)
      PROVE  /\ nextId' \in Int /\ nextId' >= nextId
             /\ \A w \in worlds' : \E v \in worlds : SameRows(v, w)
             /\ SameRows(db, db')
  BY <1>0, <1>1, OthersLeaveRows DEF Flush, WriteNoSync, SameRows
<1>2. /\ nextId' \in Int /\ nextId' >= nextId
      /\ \A w \in worlds' : \E v \in worlds : SameRows(v, w)
      /\ SameRows(db, db')
  <2>1. CASE OpenLoader(p, ld'[p].label) \/ \E l \in ValidLabel : OpenLoader(p, l)
    BY <1>0, <2>1 DEF OpenLoader, SameRows
  <2>2. ASSUME NEW q \in Quad, LoaderAdd(p, q)
        PROVE  /\ nextId' \in Int /\ nextId' >= nextId
               /\ \A w \in worlds' : \E v \in worlds : SameRows(v, w)
               /\ SameRows(db, db')
    <3>1. (\E loader : Flush(p, loader)) \/ UNCHANGED <<db, worlds, nextId>>
      BY <2>2 DEF LoaderAdd
    <3> QED
      BY <1>0, <1>1, <3>1 DEF SameRows
  <2>3. CASE LoaderFlush(p) \/ LoaderClose(p)
    BY <1>1, <2>3 DEF LoaderFlush, LoaderClose
  <2>4. CASE LoaderHarden(p)
    BY <1>0, <2>4 DEF LoaderHarden, WriteSync, SameRows
  <2>5. ASSUME NEW g \in IngestChoice, IngestTables(p, g)
        PROVE  /\ nextId' \in Int /\ nextId' >= nextId
               /\ \A w \in worlds' : \E v \in worlds : SameRows(v, w)
               /\ SameRows(db, db')
    <3> DEFINE kept == Kept(EffectiveSet(g.quads, g.label))
    <3>1. /\ db' = IngestedTo(db, nextId, g) /\ worlds' = {IngestedTo(w, nextId, g) : w \in kept}
          /\ nextId' = nextId + 1
      BY <2>5 DEF IngestTables
    <3>2. kept \subseteq worlds
      BY <1>0 DEF Kept
    <3> HIDE DEF kept
    <3> QED
      BY <1>0, <3>1, <3>2, OthersLeaveRows DEF SameRows
  <2>6. CASE IngestCounters(p) \/ RebuildReplace(p)
    <3>1. nextId' = nextId /\ \/ UNCHANGED <<db, worlds>>
                              \/ WriteSync(CountedIn(db, tally[p])) \/ WriteSync(RecountedTo(db, tally[p]))
      BY <2>6 DEF IngestCounters, RebuildReplace
    <3>2. SameRows(db, db) /\ \A w \in worlds : SameRows(w, w)
      BY DEF SameRows
    <3>3. SameRows(db, CountedIn(db, tally[p])) /\ SameRows(db, RecountedTo(db, tally[p]))
      BY <1>0, OthersLeaveRows DEF SameRows
    <3> QED
      BY <1>0, <3>1, <3>2, <3>3 DEF WriteSync
  <2>7. CASE RebuildScan(p)
    BY <1>0, <2>7 DEF RebuildScan, SameRows
  <2> QED
    BY <2>1, <2>2, <2>3, <2>4, <2>5, <2>6, <2>7 DEF Loader, Importer
<1>3. \A o \in Proc : pc'[o] = "committing" => pc[o] = "committing" /\ cur'[o].id = cur[o].id
  <2>1. pc'[p] # "committing" /\ \A o \in Proc : o # p => cur'[o] = cur[o] /\ pc'[o] = pc[o]
    <3>1. CASE Loader(p)
      BY <1>0, <3>1 DEF Loader, OpenLoader, LoaderAdd, LoaderFlush, LoaderClose, LoaderHarden, Goto
    <3>2. CASE Importer(p)
      BY <1>0, <3>2 DEF Importer, IngestTables, IngestCounters, RebuildScan, RebuildReplace, Goto
    <3> QED
      BY <3>1, <3>2
  <2> QED
    BY <2>1
<1>4. Grown(db, db')
  BY <1>2 DEF Grown, SameRows
<1> QED
  BY <1>2, <1>3, <1>4, RowsSame

\* RowsInv is inductive.
LEMMA RowsAlwaysGood == Spec => []RowsInv
<1>1. Init => RowsInv
  BY FS_EmptySet DEF Init, RowsInv, GoodJournal, Journalled, DistinctOps, EmptyContents
<1>2. TypeInv /\ RowsInv /\ [Next]_vars => RowsInv'
  <2> SUFFICES ASSUME TypeInv, RowsInv, [Next]_vars
               PROVE  RowsInv'
    OBVIOUS
  <2>0. db \in worlds /\ nextId \in Int
    BY ConstantsAssumption DEF TypeInv, TypeOK
  <2>1. CASE Crash \/ Reopen
    <3>1. worlds' \subseteq worlds /\ nextId' = nextId /\ \A p \in Proc : pc'[p] = "idle"
      BY <2>0, <2>1 DEF Crash, Reopen, WriteSync, NoHandles
    <3> QED
      BY <2>0, <3>1, RowsSame DEF SameRows
  <2>2. CASE UNCHANGED vars
    BY <2>0, <2>2, RowsSame DEF vars, SameRows
  <2> QED
    BY <2>1, <2>2, WriterKeepsRows, OthersKeepRows DEF Next
<1> QED
  BY <1>1, <1>2, TypeInvariant, PTL DEF Spec

(***************************************************************************)
(* CommitStatsAt                                                           *)
(***************************************************************************)

\* A single byte as a prefix.
LEMMA SingleByte ==
  ASSUME NEW x \in Nat, NEW k \in Seq(Nat), k # <<>>
  PROVE  IsPrefixFor(x, <<x>>) /\ (HasPrefix(k, <<x>>) <=> k[1] = x)
BY DEF IsPrefixFor, HasPrefix

\* A scan by a single byte.
LEMMA ScanByByte ==
  ASSUME Encodable, NEW kv \in Contents, NEW x \in Nat
  PROVE  Scan(kv, <<x>>) = {k \in ByteKeys(kv) : k[1] = x}
<1>1. ASSUME NEW k \in ByteKeys(kv)
      PROVE  k \in Scan(kv, <<x>>) <=> k[1] = x
  <2>1. k \in Seq(Nat) /\ k # <<>>
    BY KeysOfStore
  <2>2. <<x>> \in Seq(Nat) /\ <<x>> # <<>>
    OBVIOUS
  <2>3. ~Less(k, <<x>>) /\ Less(k, upperBoundForPrefix(<<x>>)) <=> HasPrefix(k, <<x>>)
    BY <2>1, <2>2, RangeOfPrefix, Zenon
  <2>4. HasPrefix(k, <<x>>) <=> k[1] = x
    BY <2>1, SingleByte
  <2> QED
    BY <2>3, <2>4 DEF Scan, KeyRange
<1>2. Scan(kv, <<x>>) \subseteq ByteKeys(kv)
  BY DEF Scan, KeyRange
<1> QED
  BY <1>1, <1>2

\* The keys of the commits and of their operations, and the id that each carries.
LEMMA JournalKeys ==
  ASSUME Encodable, NEW kv \in Contents
  PROVE  /\ Scan(kv, <<prefC>>) = {<<prefC, id>> : id \in kv.commits}
         /\ Scan(kv, <<prefCO>>) = {commitOpKey(o.id, o.seq - 1) : o \in kv.ops}
         /\ \A id \in kv.commits : Tail(<<prefC, id>>) = <<id>>
<1>1. /\ kv.keys \subseteq Keyspace \X Quad /\ kv.commits \subseteq Nat
      /\ \A o \in kv.ops : o.id \in Nat /\ o.seq - 1 \in Nat
  BY DEF Contents, OpRow, Id
<1>2. prefC \in Nat /\ prefCO \in Nat /\ sep \in Nat /\ prefC # prefCO
  BY DEF prefC, prefCO, sep
<1>3. \A id \in kv.commits : <<prefC, id>>[1] = prefC /\ Tail(<<prefC, id>>) = <<id>>
  OBVIOUS
<1>4. ASSUME NEW o \in kv.ops
      PROVE  commitOpKey(o.id, o.seq - 1)[1] = prefCO
  <2>1. o.id \in Nat /\ uvarint[o.seq - 1] \in Seq(Nat)
    BY <1>1, UvarintRecursive
  <2> QED
    BY <1>2, <2>1, ThreeBytes DEF commitOpKey
<1>5. ASSUME NEW ks \in Keyspace, NEW q \in Quad
      PROVE  KeyBytes(ks, q)[1] # prefC /\ KeyBytes(ks, q)[1] # prefCO
  BY KeyStandsForQuad, PrefixesDiffer DEF StandsFor
<1>6. ByteKeys(kv) = {KeyBytes(k[1], k[2]) : k \in kv.keys} \cup {<<prefC, id>> : id \in kv.commits}
                       \cup {commitOpKey(o.id, o.seq - 1) : o \in kv.ops}
  BY DEF ByteKeys
<1>7. \A k \in kv.keys : KeyBytes(k[1], k[2])[1] # prefC /\ KeyBytes(k[1], k[2])[1] # prefCO
  BY <1>1, <1>5
<1>8. {k \in ByteKeys(kv) : k[1] = prefC} = {<<prefC, id>> : id \in kv.commits}
  BY <1>2, <1>3, <1>4, <1>6, <1>7
<1>9. {k \in ByteKeys(kv) : k[1] = prefCO} = {commitOpKey(o.id, o.seq - 1) : o \in kv.ops}
  BY <1>2, <1>3, <1>4, <1>6, <1>7
<1> QED
  BY <1>2, <1>3, <1>4, <1>8, <1>9, ScanByByte

\* Two operations with one key have the same commit and the same number.
LEMMA CommitOpKeyParts ==
  ASSUME NEW id \in Nat, NEW n \in Nat, NEW other \in Nat, NEW m \in Nat,
         commitOpKey(id, n) = commitOpKey(other, m)
  PROVE  id = other /\ uvarint[n] = uvarint[m]
<1> DEFINE t == uvarint[n]
           u == uvarint[m]
           a == <<prefCO, id, sep>> \o t
           b == <<prefCO, other, sep>> \o u
<1>1. t \in Seq(Nat) /\ u \in Seq(Nat) /\ prefCO \in Nat /\ sep \in Nat
  BY UvarintRecursive DEF prefCO, sep
<1>2. a = b
  BY DEF commitOpKey
<1> HIDE DEF t, u
<1>3. /\ a \in Seq(Nat) /\ Len(a) = Len(t) + 3 /\ a[2] = id
      /\ \A i \in 1..Len(t) : a[i + 3] = t[i]
  BY <1>1
<1>4. /\ b \in Seq(Nat) /\ Len(b) = Len(u) + 3 /\ b[2] = other
      /\ \A i \in 1..Len(u) : b[i + 3] = u[i]
  BY <1>1
<1> HIDE DEF a, b
<1>5. id = other /\ Len(t) = Len(u) /\ \A i \in 1..Len(t) : t[i] = u[i]
  BY <1>1, <1>2, <1>3, <1>4
<1>6. t = u
  BY <1>1, <1>5, SeqEqual
<1> QED
  BY <1>5, <1>6 DEF t, u

\* Cutting the key of an operation at its first separator gives its commit's id, whatever
\* the digits of its number are.
LEMMA CommitOfKey ==
  ASSUME NEW id \in Nat \ {0}, NEW n \in Nat, NEW ids
  PROVE  OfCommit(commitOpKey(id, n), ids) <=> <<id>> \in ids
<1> DEFINE t == uvarint[n]
           key == commitOpKey(id, n)
           text == <<id>>
           rest == text \o (<<sep>> \o t)
<1>1. t \in Seq(Nat) /\ prefCO \in Nat /\ sep = 0
  BY UvarintRecursive DEF prefCO, sep
<1>2. text \in Text /\ Len(text) = 1
  BY DEF Text, sep
<1>3. key = <<prefCO, id, sep>> \o t
  BY DEF commitOpKey
<1> HIDE DEF t
<1>4. Tail(key) = rest
  <2>1. Len(Tail(key)) = Len(rest) /\ Tail(key) \in Seq(Nat) /\ rest \in Seq(Nat)
    BY <1>1, <1>3
  <2>2. \A i \in 1..Len(rest) : Tail(key)[i] = rest[i]
    BY <1>1, <1>3
  <2> QED
    BY <2>1, <2>2, SeqEqual
<1>5. SubSeq(key, 2, 2) = text
  <2>1. key \in Seq(Nat) /\ Len(key) >= 3 /\ key[2] = id
    BY <1>1, <1>3
  <2> HIDE DEF key
  <2>2. SubSeq(key, 2, 2) \in Seq(Nat) /\ Len(SubSeq(key, 2, 2)) = 1 /\ SubSeq(key, 2, 2)[1] = id
    BY <2>1
  <2>3. text \in Seq(Nat) /\ Len(text) = 1 /\ text[1] = id
    OBVIOUS
  <2> HIDE DEF text
  <2> QED
    BY <2>2, <2>3, SeqEqual
<1> HIDE DEF key, text
<1>6. IndexByte(rest) = 2
  <2>1. IndexByte(rest) = Len(text) + 1
    BY <1>1, <1>2, IndexByteOfFirst
  <2> QED
    BY <1>2, <2>1
<1> HIDE DEF rest
<1> DEFINE end == IndexByte(Tail(key))
<1>8. end = 2
  BY <1>4, <1>6
<1>9. OfCommit(key, ids) <=> end # 0 /\ SubSeq(key, 2, end) \in ids
  BY DEF OfCommit
<1>10. SubSeq(key, 2, end) = text
  BY <1>5, <1>8
<1>11. end # 0
  BY <1>8
<1> HIDE DEF end
<1> DEFINE cut == SubSeq(key, 2, end)
<1>7. OfCommit(key, ids) <=> text \in ids
  <2>1. cut = text /\ (OfCommit(key, ids) <=> cut \in ids)
    BY <1>9, <1>10, <1>11
  <2> HIDE DEF cut
  <2> QED
    BY <2>1
<1> QED
  BY <1>7 DEF key, text

\* As many keys as operations.
LEMMA OpsCounted ==
  ASSUME NEW kv \in Contents, GoodJournal(kv), NEW S \in SUBSET kv.ops
  PROVE  /\ Cardinality({commitOpKey(o.id, o.seq - 1) : o \in S}) = Cardinality(S)
         /\ IsFiniteSet(S) /\ Cardinality(S) \in Nat
<1> DEFINE f == [o \in kv.ops |-> commitOpKey(o.id, o.seq - 1)]
<1>1. \A o \in kv.ops : o.id \in Nat /\ o.seq - 1 \in Nat /\ o.seq \in Nat
  BY DEF Contents, OpRow, Id
<1>2. prefCO \in Nat /\ sep \in Nat
  BY DEF prefCO, sep
<1>3. ASSUME NEW o \in S, NEW u \in S, commitOpKey(o.id, o.seq - 1) = commitOpKey(u.id, u.seq - 1)
      PROVE  o = u
  <2>1. uvarint[o.seq - 1] \in Seq(Nat) /\ uvarint[u.seq - 1] \in Seq(Nat)
    BY <1>1, UvarintRecursive
  <2>2. o.id = u.id /\ uvarint[o.seq - 1] = uvarint[u.seq - 1]
    BY <1>1, <1>3, CommitOpKeyParts
  <2>3. o.seq - 1 = u.seq - 1
    BY <1>1, <2>2, UvarintInjective
  <2>4. o.seq = u.seq
    BY <1>1, <2>3
  <2> QED
    BY <2>2, <2>4 DEF GoodJournal, DistinctOps
<1>4. \A o, u \in S : f[o] = f[u] => o = u
  BY <1>3
<1>5. IsFiniteSet(S)
  BY FS_Subset DEF GoodJournal
<1>6. {commitOpKey(o.id, o.seq - 1) : o \in S} = {f[o] : o \in S}
  OBVIOUS
<1> HIDE DEF f
<1>7. Cardinality({f[o] : o \in S}) = Cardinality(S)
  BY <1>4, <1>5, AsMany
<1>8. Cardinality(S) \in Nat
  BY <1>5, FS_CardinalityType
<1> QED
  BY <1>5, <1>6, <1>7, <1>8, Zenon

----------------------------------------------------------------------------
\* CommitStatsAt reads the commits from a snapshot and the operations later: meanwhile
\* the journal only grew, by commits the snapshot does not have.
OldIds(kv, cutoff) == {<<i>> : i \in {i \in kv.commits : i < cutoff}}

JournalReadInv ==
  /\ \A kv \in rd.since : GoodJournal(kv)
  /\ rd.op \in {"commits", "ops"} /\ ~rd.done => Grown(rd.snap, db)
  /\ rd.op = "ops" /\ ~rd.done =>
       rd.found = <<Cardinality(rd.snap.commits), OldIds(rd.snap, rd.arg)>>
  /\ JournalOfAMoment

\* The operations of the commits of an earlier moment are those it had.
LEMMA OldOps ==
  ASSUME Encodable, NEW kv \in Contents, NEW snap \in Contents, GoodJournal(kv), GoodJournal(snap),
         Grown(snap, kv), NEW cutoff, NEW ops, ops = Scan(kv, <<prefCO>>)
  PROVE  /\ Cardinality({k \in ops : OfCommit(k, OldIds(snap, cutoff))}) = Cardinality({o \in snap.ops : o.id < cutoff})
         /\ Cardinality(ops) >= Cardinality(snap.ops)
<1> DEFINE S == {o \in snap.ops : o.id < cutoff}
           key(o) == commitOpKey(o.id, o.seq - 1)
           old == OldIds(snap, cutoff)
<1>1. ops = {key(o) : o \in kv.ops}
  BY JournalKeys
<1>2. ASSUME NEW o \in kv.ops PROVE OfCommit(key(o), old) <=> o \in S
  <2>1. o.id \in Nat \ {0} /\ o.seq - 1 \in Nat
    BY DEF Contents, OpRow, Id
  <2>2. OfCommit(key(o), old) <=> <<o.id>> \in old
    BY <2>1, CommitOfKey
  <2>3. <<o.id>> \in old <=> o.id \in snap.commits /\ o.id < cutoff
    BY DEF OldIds
  <2> QED
    BY <2>2, <2>3 DEF Grown, GoodJournal, Journalled
<1>3. S \subseteq kv.ops
  BY DEF Grown
<1> HIDE DEF S, key, old
<1>4. {k \in ops : OfCommit(k, old)} = {key(o) : o \in S}
  BY <1>1, <1>2, <1>3
<1>5. Cardinality({key(o) : o \in S}) = Cardinality(S)
  BY <1>3, OpsCounted DEF key
<1>6. Cardinality(ops) = Cardinality(kv.ops) /\ IsFiniteSet(kv.ops)
  BY <1>1, OpsCounted DEF key
<1>7. Cardinality(snap.ops) <= Cardinality(kv.ops)
  BY <1>6, FS_Subset DEF Grown
<1>8. Cardinality(kv.ops) \in Nat /\ Cardinality(snap.ops) \in Nat
  BY OpsCounted
<1> QED
  BY <1>4, <1>5, <1>6, <1>7, <1>8 DEF S, old

\* A journal that grew twice grew.
LEMMA GrownTwice ==
  ASSUME NEW a, NEW b, NEW c, Grown(a, b), Grown(b, c)
  PROVE  Grown(a, c)
BY DEF Grown

\* JournalReadInv is inductive.
LEMMA JournalReadKept ==
  ASSUME Encodable, MomentInv, JournalReadInv, TypeInv, RowsInv, Whole(db), GoodJournal(db), GoodJournal(db'),
         [RNext]_<<vars, rd>>
  PROVE  JournalReadInv'
<1>0. ASSUME UNCHANGED vars PROVE db' = db
  BY <1>0 DEF vars
<1>1. CASE CommitStatsAt /\ UNCHANGED vars
  <2>1. rd'.op = "commits" /\ rd'.snap = db /\ rd'.since = {db} /\ rd'.done = FALSE
    BY <1>1, BeginMoment DEF CommitStatsAt
  <2>2. Grown(db, db)
    BY DEF Grown
  <2> QED
    BY <1>0, <1>1, <2>1, <2>2 DEF JournalReadInv, JournalOfAMoment, Answered
<1>2. CASE StatsCommits /\ UNCHANGED vars
  <2> DEFINE ids == {Tail(k) : k \in Scan(rd.snap, <<prefC>>)}
             C == rd.snap.commits
  <2>1. /\ rd.op = "commits" /\ rd.done = FALSE /\ rd'.op = "ops" /\ rd'.done = FALSE
        /\ rd'.since = rd.since /\ rd'.snap = rd.snap /\ rd'.arg = rd.arg
    BY <1>2, MiddleMoment DEF StatsCommits, Step
  <2>2. rd'.found = <<Cardinality(ids), {id \in ids : id[1] < rd.arg}>>
    BY <1>2 DEF StatsCommits, Step, MomentInv, ReadFields
  <2>3. rd.snap \in Contents
    BY <2>1 DEF MomentInv, Whole
  <2>4. ids = {<<i>> : i \in C}
    <3> DEFINE keys == Scan(rd.snap, <<prefC>>)
               key(id) == <<prefC, id>>
    <3>1. keys = {key(id) : id \in C} /\ \A id \in C : Tail(key(id)) = <<id>>
      BY <2>3, JournalKeys
    <3> HIDE DEF C, keys, key
    <3>2. {Tail(k) : k \in keys} = {<<i>> : i \in C}
      BY <3>1
    <3> QED
      BY <3>2 DEF C, keys
  <2>5. Cardinality(ids) = Cardinality(C)
    <3> DEFINE f == [i \in C |-> <<i>>]
    <3>1. IsFiniteSet(C)
      <4>1. C \subseteq Id
        BY <2>3 DEF Contents
      <4>2. IsFiniteSet(Id)
        BY ConstantsAssumption, FS_Interval DEF Id
      <4> QED
        BY <4>1, <4>2, FS_Subset
    <3>2. \A i, k \in C : f[i] = f[k] => i = k
      OBVIOUS
    <3>3. ids = {f[i] : i \in C}
      BY <2>4
    <3> HIDE DEF f, C, ids
    <3> QED
      BY <3>1, <3>2, <3>3, AsMany
  <2>6. {id \in ids : id[1] < rd.arg} = OldIds(rd.snap, rd.arg)
    BY <2>4 DEF OldIds
  <2> HIDE DEF ids, C
  <2> QED
    BY <1>0, <1>2, <2>1, <2>2, <2>5, <2>6 DEF JournalReadInv, JournalOfAMoment, Answered, C
<1>3. CASE StatsOps /\ UNCHANGED vars
  <2> DEFINE ops == Scan(db, <<prefCO>>)
             snap == rd.snap
             old == OldIds(snap, rd.arg)
             commits == {i \in snap.commits : i < rd.arg}
  <2>1. /\ rd.op = "ops" /\ rd.done = FALSE /\ rd'.op = "ops" /\ rd'.done = TRUE
        /\ rd'.since = rd.since /\ rd'.arg = rd.arg
        /\ rd'.found = [commits |-> rd.found[1], oldCommits |-> Cardinality(rd.found[2]),
                        ops |-> Cardinality(ops),
                        oldOps |-> Cardinality({k \in ops : OfCommit(k, rd.found[2])})]
    BY <1>3, AnswerMoment DEF StatsOps
  <2>2. snap \in rd.since /\ snap \in Contents /\ db \in Contents /\ GoodJournal(snap)
    BY <2>1 DEF MomentInv, Whole, JournalReadInv
  <2>3. Grown(snap, db) /\ rd.found = <<Cardinality(snap.commits), old>>
    BY <2>1 DEF JournalReadInv
  <2>4. rd.found[1] = Cardinality(snap.commits) /\ rd.found[2] = old
    BY <2>3
  <2>5. Cardinality(old) = Cardinality(commits)
    <3> DEFINE f == [i \in commits |-> <<i>>]
    <3>1. IsFiniteSet(commits)
      <4>1. commits \subseteq Id
        BY <2>2 DEF Contents
      <4>2. IsFiniteSet(Id)
        BY ConstantsAssumption, FS_Interval DEF Id
      <4> QED
        BY <4>1, <4>2, FS_Subset
    <3>2. \A i, k \in commits : f[i] = f[k] => i = k
      OBVIOUS
    <3>3. old = {f[i] : i \in commits}
      BY DEF OldIds
    <3> HIDE DEF f, commits, old
    <3> QED
      BY <3>1, <3>2, <3>3, AsMany
  <2> HIDE DEF ops, old, snap, commits
  <2>6. /\ Cardinality({k \in ops : OfCommit(k, old)}) = Cardinality({o \in snap.ops : o.id < rd.arg})
        /\ Cardinality(ops) >= Cardinality(snap.ops)
    BY <2>2, <2>3, OldOps DEF ops, old
  <2>7. /\ rd'.found.commits = Cardinality(snap.commits)
        /\ rd'.found.oldCommits = Cardinality(commits)
        /\ rd'.found.oldOps = Cardinality({o \in snap.ops : o.id < rd.arg})
        /\ rd'.found.ops >= Cardinality(snap.ops)
    BY <2>1, <2>4, <2>5, <2>6
  <2>8. JournalOfAMoment'
    BY <2>1, <2>2, <2>7 DEF JournalOfAMoment, commits
  <2> QED
    BY <1>0, <1>3, <2>1, <2>8 DEF JournalReadInv
<1>4. CASE Meanwhile /\ \E p \in Proc : Writer(p) \/ Loader(p) \/ Importer(p)
  <2>1. Grown(db, db')
    BY <1>4, WriterKeepsRows, OthersKeepRows
  <2>2. rd.op \in {"commits", "ops"} /\ ~rd.done => Grown(rd.snap, db')
    BY <2>1, GrownTwice DEF JournalReadInv
  <2> QED
    BY <1>4, <2>2, MeanwhileMoment DEF JournalReadInv, JournalOfAMoment, Answered
<1>5. CASE rd' = NoRead
  BY <1>5, NoReadMoment DEF JournalReadInv, JournalOfAMoment, Answered
<1>6. CASE UNCHANGED rd /\ (UNCHANGED vars \/ rd = NoRead)
  <2>1. rd.op \in {"commits", "ops"} => db' = db
    BY <1>0, <1>6, NoReadMoment
  <2> QED
    BY <1>6, <2>1 DEF JournalReadInv, JournalOfAMoment, Answered
<1>7. CASE Reader /\ ~CommitStatsAt /\ ~StatsCommits /\ ~StatsOps /\ rd' # NoRead
  <2>1. rd'.op \notin {"commits", "ops"}
    BY <1>7, OpAfter
  <2>2. rd'.since = rd.since \/ rd'.since = {db}
    BY <1>7, BeginMoment, LabelCountsMoment, MiddleMoment, AnswerMoment, Answers, ReaderSteps DEF ReadFails, Return
  <2> QED
    BY <2>1, <2>2 DEF JournalReadInv, JournalOfAMoment, Answered
<1> QED
  BY <1>1, <1>2, <1>3, <1>4, <1>5, <1>6, <1>7, ReadSteps

\* What CommitStatsAt reports of old commits is what the journal held at the moment of its
\* first scan, though Writers commit between its two scans: commits of then, and the
\* operations of those commits and of no others (pebble_store.go, CommitStatsAt).
THEOREM JournalStatsOfAMoment ==
  ASSUME Encodable
  PROVE  RSpec => []JournalOfAMoment
<1>1. RInit => JournalReadInv
  BY NoReadMoment DEF RInit, JournalReadInv, JournalOfAMoment, Answered
<1>2. /\ MomentInv /\ JournalReadInv /\ TypeInv /\ RowsInv /\ Whole(db)
      /\ GoodJournal(db) /\ GoodJournal(db)' /\ [RNext]_<<vars, rd>>
      => JournalReadInv'
  BY JournalReadKept
<1>3. RSpec => []TypeInv /\ []RowsInv
  BY ReaderLeavesWriters, TypeInvariant, RowsAlwaysGood, PTL
<1>4. TypeInv /\ RowsInv => GoodJournal(db)
  BY DEF TypeInv, TypeOK, RowsInv
<1>5. JournalReadInv => JournalOfAMoment
  BY DEF JournalReadInv
<1> QED
  BY <1>1, <1>2, <1>3, <1>4, <1>5, MomentsAreWhole, StoreIsWhole, PTL DEF RSpec

(***************************************************************************)
(* The order of the keys                                                   *)
(***************************************************************************)

\* The order of two keys is decided where they first differ.
LEMMA LessAt ==
  ASSUME NEW k \in Seq(Nat), NEW n \in Seq(Nat)
  PROVE  Less(k, n) <=> \E i \in Nat : /\ i <= Len(k) /\ i < Len(n) /\ (\A j \in 1..i : k[j] = n[j])
                                       /\ i = Len(k) \/ k[i + 1] < n[i + 1]
BY DEF Less

\* The order of the keys is transitive.
LEMMA LessTransitive ==
  ASSUME NEW k \in Seq(Nat), NEW m \in Seq(Nat), NEW n \in Seq(Nat), Less(k, m), Less(m, n)
  PROVE  Less(k, n)
<1>1. PICK i \in Nat : /\ i <= Len(k) /\ i < Len(m) /\ (\A j \in 1..i : k[j] = m[j])
                       /\ i = Len(k) \/ k[i + 1] < m[i + 1]
  BY LessAt
<1>2. PICK h \in Nat : /\ h <= Len(m) /\ h < Len(n) /\ (\A j \in 1..h : m[j] = n[j])
                       /\ h = Len(m) \/ m[h + 1] < n[h + 1]
  BY LessAt
<1>3. CASE i < h
  <2>1. i <= Len(k) /\ i < Len(n) /\ (\A j \in 1..i : k[j] = n[j])
    BY <1>1, <1>2, <1>3
  <2>2. m[i + 1] = n[i + 1]
    BY <1>2, <1>3
  <2> QED
    BY <1>1, <2>1, <2>2, LessAt
<1>4. CASE h < i
  <2>1. h <= Len(k) /\ h < Len(n) /\ (\A j \in 1..h : k[j] = n[j])
    BY <1>1, <1>2, <1>4
  <2>2. k[h + 1] = m[h + 1] /\ h # Len(m)
    BY <1>1, <1>4
  <2> QED
    BY <1>2, <2>1, <2>2, LessAt
<1>5. CASE h = i
  <2>1. i <= Len(k) /\ i < Len(n) /\ (\A j \in 1..i : k[j] = n[j]) /\ i # Len(m)
    BY <1>1, <1>2, <1>5
  <2>2. i = Len(k) \/ k[i + 1] < n[i + 1]
    <3> SUFFICES ASSUME i # Len(k) PROVE k[i + 1] < n[i + 1]
      OBVIOUS
    <3>1. i + 1 \in 1..Len(k) /\ i + 1 \in 1..Len(m) /\ i + 1 \in 1..Len(n)
      BY <1>1, <1>2, <1>5
    <3> DEFINE at == i + 1
    <3> HIDE DEF at
    <3>2. k[at] \in Nat /\ m[at] \in Nat /\ n[at] \in Nat
      <4>1. at \in 1..Len(k) /\ at \in 1..Len(m) /\ at \in 1..Len(n)
        BY <3>1 DEF at
      <4> QED
        BY <4>1, SMTT(30)
    <3>3. k[at] < m[at] /\ m[at] < n[at]
      BY <1>1, <1>2, <1>5, <2>1, Zenon DEF at
    <3>4. \A u, v, w \in Nat : u < v /\ v < w => u < w
      OBVIOUS
    <3> QED
      BY <3>2, <3>3, <3>4, Zenon DEF at
  <2> QED
    BY <2>1, <2>2, LessAt
<1> QED
  BY <1>3, <1>4, <1>5

\* No key is before itself.
LEMMA LessIrreflexive == ASSUME NEW k \in Seq(Nat) PROVE ~Less(k, k)
BY DEF Less

\* Of two different keys one is before the other.
LEMMA LessTotal ==
  ASSUME NEW k \in Seq(Nat), NEW n \in Seq(Nat), k # n
  PROVE  Less(k, n) \/ Less(n, k)
<1> DEFINE D == {i \in Nat : i <= Len(k) /\ i <= Len(n)
                               /\ (i = Len(k) \/ i = Len(n) \/ k[i + 1] # n[i + 1])}
<1>1. D \in SUBSET Nat /\ D # {}
  <2>1. Len(k) \in D \/ Len(n) \in D
    OBVIOUS
  <2> QED
    BY <2>1
<1>2. PICK i \in D : \A m \in D : i <= m
  BY <1>1, LeastNumber
<1>3. i \in Nat /\ i <= Len(k) /\ i <= Len(n) /\ (i = Len(k) \/ i = Len(n) \/ k[i + 1] # n[i + 1])
  OBVIOUS
<1>4. \A j \in 1..i : k[j] = n[j]
  <2> SUFFICES ASSUME NEW j \in 1..i, k[j] # n[j] PROVE FALSE
    OBVIOUS
  <2>1. j - 1 \in Nat /\ j - 1 < i /\ (j - 1) + 1 = j
    BY <1>3
  <2>2. j - 1 \in D
    BY <1>3, <2>1
  <2>3. i <= j - 1
    BY <1>2, <2>2, Zenon
  <2> QED
    BY <1>3, <2>1, <2>3
<1> HIDE DEF D
<1>5. CASE i = Len(k) /\ i = Len(n)
  BY <1>4, <1>5, SeqEqual
<1>6. CASE i < Len(n) /\ (i = Len(k) \/ k[i + 1] < n[i + 1])
  BY <1>3, <1>4, <1>6, LessAt
<1>7. CASE i < Len(k) /\ (i = Len(n) \/ n[i + 1] < k[i + 1])
  <2>1. \A j \in 1..i : n[j] = k[j]
    BY <1>4
  <2> QED
    BY <1>3, <1>7, <2>1, LessAt
<1>8. i < Len(k) /\ i < Len(n) => k[i + 1] \in Nat /\ n[i + 1] \in Nat
  BY <1>3
<1> QED
  BY <1>3, <1>5, <1>6, <1>7, <1>8

\* A finite set of keys has a first.
LEMMA FirstOfKeys ==
  ASSUME NEW S \in SUBSET Seq(Nat), S # {}, IsFiniteSet(S)
  PROVE  FirstOf(S) \in S /\ \A n \in S : n = FirstOf(S) \/ Less(FirstOf(S), n)
<1> DEFINE Below(k) == {m \in S : Less(m, k)}
           T == {Cardinality(Below(k)) : k \in S}
<1>1. \A k \in S : IsFiniteSet(Below(k)) /\ Cardinality(Below(k)) \in Nat
  BY FS_Subset, FS_CardinalityType
<1>2. T \in SUBSET Nat /\ T # {}
  BY <1>1
<1>3. PICK c \in T : \A t \in T : c <= t
  BY <1>2, LeastNumber
<1>4. PICK k \in S : c = Cardinality(Below(k))
  OBVIOUS
<1>5. ASSUME NEW n \in S, n # k, ~Less(k, n) PROVE FALSE
  <2>1. Less(n, k)
    BY <1>5, LessTotal
  <2>2. n \in Below(k) /\ n \notin Below(n)
    BY <2>1, LessIrreflexive
  <2>3. Below(n) \subseteq Below(k)
    BY <2>1, LessTransitive
  <2> HIDE DEF Below
  <2>4. Cardinality(Below(n)) <= Cardinality(Below(k)) /\ Cardinality(Below(n)) # Cardinality(Below(k))
    BY <1>1, <2>2, <2>3, FS_Subset
  <2>5. Cardinality(Below(n)) \in T
    OBVIOUS
  <2> HIDE DEF T
  <2> QED
    BY <1>1, <1>3, <1>4, <2>4, <2>5
<1>6. \E f \in S : \A n \in S : n = f \/ Less(f, n)
  BY <1>5
<1> QED
  BY <1>6 DEF FirstOf

(***************************************************************************)
(* LabelCounts                                                             *)
(***************************************************************************)

\* Only the keys of one label begin with that label.
LEMMA LabelOfKey ==
  ASSUME NEW x \in Nat, NEW a \in Text, NEW b \in Text, NEW key \in Seq(Nat),
         HasPrefix(key, FirstPart(x, a)), HasPrefix(key, FirstPart(x, b))
  PROVE  a = b
<1>1. a \in Seq(Nat) /\ (\A i \in 1..Len(a) : a[i] # sep) /\ b \in Seq(Nat) /\ (\A i \in 1..Len(b) : b[i] # sep)
  BY TextIsBytes
<1>2. ASSUME NEW t \in Seq(Nat), HasPrefix(key, FirstPart(x, t))
      PROVE  key[Len(t) + 2] = sep /\ \A i \in 1..Len(t) : key[i + 1] = t[i]
  <2>1. /\ Len(FirstPart(x, t)) = Len(t) + 2 /\ FirstPart(x, t)[Len(t) + 2] = sep
        /\ \A i \in 1..Len(t) : FirstPart(x, t)[i + 1] = t[i]
    BY DEF FirstPart, Cat, sep
  <2>2. \A i \in 1..(Len(t) + 2) : key[i] = FirstPart(x, t)[i]
    BY <1>2, <2>1 DEF HasPrefix
  <2>3. Len(t) + 2 \in 1..(Len(t) + 2) /\ \A i \in 1..Len(t) : i + 1 \in 1..(Len(t) + 2)
    OBVIOUS
  <2> QED
    BY <2>1, <2>2, <2>3
<1>3. ASSUME NEW s \in Seq(Nat), NEW t \in Seq(Nat), HasPrefix(key, FirstPart(x, s)), HasPrefix(key, FirstPart(x, t)),
             \A i \in 1..Len(t) : t[i] # sep
      PROVE  ~(Len(s) < Len(t))
  <2> SUFFICES ASSUME Len(s) < Len(t) PROVE FALSE
    OBVIOUS
  <2>1. Len(s) + 1 \in 1..Len(t) /\ (Len(s) + 1) + 1 = Len(s) + 2
    OBVIOUS
  <2>2. key[Len(s) + 2] = sep /\ key[(Len(s) + 1) + 1] = t[Len(s) + 1]
    BY <1>2, <1>3, <2>1
  <2> QED
    BY <1>3, <2>1, <2>2
<1>4. Len(a) = Len(b)
  <2>1. ~(Len(a) < Len(b)) /\ ~(Len(b) < Len(a))
    BY <1>1, <1>3, Zenon
  <2> QED
    BY <1>1, <2>1
<1>5. \A i \in 1..Len(a) : a[i] = b[i]
  BY <1>1, <1>2, <1>4
<1> QED
  BY <1>1, <1>4, <1>5, SeqEqual

\* The LSP keys that begin with a label are those of the quads that carry it.
LEMMA LabelPrefixed ==
  ASSUME Encodable, NEW q \in Quad, NEW l \in Text
  PROVE  HasPrefix(KeyBytes("LSP", q), FirstPart(prefLSP, l)) <=> q.label = l
<1>1. /\ q.label \in Text /\ HasPrefix(KeyBytes("LSP", q), FirstPart(prefLSP, q.label))
  BY FirstFieldOfQuad
<1>2. KeyBytes("LSP", q) \in Seq(Nat) /\ prefLSP \in Nat
  BY KeyStandsForQuad DEF StandsFor, Keyspace, prefLSP
<1> QED
  BY <1>1, <1>2, LabelOfKey

\* The scan of one label, which LabelCounts makes for each, counts its quads.
LEMMA LabelCounted ==
  ASSUME Encodable, NEW kv \in Contents, NEW l \in Text, l \in AnyLabel
  PROVE  Cardinality(Scan(kv, FirstPart(prefLSP, l))) = LabelScan(kv)[l]
<1>1. IsPrefixFor(PrefixOf["LSP"], FirstPart(prefLSP, l)) /\ "LSP" \in Keyspace
  BY TextIsBytes, FirstPartFacts, PrefixesDiffer DEF prefLSP, Keyspace
<1>2. Cardinality(Scan(kv, FirstPart(prefLSP, l)))
        = Cardinality({q \in Held(kv, "LSP") : HasPrefix(KeyBytes("LSP", q), FirstPart(prefLSP, l))})
  BY <1>1, ScanCounts
<1>3. \A q \in Held(kv, "LSP") : HasPrefix(KeyBytes("LSP", q), FirstPart(prefLSP, l)) <=> q.label = l
  BY HeldFinite, LabelPrefixed
<1>4. {q \in Held(kv, "LSP") : HasPrefix(KeyBytes("LSP", q), FirstPart(prefLSP, l))}
        = {q \in Held(kv, "LSP") : q.label = l}
  BY <1>3
<1> QED
  BY <1>2, <1>4 DEF LabelScan

\* What lies between from and the end of the keyspace.
AheadOf(kv, from) == KeyRange(kv, from, <<prefLSP + 1>>)

\* What is ahead are keys of quads of the keyspace.
LEMMA KeysAhead ==
  ASSUME Encodable, NEW kv \in Contents, NEW from, IsPrefixFor(prefLSP, from)
  PROVE  /\ AheadOf(kv, from) = {KeyBytes("LSP", q) : q \in {q \in Held(kv, "LSP") : ~Less(KeyBytes("LSP", q), from)}}
         /\ AheadOf(kv, from) \in SUBSET Seq(Nat) /\ IsFiniteSet(AheadOf(kv, from))
<1> DEFINE end == <<prefLSP + 1>>
           H == Held(kv, "LSP")
           A == AheadOf(kv, from)
           f == [q \in H |-> KeyBytes("LSP", q)]
<1>0. prefLSP \in Nat /\ PrefixOf["LSP"] = prefLSP /\ "LSP" \in Keyspace /\ H \subseteq Quad /\ IsFiniteSet(H)
  BY PrefixesDiffer, HeldFinite, FS_Subset DEF prefLSP, Keyspace
<1>1. ASSUME NEW k \in Seq(Nat), k # <<>>
      PROVE  /\ k[1] = prefLSP => Less(k, end)
             /\ Less(k, end) /\ ~Less(k, from) => k[1] = prefLSP
  <2>1. end \in Seq(Nat) /\ Len(end) = 1 /\ Len(end) >= 1 /\ end[1] = prefLSP + 1 /\ k[1] \in Nat /\ Len(k) >= 1
    BY <1>0, <1>1
  <2>2. from \in Seq(Nat) /\ Len(from) >= 1 /\ from[1] = prefLSP
    BY DEF IsPrefixFor
  <2> HIDE DEF end
  <2>3. 0 \in 0..Len(k) /\ 0 + 1 = 1 /\ \A j \in 1..0 : FALSE
    BY <2>1
  <2>4. ASSUME NEW n \in Seq(Nat), Len(n) >= 1, k[1] < n[1] PROVE Less(k, n)
    BY <2>3, <2>4 DEF Less
  <2>5. Less(k, end) => k[1] < prefLSP + 1
    BY <2>1 DEF Less
  <2>6. k[1] = prefLSP => k[1] < end[1]
    BY <1>0, <2>1
  <2>7. k[1] = prefLSP => Less(k, end)
    BY <2>1, <2>4, <2>6, Zenon
  <2>8. ~Less(k, from) => ~(k[1] < from[1])
    BY <2>2, <2>4
  <2> QED
    BY <1>0, <2>1, <2>2, <2>5, <2>7, <2>8
<1>2. \A q \in Quad : KeyBytes("LSP", q) \in Seq(Nat) /\ KeyBytes("LSP", q) # <<>> /\ KeyBytes("LSP", q)[1] = prefLSP
  BY <1>0, KeyStandsForQuad DEF StandsFor
<1>3. ASSUME NEW k \in A PROVE \E q \in H : ~Less(KeyBytes("LSP", q), from) /\ k = KeyBytes("LSP", q)
  <2>1. k \in ByteKeys(kv) /\ ~Less(k, from) /\ Less(k, end) /\ k \in Seq(Nat) /\ k # <<>>
    BY KeysOfStore DEF AheadOf, KeyRange
  <2>2. k[1] = PrefixOf["LSP"]
    BY <1>0, <1>1, <2>1
  <2>3. PICK other \in Keyspace, q \in Quad : <<other, q>> \in kv.keys /\ k = KeyBytes(other, q)
    BY <1>0, <2>1, <2>2, KeysOfStore, PrefixesDiffer
  <2>4. k[1] = PrefixOf[other]
    BY <2>3, KeyStandsForQuad DEF StandsFor
  <2>5. other = "LSP"
    BY <1>0, <2>2, <2>4, PrefixesDiffer
  <2> QED
    BY <2>1, <2>3, <2>5 DEF Held
<1>4. ASSUME NEW q \in H, ~Less(KeyBytes("LSP", q), from) PROVE KeyBytes("LSP", q) \in A
  <2>1. q \in Quad /\ <<"LSP", q>> \in kv.keys
    BY DEF Held
  <2>2. Less(KeyBytes("LSP", q), end)
    BY <1>1, <1>2, <2>1
  <2>3. KeyBytes("LSP", q) \in ByteKeys(kv)
    <3>1. <<"LSP", q>>[1] = "LSP" /\ <<"LSP", q>>[2] = q
      OBVIOUS
    <3> QED
      BY <2>1, <3>1, Zenon DEF ByteKeys
  <2> QED
    BY <1>4, <2>2, <2>3 DEF AheadOf, KeyRange
<1>5. A \in SUBSET Seq(Nat)
  BY <1>0, <1>2, <1>3
<1>6. IsFiniteSet(A)
  <2> DEFINE B == {KeyBytes("LSP", q) : q \in H}
  <2>1. f \in Surjection(H, B)
    BY DEF Surjection
  <2>2. A \subseteq B
    BY <1>3
  <2> HIDE DEF f, B, A, H
  <2>3. IsFiniteSet(B)
    BY <1>0, <2>1, FS_Surjection
  <2> QED
    BY <2>2, <2>3, FS_Subset
<1> QED
  BY <1>3, <1>4, <1>5, <1>6

\* What LabelCounts has found when its outer iterator stands at from: each
\* label once, with its number of quads at some moment of the call (or, if its
\* scan was cut, no more), none that could come again, and all the labels of
\* the snapshot that are behind.
Walked(found, from, snap, since, cut) ==
  /\ IsPrefixFor(prefLSP, from)
  /\ found \in Seq(Text \X Nat)
  /\ \A i \in DOMAIN found : \E kv \in since :
       Reached(found[i][2], LabelScan(kv)[found[i][1]], found[i][1] \notin cut)
  /\ \A i \in DOMAIN found : \A key \in Seq(Nat) :
       HasPrefix(key, FirstPart(prefLSP, found[i][1])) => Less(key, from)
  /\ \A i, j \in DOMAIN found : found[i][1] = found[j][1] => i = j
  /\ \A q \in Held(snap, "LSP") :
       Less(KeyBytes("LSP", q), from) => \E i \in DOMAIN found : found[i][1] = q.label

\* The first key ahead, and the label it begins with.
LEMMA NextLabel ==
  ASSUME Encodable, NEW snap \in Contents, NEW from, IsPrefixFor(prefLSP, from), AheadOf(snap, from) # {}
  PROVE  \E q \in Held(snap, "LSP") :
           /\ FirstOf(AheadOf(snap, from)) = KeyBytes("LSP", q)
           /\ FirstField(FirstOf(AheadOf(snap, from))) = FirstPart(prefLSP, q.label)
           /\ q \in Quad /\ q.label \in Text /\ q.label \in AnyLabel
           /\ ~Less(KeyBytes("LSP", q), from)
           /\ \A n \in Held(snap, "LSP") :
                Less(KeyBytes("LSP", n), from) \/ ~Less(KeyBytes("LSP", n), FirstPart(prefLSP, q.label))
<1> DEFINE A == AheadOf(snap, from)
           k == FirstOf(A)
<1>1. /\ A = {KeyBytes("LSP", q) : q \in {q \in Held(snap, "LSP") : ~Less(KeyBytes("LSP", q), from)}}
      /\ A \in SUBSET Seq(Nat) /\ IsFiniteSet(A) /\ A # {}
  BY KeysAhead
<1> HIDE DEF A
<1>2. k \in A /\ \A n \in A : n = k \/ Less(k, n)
  BY <1>1, FirstOfKeys
<1> HIDE DEF k
<1>3. PICK q \in Held(snap, "LSP") : k = KeyBytes("LSP", q) /\ ~Less(KeyBytes("LSP", q), from)
  BY <1>1, <1>2
<1>4. q \in Quad /\ q.label \in AnyLabel /\ Held(snap, "LSP") \subseteq Quad
  BY HeldFinite DEF Quad
<1>5. /\ q.label \in Text /\ FirstField(k) = FirstPart(prefLSP, q.label)
      /\ HasPrefix(k, FirstPart(prefLSP, q.label))
  BY <1>3, <1>4, FirstFieldOfQuad
<1> DEFINE pre == FirstPart(prefLSP, q.label)
<1>6. pre \in Seq(Nat) /\ pre # <<>>
  <2>1. q.label \in Seq(Nat) /\ prefLSP \in Nat
    BY <1>5, TextIsBytes DEF prefLSP
  <2>2. IsPrefixFor(prefLSP, pre)
    BY <2>1, FirstPartFacts
  <2> HIDE DEF pre
  <2> QED
    BY <2>2 DEF IsPrefixFor
<1>7. k \in Seq(Nat) /\ ~Less(k, pre)
  <2>1. k \in Seq(Nat)
    BY <1>1, <1>2
  <2> QED
    BY <1>5, <1>6, <2>1, RangeOfPrefix
<1>8. ASSUME NEW n \in Held(snap, "LSP"), ~Less(KeyBytes("LSP", n), from), Less(KeyBytes("LSP", n), pre)
      PROVE  FALSE
  <2> DEFINE m == KeyBytes("LSP", n)
  <2>1. m \in A
    BY <1>1, <1>8
  <2>2. m \in Seq(Nat) /\ (m = k \/ Less(k, m)) /\ Less(m, pre)
    BY <1>1, <1>2, <1>8, <2>1
  <2> HIDE DEF m, pre
  <2> QED
    BY <1>6, <1>7, <2>2, LessTransitive
<1> QED
  BY <1>3, <1>4, <1>5, <1>8 DEF A, k

\* Its scan finds finitely many keys.
LEMMA NextIsFinite ==
  ASSUME Encodable, NEW snap \in Contents, NEW kv \in Contents, NEW from, IsPrefixFor(prefLSP, from),
         AheadOf(snap, from) # {}
  PROVE  Cardinality(Scan(kv, FirstField(FirstOf(AheadOf(snap, from))))) \in Nat
<1> DEFINE pre == FirstField(FirstOf(AheadOf(snap, from)))
<1>1. PICK q \in Held(snap, "LSP") : pre = FirstPart(prefLSP, q.label) /\ q.label \in Text /\ q.label \in AnyLabel
  BY NextLabel
<1>2. Cardinality(Scan(kv, pre)) = LabelScan(kv)[q.label]
  BY <1>1, LabelCounted
<1>3. IsFiniteSet({m \in Held(kv, "LSP") : m.label = q.label})
  BY HeldFinite, FS_Subset
<1>4. LabelScan(kv)[q.label] \in Nat
  BY <1>1, <1>3, FS_CardinalityType DEF LabelScan
<1> QED
  BY <1>2, <1>4

\* The walk begins at the first key of the keyspace, with nothing found.
LEMMA WalkBegins ==
  ASSUME Encodable, NEW snap, NEW since
  PROVE  Walked(<<>>, <<prefLSP>>, snap, since, {})
<1>1. IsPrefixFor(prefLSP, <<prefLSP>>)
  BY DEF IsPrefixFor, prefLSP
<1>2. ASSUME NEW q \in Held(snap, "LSP")
      PROVE  ~Less(KeyBytes("LSP", q), <<prefLSP>>)
  <2>1. q \in Quad /\ "LSP" \in Keyspace
    BY DEF Held, Keyspace
  <2>2. KeyBytes("LSP", q) \in Seq(Nat) /\ KeyBytes("LSP", q) # <<>> /\ KeyBytes("LSP", q)[1] = prefLSP
    BY <2>1, KeyStandsForQuad, PrefixesDiffer DEF StandsFor
  <2> DEFINE k == KeyBytes("LSP", q)
             one == <<prefLSP>>
  <2>3. one \in Seq(Nat) /\ Len(one) = 1 /\ one[1] = prefLSP /\ prefLSP \in Nat /\ one # <<>>
    BY DEF prefLSP
  <2>4. k \in Seq(Nat) /\ k # <<>> /\ k[1] = prefLSP
    BY <2>2
  <2> HIDE DEF k, one
  <2>5. HasPrefix(k, one)
    BY <2>3, <2>4 DEF HasPrefix
  <2>6. ~Less(k, one)
    BY <2>3, <2>4, <2>5, RangeOfPrefix
  <2> QED
    BY <2>6 DEF k, one
<1>3. <<>> \in Seq(Text \X Nat) /\ DOMAIN <<>> = {}
  OBVIOUS
<1> QED
  BY <1>1, <1>2, <1>3 DEF Walked

\* What a sequence is after Append.
LEMMA AppendPair ==
  ASSUME NEW T, NEW s \in Seq(T), NEW e \in T
  PROVE  /\ Append(s, e) \in Seq(T) /\ DOMAIN Append(s, e) = DOMAIN s \cup {Len(s) + 1}
         /\ Len(s) + 1 \notin DOMAIN s
         /\ Append(s, e)[Len(s) + 1] = e /\ \A i \in DOMAIN s : Append(s, e)[i] = s[i]
OBVIOUS

\* The walk goes on: it counts the label of the first key ahead, at a moment that may be
\* later than the snapshot and perhaps not to its end, and skips to the end of that label.
LEMMA WalkGoesOn ==
  ASSUME Encodable, NEW snap \in Contents, NEW since, NEW kv \in since, kv \in Contents,
         NEW found, NEW from, NEW cut, Walked(found, from, snap, since, cut), AheadOf(snap, from) # {},
         NEW pre, pre = FirstField(FirstOf(AheadOf(snap, from))),
         NEW label, label = LabelIn(pre),
         NEW now, \A l : l # label => (l \in now <=> l \in cut),
         NEW n \in Nat, Reached(n, Cardinality(Scan(kv, pre)), label \notin now)
  PROVE  Walked(Append(found, <<label, n>>), upperBoundForPrefix(pre), snap, since, now)
<1> DEFINE key(q) == KeyBytes("LSP", q)
           e == <<label, n>>
           more == Append(found, e)
           next == upperBoundForPrefix(pre)
           new == Len(found) + 1
<1>1. IsPrefixFor(prefLSP, from)
  BY DEF Walked
<1>2. PICK q \in Held(snap, "LSP") :
        /\ pre = FirstPart(prefLSP, q.label) /\ q \in Quad /\ q.label \in Text /\ q.label \in AnyLabel
        /\ ~Less(key(q), from)
        /\ \A m \in Held(snap, "LSP") : Less(key(m), from) \/ ~Less(key(m), pre)
  BY <1>1, NextLabel
<1>3. /\ q.label \in Seq(Nat) /\ prefLSP \in Nat /\ label = q.label
      /\ pre \in Seq(Nat) /\ pre # <<>> /\ IsPrefixFor(prefLSP, pre) /\ Len(pre) >= 2
  <2>1. q.label \in Seq(Nat) /\ prefLSP \in Nat
    BY <1>2, TextIsBytes DEF prefLSP
  <2>2. /\ SubSeq(FirstPart(prefLSP, q.label), 2, Len(FirstPart(prefLSP, q.label)) - 1) = q.label
        /\ IsPrefixFor(prefLSP, FirstPart(prefLSP, q.label))
        /\ Len(FirstPart(prefLSP, q.label)) = Len(q.label) + 2
    BY <2>1, FirstPartFacts
  <2>3. label = q.label /\ IsPrefixFor(prefLSP, pre) /\ Len(pre) = Len(q.label) + 2
    BY <1>2, <2>2, Zenon DEF LabelIn
  <2> QED
    BY <2>1, <2>3 DEF IsPrefixFor
<1>4. Reached(n, LabelScan(kv)[label], label \notin now)
  <2>1. Cardinality(Scan(kv, pre)) = LabelScan(kv)[label]
    BY <1>2, <1>3, LabelCounted
  <2> QED
    BY <2>1
<1>5. /\ more \in Seq(Text \X Nat) /\ DOMAIN more = DOMAIN found \cup {new} /\ new \notin DOMAIN found
      /\ more[new][1] = label /\ more[new][2] = n
      /\ \A i \in DOMAIN found : more[i] = found[i]
  <2>1. found \in Seq(Text \X Nat) /\ e \in Text \X Nat
    BY <1>2, <1>3, <1>4 DEF Walked
  <2>2. e[1] = label /\ e[2] = n
    OBVIOUS
  <2>3. /\ more \in Seq(Text \X Nat) /\ DOMAIN more = DOMAIN found \cup {new} /\ new \notin DOMAIN found
        /\ more[new] = e /\ \A i \in DOMAIN found : more[i] = found[i]
    <3> DEFINE T == Text \X Nat
    <3>1. found \in Seq(T) /\ e \in T
      BY <2>1
    <3> HIDE DEF T, e
    <3>2. /\ more \in Seq(T) /\ DOMAIN more = DOMAIN found \cup {new} /\ new \notin DOMAIN found
          /\ more[new] = e /\ \A i \in DOMAIN found : more[i] = found[i]
      BY <3>1, AppendPair
    <3> QED
      BY <3>2 DEF T
  <2> HIDE DEF e, more, new
  <2> QED
    BY <2>2, <2>3
<1>6. IsPrefixFor(prefLSP, next) /\ next \in Seq(Nat)
  BY <1>3 DEF IsPrefixFor, upperBoundForPrefix
<1>7. from \in Seq(Nat) /\ key(q) \in Seq(Nat) /\ HasPrefix(key(q), pre)
  <2>1. "LSP" \in Keyspace
    BY DEF Keyspace
  <2> QED
    BY <1>1, <1>2, <2>1, KeyStandsForQuad, FirstFieldOfQuad DEF StandsFor, IsPrefixFor
<1>8. Less(from, next)
  <2>1. Less(key(q), next)
    BY <1>3, <1>7, RangeOfPrefix
  <2>2. key(q) = from \/ Less(from, key(q))
    BY <1>2, <1>7, LessTotal
  <2> HIDE DEF key, next
  <2> QED
    BY <1>6, <1>7, <2>1, <2>2, LessTransitive
<1>9. ASSUME NEW k \in Seq(Nat), Less(k, from) PROVE Less(k, next)
  BY <1>6, <1>7, <1>8, <1>9, LessTransitive
<1>10. ASSUME NEW k \in Seq(Nat), HasPrefix(k, pre) PROVE Less(k, next)
  BY <1>3, <1>10, RangeOfPrefix
<1> HIDE DEF more, next, new, e, key
<1>12. ASSUME NEW i \in DOMAIN more, NEW k \in Seq(Nat), HasPrefix(k, FirstPart(prefLSP, more[i][1]))
       PROVE  Less(k, next)
  <2>1. CASE i = new
    BY <1>2, <1>3, <1>5, <1>10, <1>12, <2>1
  <2>2. CASE i \in DOMAIN found
    BY <1>5, <1>9, <1>12, <2>2 DEF Walked
  <2> QED
    BY <1>5, <2>1, <2>2
<1>13. \A i \in DOMAIN found : found[i][1] # label
  <2> SUFFICES ASSUME NEW i \in DOMAIN found, found[i][1] = label PROVE FALSE
    OBVIOUS
  <2>1. HasPrefix(key(q), FirstPart(prefLSP, found[i][1]))
    BY <1>2, <1>3, <1>7
  <2>2. Less(key(q), from)
    BY <1>7, <2>1 DEF Walked
  <2> QED
    BY <1>2, <2>2
<1>11. \A i \in DOMAIN more : \E w \in since :
         Reached(more[i][2], LabelScan(w)[more[i][1]], more[i][1] \notin now)
  <2>1. Reached(more[new][2], LabelScan(kv)[more[new][1]], more[new][1] \notin now)
    BY <1>4, <1>5
  <2>2. ASSUME NEW i \in DOMAIN found
        PROVE  \E w \in since : Reached(more[i][2], LabelScan(w)[more[i][1]], more[i][1] \notin now)
    <3>1. PICK w \in since : Reached(found[i][2], LabelScan(w)[found[i][1]], found[i][1] \notin cut)
      BY Zenon DEF Walked
    <3>2. more[i] = found[i] /\ (found[i][1] \notin cut <=> found[i][1] \notin now)
      BY <1>5, <1>13
    <3>3. Reached(more[i][2], LabelScan(w)[more[i][1]], more[i][1] \notin now)
      BY <3>1, <3>2 DEF Reached
    <3> QED
      BY <3>3
  <2> QED
    BY <1>5, <2>1, <2>2, Zenon
<1>14. \A i, j \in DOMAIN more : more[i][1] = more[j][1] => i = j
  <2> SUFFICES ASSUME NEW i \in DOMAIN more, NEW j \in DOMAIN more, more[i][1] = more[j][1]
               PROVE  i = j
    OBVIOUS
  <2>1. \A a, b \in DOMAIN found : found[a][1] = found[b][1] => a = b
    BY Zenon DEF Walked
  <2>2. (i \in DOMAIN found \/ i = new) /\ (j \in DOMAIN found \/ j = new)
    BY <1>5, Zenon
  <2>3. CASE i \in DOMAIN found /\ j \in DOMAIN found
    BY <1>5, <2>1, <2>3, Zenon
  <2>4. CASE i \in DOMAIN found /\ j = new
    BY <1>5, <1>13, <2>4, Zenon
  <2>5. CASE i = new /\ j \in DOMAIN found
    BY <1>5, <1>13, <2>5, Zenon
  <2> QED
    BY <2>2, <2>3, <2>4, <2>5, Zenon
<1>15. ASSUME NEW m \in Held(snap, "LSP"), Less(key(m), next)
       PROVE  \E i \in DOMAIN more : more[i][1] = m.label
  <2>1. CASE Less(key(m), from)
    <3>1. \E i \in DOMAIN found : found[i][1] = m.label
      BY <2>1 DEF Walked, key
    <3> QED
      BY <1>5, <3>1
  <2>2. CASE ~Less(key(m), from)
    <3>1. m \in Quad /\ "LSP" \in Keyspace
      BY DEF Held, Keyspace
    <3>2. key(m) \in Seq(Nat)
      BY <3>1, KeyStandsForQuad DEF StandsFor, key
    <3>3. HasPrefix(key(m), pre)
      BY <1>2, <1>3, <1>15, <2>2, <3>2, RangeOfPrefix DEF next
    <3>4. m.label = label
      BY <1>2, <1>3, <3>1, <3>3, LabelPrefixed DEF key
    <3> QED
      BY <1>5, <3>4
  <2> QED
    BY <2>1, <2>2
<1>16. Walked(more, next, snap, since, now)
  BY <1>5, <1>6, <1>11, <1>12, <1>14, <1>15 DEF Walked, key
<1> QED
  BY <1>16 DEF more, next, e

\* Another moment changes nothing of a walk.
LEMMA WalkGrows ==
  ASSUME NEW found, NEW from, NEW snap, NEW cut, NEW since, NEW longer, since \subseteq longer,
         Walked(found, from, snap, since, cut)
  PROVE  Walked(found, from, snap, longer, cut)
BY DEF Walked

\* What LabelCountsExact says of an answer.
LabelsAnswer(found, since, cut) ==
  /\ \A i, j \in DOMAIN found : found[i][1] = found[j][1] => i = j
  /\ \A i \in DOMAIN found : \E kv \in since :
       Reached(found[i][2], LabelScan(kv)[found[i][1]], found[i][1] \notin cut)
  /\ \A l \in AnyLabel : (\A i \in DOMAIN found : found[i][1] # l) =>
                          \E kv \in since : LabelScan(kv)[l] = 0

\* When nothing is ahead, the walk has found every label of the snapshot.
LEMMA WalkEnds ==
  ASSUME Encodable, NEW snap \in Contents, NEW found, NEW from, NEW since, NEW cut, snap \in since,
         Walked(found, from, snap, since, cut), AheadOf(snap, from) = {}
  PROVE  LabelsAnswer(found, since, cut)
<1>1. \A q \in Held(snap, "LSP") : Less(KeyBytes("LSP", q), from)
  <2>1. IsPrefixFor(prefLSP, from)
    BY DEF Walked
  <2> SUFFICES ASSUME NEW q \in Held(snap, "LSP"), ~Less(KeyBytes("LSP", q), from) PROVE FALSE
    OBVIOUS
  <2>2. KeyBytes("LSP", q) \in AheadOf(snap, from)
    BY <2>1, KeysAhead
  <2> QED
    BY <2>2
<1>2. ASSUME NEW l \in AnyLabel, \A i \in DOMAIN found : found[i][1] # l
      PROVE  LabelScan(snap)[l] = 0
  <2>1. {q \in Held(snap, "LSP") : q.label = l} = {}
    BY <1>1, <1>2 DEF Walked
  <2> QED
    BY <2>1, FS_EmptySet DEF LabelScan
<1> QED
  BY <1>2 DEF Walked, LabelsAnswer

\* LabelsAnswer is what LabelCountsExact says, in a state and in the next.
LEMMA AnswerOfLabels ==
  /\ LabelCountsExact <=> (rd.op = "labels" /\ rd.done => LabelsAnswer(rd.found, rd.since, rd.cut))
  /\ LabelCountsExact' <=> (rd'.op = "labels" /\ rd'.done => LabelsAnswer(rd'.found, rd'.since, rd'.cut))
<1>1. LabelCountsExact <=> (rd.op = "labels" /\ rd.done => LabelsAnswer(rd.found, rd.since, rd.cut))
  BY Zenon DEF LabelCountsExact, Answered, LabelsAnswer
<1>2. LabelCountsExact' <=> (rd'.op = "labels" /\ rd'.done => LabelsAnswer(rd'.found, rd'.since, rd'.cut))
  BY Zenon DEF LabelCountsExact, Answered, LabelsAnswer, LabelScan, Held, Reached
<1> QED
  BY <1>1, <1>2

\* LabelCounts is on such a walk until it answers.
LabelsInv ==
  /\ rd.op = "labels" /\ ~rd.done => Walked(rd.found, rd.from, rd.snap, rd.since, rd.cut)
  /\ LabelCountsExact

\* LabelsInv is inductive.
LEMMA LabelsKept ==
  ASSUME Encodable, MomentInv, LabelsInv, [RNext]_<<vars, rd>>
  PROVE  LabelsInv'
<1>1. CASE LabelCounts
  <2>1. /\ rd'.op = "labels" /\ rd'.done = FALSE /\ rd'.found = <<>> /\ rd'.from = <<prefLSP>>
        /\ rd'.cut = {}
    BY <1>1, LabelCountsMoment
  <2>2. Walked(<<>>, <<prefLSP>>, rd'.snap, rd'.since, {})
    BY WalkBegins
  <2> QED
    BY <2>1, <2>2, AnswerOfLabels DEF LabelsInv
<1>2. CASE CountLabel \/ CountLabelCut
  <2>1. /\ rd.op = "labels" /\ rd.done = FALSE /\ rd'.op = "labels" /\ rd'.done = FALSE
        /\ rd'.since = rd.since /\ rd'.snap = rd.snap
    BY <1>2, MiddleMoment DEF CountLabel, CountLabelCut
  <2> DEFINE pre == FirstField(FirstOf(Ahead))
             label == LabelIn(pre)
             all == Cardinality(Scan(db, pre))
             more(n) == Append(rd.found, <<label, n>>)
  <2>2. Ahead = AheadOf(rd.snap, rd.from) /\ Ahead # {}
    BY <1>2 DEF CountLabel, CountLabelCut, Ahead, AheadOf
  <2>3. /\ rd.snap \in Contents /\ rd.snap \in rd.since /\ db \in rd.since /\ db \in Contents
        /\ Walked(rd.found, rd.from, rd.snap, rd.since, rd.cut)
    BY <2>1 DEF MomentInv, Whole, LabelsInv
  <2>4. all \in Nat
    <3>1. IsPrefixFor(prefLSP, rd.from)
      BY <2>3 DEF Walked
    <3> QED
      BY <2>2, <2>3, <3>1, NextIsFinite
  <2>5. \E n \in Nat, now \in {rd.cut, rd.cut \cup {label}} :
          /\ rd'.found = more(n) /\ rd'.from = upperBoundForPrefix(pre) /\ rd'.cut = now
          /\ Reached(n, all, label \notin now)
    <3>1. CASE CountLabel
      <4>1. rd' = [rd EXCEPT !.from = upperBoundForPrefix(pre), !.found = more(all)]
        BY <3>1 DEF CountLabel, Step
      <4>2. rd'.found = more(all) /\ rd'.from = upperBoundForPrefix(pre) /\ rd'.cut = rd.cut
        <5> HIDE DEF more, pre
        <5> QED
          BY <4>1 DEF MomentInv, ReadFields
      <4>3. Reached(all, all, label \notin rd.cut)
        BY <2>4 DEF Reached
      <4> QED
        BY <2>4, <4>2, <4>3
    <3>2. CASE CountLabelCut
      <4>1. PICK n \in 0..(all - 1) :
              rd' = [rd EXCEPT !.from = upperBoundForPrefix(pre), !.found = more(n),
                               !.cut = @ \cup {label}]
        BY <3>2 DEF CountLabelCut, Step
      <4>2. /\ rd'.found = more(n) /\ rd'.from = upperBoundForPrefix(pre)
            /\ rd'.cut = rd.cut \cup {label}
        <5> HIDE DEF more, pre, label
        <5> QED
          BY <4>1 DEF MomentInv, ReadFields
      <4>3. n \in Nat /\ Reached(n, all, label \notin rd.cut \cup {label})
        <5> HIDE DEF all
        <5> QED
          BY <2>4 DEF Reached
      <4> QED
        BY <4>2, <4>3
    <3> QED
      BY <1>2, <3>1, <3>2
  <2>6. PICK n \in Nat, now \in {rd.cut, rd.cut \cup {label}} :
          /\ rd'.found = more(n) /\ rd'.from = upperBoundForPrefix(pre) /\ rd'.cut = now
          /\ Reached(n, all, label \notin now)
    BY <2>5
  <2>7. Walked(more(n), upperBoundForPrefix(pre), rd.snap, rd.since, now)
    <3>1. \A l : l # label => (l \in now <=> l \in rd.cut)
      OBVIOUS
    <3> QED
      BY <2>2, <2>3, <2>6, <3>1, WalkGoesOn
  <2> HIDE DEF more, pre, label, all
  <2> QED
    BY <2>1, <2>6, <2>7, AnswerOfLabels DEF LabelsInv
<1>3. CASE LabelsDone
  <2>1. /\ rd.op = "labels" /\ rd.done = FALSE /\ rd'.done = TRUE /\ rd'.found = rd.found
        /\ rd'.since = rd.since /\ rd'.cut = rd.cut
    BY <1>3, AnswerMoment DEF LabelsDone
  <2>2. rd.snap \in Contents /\ rd.snap \in rd.since
    BY <2>1 DEF MomentInv, Whole
  <2>3. AheadOf(rd.snap, rd.from) = {} /\ Walked(rd.found, rd.from, rd.snap, rd.since, rd.cut)
    BY <1>3, <2>1 DEF LabelsDone, Ahead, AheadOf, LabelsInv
  <2>4. LabelsAnswer(rd.found, rd.since, rd.cut)
    BY <2>2, <2>3, WalkEnds
  <2> QED
    BY <2>1, <2>4, AnswerOfLabels DEF LabelsInv
<1>4. CASE Meanwhile
  BY <1>4, MeanwhileMoment, WalkGrows, AnswerOfLabels DEF LabelsInv
<1>5. CASE rd' = NoRead
  BY <1>5, NoReadMoment, AnswerOfLabels DEF LabelsInv
<1>6. CASE UNCHANGED rd
  BY <1>6, AnswerOfLabels DEF LabelsInv
<1>7. CASE Reader /\ ~LabelCounts /\ ~CountLabel /\ ~CountLabelCut /\ ~LabelsDone /\ rd' # NoRead
  BY <1>7, OpAfter, AnswerOfLabels DEF LabelsInv
<1> QED
  BY <1>1, <1>2, <1>3, <1>4, <1>5, <1>6, <1>7, ReadSteps

(***************************************************************************)
(* What the answers are                                                    *)
(***************************************************************************)

\* Find yields the quads that match in the contents of some moment of the call, each once
\* and no others, whichever of the four keyspaces it scans and whatever the Writers do
\* between its scan and its answer.
THEOREM FindsAreExact ==
  ASSUME Encodable
  PROVE  RSpec => []FindExact
<1>1. RInit => FindInv
  BY NoReadMoment DEF RInit, FindInv, FindExact, Answered
<1>2. MomentInv /\ FindInv /\ [RNext]_<<vars, rd>> => FindInv'
  BY FindKept
<1>3. FindInv => FindExact
  BY DEF FindInv
<1> QED
  BY <1>1, <1>2, <1>3, MomentsAreWhole, PTL DEF RSpec

\* LabelCounts names every label once, with a number of quads it had at some moment of the
\* call, and leaves out only labels that had no quad at some moment: the scans of the
\* labels are later than the walk over them.  A label whose scan fails, which LabelCounts
\* does not notice (store.go:766), is named with no more quads than it had.
THEOREM LabelCountsAreExact ==
  ASSUME Encodable
  PROVE  RSpec => []LabelCountsExact
<1>1. RInit => LabelsInv
  BY NoReadMoment DEF RInit, LabelsInv, LabelCountsExact, Answered
<1>2. MomentInv /\ LabelsInv /\ [RNext]_<<vars, rd>> => LabelsInv'
  BY LabelsKept
<1>3. LabelsInv => LabelCountsExact
  BY DEF LabelsInv
<1> QED
  BY <1>1, <1>2, <1>3, MomentsAreWhole, PTL DEF RSpec

\* Stats reports a number of quads and a number of predicates, each of some moment of the
\* call, from the keys of the SPO and of the POS keyspace.
THEOREM StatsAreExact ==
  ASSUME Encodable
  PROVE  RSpec => []StatsExact
<1>1. RInit => StatsInv
  BY NoReadMoment DEF RInit, StatsInv, StatsExact, Answered
<1>2. MomentInv /\ StatsInv /\ Whole(db) /\ [RNext]_<<vars, rd>> => StatsInv'
  BY StatsKept
<1>3. StatsInv => StatsExact
  BY DEF StatsInv
<1> QED
  BY <1>1, <1>2, <1>3, MomentsAreWhole, StoreIsWhole, PTL DEF RSpec

\* Where each counter and each uncounted ingest add up and nothing is
\* uncounted, the counters are the numbers of quads.
LEMMA NothingUncounted ==
  ASSUME TypeOK, CountersExact, AllCounted
  PROVE  CountersTrue(db)
<1>1. db \in worlds /\ db \in Contents /\ db.uncounted = Zero
  BY DEF TypeOK, AllCounted
<1>2. Plus(db.count, Zero) = LabelScan(db)
  BY <1>1 DEF CountersExact
<1>3. db.count \in [AnyLabel -> Int]
  BY <1>1 DEF Contents
<1>4. Plus(db.count, Zero) = db.count
  BY <1>3 DEF Plus, Zero
<1> QED
  BY <1>2, <1>4 DEF CountersTrue

\* Count yields the number of quads that match in the contents of some moment of the call,
\* whether it reads the counter of a label or scans: while no import is under way.
THEOREM CountsAreExact ==
  ASSUME Encodable, LabelPatterns, CountedUsage, NoImports
  PROVE  RSpec => []CountExact
<1>1. RInit => CountedInv
  BY NoReadMoment DEF RInit, CountedInv, CountExact, Answered
<1>2. MomentInv /\ CountedInv /\ CountersTrue(db) /\ CountersTrue(db)' /\ [RNext]_<<vars, rd>> => CountedInv'
  BY CountKept
<1>3. CountedInv => CountExact
  BY DEF CountedInv
<1>4. TypeOK /\ CountersExact /\ AllCounted => CountersTrue(db)
  BY NothingUncounted
<1>5. Spec => []CountersTrue(db)
  BY <1>4, TypeCorrect, CountersAlwaysExact, EverythingCounted, PTL
<1> QED
  BY <1>1, <1>2, <1>3, <1>5, MomentsAreWhole, ReaderLeavesWriters, PTL DEF RSpec

\* Every answer of the reader is that of some moment between its call and its return.
THEOREM ReadsAlwaysOfAMoment ==
  ASSUME Encodable, LabelPatterns, CountedUsage, NoImports
  PROVE  RSpec => []ReadsOfAMoment
<1>1. FindExact /\ CountExact /\ LabelCountsExact /\ StatsExact => ReadsOfAMoment
  BY DEF ReadsOfAMoment
<1> QED
  BY <1>1, FindsAreExact, CountsAreExact, LabelCountsAreExact, StatsAreExact, PTL

=============================================================================
