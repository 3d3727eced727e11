-------------------------- MODULE PebbleStoreProofs --------------------------
(* Theorems about PebbleStore, for every value of its constants. *)
EXTENDS PebbleStore, FiniteSetTheorems, TLAPS

\* A tally over a sequence has a natural number for every label.
LEMMA LabelTallyType ==
  ASSUME NEW qs \in Seq(Quad), NEW default
  PROVE  LabelTally(qs, default) \in [AnyLabel -> Nat]
<1> DEFINE At(l) == {i \in DOMAIN qs : Effective(qs[i], default).label = l}
<1>1. IsFiniteSet(1..Len(qs))
  BY FS_Interval
<1>2. \A l \in AnyLabel : IsFiniteSet(At(l))
  BY <1>1, FS_Subset
<1>3. \A l \in AnyLabel : Cardinality(At(l)) \in Nat
  BY <1>2, FS_CardinalityType
<1> QED
  BY <1>3 DEF LabelTally

\* The scan of a rebuild finds a natural number for every label.
LEMMA LabelScanType ==
  ASSUME NEW kv
  PROVE  LabelScan(kv) \in [AnyLabel -> Nat]
<1> DEFINE At(l) == {q \in Held(kv, "LSP") : q.label = l}
<1>1. \A l \in AnyLabel : At(l) \subseteq Quad
  BY DEF Held
<1>2. \A l \in AnyLabel : IsFiniteSet(At(l))
  BY <1>1, ConstantsAssumption, FS_Subset
<1>3. \A l \in AnyLabel : Cardinality(At(l)) \in Nat
  BY <1>2, FS_CardinalityType
<1> QED
  BY <1>3 DEF LabelScan

\* The default label turns a quad into a quad.
LEMMA EffectiveType ==
  ASSUME NEW q \in Quad, NEW default \in AnyLabel
  PROVE  Effective(q, default) \in Quad
BY DEF Effective, Quad

LEMMA EffectiveSetType ==
  ASSUME NEW qs \in Seq(Quad), NEW default \in AnyLabel
  PROVE  EffectiveSet(qs, default) \subseteq Quad
BY EffectiveType DEF EffectiveSet

LEMMA KeysOfType ==
  ASSUME NEW qs \in SUBSET Quad
  PROVE  KeysOf(qs) \in SUBSET (Keyspace \X Quad)
BY DEF KeysOf, FourKeys

LEMMA PlusType ==
  ASSUME NEW f \in [AnyLabel -> Int], NEW g \in [AnyLabel -> Int]
  PROVE  Plus(f, g) \in [AnyLabel -> Int] /\ Minus(f, g) \in [AnyLabel -> Int]
BY DEF Plus, Minus

LEMMA ZeroType == Zero \in [AnyLabel -> Int]
BY DEF Zero

(* Each write turns contents of the store into contents of the store. *)

LEMMA CommitOpsType ==
  ASSUME NEW id \in Id, NEW b \in Batch
  PROVE  CommitOps(id, b) \subseteq OpRow
<1>1. b.adds \in Seq(Quad) /\ b.removes \in Seq(Quad) /\ b.label \in AnyLabel
  BY DEF Batch
<1>2. ASSUME NEW i \in DOMAIN b.adds
      PROVE  [id |-> id, seq |-> i, kind |-> "add", quad |-> Effective(b.adds[i], b.label)] \in OpRow
  BY <1>1, EffectiveType DEF OpRow
<1>3. ASSUME NEW i \in DOMAIN b.removes
      PROVE  [id |-> id, seq |-> Len(b.adds) + i, kind |-> "remove", quad |-> b.removes[i]] \in OpRow
  BY <1>1 DEF OpRow
<1> QED
  BY <1>2, <1>3 DEF CommitOps

LEMMA CommittedToType ==
  ASSUME NEW kv \in Contents, NEW id \in Id, NEW b \in Batch
  PROVE  CommittedTo(kv, id, b) \in Contents
<1>1. b.adds \in Seq(Quad) /\ b.removes \in Seq(Quad) /\ b.label \in AnyLabel
  BY DEF Batch
<1>2. KeysOf(EffectiveSet(b.adds, b.label)) \subseteq Keyspace \X Quad
  BY <1>1, EffectiveSetType, KeysOfType
<1>3. LabelDeltas(b) \in [AnyLabel -> Int]
  BY <1>1, LabelTallyType DEF LabelDeltas, Minus
<1>4. Plus(kv.count, LabelDeltas(b)) \in [AnyLabel -> Int]
  BY <1>3, PlusType DEF Contents
<1>5. CommitRows(id, b) \subseteq Id /\ CommitOps(id, b) \subseteq OpRow
  BY CommitOpsType DEF CommitRows
<1> HIDE DEF Batch
<1> QED
  BY <1>2, <1>4, <1>5 DEF CommittedTo, Contents

LEMMA FlushedToType ==
  ASSUME NEW kv \in Contents, NEW id \in Id,
         NEW loader, loader.buf \in SUBSET Quad, loader.deltas \in [AnyLabel -> Int]
  PROVE  FlushedTo(kv, id, loader) \in Contents
<1>1. KeysOf(loader.buf) \in SUBSET (Keyspace \X Quad)
  BY KeysOfType
<1>2. Plus(kv.count, loader.deltas) \in [AnyLabel -> Int]
  BY PlusType DEF Contents
<1> QED
  BY <1>1, <1>2 DEF FlushedTo, Contents

LEMMA IngestedToType ==
  ASSUME NEW kv \in Contents, NEW id \in Id, NEW g \in Load
  PROVE  IngestedTo(kv, id, g) \in Contents
<1>1. g.quads \in Seq(Quad) /\ g.label \in AnyLabel
  BY DEF Load
<1>2. KeysOf(EffectiveSet(g.quads, g.label)) \subseteq Keyspace \X Quad
  BY <1>1, EffectiveSetType, KeysOfType
<1>3. LabelTally(g.quads, g.label) \in [AnyLabel -> Int]
  BY <1>1, LabelTallyType
<1>4. Plus(kv.uncounted, LabelTally(g.quads, g.label)) \in [AnyLabel -> Int]
  BY <1>3, PlusType DEF Contents
<1> QED
  BY <1>2, <1>4 DEF IngestedTo, Contents

LEMMA CountedInType ==
  ASSUME NEW kv \in Contents, NEW deltas \in [AnyLabel -> Int]
  PROVE  CountedIn(kv, deltas) \in Contents
<1>1. /\ Plus(kv.count, deltas) \in [AnyLabel -> Int]
      /\ Minus(kv.uncounted, deltas) \in [AnyLabel -> Int]
  BY PlusType DEF Contents
<1> QED
  BY <1>1 DEF CountedIn, Contents

LEMMA RecountedToType ==
  ASSUME NEW kv \in Contents, NEW counts \in [AnyLabel -> Int]
  PROVE  RecountedTo(kv, counts) \in Contents
<1>1. Zero \in [AnyLabel -> Int]
  BY ZeroType
<1> QED
  BY <1>1 DEF RecountedTo, Contents

----------------------------------------------------------------------------
(***************************************************************************)
(* Type correctness.  A goroutine in the middle of a commit or an ingest   *)
(* holds a batch callers may ask for and the id drawn for it; with that,   *)
(* TypeOK is inductive.                                                    *)
(***************************************************************************)
Midway ==
  \A p \in Proc :
    /\ pc[p] \in {"committing", "syncing"} => cur[p].batch \in BatchChoice /\ cur[p].id \in Id
    /\ pc[p] = "counting" => cur[p].id \in Id

TypeInv == TypeOK /\ Midway

\* The initial state of a goroutine that uses no handle is well typed.
LEMMA HandleTypes ==
  NoCommit \in CommitState /\ NoLoader \in LoaderState
<1>1. Zero \in [AnyLabel -> Int] /\ NoLabel \in ValidLabel
  BY ZeroType DEF ValidLabel
<1> QED
  BY <1>1 DEF NoCommit, NoLoader, CommitState, LoaderState

LEMMA EmptyContentsType == EmptyContents \in Contents
BY ZeroType DEF EmptyContents, Contents

LEMMA TypeInit == Init => TypeInv
<1> SUFFICES ASSUME Init PROVE TypeInv
  OBVIOUS
<1>1. db \in worlds /\ worlds \subseteq Contents /\ promised \subseteq Id
  BY EmptyContentsType DEF Init
<1>2. nextId \in 1..(MaxWrites + 1)
  BY ConstantsAssumption DEF Init
<1>3. /\ pc \in [Proc -> PC]
      /\ cur \in [Proc -> CommitState]
      /\ ld \in [Proc -> LoaderState]
      /\ tally \in [Proc -> [AnyLabel -> Int]]
  BY HandleTypes, ZeroType DEF Init, PC
<1>4. Midway
  BY DEF Init, Midway
<1> QED
  BY <1>1, <1>2, <1>3, <1>4 DEF TypeInv, TypeOK

\* A synced or an unsynced write of well-typed contents.
LEMMA WriteType ==
  ASSUME TypeOK, NEW kv \in Contents, WriteNoSync(kv) \/ WriteSync(kv)
  PROVE  db' \in worlds' /\ worlds' \subseteq Contents
BY DEF TypeOK, WriteNoSync, WriteSync

\* BulkLoader.flush keeps the types, whoever calls it.
LEMMA FlushType ==
  ASSUME TypeOK, NEW p \in Proc, NEW loader \in LoaderState, Flush(p, loader)
  PROVE  /\ db' \in worlds' /\ worlds' \subseteq Contents
         /\ ld' \in [Proc -> LoaderState]
         /\ nextId' \in 1..(MaxWrites + 1)
<1>1. CASE loader.rows = 0
  BY <1>1 DEF TypeOK, Flush
<1>2. CASE loader.rows # 0
  <2>1. nextId \in Id /\ WriteNoSync(FlushedTo(db, nextId, loader))
    BY <1>2 DEF Flush
  <2>2. FlushedTo(db, nextId, loader) \in Contents
    BY <2>1, FlushedToType DEF TypeOK, LoaderState
  <2>3. db' \in worlds' /\ worlds' \subseteq Contents
    BY <2>1, <2>2, WriteType
  <2>4. nextId' \in 1..(MaxWrites + 1)
    BY <1>2, <2>1, ConstantsAssumption DEF Flush, Id
  <2>5. [loader EXCEPT !.buf = {}, !.rows = 0, !.deltas = Zero, !.wrote = @ \cup {nextId}]
          \in LoaderState
    BY <2>1, ZeroType DEF LoaderState
  <2>6. ld' \in [Proc -> LoaderState]
    BY <1>2, <2>5 DEF Flush, TypeOK
  <2> QED
    BY <2>3, <2>4, <2>6
<1> QED
  BY <1>1, <1>2

(* One lemma per operation: its steps keep TypeInv. *)

LEMMA WriterKeepsTypes ==
  ASSUME TypeInv, NEW p \in Proc, Writer(p)
  PROVE  TypeInv'
<1> USE DEF TypeInv, Goto
<1>1. CASE OpenWriter(p)
  <2>1. TypeOK'
    BY <1>1 DEF OpenWriter, TypeOK, PC
  <2>2. Midway'
    BY <1>1 DEF OpenWriter, Midway, TypeOK
  <2> QED
    BY <2>1, <2>2
<1>2. CASE CloseWriter(p)
  <2>1. TypeOK'
    BY <1>2 DEF CloseWriter, TypeOK, PC
  <2>2. Midway'
    BY <1>2 DEF CloseWriter, Midway, TypeOK
  <2> QED
    BY <2>1, <2>2
<1>3. ASSUME NEW b \in BatchChoice, NEW sync \in BOOLEAN, BeginCommit(p, b, sync)
      PROVE  TypeInv'
  <2>1. nextId' \in 1..(MaxWrites + 1)
    BY <1>3, ConstantsAssumption DEF BeginCommit, Id
  <2>2. [batch |-> b, id |-> nextId, sync |-> sync] \in CommitState
    BY <1>3 DEF BeginCommit, CommitState
  <2>3. TypeOK'
    BY <1>3, <2>1, <2>2 DEF BeginCommit, TypeOK, PC
  <2>4. Midway'
    BY <1>3 DEF BeginCommit, Midway, TypeOK
  <2> QED
    BY <2>3, <2>4
<1>4. CASE ApplyCommit(p)
  <2>1. cur[p].batch \in Batch /\ cur[p].id \in Id
    BY <1>4, ConstantsAssumption DEF ApplyCommit, Midway
  <2>2. CommittedTo(db, cur[p].id, cur[p].batch) \in Contents
    BY <2>1, CommittedToType DEF TypeOK
  <2>3. db' \in worlds' /\ worlds' \subseteq Contents
    BY <1>4, <2>2, WriteType DEF ApplyCommit
  <2>4. cur' \in [Proc -> CommitState] /\ pc' \in [Proc -> PC]
    BY <1>4, HandleTypes DEF ApplyCommit, TypeOK, PC
  <2>5. TypeOK'
    BY <1>4, <2>3, <2>4 DEF ApplyCommit, TypeOK
  <2>6. Midway'
    BY <1>4 DEF ApplyCommit, Midway, TypeOK
  <2> QED
    BY <2>5, <2>6
<1>5. CASE SyncCommit(p)
  <2>1. db' \in worlds' /\ worlds' \subseteq Contents
    BY <1>5, WriteType DEF SyncCommit, TypeOK
  <2>2. promised' \subseteq Id
    BY <1>5 DEF SyncCommit, TypeOK, Midway
  <2>3. cur' \in [Proc -> CommitState] /\ pc' \in [Proc -> PC]
    BY <1>5, HandleTypes DEF SyncCommit, TypeOK, PC
  <2>4. TypeOK'
    BY <1>5, <2>1, <2>2, <2>3 DEF SyncCommit, TypeOK
  <2>5. Midway'
    BY <1>5 DEF SyncCommit, Midway, TypeOK
  <2> QED
    BY <2>4, <2>5
<1> QED
  BY <1>1, <1>2, <1>3, <1>4, <1>5 DEF Writer

\* Adding a quad to a BulkLoader's buffer keeps the loader well typed.
LEMMA BufferedType ==
  ASSUME NEW loader \in LoaderState, NEW q \in Quad
  PROVE  Buffered(loader, q) \in LoaderState
<1> DEFINE eff == Effective(q, loader.label)
<1>1. loader.label \in AnyLabel
  BY DEF LoaderState, ValidLabel, AnyLabel
<1>2. eff \in Quad /\ eff.label \in AnyLabel
  BY <1>1, EffectiveType DEF Quad
<1> DEFINE buf == loader.buf \cup {eff}
           rows == loader.rows + 1
           deltas == OneMore(loader.deltas, eff.label)
<1>3. buf \in SUBSET Quad /\ rows \in Nat /\ deltas \in [AnyLabel -> Int]
  BY <1>2 DEF LoaderState, OneMore
<1>4. Buffered(loader, q) = [loader EXCEPT !.buf = buf, !.rows = rows, !.deltas = deltas]
  BY DEF Buffered
<1> HIDE DEF buf, rows, deltas
<1>5. [loader EXCEPT !.buf = buf, !.rows = rows, !.deltas = deltas] \in LoaderState
  BY <1>3 DEF LoaderState
<1> QED
  BY <1>4, <1>5

LEMMA LoaderKeepsTypes ==
  ASSUME TypeInv, NEW p \in Proc, Loader(p)
  PROVE  TypeInv'
<1> USE DEF TypeInv, Goto
<1>1. ASSUME NEW l \in ValidLabel, OpenLoader(p, l)
      PROVE  TypeInv'
  <2>1. [NoLoader EXCEPT !.label = l] \in LoaderState
    BY HandleTypes DEF LoaderState
  <2>2. TypeOK'
    BY <1>1, <2>1 DEF OpenLoader, TypeOK, PC
  <2>3. Midway'
    BY <1>1 DEF OpenLoader, Midway, TypeOK
  <2> QED
    BY <2>2, <2>3
<1>2. ASSUME NEW q \in Quad, LoaderAdd(p, q)
      PROVE  TypeInv'
  <2> DEFINE loader == Buffered(ld[p], q)
  <2>1. loader \in LoaderState
    BY BufferedType DEF TypeOK
  <2>2. CASE loader.rows >= BatchSize
    <3>1. Flush(p, loader)
      BY <1>2, <2>2 DEF LoaderAdd
    <3>2. TypeOK'
      BY <1>2, <2>1, <3>1, FlushType DEF LoaderAdd, TypeOK
    <3> QED
      BY <1>2, <3>2 DEF LoaderAdd, Midway
  <2>3. CASE ~(loader.rows >= BatchSize)
    <3>1. ld' = [ld EXCEPT ![p] = loader] /\ UNCHANGED <<db, worlds, nextId>>
      BY <1>2, <2>3 DEF LoaderAdd
    <3>2. TypeOK'
      BY <1>2, <2>1, <3>1 DEF LoaderAdd, TypeOK
    <3> QED
      BY <1>2, <3>2 DEF LoaderAdd, Midway
  <2> QED
    BY <2>2, <2>3
<1>3. CASE LoaderFlush(p)
  <2>1. TypeOK'
    BY <1>3, FlushType DEF LoaderFlush, TypeOK
  <2> QED
    BY <1>3, <2>1 DEF LoaderFlush, Midway
<1>4. CASE LoaderClose(p)
  <2>1. TypeOK'
    BY <1>4, FlushType DEF LoaderClose, TypeOK, PC
  <2>2. Midway'
    BY <1>4 DEF LoaderClose, Midway, TypeOK
  <2> QED
    BY <2>1, <2>2
<1>5. CASE LoaderHarden(p)
  <2>1. db' \in worlds' /\ worlds' \subseteq Contents
    BY <1>5, WriteType DEF LoaderHarden, TypeOK
  <2>2. promised' \subseteq Id
    BY <1>5 DEF LoaderHarden, TypeOK, LoaderState
  <2>3. TypeOK'
    BY <1>5, <2>1, <2>2, HandleTypes DEF LoaderHarden, TypeOK, PC
  <2>4. Midway'
    BY <1>5 DEF LoaderHarden, Midway, TypeOK
  <2> QED
    BY <2>3, <2>4
<1> QED
  BY <1>1, <1>2, <1>3, <1>4, <1>5 DEF Loader

LEMMA ImporterKeepsTypes ==
  ASSUME TypeInv, NEW p \in Proc, Importer(p)
  PROVE  TypeInv'
<1> USE DEF TypeInv, Goto
<1>1. ASSUME NEW g \in IngestChoice, IngestTables(p, g)
      PROVE  TypeInv'
  <2>1. g \in Load /\ nextId \in Id
    BY <1>1, ConstantsAssumption DEF IngestTables
  <2>2. g.quads \in Seq(Quad) /\ LabelTally(g.quads, g.label) \in [AnyLabel -> Int]
    BY <2>1, LabelTallyType DEF Load
  <2> DEFINE kept == Kept(EffectiveSet(g.quads, g.label))
  <2>3. db \in kept /\ kept \subseteq Contents
    BY DEF Kept, TypeOK
  <2>4. db' \in worlds' /\ worlds' \subseteq Contents
    BY <1>1, <2>1, <2>3, IngestedToType DEF IngestTables
  <2>5. nextId' \in 1..(MaxWrites + 1)
    BY <1>1, <2>1, ConstantsAssumption DEF IngestTables, Id
  <2>6. [cur[p] EXCEPT !.id = nextId] \in CommitState
    BY <2>1 DEF TypeOK, CommitState
  <2>7. cur' = [cur EXCEPT ![p] = [cur[p] EXCEPT !.id = nextId]]
    BY <1>1 DEF IngestTables, TypeOK
  <2>8. cur' \in [Proc -> CommitState] /\ pc' \in [Proc -> PC]
    BY <1>1, <2>6, <2>7 DEF IngestTables, TypeOK, PC
  <2>9. TypeOK'
    BY <1>1, <2>2, <2>4, <2>5, <2>8 DEF IngestTables, TypeOK
  <2>10. cur'[p].id = nextId /\ \A o \in Proc \ {p} : cur'[o] = cur[o]
    BY <2>7 DEF TypeOK, CommitState
  <2>11. Midway'
    BY <1>1, <2>1, <2>10 DEF IngestTables, Midway, TypeOK
  <2> QED
    BY <2>9, <2>11
<1>2. CASE IngestCounters(p)
  <2>1. CountedIn(db, tally[p]) \in Contents
    BY CountedInType DEF TypeOK
  <2>2. db' \in worlds' /\ worlds' \subseteq Contents
    <3>1. CASE UNCHANGED <<db, worlds>>
      BY <3>1 DEF TypeOK
    <3>2. CASE WriteSync(CountedIn(db, tally[p]))
      BY <2>1, <3>2, WriteType
    <3> QED
      BY <1>2, <3>1, <3>2 DEF IngestCounters
  <2>3. promised' \subseteq Id
    BY <1>2 DEF IngestCounters, TypeOK, Midway
  <2>4. TypeOK'
    BY <1>2, <2>2, <2>3, HandleTypes, ZeroType DEF IngestCounters, TypeOK, PC
  <2>5. Midway'
    BY <1>2 DEF IngestCounters, Midway, TypeOK
  <2> QED
    BY <2>4, <2>5
<1>3. CASE RebuildScan(p)
  <2>1. LabelScan(db) \in [AnyLabel -> Int]
    BY LabelScanType
  <2>2. TypeOK'
    BY <1>3, <2>1 DEF RebuildScan, TypeOK, PC
  <2>3. Midway'
    BY <1>3 DEF RebuildScan, Midway, TypeOK
  <2> QED
    BY <2>2, <2>3
<1>4. CASE RebuildReplace(p)
  <2>1. RecountedTo(db, tally[p]) \in Contents
    BY RecountedToType DEF TypeOK
  <2>2. db' \in worlds' /\ worlds' \subseteq Contents
    BY <1>4, <2>1, WriteType DEF RebuildReplace
  <2>3. TypeOK'
    BY <1>4, <2>2, ZeroType DEF RebuildReplace, TypeOK, PC
  <2>4. Midway'
    BY <1>4 DEF RebuildReplace, Midway, TypeOK
  <2> QED
    BY <2>3, <2>4
<1> QED
  BY <1>1, <1>2, <1>3, <1>4 DEF Importer

\* After a crash or a close every goroutine starts over.
LEMMA RestartKeepsTypes ==
  ASSUME TypeInv, Crash \/ Reopen
  PROVE  TypeInv'
<1> USE DEF TypeInv
<1>1. NoHandles /\ UNCHANGED <<nextId, promised>>
  BY DEF Crash, Reopen
<1>2. \E w \in worlds : WriteSync(w)
  BY DEF Crash, Reopen, TypeOK
<1>3. db' \in worlds' /\ worlds' \subseteq Contents
  BY <1>2, WriteType DEF TypeOK
<1>4. TypeOK'
  BY <1>1, <1>3, HandleTypes, ZeroType DEF NoHandles, TypeOK, PC
<1>5. Midway'
  BY <1>1 DEF NoHandles, Midway
<1> QED
  BY <1>4, <1>5

LEMMA StepKeepsTypes == TypeInv /\ [Next]_vars => TypeInv'
<1> SUFFICES ASSUME TypeInv, [Next]_vars PROVE TypeInv'
  OBVIOUS
<1>1. ASSUME NEW p \in Proc, Writer(p) \/ Loader(p) \/ Importer(p)
      PROVE  TypeInv'
  BY <1>1, WriterKeepsTypes, LoaderKeepsTypes, ImporterKeepsTypes
<1>2. CASE Crash \/ Reopen
  BY <1>2, RestartKeepsTypes
<1>3. CASE UNCHANGED vars
  BY <1>3 DEF vars, TypeInv, TypeOK, Midway
<1> QED
  BY <1>1, <1>2, <1>3 DEF Next

\* The strengthened type invariant of the store (Midway included).
THEOREM TypeInvariant == Spec => []TypeInv
BY TypeInit, StepKeepsTypes, PTL DEF Spec

\* Whatever the callers do and whenever the process dies, the store's
\* variables keep their types, and the readable contents are always one of
\* the contents a crash may leave.
THEOREM TypeCorrect == Spec => []TypeOK
<1>1. TypeInv => TypeOK
  BY DEF TypeInv
<1> QED
  BY <1>1, TypeInvariant, PTL

----------------------------------------------------------------------------
(* What a write does to each of the four keyspaces. *)

\* Setting and deleting the four keys of whole quads changes the quads of
\* every keyspace alike.
LEMMA HeldAfterWrite ==
  ASSUME NEW kv, NEW new, NEW ks \in Keyspace, NEW adds \in SUBSET Quad, NEW removes,
         new.keys = (kv.keys \cup KeysOf(adds)) \ KeysOf(removes)
  PROVE  Held(new, ks) = (Held(kv, ks) \cup adds) \ removes
<1>1. ASSUME NEW q, NEW qs PROVE <<ks, q>> \in KeysOf(qs) <=> q \in qs
  BY DEF KeysOf, FourKeys
<1> QED
  BY <1>1 DEF Held

LEMMA HeldAfterCommit ==
  ASSUME NEW kv \in Contents, NEW id \in Id, NEW b \in Batch, NEW ks \in Keyspace
  PROVE  Held(CommittedTo(kv, id, b), ks)
           = (Held(kv, ks) \cup EffectiveSet(b.adds, b.label))
                \ {b.removes[i] : i \in DOMAIN b.removes}
<1> DEFINE new == CommittedTo(kv, id, b)
           adds == EffectiveSet(b.adds, b.label)
           removes == {b.removes[i] : i \in DOMAIN b.removes}
<1>1. adds \in SUBSET Quad
  BY EffectiveSetType DEF Batch
<1>2. new.keys = (kv.keys \cup KeysOf(adds)) \ KeysOf(removes)
  BY DEF CommittedTo, Contents
<1> HIDE DEF new, adds, removes
<1>3. Held(new, ks) = (Held(kv, ks) \cup adds) \ removes
  BY <1>1, <1>2, HeldAfterWrite
<1> QED
  BY <1>3 DEF new, adds, removes

LEMMA HeldAfterFlush ==
  ASSUME NEW kv \in Contents, NEW id \in Id, NEW loader \in LoaderState, NEW ks \in Keyspace
  PROVE  Held(FlushedTo(kv, id, loader), ks) = Held(kv, ks) \cup loader.buf
<1> DEFINE new == FlushedTo(kv, id, loader)
<1>1. loader.buf \in SUBSET Quad
  BY DEF LoaderState
<1>2. new.keys = (kv.keys \cup KeysOf(loader.buf)) \ KeysOf({})
  BY DEF FlushedTo, Contents, KeysOf
<1> HIDE DEF new
<1>3. Held(new, ks) = (Held(kv, ks) \cup loader.buf) \ {}
  BY <1>1, <1>2, HeldAfterWrite
<1> QED
  BY <1>3 DEF new

LEMMA HeldAfterIngest ==
  ASSUME NEW kv \in Contents, NEW id \in Id, NEW g \in Load, NEW ks \in Keyspace
  PROVE  Held(IngestedTo(kv, id, g), ks) = Held(kv, ks) \cup EffectiveSet(g.quads, g.label)
<1> DEFINE new == IngestedTo(kv, id, g)
           adds == EffectiveSet(g.quads, g.label)
<1>1. adds \in SUBSET Quad
  BY EffectiveSetType DEF Load
<1>2. new.keys = (kv.keys \cup KeysOf(adds)) \ KeysOf({})
  BY DEF IngestedTo, Contents, KeysOf
<1> HIDE DEF new, adds
<1>3. Held(new, ks) = (Held(kv, ks) \cup adds) \ {}
  BY <1>1, <1>2, HeldAfterWrite
<1> QED
  BY <1>3 DEF new, adds

\* The two writes that touch only the counters leave the quads alone.
LEMMA HeldAfterCounting ==
  ASSUME NEW kv \in Contents, NEW f, NEW ks
  PROVE  /\ Held(CountedIn(kv, f), ks) = Held(kv, ks)
         /\ Held(RecountedTo(kv, f), ks) = Held(kv, ks)
<1>1. CountedIn(kv, f).keys = kv.keys /\ RecountedTo(kv, f).keys = kv.keys
  BY DEF CountedIn, RecountedTo, Contents
<1> QED
  BY <1>1 DEF Held

----------------------------------------------------------------------------
(***************************************************************************)
(* Every step, whichever goroutine takes it, writes the store in one of    *)
(* the ways below; the theorems about the contents need no more than that. *)
(***************************************************************************)
IngestStep(id, g, kept) ==
  /\ db' = IngestedTo(db, id, g)
  /\ worlds' = {IngestedTo(w, id, g) : w \in kept}

\* The commits in flight: one may begin, or none changes.
AskStep ==
  \/ UNCHANGED Asked
  \/ \E p \in Proc, b \in BatchChoice :
       Asked[p] = {} /\ Asked' = [Asked EXCEPT ![p] = {Wanted(b)}]

CommitStep(p, id, b) ==
  /\ Asked[p] = {Wanted(b)}
  /\ Asked' = [Asked EXCEPT ![p] = {}]
  /\ WriteNoSync(CommittedTo(db, id, b))

LoadStep ==
  \/ \E id \in Id, loader \in LoaderState : WriteNoSync(FlushedTo(db, id, loader))
  \/ \E id \in Id, g \in IngestChoice, kept \in {worlds, {db}} : IngestStep(id, g, kept)

HardenStep ==
  \/ \E deltas : WriteSync(CountedIn(db, deltas)) \/ WriteSync(RecountedTo(db, deltas))
  \/ WriteSync(db)

RecoverStep ==
  /\ \E w \in worlds : WriteSync(w)
  /\ Asked' = [p \in Proc |-> {}]

StoreStep ==
  \/ UNCHANGED <<db, worlds>> /\ AskStep
  \/ \E p \in Proc, id \in Id, b \in BatchChoice : CommitStep(p, id, b)
  \/ LoadStep /\ UNCHANGED Asked
  \/ HardenStep /\ UNCHANGED Asked
  \/ RecoverStep

\* A goroutine that is not in the middle of a commit, before or after its
\* step, leaves the commits in flight alone.
LEMMA OthersAsk ==
  ASSUME TypeOK, NEW p \in Proc, NEW to, pc[p] # "committing", to # "committing",
         pc' = [pc EXCEPT ![p] = to],
         \A o \in Proc : o # p => cur'[o] = cur[o]
  PROVE  UNCHANGED Asked
BY DEF TypeOK, Asked

LEMMA FlushIsLoadStep ==
  ASSUME NEW p \in Proc, NEW loader \in LoaderState, Flush(p, loader)
  PROVE  UNCHANGED <<db, worlds>> \/ LoadStep
BY DEF Flush, LoadStep

LEMMA WriterIsStoreStep ==
  ASSUME TypeInv, NEW p \in Proc, Writer(p)
  PROVE  StoreStep
<1>0. TypeOK
  BY DEF TypeInv
<1>1. CASE ApplyCommit(p)
  <2>1. cur[p].batch \in BatchChoice /\ cur[p].id \in Id
    BY <1>1 DEF ApplyCommit, Goto, TypeInv, Midway
  <2>2. WriteNoSync(CommittedTo(db, cur[p].id, cur[p].batch))
    BY <1>1 DEF ApplyCommit
  <2>3. Asked[p] = {Wanted(cur[p].batch)}
    BY <1>1 DEF ApplyCommit, Goto, Asked
  <2>4. Asked' = [Asked EXCEPT ![p] = {}]
    <3>1. \A o \in Proc : o # p => cur'[o] = cur[o] /\ pc'[o] = pc[o]
      BY <1>0, <1>1 DEF ApplyCommit, Goto, TypeOK
    <3>2. pc'[p] # "committing"
      BY <1>0, <1>1 DEF ApplyCommit, Goto, TypeOK
    <3> QED
      BY <3>1, <3>2 DEF Asked
  <2>5. CommitStep(p, cur[p].id, cur[p].batch)
    BY <2>2, <2>3, <2>4 DEF CommitStep
  <2> QED
    BY <2>1, <2>5 DEF StoreStep
<1>2. CASE SyncCommit(p)
  <2>1. HardenStep
    BY <1>2 DEF SyncCommit, HardenStep
  <2>2. UNCHANGED Asked
    BY <1>0, <1>2, OthersAsk DEF SyncCommit, Goto, TypeOK
  <2> QED
    BY <2>1, <2>2 DEF StoreStep
<1>3. ASSUME NEW b \in BatchChoice, NEW sync \in BOOLEAN, BeginCommit(p, b, sync)
      PROVE  StoreStep
  <2>1. Asked[p] = {}
    BY <1>3 DEF BeginCommit, Goto, Asked
  <2>2. Asked' = [Asked EXCEPT ![p] = {Wanted(b)}]
    <3>1. \A o \in Proc : o # p => cur'[o] = cur[o] /\ pc'[o] = pc[o]
      BY <1>0, <1>3 DEF BeginCommit, Goto, TypeOK
    <3>2. pc'[p] = "committing" /\ cur'[p].batch = b
      BY <1>0, <1>3 DEF BeginCommit, Goto, TypeOK
    <3> QED
      BY <3>1, <3>2 DEF Asked
  <2> QED
    BY <1>3, <2>1, <2>2 DEF StoreStep, AskStep, BeginCommit
<1>4. CASE OpenWriter(p) \/ CloseWriter(p)
  <2>1. UNCHANGED Asked
    BY <1>0, <1>4, OthersAsk DEF OpenWriter, CloseWriter, Goto
  <2> QED
    BY <1>4, <2>1 DEF StoreStep, AskStep, OpenWriter, CloseWriter
<1> QED
  BY <1>1, <1>2, <1>3, <1>4 DEF Writer

LEMMA LoaderIsStoreStep ==
  ASSUME TypeInv, NEW p \in Proc, Loader(p)
  PROVE  StoreStep
<1>1. ld[p] \in LoaderState /\ TypeOK
  BY DEF TypeInv, TypeOK
<1>2. ASSUME NEW l \in ValidLabel, OpenLoader(p, l)
      PROVE  StoreStep
  <2>1. UNCHANGED Asked
    BY <1>1, <1>2, OthersAsk DEF OpenLoader, Goto
  <2> QED
    BY <1>2, <2>1 DEF OpenLoader, StoreStep, AskStep
<1>3. ASSUME NEW q \in Quad, LoaderAdd(p, q)
      PROVE  StoreStep
  <2>1. Buffered(ld[p], q) \in LoaderState
    BY <1>1, BufferedType
  <2>2. Flush(p, Buffered(ld[p], q)) \/ UNCHANGED <<db, worlds>>
    BY <1>3 DEF LoaderAdd
  <2>3. UNCHANGED Asked
    BY <1>3 DEF LoaderAdd, Asked
  <2> QED
    BY <2>1, <2>2, <2>3, FlushIsLoadStep DEF StoreStep, AskStep
<1>4. CASE LoaderFlush(p) \/ LoaderClose(p)
  <2>1. Flush(p, ld[p])
    BY <1>4 DEF LoaderFlush, LoaderClose
  <2>2. UNCHANGED Asked
    <3>1. CASE LoaderFlush(p)
      BY <3>1 DEF LoaderFlush, Asked
    <3>2. CASE LoaderClose(p)
      BY <1>1, <3>2, OthersAsk DEF LoaderClose, Goto
    <3> QED
      BY <1>4, <3>1, <3>2
  <2> QED
    BY <1>1, <2>1, <2>2, FlushIsLoadStep DEF StoreStep, AskStep
<1>5. CASE LoaderHarden(p)
  <2>1. HardenStep
    BY <1>5 DEF LoaderHarden, HardenStep
  <2>2. UNCHANGED Asked
    BY <1>1, <1>5, OthersAsk DEF LoaderHarden, Goto
  <2> QED
    BY <2>1, <2>2 DEF StoreStep
<1> QED
  BY <1>2, <1>3, <1>4, <1>5 DEF Loader

LEMMA ImporterIsStoreStep ==
  ASSUME TypeInv, NEW p \in Proc, Importer(p)
  PROVE  StoreStep
<1>0. TypeOK
  BY DEF TypeInv
<1>1. ASSUME NEW g \in IngestChoice, IngestTables(p, g)
      PROVE  StoreStep
  <2> DEFINE kept == Kept(EffectiveSet(g.quads, g.label))
  <2>1. kept \in {worlds, {db}}
    BY DEF Kept
  <2>2. nextId \in Id /\ IngestStep(nextId, g, kept)
    BY <1>1 DEF IngestTables, IngestStep
  <2>3. UNCHANGED Asked
    <3>1. \A o \in Proc : o # p => cur'[o] = cur[o]
      BY <1>0, <1>1 DEF IngestTables, TypeOK
    <3> QED
      BY <1>0, <1>1, <3>1, OthersAsk DEF IngestTables, Goto
  <2> HIDE DEF kept
  <2>4. LoadStep
    BY <2>1, <2>2 DEF LoadStep
  <2> QED
    BY <2>3, <2>4 DEF StoreStep
<1>2. CASE IngestCounters(p)
  <2>1. HardenStep \/ UNCHANGED <<db, worlds>>
    BY <1>2 DEF IngestCounters, HardenStep
  <2>2. UNCHANGED Asked
    BY <1>0, <1>2, OthersAsk DEF IngestCounters, Goto, TypeOK
  <2> QED
    BY <2>1, <2>2 DEF StoreStep, AskStep
<1>3. CASE RebuildScan(p)
  <2>1. UNCHANGED Asked
    BY <1>0, <1>3, OthersAsk DEF RebuildScan, Goto
  <2> QED
    BY <1>3, <2>1 DEF RebuildScan, StoreStep, AskStep
<1>4. CASE RebuildReplace(p)
  <2>1. HardenStep
    BY <1>4 DEF RebuildReplace, HardenStep
  <2>2. UNCHANGED Asked
    BY <1>0, <1>4, OthersAsk DEF RebuildReplace, Goto
  <2> QED
    BY <2>1, <2>2 DEF StoreStep
<1> QED
  BY <1>1, <1>2, <1>3, <1>4 DEF Importer

LEMMA NextIsStoreStep ==
  ASSUME TypeInv, [Next]_vars
  PROVE  StoreStep
<1>1. ASSUME NEW p \in Proc, Writer(p) \/ Loader(p) \/ Importer(p)
      PROVE  StoreStep
  BY <1>1, WriterIsStoreStep, LoaderIsStoreStep, ImporterIsStoreStep
<1>2. CASE Crash
  BY <1>2 DEF Crash, NoHandles, StoreStep, RecoverStep, Asked
<1>3. CASE Reopen
  BY <1>3 DEF Reopen, NoHandles, StoreStep, HardenStep, Asked
<1>4. CASE UNCHANGED vars
  BY <1>4 DEF vars, StoreStep, AskStep, Asked
<1> QED
  BY <1>1, <1>2, <1>3, <1>4 DEF Next

----------------------------------------------------------------------------
(* The four keyspaces agree. *)

Uniform(kv) == \A ks \in Keyspace : Held(kv, ks) = Held(kv, "SPO")

\* Whatever way the store is written, uniform contents stay uniform.
LEMMA StepKeepsUniform ==
  ASSUME TypeInv, KeyspacesAgree, StoreStep
  PROVE  KeyspacesAgree'
<1> USE DEF TypeInv, TypeOK
<1>1. db \in worlds /\ worlds \subseteq Contents /\ \A w \in worlds : Uniform(w)
  BY DEF KeyspacesAgree, Uniform
<1>2. "SPO" \in Keyspace
  BY DEF Keyspace
<1>3. ASSUME NEW new, Uniform(new), WriteNoSync(new) \/ WriteSync(new)
      PROVE  \A w \in worlds' : Uniform(w)
  BY <1>1, <1>3 DEF WriteNoSync, WriteSync
<1>4. \A w \in worlds' : Uniform(w)
  <2>1. CASE UNCHANGED <<db, worlds>>
    BY <1>1, <2>1
  <2>2. ASSUME NEW id \in Id, NEW b \in BatchChoice, WriteNoSync(CommittedTo(db, id, b))
        PROVE  \A w \in worlds' : Uniform(w)
    <3> DEFINE new == CommittedTo(db, id, b)
               adds == EffectiveSet(b.adds, b.label)
               removes == {b.removes[i] : i \in DOMAIN b.removes}
    <3>1. db \in Contents /\ b \in Batch
      BY <1>1, ConstantsAssumption
    <3>2. \A ks \in Keyspace : Held(new, ks) = (Held(db, ks) \cup adds) \ removes
      BY <3>1, HeldAfterCommit
    <3> HIDE DEF new, adds, removes
    <3>3. Uniform(new)
      BY <1>1, <1>2, <3>2 DEF Uniform
    <3> QED
      BY <1>3, <2>2, <3>3 DEF new
  <2>3. ASSUME NEW id \in Id, NEW loader \in LoaderState, WriteNoSync(FlushedTo(db, id, loader))
        PROVE  \A w \in worlds' : Uniform(w)
    <3> DEFINE new == FlushedTo(db, id, loader)
    <3>1. db \in Contents
      BY <1>1
    <3>2. \A ks \in Keyspace : Held(new, ks) = Held(db, ks) \cup loader.buf
      BY <3>1, HeldAfterFlush
    <3> HIDE DEF new
    <3>3. Uniform(new)
      BY <1>1, <1>2, <3>2 DEF Uniform
    <3> QED
      BY <1>3, <2>3, <3>3 DEF new
  <2>4. ASSUME NEW id \in Id, NEW g \in IngestChoice, NEW kept \in {worlds, {db}},
               IngestStep(id, g, kept)
        PROVE  \A w \in worlds' : Uniform(w)
    <3>1. ASSUME NEW w \in worlds PROVE Uniform(IngestedTo(w, id, g))
      <4> DEFINE new == IngestedTo(w, id, g)
                 adds == EffectiveSet(g.quads, g.label)
      <4>1. w \in Contents /\ g \in Load /\ Uniform(w)
        BY <1>1, ConstantsAssumption
      <4>2. \A ks \in Keyspace : Held(new, ks) = Held(w, ks) \cup adds
        BY <4>1, HeldAfterIngest
      <4> HIDE DEF new, adds
      <4>3. Uniform(new)
        BY <1>2, <4>1, <4>2 DEF Uniform
      <4> QED
        BY <4>3 DEF new
    <3>2. kept \subseteq worlds
      BY <1>1
    <3> QED
      BY <2>4, <3>1, <3>2 DEF IngestStep
  <2>5. ASSUME NEW f, WriteSync(CountedIn(db, f)) \/ WriteSync(RecountedTo(db, f))
        PROVE  \A w \in worlds' : Uniform(w)
    <3>1. Uniform(CountedIn(db, f)) /\ Uniform(RecountedTo(db, f))
      BY <1>1, <1>2, HeldAfterCounting DEF Uniform
    <3> QED
      BY <1>3, <2>5, <3>1
  <2>6. ASSUME NEW w \in worlds, WriteSync(w)
        PROVE  \A v \in worlds' : Uniform(v)
    BY <1>1, <1>3, <2>6
  <2> QED
    BY <1>1, <2>1, <2>2, <2>3, <2>4, <2>5, <2>6
       DEF StoreStep, CommitStep, LoadStep, HardenStep, RecoverStep
<1> QED
  BY <1>4 DEF KeyspacesAgree, Uniform

\* Whatever the interleaving of commits, flushes, ingests and rebuilds and
\* wherever a crash falls, SPO, POS, OSP and LSP hold the same quads: a read
\* gives one answer whichever keyspace Find picks.
THEOREM KeyspacesAlwaysAgree == Spec => []KeyspacesAgree
<1>1. Init => KeyspacesAgree
  BY DEF Init, KeyspacesAgree, Held, EmptyContents
<1>2. TypeInv /\ KeyspacesAgree /\ [Next]_vars => KeyspacesAgree'
  BY NextIsStoreStep, StepKeepsUniform
<1> QED
  BY <1>1, <1>2, TypeInvariant, PTL DEF Spec

----------------------------------------------------------------------------
(***************************************************************************)
(* Acknowledged durability.  A goroutine that is about to report success   *)
(* (syncing, counting, closing) has its writes in the readable contents;   *)
(* the sync that follows leaves nothing but those.                         *)
(***************************************************************************)
InFlight ==
  \A p \in Proc :
    /\ pc[p] \in {"syncing", "counting"} => cur[p].id \in db.applied
    /\ ld[p].wrote \subseteq db.applied

SyncInv == SyncedWritesSurvive /\ InFlight

\* Ingested tables are on disk before their quads are counted.
IngestedEverywhere ==
  \A p \in Proc : pc[p] = "counting" => \A w \in worlds : cur[p].id \in w.applied

\* No write but a crash takes anything away from what is applied.
LEMMA AppliedGrows ==
  ASSUME NEW kv \in Contents, NEW id, NEW x, NEW y
  PROVE  /\ CommittedTo(kv, id, x).applied = kv.applied \cup {id}
         /\ FlushedTo(kv, id, x).applied = kv.applied \cup {id}
         /\ IngestedTo(kv, id, x).applied = kv.applied \cup {id}
         /\ CountedIn(kv, y).applied = kv.applied
         /\ RecountedTo(kv, y).applied = kv.applied
BY DEF CommittedTo, FlushedTo, IngestedTo, CountedIn, RecountedTo, Contents

\* An unsynced write on top of the readable contents loses no promise, ...
LEMMA NoSyncKeepsPromises ==
  ASSUME TypeOK, SyncedWritesSurvive, NEW kv, db.applied \subseteq kv.applied, WriteNoSync(kv)
  PROVE  db'.applied = kv.applied /\ \A w \in worlds' : promised \subseteq w.applied
BY DEF TypeOK, SyncedWritesSurvive, WriteNoSync

\* ... and after a synced one every promise that holds in it holds.
LEMMA SyncKeepsPromises ==
  ASSUME NEW kv, WriteSync(kv)
  PROVE  db'.applied = kv.applied /\ \A w \in worlds' : w.applied = kv.applied
BY DEF WriteSync

LEMMA FlushKeepsPromises ==
  ASSUME TypeOK, SyncInv, NEW p \in Proc, NEW loader, loader.wrote \subseteq db.applied,
         loader \in LoaderState, Flush(p, loader), UNCHANGED promised
  PROVE  /\ SyncedWritesSurvive'
         /\ db.applied \subseteq db'.applied
         /\ \A o \in Proc : ld'[o].wrote \subseteq db'.applied
<1> USE DEF SyncInv
<1>1. CASE loader.rows = 0
  BY <1>1 DEF Flush, SyncedWritesSurvive, InFlight, TypeOK
<1>2. CASE loader.rows # 0
  <2> DEFINE new == FlushedTo(db, nextId, loader)
             after == [loader EXCEPT !.buf = {}, !.rows = 0, !.deltas = Zero,
                                     !.wrote = @ \cup {nextId}]
  <2>1. WriteNoSync(new) /\ ld' = [ld EXCEPT ![p] = after]
    BY <1>2 DEF Flush
  <2>2. new.applied = db.applied \cup {nextId}
    <3>1. db \in Contents
      BY DEF TypeOK
    <3> QED
      BY <3>1, AppliedGrows
  <2>3. after.wrote = loader.wrote \cup {nextId}
    BY DEF LoaderState
  <2> HIDE DEF new, after
  <2>4. db'.applied = new.applied /\ \A w \in worlds' : promised \subseteq w.applied
    BY <2>1, <2>2, NoSyncKeepsPromises
  <2>5. \A o \in Proc : ld'[o].wrote \subseteq db'.applied
    BY <2>1, <2>2, <2>3, <2>4 DEF InFlight, TypeOK
  <2> QED
    BY <2>2, <2>4, <2>5 DEF SyncedWritesSurvive
<1> QED
  BY <1>1, <1>2

LEMMA WriterKeepsPromises ==
  ASSUME TypeInv, SyncInv, NEW p \in Proc, Writer(p)
  PROVE  SyncInv'
<1> USE DEF TypeInv, SyncInv
<1>1. CASE ApplyCommit(p)
  <2> DEFINE new == CommittedTo(db, cur[p].id, cur[p].batch)
  <2>1. db \in Contents /\ WriteNoSync(new)
    BY <1>1 DEF ApplyCommit, TypeOK
  <2>2. new.applied = db.applied \cup {cur[p].id}
    BY <2>1, AppliedGrows
  <2> HIDE DEF new
  <2>3. db'.applied = new.applied /\ \A w \in worlds' : promised \subseteq w.applied
    BY <2>1, <2>2, NoSyncKeepsPromises
  <2>4. SyncedWritesSurvive'
    BY <1>1, <2>3 DEF ApplyCommit, SyncedWritesSurvive
  <2>5. \A o \in Proc : pc'[o] \in {"syncing", "counting"} => cur'[o].id \in db'.applied
    BY <1>1, <2>2, <2>3 DEF ApplyCommit, Goto, InFlight, TypeOK
  <2>6. InFlight'
    BY <1>1, <2>2, <2>3, <2>5 DEF ApplyCommit, InFlight
  <2> QED
    BY <2>4, <2>6
<1>2. CASE SyncCommit(p)
  <2>1. db'.applied = db.applied /\ \A w \in worlds' : w.applied = db.applied
    BY <1>2, SyncKeepsPromises DEF SyncCommit
  <2>2. promised' \subseteq db.applied
    BY <1>2 DEF SyncCommit, Goto, InFlight, SyncedWritesSurvive, TypeOK
  <2>3. InFlight'
    BY <1>2, <2>1 DEF SyncCommit, Goto, InFlight, TypeOK
  <2> QED
    BY <2>1, <2>2, <2>3 DEF SyncedWritesSurvive
<1>3. CASE ~ApplyCommit(p) /\ ~SyncCommit(p)
  <2>1. UNCHANGED <<db, worlds, promised, ld>>
    BY <1>3 DEF Writer, OpenWriter, CloseWriter, BeginCommit
  <2>2. \A o \in Proc : pc'[o] \in {"syncing", "counting"} =>
          pc[o] \in {"syncing", "counting"} /\ cur'[o] = cur[o]
    BY <1>3 DEF Writer, OpenWriter, CloseWriter, BeginCommit, Goto, TypeOK
  <2> QED
    BY <2>1, <2>2 DEF SyncedWritesSurvive, InFlight
<1> QED
  BY <1>1, <1>2, <1>3

LEMMA LoaderKeepsPromises ==
  ASSUME TypeInv, SyncInv, NEW p \in Proc, Loader(p)
  PROVE  SyncInv'
<1> USE DEF TypeInv, SyncInv
<1>1. ld[p] \in LoaderState /\ ld[p].wrote \subseteq db.applied
  BY DEF TypeOK, InFlight
<1>2. ASSUME NEW l \in ValidLabel, OpenLoader(p, l)
      PROVE  SyncInv'
  <2>1. \A o \in Proc : ld'[o].wrote \subseteq db.applied
    BY <1>2 DEF OpenLoader, NoLoader, InFlight, TypeOK
  <2> QED
    BY <1>2, <2>1 DEF OpenLoader, Goto, SyncedWritesSurvive, InFlight, TypeOK
<1>3. ASSUME NEW q \in Quad, LoaderAdd(p, q)
      PROVE  SyncInv'
  <2> DEFINE loader == Buffered(ld[p], q)
  <2>1. loader \in LoaderState
    BY <1>1, BufferedType
  <2>2. loader.wrote = ld[p].wrote
    BY <1>1 DEF Buffered, LoaderState
  <2>3. UNCHANGED <<promised, pc, cur>>
    BY <1>3 DEF LoaderAdd
  <2>4. CASE loader.rows >= BatchSize
    <3>1. Flush(p, loader)
      BY <1>3, <2>4 DEF LoaderAdd
    <3> QED
      BY <1>1, <2>1, <2>2, <2>3, <3>1, FlushKeepsPromises DEF InFlight
  <2>5. CASE ~(loader.rows >= BatchSize)
    <3>1. ld' = [ld EXCEPT ![p] = loader] /\ UNCHANGED <<db, worlds>>
      BY <1>3, <2>5 DEF LoaderAdd
    <3> HIDE DEF loader
    <3> QED
      BY <1>1, <2>2, <2>3, <3>1 DEF SyncedWritesSurvive, InFlight, TypeOK
  <2> QED
    BY <2>4, <2>5
<1>4. CASE LoaderFlush(p) \/ LoaderClose(p)
  <2>1. Flush(p, ld[p]) /\ UNCHANGED <<promised, cur>>
    BY <1>4 DEF LoaderFlush, LoaderClose
  <2>2. /\ SyncedWritesSurvive'
        /\ db.applied \subseteq db'.applied
        /\ \A o \in Proc : ld'[o].wrote \subseteq db'.applied
    BY <1>1, <2>1, FlushKeepsPromises
  <2>3. \A o \in Proc : pc'[o] \in {"syncing", "counting"} => pc[o] = pc'[o]
    BY <1>4 DEF LoaderFlush, LoaderClose, Goto, TypeOK
  <2> QED
    BY <2>1, <2>2, <2>3 DEF InFlight
<1>5. CASE LoaderHarden(p)
  <2>1. db'.applied = db.applied /\ \A w \in worlds' : w.applied = db.applied
    BY <1>5, SyncKeepsPromises DEF LoaderHarden
  <2>2. promised' \subseteq db.applied
    BY <1>1, <1>5 DEF LoaderHarden, SyncedWritesSurvive, TypeOK
  <2>3. InFlight'
    BY <1>5, <2>1 DEF LoaderHarden, Goto, NoLoader, InFlight, TypeOK
  <2> QED
    BY <2>1, <2>2, <2>3 DEF SyncedWritesSurvive
<1> QED
  BY <1>2, <1>3, <1>4, <1>5 DEF Loader

\* What is applied in every world stays so.
LEMMA AppliedStays ==
  ASSUME TypeInv, StoreStep
  PROVE  \A after \in worlds' : \E w \in worlds : w.applied \subseteq after.applied
<1>1. db \in worlds /\ worlds \subseteq Contents /\ db \in Contents
  BY DEF TypeInv, TypeOK
<1>2. ASSUME NEW new, db.applied \subseteq new.applied, WriteNoSync(new) \/ WriteSync(new)
      PROVE  \A after \in worlds' : \E w \in worlds : w.applied \subseteq after.applied
  BY <1>1, <1>2 DEF WriteNoSync, WriteSync
<1>3. CASE UNCHANGED <<db, worlds>>
  BY <1>3
<1>4. ASSUME NEW id \in Id, NEW b \in BatchChoice, WriteNoSync(CommittedTo(db, id, b))
      PROVE  \A after \in worlds' : \E w \in worlds : w.applied \subseteq after.applied
  BY <1>1, <1>2, <1>4, AppliedGrows
<1>5. ASSUME NEW id \in Id, NEW loader \in LoaderState, WriteNoSync(FlushedTo(db, id, loader))
      PROVE  \A after \in worlds' : \E w \in worlds : w.applied \subseteq after.applied
  <2>1. FlushedTo(db, id, loader).applied = db.applied \cup {id}
    BY <1>1 DEF FlushedTo, Contents
  <2> QED
    BY <1>2, <1>5, <2>1
<1>6. ASSUME NEW id \in Id, NEW g \in IngestChoice, NEW kept \in {worlds, {db}}, IngestStep(id, g, kept)
      PROVE  \A after \in worlds' : \E w \in worlds : w.applied \subseteq after.applied
  <2>1. \A w \in worlds : w.applied \subseteq IngestedTo(w, id, g).applied
    BY <1>1, AppliedGrows
  <2>2. worlds' = {IngestedTo(w, id, g) : w \in kept} /\ kept \subseteq worlds
    BY <1>1, <1>6 DEF IngestStep
  <2> QED
    BY <2>1, <2>2
<1>7. ASSUME NEW f, WriteSync(CountedIn(db, f)) \/ WriteSync(RecountedTo(db, f))
      PROVE  \A after \in worlds' : \E w \in worlds : w.applied \subseteq after.applied
  BY <1>1, <1>2, <1>7, AppliedGrows
<1>8. ASSUME NEW w \in worlds, WriteSync(w)
      PROVE  \A after \in worlds' : \E v \in worlds : v.applied \subseteq after.applied
  BY <1>8 DEF WriteSync
<1> QED
  BY <1>1, <1>3, <1>4, <1>5, <1>6, <1>7, <1>8
     DEF StoreStep, CommitStep, LoadStep, HardenStep, RecoverStep

\* A goroutine comes to counting by ingesting its tables.
LEMMA CountingSinceIngest ==
  ASSUME TypeInv, [Next]_vars, NEW o \in Proc, pc'[o] = "counting"
  PROVE  \/ pc[o] = "counting" /\ cur'[o] = cur[o]
         \/ \E g \in IngestChoice : IngestTables(o, g)
<1>0. TypeOK
  BY DEF TypeInv
<1>1. ASSUME NEW p \in Proc, Writer(p)
      PROVE  pc[o] = "counting" /\ cur'[o] = cur[o]
  BY <1>0, <1>1 DEF Writer, OpenWriter, CloseWriter, BeginCommit, ApplyCommit, SyncCommit, Goto, TypeOK
<1>2. ASSUME NEW p \in Proc, Loader(p)
      PROVE  pc[o] = "counting" /\ cur'[o] = cur[o]
  BY <1>0, <1>2 DEF Loader, OpenLoader, LoaderAdd, LoaderFlush, LoaderClose, LoaderHarden, Goto, TypeOK
<1>3. ASSUME NEW p \in Proc, IngestCounters(p) \/ RebuildScan(p) \/ RebuildReplace(p)
      PROVE  pc[o] = "counting" /\ cur'[o] = cur[o]
  BY <1>0, <1>3 DEF IngestCounters, RebuildScan, RebuildReplace, Goto, TypeOK
<1>4. ASSUME NEW p \in Proc, NEW g \in IngestChoice, IngestTables(p, g)
      PROVE  p = o \/ (pc[o] = "counting" /\ cur'[o] = cur[o])
  BY <1>0, <1>4 DEF IngestTables, Goto, TypeOK
<1>5. ~(Crash \/ Reopen)
  BY DEF Crash, Reopen, NoHandles
<1>6. CASE UNCHANGED vars
  BY <1>6 DEF vars
<1> QED
  BY <1>1, <1>2, <1>3, <1>4, <1>5, <1>6 DEF Next, Importer

LEMMA IngestsAreDurable == Spec => []IngestedEverywhere
<1>1. Init => IngestedEverywhere
  BY DEF Init, IngestedEverywhere
<1>2. TypeInv /\ IngestedEverywhere /\ [Next]_vars => IngestedEverywhere'
  <2> SUFFICES ASSUME TypeInv, IngestedEverywhere, [Next]_vars,
                      NEW p \in Proc, pc'[p] = "counting", NEW after \in worlds'
               PROVE  cur'[p].id \in after.applied
    BY DEF IngestedEverywhere
  <2>1. CASE pc[p] = "counting" /\ cur'[p] = cur[p]
    <3>1. PICK w \in worlds : w.applied \subseteq after.applied
      BY NextIsStoreStep, AppliedStays
    <3> QED
      BY <2>1, <3>1 DEF IngestedEverywhere
  <2>2. ASSUME NEW g \in IngestChoice, IngestTables(p, g)
        PROVE  cur'[p].id \in after.applied
    <3>1. cur'[p].id = nextId
      BY <2>2 DEF IngestTables, TypeInv, TypeOK, CommitState
    <3>2. PICK w \in worlds : after = IngestedTo(w, nextId, g)
      BY <2>2 DEF IngestTables, Kept, TypeInv, TypeOK
    <3>3. w \in Contents
      BY DEF TypeInv, TypeOK
    <3>4. after.applied = w.applied \cup {nextId}
      BY <3>2, <3>3 DEF IngestedTo, Contents
    <3> QED
      BY <3>1, <3>4
  <2> QED
    BY <2>1, <2>2, CountingSinceIngest
<1> QED
  BY <1>1, <1>2, TypeInvariant, PTL DEF Spec

LEMMA ImporterKeepsPromises ==
  ASSUME TypeInv, SyncInv, IngestedEverywhere, NEW p \in Proc, Importer(p)
  PROVE  SyncInv'
<1> USE DEF TypeInv, SyncInv
<1>1. ASSUME NEW g \in IngestChoice, IngestTables(p, g)
      PROVE  SyncInv'
  <2> DEFINE kept == Kept(EffectiveSet(g.quads, g.label))
             After(w) == IngestedTo(w, nextId, g)
  <2>1. kept \subseteq worlds /\ db' = After(db) /\ worlds' = {After(w) : w \in kept}
    BY <1>1 DEF IngestTables, Kept, TypeOK
  <2>2. ASSUME NEW w \in Contents PROVE After(w).applied = w.applied \cup {nextId}
    BY DEF IngestedTo, Contents
  <2> HIDE DEF kept, After
  <2>3. SyncedWritesSurvive'
    <3>1. promised' = promised
      BY <1>1 DEF IngestTables
    <3>2. ASSUME NEW w \in kept PROVE promised \subseteq After(w).applied
      <4>1. w \in Contents /\ promised \subseteq w.applied
        BY <2>1 DEF SyncedWritesSurvive, TypeOK
      <4> QED
        BY <2>2, <4>1
    <3> QED
      BY <2>1, <3>1, <3>2 DEF SyncedWritesSurvive
  <2>4. db'.applied = db.applied \cup {nextId}
    BY <2>1, <2>2 DEF TypeOK
  <2>5. cur'[p].id = nextId /\ \A o \in Proc \ {p} : cur'[o] = cur[o]
    BY <1>1 DEF IngestTables, TypeOK, CommitState
  <2>6. InFlight'
    BY <1>1, <2>4, <2>5 DEF IngestTables, Goto, InFlight, TypeOK
  <2> QED
    BY <2>3, <2>6
<1>2. CASE IngestCounters(p)
  <2> DEFINE new == CountedIn(db, tally[p])
  <2>1. db \in Contents /\ (UNCHANGED <<db, worlds>> \/ WriteSync(new))
    BY <1>2 DEF IngestCounters, TypeOK
  <2>2. new.applied = db.applied
    BY <2>1, AppliedGrows
  <2> HIDE DEF new
  <2>3. db'.applied = db.applied /\ \A w \in worlds' : w.applied = db.applied \/ w \in worlds
    BY <2>1, <2>2, SyncKeepsPromises
  <2>4. promised' \subseteq db.applied /\ \A w \in worlds : promised' \subseteq w.applied
    BY <1>2 DEF IngestCounters, Goto, InFlight, IngestedEverywhere, SyncedWritesSurvive, TypeOK
  <2>5. InFlight'
    BY <1>2, <2>3 DEF IngestCounters, Goto, InFlight, TypeOK
  <2> QED
    BY <2>3, <2>4, <2>5 DEF SyncedWritesSurvive
<1>3. CASE RebuildScan(p)
  BY <1>3 DEF RebuildScan, Goto, SyncedWritesSurvive, InFlight, TypeOK
<1>4. CASE RebuildReplace(p)
  <2> DEFINE new == RecountedTo(db, tally[p])
  <2>1. db \in Contents /\ WriteSync(new)
    BY <1>4 DEF RebuildReplace, TypeOK
  <2>2. new.applied = db.applied
    BY <2>1, AppliedGrows
  <2> HIDE DEF new
  <2>3. db'.applied = db.applied /\ \A w \in worlds' : w.applied = db.applied
    BY <2>1, <2>2, SyncKeepsPromises
  <2>4. promised' \subseteq db.applied
    BY <1>4 DEF RebuildReplace, SyncedWritesSurvive, TypeOK
  <2>5. InFlight'
    BY <1>4, <2>3 DEF RebuildReplace, Goto, InFlight, TypeOK
  <2> QED
    BY <2>3, <2>4, <2>5 DEF SyncedWritesSurvive
<1> QED
  BY <1>1, <1>2, <1>3, <1>4 DEF Importer

LEMMA RestartKeepsPromises ==
  ASSUME TypeInv, SyncInv, Crash \/ Reopen
  PROVE  SyncInv'
<1>1. PICK w \in worlds : WriteSync(w)
  BY DEF Crash, Reopen, TypeInv, TypeOK
<1>2. promised' = promised /\ NoHandles
  BY DEF Crash, Reopen
<1>3. SyncedWritesSurvive'
  BY <1>1, <1>2, SyncKeepsPromises DEF SyncInv, SyncedWritesSurvive
<1>4. InFlight'
  BY <1>2 DEF NoHandles, NoLoader, InFlight
<1> QED
  BY <1>3, <1>4 DEF SyncInv

\* A write whose caller was told it is on disk (CommitSync returned,
\* BulkLoader.Close returned, IngestSorted returned) is in every state a
\* crash may leave, whatever the other goroutines wrote without syncing.
THEOREM AcknowledgedWritesSurvive == Spec => []SyncedWritesSurvive
<1>1. Init => SyncInv
  BY DEF Init, SyncInv, SyncedWritesSurvive, InFlight, EmptyContents, NoLoader
<1>2. TypeInv /\ SyncInv /\ IngestedEverywhere /\ [Next]_vars => SyncInv'
  <2> SUFFICES ASSUME TypeInv, SyncInv, IngestedEverywhere, [Next]_vars PROVE SyncInv'
    OBVIOUS
  <2>1. ASSUME NEW p \in Proc, Writer(p) \/ Loader(p) \/ Importer(p)
        PROVE  SyncInv'
    BY <2>1, WriterKeepsPromises, LoaderKeepsPromises, ImporterKeepsPromises
  <2>2. CASE Crash \/ Reopen
    BY <2>2, RestartKeepsPromises
  <2>3. CASE UNCHANGED vars
    BY <2>3 DEF vars, SyncInv, SyncedWritesSurvive, InFlight
  <2> QED
    BY <2>1, <2>2, <2>3 DEF Next
<1>3. SyncInv => SyncedWritesSurvive
  BY DEF SyncInv
<1> QED
  BY <1>1, <1>2, <1>3, TypeInvariant, IngestsAreDurable, PTL DEF Spec

----------------------------------------------------------------------------
(***************************************************************************)
(* The store implements QuadGraph: under the refinement mapping, which     *)
(* reads the SPO keyspace of every possible contents, each way of writing  *)
(* the store is a step of the abstract graph or a stutter.                 *)
(***************************************************************************)
Graph(kv) == Held(kv, "SPO")

Graphs == {Graph(w) : w \in worlds}

AbstractNoSync(g) == Graph(db)' = g /\ Graphs' = Graphs \cup {g}
AbstractSync(g)   == Graph(db)' = g /\ Graphs' = {g}

LEMMA WritesOfTheGraph ==
  ASSUME NEW kv
  PROVE  /\ WriteNoSync(kv) => AbstractNoSync(Graph(kv))
         /\ WriteSync(kv) => AbstractSync(Graph(kv))
BY DEF WriteNoSync, WriteSync, AbstractNoSync, AbstractSync, Graphs, Graph

LEMMA StepImplements ==
  ASSUME TypeInv, StoreStep
  PROVE  [Abstract!Next]_(Abstract!vars)
<1> USE DEF Abstract!vars
<1>1. db \in worlds /\ worlds \subseteq Contents /\ "SPO" \in Keyspace
  BY DEF TypeInv, TypeOK, Keyspace
<1>2. CASE UNCHANGED <<db, worlds>> /\ AskStep
  <2>1. UNCHANGED <<Graph(db), Graphs>>
    BY <1>2 DEF Graph, Graphs, Held
  <2>2. CASE UNCHANGED Asked
    BY <2>1, <2>2 DEF Graph, Graphs
  <2>3. ASSUME NEW p \in Proc, NEW b \in BatchChoice,
               Asked[p] = {}, Asked' = [Asked EXCEPT ![p] = {Wanted(b)}]
        PROVE  Abstract!Next
    <3>1. Abstract!Ask(p, Wanted(b))
      BY <2>1, <2>3 DEF Abstract!Ask, Graph, Graphs
    <3> QED
      BY <3>1 DEF Abstract!Next
  <2> QED
    BY <1>2, <2>2, <2>3 DEF AskStep
<1>3. ASSUME NEW p \in Proc, NEW id \in Id, NEW b \in BatchChoice, CommitStep(p, id, b)
      PROVE  Abstract!Next
  <2> DEFINE c == Wanted(b)
  <2>1. Asked[p] = {c} /\ Asked' = [Asked EXCEPT ![p] = {}]
    BY <1>3 DEF CommitStep
  <2>2. db \in Contents /\ b \in Batch
    BY <1>1, ConstantsAssumption
  <2>3. Graph(CommittedTo(db, id, b)) = (Graph(db) \cup c.adds) \ c.removes
    BY <1>1, <2>2, HeldAfterCommit DEF Graph, Wanted
  <2>4. AbstractNoSync(Graph(CommittedTo(db, id, b)))
    BY <1>3, WritesOfTheGraph DEF CommitStep
  <2> HIDE DEF c
  <2>5. Abstract!Commit(p, c)
    BY <2>1, <2>3, <2>4 DEF Abstract!Commit, AbstractNoSync, Graphs, Graph
  <2> QED
    BY <2>5 DEF Abstract!Next, c
<1>4. ASSUME NEW id \in Id, NEW loader \in LoaderState, WriteNoSync(FlushedTo(db, id, loader)),
             UNCHANGED Asked
      PROVE  Abstract!Next
  <2>1. Graph(FlushedTo(db, id, loader)) = Graph(db) \cup loader.buf
    BY <1>1, HeldAfterFlush DEF Graph
  <2>2. AbstractNoSync(Graph(FlushedTo(db, id, loader)))
    BY <1>4, WritesOfTheGraph
  <2>3. Abstract!Load(loader.buf) /\ loader.buf \in SUBSET Quad
    BY <1>4, <2>1, <2>2 DEF Abstract!Load, AbstractNoSync, Graphs, Graph, LoaderState
  <2> QED
    BY <2>3 DEF Abstract!Next
<1>5. ASSUME NEW id \in Id, NEW g \in IngestChoice, NEW kept \in {worlds, {db}},
             IngestStep(id, g, kept), UNCHANGED Asked
      PROVE  Abstract!Next
  <2> DEFINE adds == EffectiveSet(g.quads, g.label)
             keptGraphs == {Graph(w) : w \in kept}
  <2>1. g \in Load /\ adds \in SUBSET Quad
    BY ConstantsAssumption, EffectiveSetType DEF Load
  <2>2. ASSUME NEW w \in worlds PROVE Graph(IngestedTo(w, id, g)) = Graph(w) \cup adds
    BY <1>1, <2>1, HeldAfterIngest DEF Graph
  <2> HIDE DEF adds
  <2>3. Graph(db)' = Graph(db) \cup adds
    BY <1>1, <1>5, <2>2 DEF IngestStep, Graph
  <2>4. Graphs' = {v \cup adds : v \in keptGraphs}
    <3>1. Graphs' = {Graph(IngestedTo(w, id, g)) : w \in kept}
      BY <1>5 DEF IngestStep, Graphs, Graph
    <3>2. \A w \in kept : Graph(IngestedTo(w, id, g)) = Graph(w) \cup adds
      BY <1>1, <2>2
    <3> QED
      BY <3>1, <3>2
  <2>5. keptGraphs \in {Graphs, {Graph(db)}}
    BY DEF Graphs
  <2> HIDE DEF keptGraphs
  <2>6. Abstract!Ingest(adds)
    BY <1>5, <2>3, <2>4, <2>5 DEF Abstract!Ingest, Graphs, Graph
  <2> QED
    BY <2>1, <2>6 DEF Abstract!Next
<1>6. ASSUME HardenStep, UNCHANGED Asked
      PROVE  Abstract!Next
  <2>1. AbstractSync(Graph(db))
    BY <1>1, <1>6, HeldAfterCounting, WritesOfTheGraph DEF HardenStep, Graph
  <2>2. Abstract!Harden
    BY <1>6, <2>1 DEF Abstract!Harden, AbstractSync, Graphs, Graph
  <2> QED
    BY <2>2 DEF Abstract!Next
<1>7. ASSUME RecoverStep
      PROVE  Abstract!Next
  <2>1. PICK w \in worlds : WriteSync(w)
    BY <1>7 DEF RecoverStep
  <2>2. AbstractSync(Graph(w)) /\ Graph(w) \in Graphs
    BY <2>1, WritesOfTheGraph DEF Graphs
  <2>3. Abstract!Recover
    BY <1>7, <2>2
       DEF RecoverStep, Abstract!Recover, Abstract!NothingAsked, AbstractSync, Graphs, Graph
  <2> QED
    BY <2>3 DEF Abstract!Next
<1> QED
  BY <1>2, <1>3, <1>4, <1>5, <1>6, <1>7 DEF StoreStep, LoadStep

\* Every call of every goroutine, and every crash, changes the readable graph
\* and the graphs a crash may leave as the abstract store does: whole batches,
\* or nothing.
THEOREM StoreImplementsQuadGraph == Spec => ImplementsQuadGraph
<1>1. Init => Abstract!Init
  <2>1. Held(EmptyContents, "SPO") = {}
    BY DEF Held, EmptyContents
  <2> QED
    BY <2>1 DEF Init, Abstract!Init, Abstract!NothingAsked, Asked
<1>2. TypeInv /\ [Next]_vars => [Abstract!Next]_(Abstract!vars)
  BY NextIsStoreStep, StepImplements
<1> QED
  BY <1>1, <1>2, TypeInvariant, PTL DEF Spec, ImplementsQuadGraph, Abstract!Spec

----------------------------------------------------------------------------
(***************************************************************************)
(* Labels.  Only a BulkLoader stores what nobody validated; without one    *)
(* every write adds quads that were validated before it was applied.       *)
(***************************************************************************)
Labelled(qs) == \A q \in qs : q.label \in ValidLabel

ValidatedWork ==
  \A p \in Proc :
    /\ pc[p] \notin {"loader", "closing"}
    /\ pc[p] = "committing" => Accepted(cur[p].batch)

LabelInv == LabelsEnforced /\ ValidatedWork

\* Validation looks at the label a quad is stored with.
LEMMA AcceptedIsLabelled ==
  ASSUME NEW b \in Batch, Accepted(b)
  PROVE  Labelled(EffectiveSet(b.adds, b.label))
BY DEF Accepted, Labelled, EffectiveSet

\* Contents that got their quads from labelled ones are labelled.
LEMMA SyncKeepsLabels ==
  ASSUME TypeInv, LabelsEnforced, NEW kv, Labelled(Held(kv, "SPO")),
         WriteNoSync(kv) \/ WriteSync(kv)
  PROVE  LabelsEnforced'
BY DEF LabelsEnforced, Labelled, WriteNoSync, WriteSync

LEMMA WriterKeepsLabels ==
  ASSUME TypeInv, LabelInv, NEW p \in Proc, Writer(p)
  PROVE  LabelInv'
<1>0. TypeOK /\ db \in worlds /\ db \in Contents /\ Labelled(Held(db, "SPO"))
  BY DEF TypeInv, TypeOK, LabelInv, LabelsEnforced, Labelled
<1>1. LabelsEnforced'
  <2>1. CASE ApplyCommit(p)
    <3> DEFINE b == cur[p].batch
               new == CommittedTo(db, cur[p].id, b)
               adds == EffectiveSet(b.adds, b.label)
    <3>1. b \in Batch /\ cur[p].id \in Id /\ Accepted(b)
      BY <2>1, ConstantsAssumption DEF ApplyCommit, Goto, TypeInv, Midway, LabelInv, ValidatedWork
    <3>2. "SPO" \in Keyspace
      BY DEF Keyspace
    <3>3. Held(new, "SPO") = (Held(db, "SPO") \cup adds) \ {b.removes[i] : i \in DOMAIN b.removes}
      BY <1>0, <3>1, <3>2, HeldAfterCommit
    <3>4. WriteNoSync(new)
      BY <2>1 DEF ApplyCommit
    <3>5. Labelled(adds)
      BY <3>1, AcceptedIsLabelled
    <3> HIDE DEF b, new, adds
    <3>6. Labelled(Held(new, "SPO"))
      BY <1>0, <3>3, <3>5 DEF Labelled
    <3> QED
      BY <3>4, <3>6, SyncKeepsLabels DEF LabelInv
  <2>2. CASE SyncCommit(p)
    BY <1>0, <2>2, SyncKeepsLabels DEF SyncCommit, LabelInv
  <2>3. CASE UNCHANGED worlds
    BY <2>3 DEF LabelInv, LabelsEnforced
  <2> QED
    BY <2>1, <2>2, <2>3 DEF Writer, OpenWriter, CloseWriter, BeginCommit
<1>2. ValidatedWork'
  <2>1. ASSUME NEW b \in BatchChoice, NEW sync \in BOOLEAN, BeginCommit(p, b, sync)
        PROVE  ValidatedWork'
    <3>1. Accepted(b) /\ cur'[p].batch = b /\ pc'[p] = "committing"
      BY <1>0, <2>1 DEF BeginCommit, Goto, TypeOK
    <3>2. \A o \in Proc : o # p => cur'[o] = cur[o] /\ pc'[o] = pc[o]
      BY <1>0, <2>1 DEF BeginCommit, Goto, TypeOK
    <3> QED
      BY <3>1, <3>2 DEF LabelInv, ValidatedWork, Accepted
  <2>2. CASE OpenWriter(p) \/ CloseWriter(p) \/ ApplyCommit(p) \/ SyncCommit(p)
    <3>1. pc'[p] \in {"writer", "idle", "syncing"}
      BY <1>0, <2>2 DEF OpenWriter, CloseWriter, ApplyCommit, SyncCommit, Goto, TypeOK
    <3>2. \A o \in Proc : o # p => cur'[o] = cur[o] /\ pc'[o] = pc[o]
      BY <1>0, <2>2 DEF OpenWriter, CloseWriter, ApplyCommit, SyncCommit, Goto, TypeOK
    <3> QED
      BY <3>1, <3>2 DEF LabelInv, ValidatedWork, Accepted
  <2> QED
    BY <2>1, <2>2 DEF Writer
<1> QED
  BY <1>1, <1>2 DEF LabelInv

LEMMA ImporterKeepsLabels ==
  ASSUME TypeInv, LabelInv, NEW p \in Proc, Importer(p)
  PROVE  LabelInv'
<1>0. TypeOK /\ db \in worlds /\ worlds \subseteq Contents /\ Labelled(Held(db, "SPO"))
  BY DEF TypeInv, TypeOK, LabelInv, LabelsEnforced, Labelled
<1>1. LabelsEnforced'
  <2>1. ASSUME NEW g \in IngestChoice, IngestTables(p, g)
        PROVE  LabelsEnforced'
    <3> DEFINE adds == EffectiveSet(g.quads, g.label)
    <3>1. g \in Load /\ nextId \in Id /\ "SPO" \in Keyspace
      BY <2>1, ConstantsAssumption DEF IngestTables, Keyspace
    <3>2. Labelled(adds)
      BY <2>1 DEF IngestTables, Labelled, EffectiveSet
    <3>3. \A w \in worlds : Held(IngestedTo(w, nextId, g), "SPO") = Held(w, "SPO") \cup adds
      BY <1>0, <3>1, HeldAfterIngest
    <3>4. Kept(adds) \subseteq worlds
      BY <1>0 DEF Kept
    <3>5. worlds' = {IngestedTo(w, nextId, g) : w \in Kept(adds)}
      BY <2>1 DEF IngestTables
    <3> HIDE DEF adds
    <3> QED
      BY <3>2, <3>3, <3>4, <3>5 DEF LabelInv, LabelsEnforced, Labelled
  <2>2. CASE IngestCounters(p)
    <3>1. Held(CountedIn(db, tally[p]), "SPO") = Held(db, "SPO")
      BY <1>0, HeldAfterCounting
    <3>2. CASE UNCHANGED <<db, worlds>>
      BY <3>2 DEF LabelInv, LabelsEnforced
    <3>3. CASE WriteSync(CountedIn(db, tally[p]))
      BY <1>0, <3>1, <3>3, SyncKeepsLabels DEF LabelInv
    <3> QED
      BY <2>2, <3>2, <3>3 DEF IngestCounters
  <2>3. CASE RebuildReplace(p)
    <3>1. Held(RecountedTo(db, tally[p]), "SPO") = Held(db, "SPO")
      BY <1>0, HeldAfterCounting
    <3> QED
      BY <1>0, <2>3, <3>1, SyncKeepsLabels DEF RebuildReplace, LabelInv
  <2>4. CASE RebuildScan(p)
    BY <2>4 DEF RebuildScan, LabelInv, LabelsEnforced
  <2> QED
    BY <2>1, <2>2, <2>3, <2>4 DEF Importer
<1>2. ValidatedWork'
  <2>1. /\ pc'[p] \in {"idle", "counting", "rebuilding"}
        /\ \A o \in Proc : o # p => cur'[o] = cur[o] /\ pc'[o] = pc[o]
    BY <1>0 DEF Importer, IngestTables, IngestCounters, RebuildScan, RebuildReplace, Goto, TypeOK
  <2> QED
    BY <2>1 DEF LabelInv, ValidatedWork, Accepted
<1> QED
  BY <1>1, <1>2 DEF LabelInv

\* With Writers, ingests and rebuilds, but no BulkLoader: whatever is refused,
\* interleaved or cut off by a crash, no quad with a label outside the
\* namespaces is stored.
THEOREM LabelsAlwaysEnforced ==
  ASSUME "loader" \notin Kinds
  PROVE  Spec => []LabelsEnforced
<1>1. Init => LabelInv
  BY DEF Init, LabelInv, LabelsEnforced, ValidatedWork, Held, EmptyContents
<1>2. TypeInv /\ LabelInv /\ [Next]_vars => LabelInv'
  <2> SUFFICES ASSUME TypeInv, LabelInv, [Next]_vars
               PROVE  LabelInv'
    OBVIOUS
  <2>1. ASSUME NEW p \in Proc, Loader(p)
        PROVE  LabelInv'
    BY <2>1 DEF Loader, OpenLoader, LoaderAdd, LoaderFlush, LoaderClose, LoaderHarden, Goto,
                LabelInv, ValidatedWork
  <2>2. CASE Crash \/ Reopen
    <3>1. \A w \in worlds' : w \in worlds
      BY <2>2 DEF Crash, Reopen, WriteSync, TypeInv, TypeOK
    <3>2. \A p \in Proc : pc'[p] = "idle"
      BY <2>2 DEF Crash, Reopen, NoHandles
    <3> QED
      BY <3>1, <3>2 DEF LabelInv, LabelsEnforced, ValidatedWork
  <2>3. CASE UNCHANGED vars
    BY <2>3 DEF vars, LabelInv, LabelsEnforced, ValidatedWork, Accepted
  <2> QED
    BY <2>1, <2>2, <2>3, WriterKeepsLabels, ImporterKeepsLabels DEF Next
<1>3. LabelInv => LabelsEnforced
  BY DEF LabelInv
<1> QED
  BY <1>1, <1>2, <1>3, TypeInvariant, PTL DEF Spec

----------------------------------------------------------------------------
(***************************************************************************)
(* The journal.  Replaying it gives the stored quads because the           *)
(* operations about a statement are in the journal in the order in which   *)
(* its owner's commits drew their ids: when a commit is applied, all that  *)
(* the journal has about its statements has a smaller id.                  *)
(***************************************************************************)

\* Each statement is written by one goroutine.
OneOwner == \A s \in Stmt \cup {EmptyStmt} : \A p, o \in Owner[s] : p = o

\* Validation refuses this input of IngestSorted.
Refused(g) ==
  \/ g.label \notin ValidLabel
  \/ \E i \in DOMAIN g.quads : \/ g.quads[i].stmt = EmptyStmt
                               \/ Effective(g.quads[i], g.label).label \notin ValidLabel

\* Nothing is stored but by an audited commit.
AllJournalled ==
  /\ \A b \in BatchChoice : b.audit
  /\ "loader" \notin Kinds
  /\ "ingest" \in Kinds => \A g \in IngestChoice : Refused(g)

Replays(kv) == Replayed(kv.ops) = Held(kv, "SPO")

JournalBefore(kv, id) == \A o \in kv.ops : o.id < id

\* All the journal has about this goroutine's statements came before the id.
Behind(kv, p, id) == \A o \in kv.ops : p \in Owner[o.quad.stmt] => o.id < id

JournalInv ==
  /\ \A w \in worlds : Replays(w) /\ JournalBefore(w, nextId)
  /\ \A p \in Proc :
       /\ pc[p] \notin {"loader", "closing"}
       /\ pc[p] = "committing" =>
            /\ cur[p].id < nextId
            /\ MayWrite(p, cur[p].batch.adds) /\ MayWrite(p, cur[p].batch.removes)
            /\ Behind(db, p, cur[p].id)

\* The operations of an audited commit: its adds, by their effective label,
\* and behind them its removes.
LEMMA OpsOfCommit ==
  ASSUME NEW id \in Id, NEW b \in Batch, b.audit, NEW u
  PROVE  u \in CommitOps(id, b) <=>
           \/ \E i \in DOMAIN b.adds :
                u = [id |-> id, seq |-> i, kind |-> "add", quad |-> Effective(b.adds[i], b.label)]
           \/ \E i \in DOMAIN b.removes :
                u = [id |-> id, seq |-> Len(b.adds) + i, kind |-> "remove", quad |-> b.removes[i]]
BY DEF CommitOps

\* They are about statements of the goroutine that commits.
LEMMA OpsOfOwner ==
  ASSUME NEW id \in Id, NEW b \in Batch, b.audit, NEW p,
         MayWrite(p, b.adds), MayWrite(p, b.removes), NEW u \in CommitOps(id, b)
  PROVE  u.id = id /\ p \in Owner[u.quad.stmt]
<1>1. b.adds \in Seq(Quad)
  BY DEF Batch
<1>2. ASSUME NEW i \in DOMAIN b.adds PROVE Effective(b.adds[i], b.label).stmt = b.adds[i].stmt
  <2>1. b.adds[i] \in Quad
    BY <1>1
  <2> QED
    BY <2>1 DEF Effective, Quad
<1> QED
  BY <1>2, OpsOfCommit DEF MayWrite

\* A commit that comes after all that the journal has about its statements
\* does to the replayed quads what it does to the stored ones.
LEMMA CommitReplays ==
  ASSUME NEW kv \in Contents, NEW id \in Id, NEW b \in Batch, b.audit, Replays(kv), NEW p,
         MayWrite(p, b.adds), MayWrite(p, b.removes), Behind(kv, p, id)
  PROVE  Replays(CommittedTo(kv, id, b))
<1> DEFINE new == CommittedTo(kv, id, b)
           ops == CommitOps(id, b)
           adds == EffectiveSet(b.adds, b.label)
           removes == {b.removes[i] : i \in DOMAIN b.removes}
           n == Len(b.adds)
<1>1. /\ b.adds \in Seq(Quad) /\ n \in Nat /\ DOMAIN b.adds = 1..n
      /\ b.removes \in Seq(Quad) /\ DOMAIN b.removes \subseteq Nat \ {0}
  BY DEF Batch
<1>2. new.ops = kv.ops \cup ops
  BY DEF CommittedTo, Contents
<1>3. Held(new, "SPO") = (Held(kv, "SPO") \cup adds) \ removes
  BY HeldAfterCommit DEF Keyspace
<1>4. \A u \in ops : u.id = id /\ p \in Owner[u.quad.stmt]
  BY OpsOfOwner
<1>5. \A u \in ops : \/ u.kind = "add" /\ u.quad \in adds /\ u.seq \in 1..n
                     \/ u.kind = "remove" /\ u.quad \in removes /\ u.seq \in Nat /\ u.seq > n
  <2>1. ASSUME NEW i \in DOMAIN b.adds
        PROVE  LET u == [id |-> id, seq |-> i, kind |-> "add", quad |-> Effective(b.adds[i], b.label)]
               IN  u.kind = "add" /\ u.quad \in adds /\ u.seq \in 1..n
    BY <1>1 DEF EffectiveSet
  <2>2. ASSUME NEW i \in DOMAIN b.removes
        PROVE  LET u == [id |-> id, seq |-> n + i, kind |-> "remove", quad |-> b.removes[i]]
               IN  u.kind = "remove" /\ u.quad \in removes /\ u.seq \in Nat /\ u.seq > n
    BY <1>1
  <2> QED
    BY <2>1, <2>2, OpsOfCommit
<1>6. \A q \in adds : \E u \in ops : u.quad = q /\ u.kind = "add"
  <2>1. ASSUME NEW i \in DOMAIN b.adds
        PROVE  \E u \in ops : u.quad = Effective(b.adds[i], b.label) /\ u.kind = "add"
    <3> DEFINE u == [id |-> id, seq |-> i, kind |-> "add", quad |-> Effective(b.adds[i], b.label)]
    <3>1. u \in ops /\ u.quad = Effective(b.adds[i], b.label) /\ u.kind = "add"
      BY OpsOfCommit
    <3> QED
      BY <3>1
  <2> QED
    BY <2>1 DEF EffectiveSet
<1>7. \A q \in removes : \E u \in ops : u.quad = q /\ u.kind = "remove"
  <2>1. ASSUME NEW i \in DOMAIN b.removes
        PROVE  \E u \in ops : u.quad = b.removes[i] /\ u.kind = "remove"
    <3> DEFINE u == [id |-> id, seq |-> n + i, kind |-> "remove", quad |-> b.removes[i]]
    <3>1. u \in ops /\ u.quad = b.removes[i] /\ u.kind = "remove"
      BY OpsOfCommit
    <3> QED
      BY <3>1
  <2> QED
    BY <2>1
<1>8. \A o \in kv.ops : o.id \in Nat /\ (p \in Owner[o.quad.stmt] => o.id < id)
  BY DEF Behind, Contents, OpRow, Id
<1>9. id \in Nat /\ \A q \in Quad : q \in Replayed(kv.ops) <=> q \in Held(kv, "SPO")
  BY DEF Replays, Id
<1>10. Held(new, "SPO") \subseteq Quad /\ Held(kv, "SPO") \subseteq Quad
  BY DEF Held
<1> HIDE DEF new, ops, adds, removes, n
<1>11. ASSUME NEW q \in Quad PROVE q \in Replayed(kv.ops \cup ops) <=> q \in Held(new, "SPO")
  <2>1. CASE q \in removes
    <3>1. PICK u \in ops : u.quad = q /\ u.kind = "remove"
      BY <1>7, <2>1
    <3>2. u.id = id /\ u.seq \in Nat /\ u.seq > n /\ p \in Owner[q.stmt]
      BY <1>4, <1>5, <3>1
    <3>3. ASSUME NEW o \in kv.ops \cup ops, o.quad = q, o.kind = "add"
          PROVE  ~Before(u, o)
      <4>1. CASE o \in kv.ops
        BY <1>8, <1>9, <3>2, <3>3, <4>1 DEF Before
      <4>2. CASE o \in ops
        BY <1>1, <1>4, <1>5, <1>9, <3>2, <3>3, <4>2 DEF Before, n
      <4> QED
        BY <4>1, <4>2
    <3>4. q \notin Replayed(kv.ops \cup ops)
      BY <3>1, <3>3 DEF Replayed
    <3> QED
      BY <1>3, <2>1, <3>4
  <2>2. CASE q \notin removes /\ q \in adds
    <3>1. PICK o \in ops : o.quad = q /\ o.kind = "add"
      BY <1>6, <2>2
    <3>2. o.id = id /\ p \in Owner[q.stmt]
      BY <1>4, <3>1
    <3>3. ASSUME NEW u \in kv.ops \cup ops, u.quad = q, u.kind = "remove"
          PROVE  Before(u, o)
      <4>1. u \in kv.ops
        BY <1>5, <2>2, <3>3
      <4> QED
        BY <1>8, <3>2, <3>3, <4>1 DEF Before
    <3>4. q \in Replayed(kv.ops \cup ops)
      BY <3>1, <3>3 DEF Replayed
    <3> QED
      BY <1>3, <2>2, <3>4
  <2>3. CASE q \notin removes /\ q \notin adds
    <3>1. \A u \in ops : u.quad # q
      BY <1>5, <2>3
    <3>2. q \in Replayed(kv.ops \cup ops) <=> q \in Replayed(kv.ops)
      BY <3>1 DEF Replayed
    <3> QED
      BY <1>3, <1>9, <2>3, <3>2
  <2> QED
    BY <2>1, <2>2, <2>3
<1>12. Replayed(kv.ops \cup ops) \subseteq Quad
  BY DEF Replayed
<1>13. Replayed(new.ops) = Held(new, "SPO")
  BY <1>2, <1>10, <1>11, <1>12
<1> QED
  BY <1>13 DEF Replays, new

\* The counters and their rebuild leave journal and quads alone.
LEMMA CountingReplays ==
  ASSUME NEW kv \in Contents, NEW f
  PROVE  /\ CountedIn(kv, f).ops = kv.ops /\ RecountedTo(kv, f).ops = kv.ops
         /\ Replays(CountedIn(kv, f)) <=> Replays(kv)
         /\ Replays(RecountedTo(kv, f)) <=> Replays(kv)
<1>1. CountedIn(kv, f).ops = kv.ops /\ RecountedTo(kv, f).ops = kv.ops
  BY DEF CountedIn, RecountedTo, Contents
<1> QED
  BY <1>1, HeldAfterCounting DEF Replays

LEMMA WriterKeepsJournal ==
  ASSUME TypeInv, JournalInv, OneOwner, AllJournalled, NEW p \in Proc, Writer(p)
  PROVE  JournalInv'
<1>0. /\ TypeOK /\ db \in worlds /\ worlds \subseteq Contents /\ nextId \in Nat
      /\ \A w \in worlds : Replays(w) /\ JournalBefore(w, nextId)
  BY ConstantsAssumption DEF TypeInv, TypeOK, JournalInv
<1>1. ASSUME NEW b \in BatchChoice, NEW sync \in BOOLEAN, BeginCommit(p, b, sync)
      PROVE  JournalInv'
  <2>1. /\ UNCHANGED <<db, worlds>> /\ nextId' = nextId + 1
        /\ MayWrite(p, b.adds) /\ MayWrite(p, b.removes)
    BY <1>1 DEF BeginCommit
  <2>2. /\ cur'[p].batch = b /\ cur'[p].id = nextId /\ pc'[p] = "committing"
        /\ \A o \in Proc : o # p => cur'[o] = cur[o] /\ pc'[o] = pc[o]
    BY <1>0, <1>1 DEF BeginCommit, Goto, TypeOK
  <2>3. \A w \in worlds : \A o \in w.ops : o.id \in Nat /\ o.id < nextId
    BY <1>0 DEF JournalBefore, Contents, OpRow, Id
  <2>4. \A w \in worlds' : Replays(w) /\ JournalBefore(w, nextId')
    BY <1>0, <2>1, <2>3 DEF JournalBefore
  <2>5. Behind(db, p, nextId)
    BY <1>0, <2>3 DEF Behind
  <2>6. ASSUME NEW o \in Proc
        PROVE  /\ pc'[o] \notin {"loader", "closing"}
               /\ pc'[o] = "committing" =>
                    /\ cur'[o].id < nextId'
                    /\ MayWrite(o, cur'[o].batch.adds) /\ MayWrite(o, cur'[o].batch.removes)
                    /\ Behind(db', o, cur'[o].id)
    <3>1. CASE o = p
      BY <1>0, <2>1, <2>2, <2>5, <3>1
    <3>2. CASE o # p
      <4>1. cur[o].id \in Nat
        BY <1>0 DEF TypeOK, CommitState, Id
      <4> QED
        BY <1>0, <2>1, <2>2, <3>2, <4>1 DEF JournalInv
    <3> QED
      BY <3>1, <3>2
  <2> QED
    BY <2>4, <2>6 DEF JournalInv, MayWrite
<1>2. CASE ApplyCommit(p)
  <2> DEFINE b == cur[p].batch
             id == cur[p].id
             new == CommittedTo(db, id, b)
  <2>1. /\ b \in Batch /\ b.audit /\ id \in Id /\ id < nextId /\ db \in Contents
        /\ MayWrite(p, b.adds) /\ MayWrite(p, b.removes) /\ Behind(db, p, id)
    BY <1>0, <1>2, ConstantsAssumption
       DEF ApplyCommit, Goto, TypeInv, Midway, JournalInv, AllJournalled
  <2>2. db' = new /\ worlds' = worlds \cup {new} /\ nextId' = nextId
    BY <1>2 DEF ApplyCommit, WriteNoSync
  <2>3. Replays(new)
    BY <1>0, <2>1, CommitReplays
  <2>4. new.ops = db.ops \cup CommitOps(id, b)
    BY <2>1 DEF CommittedTo, Contents
  <2>5. \A u \in CommitOps(id, b) : u.id = id /\ p \in Owner[u.quad.stmt] /\ u.quad.stmt \in Stmt \cup {EmptyStmt}
    <3> SUFFICES ASSUME NEW u \in CommitOps(id, b)
                 PROVE  u.id = id /\ p \in Owner[u.quad.stmt] /\ u.quad.stmt \in Stmt \cup {EmptyStmt}
      OBVIOUS
    <3>1. u.quad \in Quad
      BY <2>1, CommitOpsType DEF OpRow
    <3> HIDE DEF b, id
    <3>2. u.id = id /\ p \in Owner[u.quad.stmt]
      BY <2>1, OpsOfOwner
    <3> QED
      BY <3>1, <3>2 DEF Quad
  <2>6. /\ pc'[p] # "committing" /\ pc'[p] \notin {"loader", "closing"}
        /\ \A o \in Proc : o # p => cur'[o] = cur[o] /\ pc'[o] = pc[o]
    BY <1>0, <1>2 DEF ApplyCommit, Goto, TypeOK
  <2> HIDE DEF b, id, new
  <2>7. JournalBefore(new, nextId)
    BY <1>0, <2>1, <2>4, <2>5 DEF JournalBefore
  <2>8. ASSUME NEW o \in Proc, o # p, NEW n, Behind(db, o, n)
        PROVE  Behind(new, o, n)
    <3>1. \A u \in CommitOps(id, b) : o \notin Owner[u.quad.stmt]
      BY <2>5, <2>8 DEF OneOwner
    <3> QED
      BY <2>4, <2>8, <3>1 DEF Behind
  <2>9. \A w \in worlds' : Replays(w) /\ JournalBefore(w, nextId')
    BY <1>0, <2>2, <2>3, <2>7
  <2>10. ASSUME NEW o \in Proc
         PROVE  /\ pc'[o] \notin {"loader", "closing"}
                /\ pc'[o] = "committing" =>
                     /\ cur'[o].id < nextId'
                     /\ MayWrite(o, cur'[o].batch.adds) /\ MayWrite(o, cur'[o].batch.removes)
                     /\ Behind(db', o, cur'[o].id)
    BY <2>2, <2>6, <2>8 DEF JournalInv
  <2> QED
    BY <2>9, <2>10 DEF JournalInv, MayWrite
<1>3. CASE OpenWriter(p) \/ CloseWriter(p) \/ SyncCommit(p)
  <2>1. db' = db /\ worlds' \subseteq worlds /\ nextId' = nextId
    BY <1>0, <1>3 DEF OpenWriter, CloseWriter, SyncCommit, WriteSync
  <2>2. /\ pc'[p] \in {"idle", "writer"}
        /\ \A o \in Proc : o # p => cur'[o] = cur[o] /\ pc'[o] = pc[o]
    BY <1>0, <1>3 DEF OpenWriter, CloseWriter, SyncCommit, Goto, TypeOK
  <2> QED
    BY <2>1, <2>2 DEF JournalInv, Replays, JournalBefore, MayWrite, Behind
<1> QED
  BY <1>1, <1>2, <1>3 DEF Writer

LEMMA ImporterKeepsJournal ==
  ASSUME TypeInv, JournalInv, AllJournalled, NEW p \in Proc, Importer(p)
  PROVE  JournalInv'
<1>0. TypeOK /\ db \in worlds /\ db \in Contents /\ Replays(db) /\ JournalBefore(db, nextId)
  BY DEF TypeInv, TypeOK, JournalInv
<1>1. \A g \in IngestChoice : ~IngestTables(p, g)
  BY DEF IngestTables, AllJournalled, Refused
<1>2. /\ pc'[p] \in {"idle", "rebuilding"} /\ nextId' = nextId
      /\ \A o \in Proc : o # p => cur'[o] = cur[o] /\ pc'[o] = pc[o]
  BY <1>0, <1>1 DEF Importer, IngestCounters, RebuildScan, RebuildReplace, Goto, TypeOK
<1>3. /\ db'.ops = db.ops
      /\ \A w \in worlds' : Replays(w) /\ JournalBefore(w, nextId')
  <2>1. CASE IngestCounters(p)
    <3>1. CASE UNCHANGED <<db, worlds>>
      BY <1>2, <3>1 DEF JournalInv
    <3>2. CASE WriteSync(CountedIn(db, tally[p]))
      BY <1>0, <1>2, <3>2, CountingReplays DEF WriteSync, JournalBefore
    <3> QED
      BY <2>1, <3>1, <3>2 DEF IngestCounters
  <2>2. CASE RebuildReplace(p)
    BY <1>0, <1>2, <2>2, CountingReplays DEF RebuildReplace, WriteSync, JournalBefore
  <2>3. CASE RebuildScan(p)
    BY <1>2, <2>3 DEF RebuildScan, JournalInv
  <2> QED
    BY <1>1, <2>1, <2>2, <2>3 DEF Importer
<1>4. ASSUME NEW o \in Proc
      PROVE  /\ pc'[o] \notin {"loader", "closing"}
             /\ pc'[o] = "committing" =>
                  /\ cur'[o].id < nextId'
                  /\ MayWrite(o, cur'[o].batch.adds) /\ MayWrite(o, cur'[o].batch.removes)
                  /\ Behind(db', o, cur'[o].id)
  BY <1>2, <1>3 DEF JournalInv, Behind
<1> QED
  BY <1>3, <1>4 DEF JournalInv, MayWrite

\* If every write is an audited commit and no two goroutines write the same
\* statement, replaying commit_ops in commit-id order gives exactly the stored
\* quads, in every state a crash can leave: ids are drawn before the commit is
\* applied, so that commits may be applied out of their order, but never those
\* that touch the same statement.
THEOREM JournalAlwaysReplays ==
  ASSUME OneOwner, AllJournalled
  PROVE  Spec => []JournalReplays
<1>1. Init => JournalInv
  <2> SUFFICES ASSUME Init PROVE JournalInv
    OBVIOUS
  <2>1. EmptyContents.ops = {} /\ Held(EmptyContents, "SPO") = {}
    BY DEF EmptyContents, Held
  <2>2. Replays(EmptyContents) /\ JournalBefore(EmptyContents, 1)
    BY <2>1 DEF Replays, Replayed, JournalBefore
  <2> QED
    BY <2>2 DEF Init, JournalInv
<1>2. TypeInv /\ JournalInv /\ [Next]_vars => JournalInv'
  <2> SUFFICES ASSUME TypeInv, JournalInv, [Next]_vars
               PROVE  JournalInv'
    OBVIOUS
  <2>1. ASSUME NEW p \in Proc, Loader(p)
        PROVE  JournalInv'
    BY <2>1 DEF Loader, OpenLoader, LoaderAdd, LoaderFlush, LoaderClose, LoaderHarden, Goto,
                JournalInv, AllJournalled
  <2>2. CASE Crash \/ Reopen
    <3>1. worlds' \subseteq worlds /\ nextId' = nextId
      BY <2>2 DEF Crash, Reopen, WriteSync, TypeInv, TypeOK
    <3>2. \A p \in Proc : pc'[p] = "idle"
      BY <2>2 DEF Crash, Reopen, NoHandles
    <3> QED
      BY <3>1, <3>2 DEF JournalInv, Replays, JournalBefore
  <2>3. CASE UNCHANGED vars
    BY <2>3 DEF vars, JournalInv, Replays, JournalBefore, MayWrite, Behind
  <2> QED
    BY <2>1, <2>2, <2>3, WriterKeepsJournal, ImporterKeepsJournal DEF Next
<1>3. JournalInv => JournalReplays
  BY DEF JournalInv, Replays, JournalReplays
<1> QED
  BY <1>1, <1>2, <1>3, TypeInvariant, PTL DEF Spec

----------------------------------------------------------------------------
(***************************************************************************)
(* The label counters.  Counter plus outstanding ingests stay the number   *)
(* of stored quads of each label because what a goroutine is about to      *)
(* write stays new, and what it is about to remove stays there, until it   *)
(* writes: nobody else touches its statements, and nothing is written      *)
(* between the scan of a rebuild and the replacement of the counters.      *)
(***************************************************************************)
OfLabel(qs, l) == {q \in qs : q.label = l}

\* A batch with a label names the quads it removes by a label of their own:
\* an unlabelled quad is removed as it is, but charged to the batch's label.
RemovesByOwnLabel(b) ==
  b.label = NoLabel \/ \A i \in DOMAIN b.removes : b.removes[i].label # NoLabel

\* The usage the counters are meant for.
CountedUsage ==
  /\ Careful /\ PauseForRebuild /\ OneOwner
  /\ \A b \in BatchChoice : RemovesByOwnLabel(b)

Exact(kv) == Plus(kv.count, kv.uncounted) = LabelScan(kv)

Stored(kv) == Held(kv, "LSP")

\* Adds that are new to the stored quads, and removes that name what is there.
Fresh(held, qs, default) == Distinct(qs, default) /\ EffectiveSet(qs, default) \cap held = {}

RemovesStored(held, b) ==
  /\ \A i, j \in DOMAIN b.removes : b.removes[i] = b.removes[j] => i = j
  /\ {b.removes[i] : i \in DOMAIN b.removes} \subseteq held \cup EffectiveSet(b.adds, b.label)

\* A goroutine's commit as it may be applied to the stored quads.
Applicable(p, b, held) ==
  /\ MayWrite(p, b.adds) /\ MayWrite(p, b.removes)
  /\ Fresh(held, b.adds, b.label) /\ RemovesStored(held, b)

\* A goroutine's loader as it may be flushed.
Flushable(p, loader, held) ==
  /\ loader.buf \cap held = {}
  /\ \A q \in loader.buf : p \in Owner[q.stmt]
  /\ \A l \in AnyLabel : loader.deltas[l] = Cardinality(OfLabel(loader.buf, l))

CountInv ==
  /\ \A w \in worlds : Exact(w)
  /\ \A p \in Proc :
       /\ pc[p] = "committing" => Applicable(p, cur[p].batch, Stored(db))
       /\ pc[p] = "loader" => Flushable(p, ld[p], Stored(db))
       /\ pc[p] = "rebuilding" =>
            /\ tally[p] = LabelScan(db)
            /\ \A o \in Proc : o # p => pc[o] \in {"idle", "writer", "loader"}

(* Counting quads. *)

LEMMA QuadsFinite ==
  ASSUME NEW qs \in SUBSET Quad, NEW l
  PROVE  IsFiniteSet(OfLabel(qs, l)) /\ Cardinality(OfLabel(qs, l)) \in Nat
<1>1. OfLabel(qs, l) \subseteq Quad
  BY DEF OfLabel
<1>2. IsFiniteSet(OfLabel(qs, l))
  BY <1>1, ConstantsAssumption, FS_Subset
<1> QED
  BY <1>2, FS_CardinalityType

\* New elements come in, some that are there are taken out.
LEMMA CardinalityAfter ==
  ASSUME NEW A, NEW B, NEW C, IsFiniteSet(A), IsFiniteSet(B), A \cap B = {}, C \subseteq A \cup B
  PROVE  Cardinality((A \cup B) \ C) = Cardinality(A) + Cardinality(B) - Cardinality(C)
<1> DEFINE U == A \cup B
           D == U \ C
<1>1. IsFiniteSet(U) /\ Cardinality(U) = Cardinality(A) + Cardinality(B) - Cardinality(A \cap B)
  BY FS_Union
<1>2. Cardinality(A \cap B) = 0
  BY FS_EmptySet
<1>3. IsFiniteSet(D) /\ IsFiniteSet(C)
  BY <1>1, FS_Subset
<1>4. D \cup C = U /\ D \cap C = {}
  OBVIOUS
<1> HIDE DEF U, D
<1>5. Cardinality(U) = Cardinality(D) + Cardinality(C) - Cardinality(D \cap C)
  BY <1>3, <1>4, FS_Union
<1>6. Cardinality(D \cap C) = 0
  BY <1>4, FS_EmptySet
<1>7. /\ Cardinality(A) \in Nat /\ Cardinality(B) \in Nat /\ Cardinality(C) \in Nat
      /\ Cardinality(D) \in Nat /\ Cardinality(U) \in Nat
  BY <1>1, <1>3, FS_CardinalityType
<1>8. Cardinality(D) = Cardinality(A) + Cardinality(B) - Cardinality(C)
  BY <1>1, <1>2, <1>5, <1>6, <1>7
<1> QED
  BY <1>8 DEF D, U

\* Without duplicates, a tally counts the quads that are stored.
LEMMA TallyCounts ==
  ASSUME NEW qs \in Seq(Quad), NEW default \in AnyLabel, Distinct(qs, default), NEW l \in AnyLabel
  PROVE  LabelTally(qs, default)[l] = Cardinality(OfLabel(EffectiveSet(qs, default), l))
<1> DEFINE At == {i \in DOMAIN qs : Effective(qs[i], default).label = l}
           E == OfLabel(EffectiveSet(qs, default), l)
           f == [i \in At |-> Effective(qs[i], default)]
<1>1. IsFiniteSet(At)
  <2>1. IsFiniteSet(1..Len(qs)) /\ DOMAIN qs = 1..Len(qs)
    BY FS_Interval
  <2> QED
    BY <2>1, FS_Subset
<1>2. f \in Bijection(At, E)
  <2>1. \A i \in At : f[i] \in E
    BY DEF OfLabel, EffectiveSet
  <2>2. \A i, j \in At : f[i] = f[j] => i = j
    BY DEF Distinct
  <2>3. \A q \in E : \E i \in At : f[i] = q
    BY DEF OfLabel, EffectiveSet
  <2>4. DOMAIN f = At /\ f \in [At -> E]
    BY <2>1
  <2> HIDE DEF f, At, E
  <2> QED
    BY <2>2, <2>3, <2>4 DEF Bijection, Injection, Surjection, IsInjective
<1>3. Cardinality(E) = Cardinality(At)
  <2>1. ExistsBijection(At, E)
    BY <1>2 DEF ExistsBijection
  <2> HIDE DEF At, E
  <2> QED
    BY <1>1, <2>1, FS_Bijection
<1> QED
  BY <1>3 DEF LabelTally

\* Removes that carry their own label are tallied by it.
LEMMA RemovesCount ==
  ASSUME NEW b \in Batch, RemovesByOwnLabel(b), NEW held, RemovesStored(held, b), NEW l \in AnyLabel
  PROVE  LabelTally(b.removes, b.label)[l]
           = Cardinality(OfLabel({b.removes[i] : i \in DOMAIN b.removes}, l))
<1>1. b.removes \in Seq(Quad) /\ b.label \in AnyLabel
  BY DEF Batch
<1>2. ASSUME NEW i \in DOMAIN b.removes
      PROVE  Effective(b.removes[i], b.label) = b.removes[i]
  <2>1. b.removes[i] \in Quad
    BY <1>1
  <2> DEFINE q == b.removes[i]
  <2>2. CASE b.label = NoLabel /\ q.label = NoLabel
    <3>1. [q EXCEPT !.label = NoLabel] = q
      BY <2>1, <2>2 DEF Quad
    <3> QED
      BY <2>2, <3>1 DEF Effective
  <2>3. CASE q.label # NoLabel
    BY <2>3 DEF Effective
  <2> QED
    BY <2>2, <2>3 DEF RemovesByOwnLabel
<1>3. EffectiveSet(b.removes, b.label) = {b.removes[i] : i \in DOMAIN b.removes}
  BY <1>2 DEF EffectiveSet
<1>4. Distinct(b.removes, b.label)
  BY <1>2 DEF Distinct, RemovesStored
<1>5. LabelTally(b.removes, b.label)[l] = Cardinality(OfLabel(EffectiveSet(b.removes, b.label), l))
  BY <1>1, <1>4, TallyCounts
<1> QED
  BY <1>3, <1>5, Zenon

\* Exactness, label by label.
LEMMA ExactByLabel ==
  ASSUME NEW kv
  PROVE  Exact(kv) <=>
           \A l \in AnyLabel : kv.count[l] + kv.uncounted[l] = Cardinality(OfLabel(Stored(kv), l))
BY DEF Exact, Plus, LabelScan, OfLabel, Stored

(* What each write does to the exactness of the counters. *)

LEMMA CommitCounts ==
  ASSUME NEW kv \in Contents, Exact(kv), NEW id \in Id, NEW b \in Batch, RemovesByOwnLabel(b),
         Fresh(Stored(kv), b.adds, b.label), RemovesStored(Stored(kv), b)
  PROVE  Exact(CommittedTo(kv, id, b))
<1> DEFINE new == CommittedTo(kv, id, b)
           H == Stored(kv)
           E == EffectiveSet(b.adds, b.label)
           R == {b.removes[i] : i \in DOMAIN b.removes}
<1>1. b.adds \in Seq(Quad) /\ b.removes \in Seq(Quad) /\ b.label \in AnyLabel
  BY DEF Batch
<1>2. Stored(new) = (H \cup E) \ R
  BY HeldAfterCommit DEF Stored, Keyspace
<1>3. H \in SUBSET Quad /\ E \in SUBSET Quad /\ E \cap H = {} /\ R \subseteq H \cup E
  BY <1>1, EffectiveSetType DEF Stored, Held, Fresh, RemovesStored
<1>4. new.count = Plus(kv.count, LabelDeltas(b)) /\ new.uncounted = kv.uncounted
  BY DEF CommittedTo, Contents
<1>5. kv.count \in [AnyLabel -> Int] /\ kv.uncounted \in [AnyLabel -> Int]
  BY DEF Contents
<1>6. \A l \in AnyLabel : /\ LabelTally(b.adds, b.label)[l] = Cardinality(OfLabel(E, l))
                          /\ LabelTally(b.removes, b.label)[l] = Cardinality(OfLabel(R, l))
  BY <1>1, TallyCounts, RemovesCount DEF Fresh
<1>7. \A l \in AnyLabel : LabelDeltas(b)[l] = Cardinality(OfLabel(E, l)) - Cardinality(OfLabel(R, l))
  BY <1>6 DEF LabelDeltas, Minus
<1> HIDE DEF new, H, E, R
<1>8. ASSUME NEW l \in AnyLabel
      PROVE  new.count[l] + new.uncounted[l] = Cardinality(OfLabel(Stored(new), l))
  <2> DEFINE h == Cardinality(OfLabel(H, l))
             e == Cardinality(OfLabel(E, l))
             r == Cardinality(OfLabel(R, l))
  <2>1. IsFiniteSet(OfLabel(H, l)) /\ IsFiniteSet(OfLabel(E, l)) /\ h \in Nat /\ e \in Nat
    BY <1>3, QuadsFinite
  <2>2. R \in SUBSET Quad
    BY <1>3
  <2>3. r \in Nat
    BY <2>2, QuadsFinite
  <2>4. /\ OfLabel(H, l) \cap OfLabel(E, l) = {}
        /\ OfLabel(R, l) \subseteq OfLabel(H, l) \cup OfLabel(E, l)
        /\ OfLabel(Stored(new), l) = (OfLabel(H, l) \cup OfLabel(E, l)) \ OfLabel(R, l)
    BY <1>2, <1>3 DEF OfLabel
  <2>5. Cardinality(OfLabel(Stored(new), l)) = h + e - r
    BY <2>1, <2>4, CardinalityAfter
  <2>6. kv.count[l] + kv.uncounted[l] = h
    BY ExactByLabel DEF H
  <2>7. new.count[l] = kv.count[l] + (e - r) /\ new.uncounted[l] = kv.uncounted[l]
    BY <1>4, <1>7 DEF Plus
  <2>8. kv.count[l] \in Int /\ kv.uncounted[l] \in Int
    BY <1>5
  <2> HIDE DEF h, e, r
  <2> QED
    BY <2>1, <2>3, <2>5, <2>6, <2>7, <2>8
<1>9. Exact(new)
  BY <1>8, ExactByLabel
<1> QED
  BY <1>9 DEF new

\* A flush counts what it adds; an ingest leaves it to be counted.
LEMMA LoadCounts ==
  ASSUME NEW kv \in Contents, Exact(kv), NEW new, NEW E \in SUBSET Quad, E \cap Stored(kv) = {},
         Stored(new) = Stored(kv) \cup E,
         \A l \in AnyLabel : new.count[l] + new.uncounted[l]
                               = (kv.count[l] + kv.uncounted[l]) + Cardinality(OfLabel(E, l))
  PROVE  Exact(new)
<1> DEFINE H == Stored(kv)
<1>1. H \in SUBSET Quad
  BY DEF Stored, Held
<1> HIDE DEF H
<1>2. ASSUME NEW l \in AnyLabel
      PROVE  new.count[l] + new.uncounted[l] = Cardinality(OfLabel(Stored(new), l))
  <2>1. IsFiniteSet(OfLabel(H, l)) /\ IsFiniteSet(OfLabel(E, l))
    BY <1>1, QuadsFinite
  <2>2. Cardinality(OfLabel(H, l)) \in Nat /\ Cardinality(OfLabel(E, l)) \in Nat
    BY <1>1, QuadsFinite
  <2>3. /\ OfLabel(H, l) \cap OfLabel(E, l) = {}
        /\ OfLabel(Stored(new), l) = OfLabel(H, l) \cup OfLabel(E, l)
    BY DEF OfLabel, H
  <2> DEFINE none == {}
  <2>4. none \subseteq OfLabel(H, l) \cup OfLabel(E, l)
    OBVIOUS
  <2>5. Cardinality(none) = 0
    BY FS_EmptySet
  <2>7. OfLabel(Stored(new), l) = (OfLabel(H, l) \cup OfLabel(E, l)) \ none
    BY <2>3
  <2> HIDE DEF none
  <2>8. Cardinality(OfLabel(Stored(new), l))
          = Cardinality(OfLabel(H, l)) + Cardinality(OfLabel(E, l)) - Cardinality(none)
    <3>1. Cardinality((OfLabel(H, l) \cup OfLabel(E, l)) \ none)
            = Cardinality(OfLabel(H, l)) + Cardinality(OfLabel(E, l)) - Cardinality(none)
      BY <2>1, <2>3, <2>4, CardinalityAfter
    <3> QED
      BY <2>7, <3>1
  <2>6. kv.count[l] + kv.uncounted[l] = Cardinality(OfLabel(H, l))
    BY ExactByLabel DEF H
  <2> QED
    BY <2>2, <2>5, <2>6, <2>8
<1> QED
  BY <1>2, ExactByLabel

LEMMA FlushCounts ==
  ASSUME NEW kv \in Contents, Exact(kv), NEW id \in Id, NEW loader \in LoaderState,
         NEW p, Flushable(p, loader, Stored(kv))
  PROVE  Exact(FlushedTo(kv, id, loader))
<1> DEFINE new == FlushedTo(kv, id, loader)
<1>1. loader.buf \in SUBSET Quad /\ loader.buf \cap Stored(kv) = {}
  BY DEF LoaderState, Flushable
<1>2. Stored(new) = Stored(kv) \cup loader.buf
  BY HeldAfterFlush DEF Stored, Keyspace
<1>3. new.count = Plus(kv.count, loader.deltas) /\ new.uncounted = kv.uncounted
  BY DEF FlushedTo, Contents
<1> HIDE DEF new
<1>4. ASSUME NEW l \in AnyLabel
      PROVE  new.count[l] + new.uncounted[l]
               = (kv.count[l] + kv.uncounted[l]) + Cardinality(OfLabel(loader.buf, l))
  <2>1. loader.deltas[l] = Cardinality(OfLabel(loader.buf, l)) /\ loader.deltas[l] \in Int
    BY DEF Flushable, LoaderState
  <2>2. kv.count[l] \in Int /\ kv.uncounted[l] \in Int
    BY DEF Contents
  <2>3. new.count[l] = kv.count[l] + loader.deltas[l] /\ new.uncounted[l] = kv.uncounted[l]
    BY <1>3 DEF Plus
  <2> QED
    BY <2>1, <2>2, <2>3
<1>5. Exact(new)
  BY <1>1, <1>2, <1>4, LoadCounts
<1> QED
  BY <1>5 DEF new

LEMMA IngestCounts ==
  ASSUME NEW kv \in Contents, Exact(kv), NEW id \in Id, NEW g \in Load,
         Fresh(Stored(kv), g.quads, g.label)
  PROVE  Exact(IngestedTo(kv, id, g))
<1> DEFINE new == IngestedTo(kv, id, g)
           E == EffectiveSet(g.quads, g.label)
           t == LabelTally(g.quads, g.label)
<1>1. g.quads \in Seq(Quad) /\ g.label \in AnyLabel
  BY DEF Load
<1>2. E \in SUBSET Quad /\ E \cap Stored(kv) = {}
  BY <1>1, EffectiveSetType DEF Fresh
<1>3. Stored(new) = Stored(kv) \cup E
  BY HeldAfterIngest DEF Stored, Keyspace
<1>4. new.count = kv.count /\ new.uncounted = Plus(kv.uncounted, t)
  BY DEF IngestedTo, Contents
<1>5. t \in [AnyLabel -> Nat] /\ \A l \in AnyLabel : t[l] = Cardinality(OfLabel(E, l))
  BY <1>1, LabelTallyType, TallyCounts DEF Fresh
<1> HIDE DEF new, E, t
<1>6. ASSUME NEW l \in AnyLabel
      PROVE  new.count[l] + new.uncounted[l]
               = (kv.count[l] + kv.uncounted[l]) + Cardinality(OfLabel(E, l))
  <2>1. t[l] = Cardinality(OfLabel(E, l)) /\ t[l] \in Nat
    BY <1>5
  <2>2. kv.count[l] \in Int /\ kv.uncounted[l] \in Int
    BY DEF Contents
  <2>3. new.count[l] = kv.count[l] /\ new.uncounted[l] = kv.uncounted[l] + t[l]
    BY <1>4 DEF Plus
  <2> QED
    BY <2>1, <2>2, <2>3
<1>7. Exact(new)
  BY <1>2, <1>3, <1>6, LoadCounts
<1> QED
  BY <1>7 DEF new

\* The second step of an ingest moves numbers; a rebuild sets them.
LEMMA CountingCounts ==
  ASSUME NEW kv \in Contents, NEW f \in [AnyLabel -> Int]
  PROVE  /\ Stored(CountedIn(kv, f)) = Stored(kv) /\ Stored(RecountedTo(kv, f)) = Stored(kv)
         /\ Exact(kv) => Exact(CountedIn(kv, f))
         /\ f = LabelScan(kv) => Exact(RecountedTo(kv, f))
<1>1. /\ Stored(CountedIn(kv, f)) = Stored(kv)
      /\ Stored(RecountedTo(kv, f)) = Stored(kv)
  BY HeldAfterCounting DEF Stored
<1>2. ASSUME Exact(kv) PROVE Exact(CountedIn(kv, f))
  <2> DEFINE new == CountedIn(kv, f)
  <2>1. new.count = Plus(kv.count, f) /\ new.uncounted = Minus(kv.uncounted, f)
    BY DEF CountedIn, Contents
  <2>2. Stored(new) = Stored(kv)
    BY <1>1
  <2> HIDE DEF new
  <2>3. ASSUME NEW l \in AnyLabel
        PROVE  new.count[l] + new.uncounted[l] = Cardinality(OfLabel(Stored(new), l))
    <3>1. kv.count[l] \in Int /\ kv.uncounted[l] \in Int /\ f[l] \in Int
      BY DEF Contents
    <3>2. new.count[l] = kv.count[l] + f[l] /\ new.uncounted[l] = kv.uncounted[l] - f[l]
      BY <2>1 DEF Plus, Minus
    <3>3. kv.count[l] + kv.uncounted[l] = Cardinality(OfLabel(Stored(new), l))
      BY <1>2, <2>2, ExactByLabel
    <3>4. new.count[l] + new.uncounted[l] = kv.count[l] + kv.uncounted[l]
      BY <3>1, <3>2
    <3> QED
      BY <3>3, <3>4
  <2>4. Exact(new)
    BY <2>3, ExactByLabel
  <2> QED
    BY <2>4 DEF new
<1>3. ASSUME f = LabelScan(kv) PROVE Exact(RecountedTo(kv, f))
  <2> DEFINE new == RecountedTo(kv, f)
  <2>1. new.count = f /\ new.uncounted = Zero
    BY DEF RecountedTo, Contents
  <2>2. Stored(new) = Stored(kv)
    BY <1>1
  <2> HIDE DEF new
  <2>3. ASSUME NEW l \in AnyLabel
        PROVE  new.count[l] + new.uncounted[l] = Cardinality(OfLabel(Stored(new), l))
    <3>1. new.count[l] = f[l] /\ new.uncounted[l] = 0 /\ f[l] \in Int
      BY <2>1 DEF Zero
    <3>2. f[l] = Cardinality(OfLabel(Stored(new), l))
      BY <1>3, <2>2 DEF LabelScan, OfLabel, Stored
    <3> QED
      BY <3>1, <3>2
  <2>4. Exact(new)
    BY <2>3, ExactByLabel
  <2> QED
    BY <2>4 DEF new
<1> QED
  BY <1>1, <1>2, <1>3

(* Steps. *)

\* Only quads of this goroutine's statements come or go.
OnlyOwn(p, held, after) == \A q \in Quad : p \notin Owner[q.stmt] => (q \in held <=> q \in after)

LEMMA OwnAdds ==
  ASSUME NEW p, NEW qs \in Seq(Quad), NEW default \in AnyLabel, MayWrite(p, qs)
  PROVE  \A q \in EffectiveSet(qs, default) : q \in Quad /\ p \in Owner[q.stmt]
<1>1. ASSUME NEW i \in DOMAIN qs
      PROVE  /\ Effective(qs[i], default) \in Quad
             /\ p \in Owner[Effective(qs[i], default).stmt]
  <2>1. qs[i] \in Quad /\ p \in Owner[qs[i].stmt]
    BY DEF MayWrite
  <2>2. Effective(qs[i], default).stmt = qs[i].stmt
    BY <2>1 DEF Effective, Quad
  <2> QED
    BY <2>1, <2>2, EffectiveType
<1> QED
  BY <1>1 DEF EffectiveSet

\* What the others are about to write stays new, what they are about to
\* remove stays there.
LEMMA OthersStay ==
  ASSUME OneOwner, NEW p, NEW o, o # p, NEW held, NEW after, OnlyOwn(p, held, after)
  PROVE  /\ \A b \in Batch : Applicable(o, b, held) => Applicable(o, b, after)
         /\ \A loader \in LoaderState : Flushable(o, loader, held) => Flushable(o, loader, after)
<1>1. ASSUME NEW q \in Quad, o \in Owner[q.stmt] PROVE q \in held <=> q \in after
  <2>1. q.stmt \in Stmt \cup {EmptyStmt}
    BY DEF Quad
  <2>2. p \notin Owner[q.stmt]
    BY <1>1, <2>1 DEF OneOwner
  <2> QED
    BY <2>2 DEF OnlyOwn
<1>2. ASSUME NEW b \in Batch, Applicable(o, b, held) PROVE Applicable(o, b, after)
  <2> DEFINE E == EffectiveSet(b.adds, b.label)
             R == {b.removes[i] : i \in DOMAIN b.removes}
  <2>1. b.adds \in Seq(Quad) /\ b.removes \in Seq(Quad) /\ b.label \in AnyLabel
    BY DEF Batch
  <2>2. \A q \in E : q \in Quad /\ o \in Owner[q.stmt]
    BY <1>2, <2>1, OwnAdds DEF Applicable
  <2>3. \A q \in R : q \in Quad /\ o \in Owner[q.stmt]
    BY <1>2, <2>1 DEF Applicable, MayWrite
  <2>4. E \cap held = {} /\ R \subseteq held \cup E
    BY <1>2 DEF Applicable, Fresh, RemovesStored
  <2>5. E \cap after = {} /\ R \subseteq after \cup E
    BY <1>1, <2>2, <2>3, <2>4
  <2> QED
    BY <1>2, <2>5 DEF Applicable, Fresh, RemovesStored
<1>3. ASSUME NEW loader \in LoaderState, Flushable(o, loader, held) PROVE Flushable(o, loader, after)
  <2>1. loader.buf \subseteq Quad
    BY DEF LoaderState
  <2> QED
    BY <1>1, <1>3, <2>1 DEF Flushable
<1> QED
  BY <1>2, <1>3

LEMMA EmptyFlushable ==
  ASSUME NEW p, NEW held, NEW l
  PROVE  /\ Flushable(p, NoLoader, held)
         /\ Flushable(p, [NoLoader EXCEPT !.label = l], held)
<1>1. Cardinality({}) = 0 /\ \A m : OfLabel({}, m) = {}
  BY FS_EmptySet DEF OfLabel
<1> QED
  BY <1>1 DEF Flushable, NoLoader, Zero

\* A step of one goroutine keeps the invariant if it keeps the goroutine's
\* own part of it, writes exact contents, touches only its statements, and
\* touches nothing while another rebuilds.
LEMMA CountStep ==
  ASSUME TypeInv, CountInv, OneOwner, NEW p \in Proc,
         \A w \in worlds' : Exact(w),
         OnlyOwn(p, Stored(db), Stored(db')),
         \A o \in Proc : o # p => /\ pc'[o] = pc[o] /\ cur'[o] = cur[o]
                                  /\ ld'[o] = ld[o] /\ tally'[o] = tally[o],
         pc'[p] = "committing" => Applicable(p, cur'[p].batch, Stored(db')),
         pc'[p] = "loader" => Flushable(p, ld'[p], Stored(db')),
         pc'[p] = "rebuilding" =>
           /\ tally'[p] = LabelScan(db')
           /\ \A o \in Proc : o # p => pc[o] \in {"idle", "writer", "loader"},
         \A o \in Proc : o # p /\ pc[o] = "rebuilding" =>
           LabelScan(db') = LabelScan(db) /\ pc'[p] \in {"idle", "writer", "loader"}
  PROVE  CountInv'
<1>1. ASSUME NEW o \in Proc
      PROVE  /\ pc'[o] = "committing" => Applicable(o, cur'[o].batch, Stored(db'))
             /\ pc'[o] = "loader" => Flushable(o, ld'[o], Stored(db'))
             /\ pc'[o] = "rebuilding" =>
                  /\ tally'[o] = LabelScan(db')
                  /\ \A r \in Proc : r # o => pc'[r] \in {"idle", "writer", "loader"}
  <2>1. CASE o = p
    BY <2>1
  <2>2. CASE o # p
    <3>1. /\ pc'[o] = pc[o] /\ cur'[o] = cur[o] /\ ld'[o] = ld[o] /\ tally'[o] = tally[o]
          /\ ld[o] \in LoaderState
      BY <2>2 DEF TypeInv, TypeOK
    <3>2. ASSUME pc[o] = "committing" PROVE Applicable(o, cur[o].batch, Stored(db'))
      <4>1. Applicable(o, cur[o].batch, Stored(db)) /\ cur[o].batch \in Batch
        BY <3>2, ConstantsAssumption DEF CountInv, TypeInv, Midway
      <4> QED
        BY <2>2, <4>1, OthersStay
    <3>3. ASSUME pc[o] = "loader" PROVE Flushable(o, ld[o], Stored(db'))
      <4>1. Flushable(o, ld[o], Stored(db))
        BY <3>3 DEF CountInv
      <4> QED
        BY <2>2, <3>1, <4>1, OthersStay
    <3>4. ASSUME pc[o] = "rebuilding"
          PROVE  /\ tally[o] = LabelScan(db')
                 /\ \A r \in Proc : r # o => pc'[r] \in {"idle", "writer", "loader"}
      <4>1. tally[o] = LabelScan(db) /\ \A r \in Proc : r # o => pc[r] \in {"idle", "writer", "loader"}
        BY <3>4 DEF CountInv
      <4>2. LabelScan(db') = LabelScan(db) /\ pc'[p] \in {"idle", "writer", "loader"}
        BY <2>2, <3>4
      <4>3. \A r \in Proc : r # o => pc'[r] \in {"idle", "writer", "loader"}
        BY <4>1, <4>2
      <4> QED
        BY <4>1, <4>2, <4>3
    <3> QED
      BY <3>1, <3>2, <3>3, <3>4
  <2> QED
    BY <2>1, <2>2
<1> QED
  BY <1>1 DEF CountInv

LEMMA SameStored ==
  ASSUME NEW p, NEW held
  PROVE  OnlyOwn(p, held, held)
BY DEF OnlyOwn

LEMMA WriterKeepsCounts ==
  ASSUME TypeInv, CountInv, CountedUsage, NEW p \in Proc, Writer(p)
  PROVE  CountInv'
<1>0. /\ TypeOK /\ db \in worlds /\ db \in Contents /\ OneOwner /\ Careful /\ PauseForRebuild
      /\ \A w \in worlds : Exact(w)
  BY DEF TypeInv, TypeOK, CountInv, CountedUsage
<1>1. /\ UNCHANGED <<ld, tally>>
      /\ \A o \in Proc : o # p => pc'[o] = pc[o] /\ cur'[o] = cur[o]
  BY <1>0 DEF Writer, OpenWriter, CloseWriter, BeginCommit, ApplyCommit, SyncCommit, Goto, TypeOK
<1>2. ASSUME NEW b \in BatchChoice, NEW sync \in BOOLEAN, BeginCommit(p, b, sync)
      PROVE  CountInv'
  <2>1. UNCHANGED <<db, worlds>> /\ cur'[p].batch = b /\ pc'[p] = "committing"
    BY <1>0, <1>2 DEF BeginCommit, Goto, TypeOK
  <2>2. Applicable(p, b, Stored(db))
    BY <1>0, <1>2 DEF BeginCommit, Applicable, Fresh, RemovesStored, FreshAdds, PresentRemoves, Stored
  <2>3. \A o \in Proc : pc[o] # "rebuilding"
    BY <1>0, <1>2 DEF BeginCommit, Unpaused, Rebuilding
  <2> QED
    BY <1>0, <1>1, <2>1, <2>2, <2>3, SameStored, CountStep
<1>3. CASE ApplyCommit(p)
  <2> DEFINE b == cur[p].batch
             id == cur[p].id
             new == CommittedTo(db, id, b)
             E == EffectiveSet(b.adds, b.label)
             R == {b.removes[i] : i \in DOMAIN b.removes}
  <2>1. /\ b \in Batch /\ RemovesByOwnLabel(b) /\ id \in Id /\ Applicable(p, b, Stored(db))
        /\ pc[p] = "committing"
    BY <1>0, <1>3, ConstantsAssumption
       DEF ApplyCommit, Goto, TypeInv, Midway, CountInv, CountedUsage
  <2>2. db' = new /\ worlds' = worlds \cup {new} /\ pc'[p] \in {"syncing", "writer"}
    BY <1>0, <1>3 DEF ApplyCommit, WriteNoSync, Goto, TypeOK
  <2>3. Exact(new)
    BY <1>0, <2>1, CommitCounts DEF Applicable
  <2>4. Stored(new) = (Stored(db) \cup E) \ R
    BY <1>0, <2>1, HeldAfterCommit DEF Stored, Keyspace
  <2>5. b.adds \in Seq(Quad) /\ b.removes \in Seq(Quad) /\ b.label \in AnyLabel
    BY <2>1 DEF Batch
  <2>6. \A q \in E \cup R : p \in Owner[q.stmt]
    BY <2>1, <2>5, OwnAdds DEF Applicable, MayWrite
  <2>7. E \cap Stored(db) = {}
    BY <2>1 DEF Applicable, Fresh
  <2> HIDE DEF b, id, new, E, R
  <2>8. OnlyOwn(p, Stored(db), Stored(new))
    BY <2>4, <2>6 DEF OnlyOwn
  <2>9. \A o \in Proc : o # p => pc[o] # "rebuilding"
    BY <2>1 DEF CountInv
  <2> QED
    BY <1>0, <1>1, <2>2, <2>3, <2>8, <2>9, CountStep
<1>4. CASE SyncCommit(p)
  <2>1. db' = db /\ worlds' = {db} /\ pc[p] = "syncing" /\ pc'[p] = "writer"
    BY <1>0, <1>4 DEF SyncCommit, WriteSync, Goto, TypeOK
  <2>2. \A o \in Proc : o # p => pc[o] # "rebuilding"
    BY <2>1 DEF CountInv
  <2> QED
    BY <1>0, <1>1, <2>1, <2>2, SameStored, CountStep
<1>5. CASE OpenWriter(p) \/ CloseWriter(p)
  <2>1. UNCHANGED <<db, worlds>> /\ pc'[p] \in {"idle", "writer"}
    BY <1>0, <1>5 DEF OpenWriter, CloseWriter, Goto, TypeOK
  <2> QED
    BY <1>0, <1>1, <2>1, SameStored, CountStep
<1> QED
  BY <1>2, <1>3, <1>4, <1>5 DEF Writer

\* A flush of a loader that may be flushed writes exact contents.
LEMMA FlushKeepsCounts ==
  ASSUME TypeInv, CountInv, NEW p \in Proc, NEW loader \in LoaderState,
         Flushable(p, loader, Stored(db)), Flush(p, loader)
  PROVE  /\ \A w \in worlds' : Exact(w)
         /\ OnlyOwn(p, Stored(db), Stored(db'))
         /\ Flushable(p, ld'[p], Stored(db'))
         /\ \A o \in Proc : o # p => ld'[o] = ld[o]
<1>0. /\ TypeOK /\ db \in worlds /\ db \in Contents /\ Exact(db)
      /\ \A w \in worlds : Exact(w)
  BY DEF TypeInv, TypeOK, CountInv
<1>1. CASE loader.rows = 0
  <2>1. UNCHANGED <<db, worlds>> /\ ld' = [ld EXCEPT ![p] = loader]
    BY <1>1 DEF Flush
  <2> QED
    BY <1>0, <2>1, SameStored DEF TypeOK
<1>2. CASE loader.rows # 0
  <2> DEFINE new == FlushedTo(db, nextId, loader)
             after == [loader EXCEPT !.buf = {}, !.rows = 0, !.deltas = Zero,
                                     !.wrote = @ \cup {nextId}]
  <2>1. /\ nextId \in Id /\ db' = new /\ worlds' = worlds \cup {new}
        /\ ld' = [ld EXCEPT ![p] = after]
    BY <1>2 DEF Flush, WriteNoSync
  <2>2. Exact(new)
    BY <1>0, <2>1, FlushCounts
  <2>3. Stored(new) = Stored(db) \cup loader.buf
    BY <1>0, <2>1, HeldAfterFlush DEF Stored, Keyspace
  <2>4. after.buf = {} /\ after.deltas = Zero
    BY DEF LoaderState
  <2> HIDE DEF new, after
  <2>5. OnlyOwn(p, Stored(db), Stored(new))
    BY <2>3 DEF OnlyOwn, Flushable
  <2>6. Flushable(p, after, Stored(new))
    <3>1. Cardinality({}) = 0 /\ \A m : OfLabel({}, m) = {}
      BY FS_EmptySet DEF OfLabel
    <3> QED
      BY <2>4, <3>1 DEF Flushable, Zero
  <2>7. ld'[p] = after /\ \A o \in Proc : o # p => ld'[o] = ld[o]
    BY <1>0, <2>1 DEF TypeOK
  <2> QED
    BY <1>0, <2>1, <2>2, <2>5, <2>6, <2>7
<1> QED
  BY <1>1, <1>2

\* A new quad of this goroutine goes into its buffer.
LEMMA BufferedFlushable ==
  ASSUME NEW p, NEW held, NEW loader \in LoaderState, NEW q \in Quad, Flushable(p, loader, held),
         p \in Owner[q.stmt],
         Effective(q, loader.label) \notin held \cup loader.buf
  PROVE  Flushable(p, Buffered(loader, q), held)
<1> DEFINE eff == Effective(q, loader.label)
           new == Buffered(loader, q)
<1>1. loader.label \in AnyLabel /\ loader.buf \in SUBSET Quad /\ loader.deltas \in [AnyLabel -> Int]
  BY DEF LoaderState, ValidLabel, AnyLabel
<1>2. eff \in Quad /\ eff.label \in AnyLabel /\ eff.stmt = q.stmt
  <2>1. eff.stmt = q.stmt
    BY DEF Effective, Quad
  <2> QED
    BY <1>1, <2>1, EffectiveType DEF Quad
<1>3. new.buf = loader.buf \cup {eff} /\ new.deltas = [loader.deltas EXCEPT ![eff.label] = @ + 1]
  BY DEF Buffered, OneMore, LoaderState
<1> HIDE DEF new, eff
<1>4. ASSUME NEW l \in AnyLabel
      PROVE  new.deltas[l] = Cardinality(OfLabel(new.buf, l))
  <2>1. /\ loader.deltas[l] = Cardinality(OfLabel(loader.buf, l))
        /\ IsFiniteSet(OfLabel(loader.buf, l))
    BY <1>1, QuadsFinite DEF Flushable
  <2>2. CASE l = eff.label
    <3>1. OfLabel(new.buf, l) = OfLabel(loader.buf, l) \cup {eff} /\ eff \notin OfLabel(loader.buf, l)
      BY <1>3, <2>2 DEF OfLabel, eff
    <3>2. Cardinality(OfLabel(new.buf, l)) = Cardinality(OfLabel(loader.buf, l)) + 1
      BY <2>1, <3>1, FS_AddElement
    <3> QED
      BY <1>1, <1>3, <2>1, <2>2, <3>2
  <2>3. CASE l # eff.label
    <3>1. OfLabel(new.buf, l) = OfLabel(loader.buf, l)
      BY <1>3, <2>3 DEF OfLabel
    <3> QED
      BY <1>1, <1>3, <2>1, <2>3, <3>1
  <2> QED
    BY <2>2, <2>3
<1>5. new.buf \cap held = {} /\ \A x \in new.buf : p \in Owner[x.stmt]
  BY <1>2, <1>3 DEF Flushable, eff
<1>6. Flushable(p, new, held)
  BY <1>4, <1>5 DEF Flushable
<1> QED
  BY <1>6 DEF new

LEMMA LoaderKeepsCounts ==
  ASSUME TypeInv, CountInv, CountedUsage, NEW p \in Proc, Loader(p)
  PROVE  CountInv'
<1>0. /\ TypeOK /\ db \in worlds /\ db \in Contents /\ OneOwner /\ Careful /\ PauseForRebuild
      /\ ld[p] \in LoaderState /\ \A w \in worlds : Exact(w)
  BY DEF TypeInv, TypeOK, CountInv, CountedUsage
<1>1. ASSUME NEW l \in ValidLabel, OpenLoader(p, l)
      PROVE  CountInv'
  <2> DEFINE new == [NoLoader EXCEPT !.label = l]
  <2>1. /\ UNCHANGED <<db, worlds, cur, tally>> /\ pc'[p] = "loader"
        /\ \A o \in Proc : o # p => pc'[o] = pc[o] /\ ld'[o] = ld[o]
        /\ ld'[p] = new
    BY <1>0, <1>1 DEF OpenLoader, Goto, TypeOK
  <2>2. Flushable(p, new, Stored(db))
    BY EmptyFlushable
  <2> HIDE DEF new
  <2> QED
    BY <1>0, <2>1, <2>2, SameStored, CountStep
<1>2. ASSUME NEW q \in Quad, LoaderAdd(p, q)
      PROVE  CountInv'
  <2> DEFINE loader == Buffered(ld[p], q)
  <2>1. /\ UNCHANGED <<pc, cur, tally>> /\ pc[p] = "loader" /\ p \in Owner[q.stmt]
        /\ \A o \in Proc : pc[o] # "rebuilding"
        /\ FreshAdds(<<q>>, ld[p].label) /\ Effective(q, ld[p].label) \notin ld[p].buf
    BY <1>0, <1>2 DEF LoaderAdd, Unpaused, Rebuilding
  <2>2. Effective(q, ld[p].label) \notin Stored(db)
    <3>1. Effective(q, ld[p].label) \in EffectiveSet(<<q>>, ld[p].label)
      BY DEF EffectiveSet
    <3> QED
      BY <2>1, <3>1 DEF FreshAdds, Stored
  <2>3. Flushable(p, ld[p], Stored(db))
    BY <2>1 DEF CountInv
  <2>4. loader \in LoaderState /\ Flushable(p, loader, Stored(db))
    BY <1>0, <2>1, <2>2, <2>3, BufferedType, BufferedFlushable
  <2>5. CASE loader.rows >= BatchSize
    <3>1. Flush(p, loader)
      BY <1>2, <2>5 DEF LoaderAdd
    <3> HIDE DEF loader
    <3>2. /\ \A w \in worlds' : Exact(w)
          /\ OnlyOwn(p, Stored(db), Stored(db'))
          /\ Flushable(p, ld'[p], Stored(db'))
          /\ \A o \in Proc : o # p => ld'[o] = ld[o]
      BY <2>4, <3>1, FlushKeepsCounts
    <3> QED
      BY <1>0, <2>1, <3>2, CountStep
  <2>6. CASE ~(loader.rows >= BatchSize)
    <3>1. ld' = [ld EXCEPT ![p] = loader] /\ UNCHANGED <<db, worlds>>
      BY <1>2, <2>6 DEF LoaderAdd
    <3> HIDE DEF loader
    <3>2. ld'[p] = loader /\ \A o \in Proc : o # p => ld'[o] = ld[o]
      BY <1>0, <3>1 DEF TypeOK
    <3> QED
      BY <1>0, <2>1, <2>4, <3>1, <3>2, SameStored, CountStep
  <2> QED
    BY <2>5, <2>6
<1>3. CASE LoaderFlush(p) \/ LoaderClose(p)
  <2>1. /\ Flush(p, ld[p]) /\ UNCHANGED <<cur, tally>> /\ pc[p] = "loader"
        /\ pc'[p] \in {"loader", "closing"}
        /\ \A o \in Proc : o # p => pc'[o] = pc[o]
        /\ \A o \in Proc : pc[o] # "rebuilding"
    BY <1>0, <1>3 DEF LoaderFlush, LoaderClose, Goto, Unpaused, Rebuilding, TypeOK
  <2>2. Flushable(p, ld[p], Stored(db))
    BY <2>1 DEF CountInv
  <2>3. /\ \A w \in worlds' : Exact(w)
        /\ OnlyOwn(p, Stored(db), Stored(db'))
        /\ Flushable(p, ld'[p], Stored(db'))
        /\ \A o \in Proc : o # p => ld'[o] = ld[o]
    BY <1>0, <2>1, <2>2, FlushKeepsCounts
  <2> QED
    BY <1>0, <2>1, <2>3, CountStep
<1>4. CASE LoaderHarden(p)
  <2>1. /\ db' = db /\ worlds' = {db} /\ UNCHANGED <<cur, tally>>
        /\ pc[p] = "closing" /\ pc'[p] = "idle"
        /\ \A o \in Proc : o # p => pc'[o] = pc[o] /\ ld'[o] = ld[o]
    BY <1>0, <1>4 DEF LoaderHarden, WriteSync, Goto, TypeOK
  <2> QED
    BY <1>0, <2>1, SameStored, CountStep
<1> QED
  BY <1>1, <1>2, <1>3, <1>4 DEF Loader

LEMMA ImporterKeepsCounts ==
  ASSUME TypeInv, CountInv, CountedUsage, NEW p \in Proc, Importer(p)
  PROVE  CountInv'
<1>0. /\ TypeOK /\ db \in worlds /\ db \in Contents /\ worlds \subseteq Contents
      /\ OneOwner /\ Careful /\ PauseForRebuild
      /\ tally[p] \in [AnyLabel -> Int] /\ \A w \in worlds : Exact(w)
  BY DEF TypeInv, TypeOK, CountInv, CountedUsage
<1>1. ASSUME NEW g \in IngestChoice, IngestTables(p, g)
      PROVE  CountInv'
  <2> DEFINE E == EffectiveSet(g.quads, g.label)
             After(w) == IngestedTo(w, nextId, g)
  <2>1. /\ g \in Load /\ nextId \in Id /\ MayWrite(p, g.quads)
        /\ Fresh(Stored(db), g.quads, g.label)
        /\ \A o \in Proc : pc[o] # "rebuilding"
        /\ db' = After(db) /\ worlds' = {After(w) : w \in Kept(E)}
    BY <1>0, <1>1, ConstantsAssumption
       DEF IngestTables, FreshAdds, Fresh, Stored, Unpaused, Rebuilding
  <2>2. /\ pc'[p] = "counting" /\ UNCHANGED ld
        /\ \A o \in Proc : o # p => pc'[o] = pc[o] /\ cur'[o] = cur[o] /\ tally'[o] = tally[o]
    BY <1>0, <1>1 DEF IngestTables, Goto, TypeOK
  <2>3. g.quads \in Seq(Quad) /\ g.label \in AnyLabel
    BY <2>1 DEF Load
  <2>4. \A q \in E : q \in Quad /\ p \in Owner[q.stmt]
    BY <2>1, <2>3, OwnAdds
  <2>5. Kept(E) \subseteq worlds /\ \A w \in Kept(E) : E \cap Stored(w) = {}
    <3>1. E \cap Stored(db) = {}
      BY <2>1 DEF Fresh
    <3> HIDE DEF E
    <3>2. \A q \in E : <<"LSP", q>> \in KeysOf(E)
      BY DEF KeysOf, FourKeys, Keyspace
    <3>3. \A q \in E : <<"LSP", q>> \notin db.keys
      BY <2>4, <3>1 DEF Stored, Held
    <3>4. ASSUME NEW w \in Kept(E), NEW q \in E PROVE <<"LSP", q>> \notin w.keys
      <4>1. w = db \/ w.keys \cap KeysOf(E) = db.keys \cap KeysOf(E)
        BY DEF Kept, Overlapping
      <4> QED
        BY <3>2, <3>3, <4>1
    <3> QED
      BY <1>0, <3>4 DEF Kept, Stored, Held
  <2>6. ASSUME NEW w \in Kept(E) PROVE Exact(After(w))
    <3>1. w \in Contents /\ Exact(w) /\ Fresh(Stored(w), g.quads, g.label)
      BY <1>0, <2>1, <2>5 DEF Fresh
    <3> QED
      BY <2>1, <3>1, IngestCounts
  <2>7. Stored(After(db)) = Stored(db) \cup E
    BY <1>0, <2>1, HeldAfterIngest DEF Stored, Keyspace
  <2> HIDE DEF E, After
  <2>8. OnlyOwn(p, Stored(db), Stored(db'))
    BY <2>1, <2>4, <2>7 DEF OnlyOwn
  <2> QED
    BY <1>0, <2>1, <2>2, <2>6, <2>8, CountStep
<1>2. CASE IngestCounters(p)
  <2> DEFINE new == CountedIn(db, tally[p])
  <2>1. /\ UNCHANGED <<db, worlds>> \/ (db' = new /\ worlds' = {new})
        /\ UNCHANGED ld /\ pc[p] = "counting" /\ pc'[p] = "idle"
        /\ \A o \in Proc : o # p => pc'[o] = pc[o] /\ cur'[o] = cur[o] /\ tally'[o] = tally[o]
    BY <1>0, <1>2 DEF IngestCounters, WriteSync, Goto, TypeOK
  <2>2. Exact(new) /\ Stored(new) = Stored(db)
    BY <1>0, CountingCounts
  <2>3. \A o \in Proc : o # p => pc[o] # "rebuilding"
    BY <2>1 DEF CountInv
  <2> HIDE DEF new
  <2>4. /\ \A w \in worlds' : Exact(w)
        /\ Stored(db') = Stored(db)
    BY <1>0, <2>1, <2>2
  <2> QED
    BY <1>0, <2>1, <2>3, <2>4, SameStored, CountStep
<1>3. CASE RebuildScan(p)
  <2>1. /\ UNCHANGED <<db, worlds, cur, ld>> /\ pc'[p] = "rebuilding"
        /\ \A o \in Proc : pc[o] \in {"idle", "writer", "loader"}
        /\ \A o \in Proc : o # p => pc'[o] = pc[o] /\ tally'[o] = tally[o]
        /\ tally'[p] = LabelScan(db)
    BY <1>0, <1>3 DEF RebuildScan, Goto, TypeOK
  <2> QED
    BY <1>0, <2>1, SameStored, CountStep
<1>4. CASE RebuildReplace(p)
  <2> DEFINE new == RecountedTo(db, tally[p])
  <2>1. /\ db' = new /\ worlds' = {new} /\ UNCHANGED <<cur, ld>>
        /\ pc[p] = "rebuilding" /\ pc'[p] = "idle"
        /\ \A o \in Proc : o # p => pc'[o] = pc[o] /\ tally'[o] = tally[o]
    BY <1>0, <1>4 DEF RebuildReplace, WriteSync, Goto, TypeOK
  <2>2. tally[p] = LabelScan(db) /\ \A o \in Proc : o # p => pc[o] # "rebuilding"
    BY <2>1 DEF CountInv
  <2>3. Exact(new) /\ Stored(new) = Stored(db)
    BY <1>0, <2>2, CountingCounts
  <2> HIDE DEF new
  <2> QED
    BY <1>0, <2>1, <2>2, <2>3, SameStored, CountStep
<1> QED
  BY <1>1, <1>2, <1>3, <1>4 DEF Importer

\* Under the usage the counters are meant for, each label counter plus the
\* ingested quads that are still to be counted is the number of stored quads
\* of that label: no interleaving of commits, flushes, ingests and paused
\* rebuilds, and no crash between the two steps of an ingest, makes it drift.
THEOREM CountersAlwaysExact ==
  ASSUME CountedUsage
  PROVE  Spec => []CountersExact
<1>1. Init => CountInv
  <2> SUFFICES ASSUME Init PROVE CountInv
    OBVIOUS
  <2>1. Stored(EmptyContents) = {} /\ EmptyContents.count = Zero /\ EmptyContents.uncounted = Zero
    BY DEF EmptyContents, Stored, Held
  <2>2. \A l \in AnyLabel : Cardinality(OfLabel({}, l)) = 0
    BY FS_EmptySet DEF OfLabel
  <2>3. \A l \in AnyLabel : EmptyContents.count[l] = 0 /\ EmptyContents.uncounted[l] = 0
    BY <2>1 DEF Zero
  <2>4. \A l \in AnyLabel : EmptyContents.count[l] + EmptyContents.uncounted[l]
                              = Cardinality(OfLabel(Stored(EmptyContents), l))
    BY <2>1, <2>2, <2>3
  <2>5. Exact(EmptyContents)
    BY <2>4, ExactByLabel
  <2> QED
    BY <2>5 DEF Init, CountInv
<1>2. TypeInv /\ CountInv /\ [Next]_vars => CountInv'
  <2> SUFFICES ASSUME TypeInv, CountInv, [Next]_vars
               PROVE  CountInv'
    OBVIOUS
  <2>1. CASE Crash \/ Reopen
    <3>1. worlds' \subseteq worlds
      BY <2>1 DEF Crash, Reopen, WriteSync, TypeInv, TypeOK
    <3>2. \A p \in Proc : pc'[p] = "idle"
      BY <2>1 DEF Crash, Reopen, NoHandles
    <3> QED
      BY <3>1, <3>2 DEF CountInv
  <2>2. CASE UNCHANGED vars
    BY <2>2 DEF vars, CountInv
  <2> QED
    BY <2>1, <2>2, WriterKeepsCounts, LoaderKeepsCounts, ImporterKeepsCounts DEF Next
<1>3. CountInv => CountersExact
  BY DEF CountInv, Exact, CountersExact
<1> QED
  BY <1>1, <1>2, <1>3, TypeInvariant, PTL DEF Spec

=============================================================================
