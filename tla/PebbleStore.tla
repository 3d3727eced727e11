----------------------------- MODULE PebbleStore -----------------------------
(***************************************************************************)
(* The write side of the Pebble backend (internal/pebbleq): Writers,       *)
(* BulkLoaders, IngestSorted and RebuildLabelCounters running concurrently *)
(* on one store, with process crashes.                                     *)
(*                                                                         *)
(* A quad lives in the store as four keys, one per keyspace; next to them  *)
(* are a counter per label, the commit rows and the commit_ops rows.       *)
(* Writes are acknowledged before they are fsynced.  `worlds' is the set   *)
(* of contents a crash may leave: an unsynced write adds a world, a sync   *)
(* leaves only the current one.                                            *)
(***************************************************************************)
EXTENDS Integers, FiniteSets, Sequences

CONSTANTS
  Proc,             \* goroutines that use the store
  Stmt,             \* complete statements (subject, predicate, object)
  EmptyStmt,        \* a statement with an empty field
  GoodLabel,        \* labels with one of the four namespace prefixes
  BadLabel,         \* labels with none of them
  NoLabel,          \* the empty label
  BatchChoice,      \* the batches the Writers commit
  IngestChoice,     \* the inputs of IngestSorted: [quads, label]
  Kinds,            \* the operations in use, from AllKinds
  Owner,            \* Owner[s]: the goroutines that write statement s
  Careful,          \* callers add only absent quads and remove only present ones
  PauseForRebuild,  \* callers hold their calls while the counters are rebuilt
  BatchSize,        \* rows at which a BulkLoader flushes by itself
  MaxWrites         \* bound of the model: writes in one behaviour

AllKinds == {"writer", "loader", "ingest", "rebuild"}

AnyLabel   == GoodLabel \cup BadLabel \cup {NoLabel}
ValidLabel == GoodLabel \cup {NoLabel}
Quad       == [stmt : Stmt \cup {EmptyStmt}, label : AnyLabel]
Id         == 1..MaxWrites
Keyspace   == {"SPO", "POS", "OSP", "LSP"}
OpRow      == [id : Id, seq : Nat \ {0}, kind : {"add", "remove"}, quad : Quad]
Batch      == [adds : Seq(Quad), removes : Seq(Quad), label : AnyLabel, audit : BOOLEAN]
Load       == [quads : Seq(Quad), label : AnyLabel]

\* Quad is as large as one likes, but finite: so is what a store holds.
ASSUME ConstantsAssumption ==
  /\ IsFiniteSet(Quad)
  /\ BatchChoice \subseteq Batch
  /\ IngestChoice \subseteq Load
  /\ Kinds \subseteq AllKinds
  /\ Owner \in [Stmt \cup {EmptyStmt} -> SUBSET Proc]
  /\ Careful \in BOOLEAN
  /\ PauseForRebuild \in BOOLEAN
  /\ BatchSize \in Nat \ {0}
  /\ MaxWrites \in Nat

VARIABLES
  db,        \* what a reader sees: the key-value contents of the store
  worlds,    \* the contents a crash may leave
  nextId,    \* the next write; for an audited commit, its UUIDv7
  promised,  \* writes whose caller was told they are on disk
  pc,        \* where each goroutine stands
  cur,       \* the commit a goroutine is in the middle of
  ld,        \* the goroutine's BulkLoader
  tally      \* per-label numbers held between two steps of a call

vars == <<db, worlds, nextId, promised, pc, cur, ld, tally>>

Zero     == [l \in AnyLabel |-> 0]
NoBatch  == [adds |-> <<>>, removes |-> <<>>, label |-> NoLabel, audit |-> FALSE]
NoCommit == [batch |-> NoBatch, id |-> 0, sync |-> FALSE]
NoLoader == [label |-> NoLabel, buf |-> {}, rows |-> 0, deltas |-> Zero, wrote |-> {}]

(***************************************************************************)
(* Contents of the store.  `applied' and `uncounted' are history: the      *)
(* writes contained in these contents, and the ingested quads per label    *)
(* whose counter update has not been written yet.                          *)
(***************************************************************************)
Contents ==
  [keys      : SUBSET (Keyspace \X Quad),
   count     : [AnyLabel -> Int],
   commits   : SUBSET Id,
   ops       : SUBSET OpRow,
   applied   : SUBSET Id,
   uncounted : [AnyLabel -> Int]]

EmptyContents ==
  [keys |-> {}, count |-> Zero, commits |-> {}, ops |-> {}, applied |-> {}, uncounted |-> Zero]

FourKeys(q) == Keyspace \X {q}
KeysOf(qs)  == UNION {FourKeys(q) : q \in qs}

\* The quads one keyspace holds.
Held(kv, ks) == {q \in Quad : <<ks, q>> \in kv.keys}

\* A quad without a label of its own takes the default.
Effective(q, default) == IF q.label = NoLabel THEN [q EXCEPT !.label = default] ELSE q

EffectiveSet(qs, default) == {Effective(qs[i], default) : i \in DOMAIN qs}

\* How many quads of a sequence carry each label once the default is applied.
LabelTally(qs, default) ==
  [l \in AnyLabel |-> Cardinality({i \in DOMAIN qs : Effective(qs[i], default).label = l})]

Plus(f, g)  == [l \in AnyLabel |-> f[l] + g[l]]
Minus(f, g) == [l \in AnyLabel |-> f[l] - g[l]]
OneMore(f, label) == [f EXCEPT ![label] = @ + 1]

----------------------------------------------------------------------------
(* The writes: what each leaves in the store. *)

\* aggregateLabelDeltas: removes fall back to the batch label as adds do.
LabelDeltas(b) == Minus(LabelTally(b.adds, b.label), LabelTally(b.removes, b.label))

CommitRows(id, b) == IF b.audit THEN {id} ELSE {}

\* Mutated CommitOps: the journal records the added quads without their
\* effective label.
OpsWithoutLabel(id, b) ==
  IF b.audit
  THEN {[id |-> id, seq |-> i, kind |-> "add", quad |-> b.adds[i]] : i \in DOMAIN b.adds}
       \cup
       {[id |-> id, seq |-> Len(b.adds) + i, kind |-> "remove", quad |-> b.removes[i]] :
            i \in DOMAIN b.removes}
  ELSE {}

CommitOps(id, b) ==
  IF b.audit
  THEN {[id |-> id, seq |-> i, kind |-> "add", quad |-> Effective(b.adds[i], b.label)] :
            i \in DOMAIN b.adds}
       \cup
       {[id |-> id, seq |-> Len(b.adds) + i, kind |-> "remove", quad |-> b.removes[i]] :
            i \in DOMAIN b.removes}
  ELSE {}

\* Mutated CommittedTo: the Deletes forget the OSP key.
DeletesThreeKeys(kv, id, b) ==
  [kv EXCEPT !.keys = (@ \cup KeysOf(EffectiveSet(b.adds, b.label)))
                         \ ({"SPO", "POS", "LSP"} \X {b.removes[i] : i \in DOMAIN b.removes}),
             !.count = Plus(@, LabelDeltas(b)), !.applied = @ \cup {id}]

\* Mutated CommittedTo: Deletes before Sets.
RemovesFirst(kv, id, b) ==
  [kv EXCEPT !.keys = (@ \ KeysOf({b.removes[i] : i \in DOMAIN b.removes}))
                         \cup KeysOf(EffectiveSet(b.adds, b.label)),
             !.count = Plus(@, LabelDeltas(b)), !.applied = @ \cup {id}]

\* Sets for the adds, then Deletes for the removes (by their label as it is).
CommittedTo(kv, id, b) ==
  [kv EXCEPT !.keys    = (@ \cup KeysOf(EffectiveSet(b.adds, b.label)))
                            \ KeysOf({b.removes[i] : i \in DOMAIN b.removes}),
             !.count   = Plus(@, LabelDeltas(b)),
             !.commits = @ \cup CommitRows(id, b),
             !.ops     = @ \cup CommitOps(id, b),
             !.applied = @ \cup {id}]

\* One BulkLoader flush: the buffered keys and the accumulated deltas.
FlushedTo(kv, id, loader) ==
  [kv EXCEPT !.keys    = @ \cup KeysOf(loader.buf),
             !.count   = Plus(@, loader.deltas),
             !.applied = @ \cup {id}]

\* The four sstables of IngestSorted; the counters are not part of them.
IngestedTo(kv, id, g) ==
  [kv EXCEPT !.keys      = @ \cup KeysOf(EffectiveSet(g.quads, g.label)),
             !.uncounted = Plus(@, LabelTally(g.quads, g.label)),
             !.applied   = @ \cup {id}]

CountedIn(kv, deltas) ==
  [kv EXCEPT !.count = Plus(@, deltas), !.uncounted = Minus(@, deltas)]

\* The numbers RebuildLabelCounters finds in the LSP keyspace.
LabelScan(kv) ==
  [l \in AnyLabel |-> Cardinality({q \in Held(kv, "LSP") : q.label = l})]

\* The 'L' keyspace is deleted as a range and set to the scanned numbers.
RecountedTo(kv, counts) == [kv EXCEPT !.count = counts, !.uncounted = Zero]

----------------------------------------------------------------------------
(* What callers may ask for. *)

MayWrite(p, qs) == \A i \in DOMAIN qs : p \in Owner[qs[i].stmt]

Distinct(qs, default) ==
  \A i, j \in DOMAIN qs : Effective(qs[i], default) = Effective(qs[j], default) => i = j

\* The usage the label counters are designed for: every Add is new data and
\* every Remove names a quad that is there.
FreshAdds(qs, default) ==
  /\ Distinct(qs, default)
  /\ EffectiveSet(qs, default) \cap Held(db, "LSP") = {}

PresentRemoves(b) ==
  /\ \A i, j \in DOMAIN b.removes : b.removes[i] = b.removes[j] => i = j
  /\ {b.removes[i] : i \in DOMAIN b.removes}
       \subseteq Held(db, "LSP") \cup EffectiveSet(b.adds, b.label)

Rebuilding == \E p \in Proc : pc[p] = "rebuilding"
Unpaused   == PauseForRebuild => ~Rebuilding

----------------------------------------------------------------------------
Init ==
  /\ db = EmptyContents
  /\ worlds = {EmptyContents}
  /\ nextId = 1
  /\ promised = {}
  /\ pc = [p \in Proc |-> "idle"]
  /\ cur = [p \in Proc |-> NoCommit]
  /\ ld = [p \in Proc |-> NoLoader]
  /\ tally = [p \in Proc |-> Zero]

Goto(p, from, to) == pc[p] = from /\ pc' = [pc EXCEPT ![p] = to]

\* Mutated WriteNoSync: the write does not reach the log.
WriteUnlogged(kv) == db' = kv /\ UNCHANGED worlds

\* A write acknowledged with pebble.NoSync.
WriteNoSync(kv) == db' = kv /\ worlds' = worlds \cup {kv}

\* A write with pebble.Sync: the log up to and including it is on disk.
WriteSync(kv) == db' = kv /\ worlds' = {kv}

(* Writer *)

OpenWriter(p) ==
  /\ "writer" \in Kinds
  /\ Goto(p, "idle", "writer")
  /\ UNCHANGED <<db, worlds, nextId, promised, cur, ld, tally>>

CloseWriter(p) ==
  /\ Goto(p, "writer", "idle")
  /\ UNCHANGED <<db, worlds, nextId, promised, cur, ld, tally>>

\* Mutated Accepted: only the batch label is validated.
AcceptsAnyOwnLabel(b) ==
  /\ b.label \in ValidLabel
  /\ \A i \in DOMAIN b.adds : b.adds[i].stmt # EmptyStmt

\* Validation of the whole batch; a batch that fails it writes nothing.
Accepted(b) ==
  /\ b.label \in ValidLabel
  /\ \A i \in DOMAIN b.adds :
       /\ b.adds[i].stmt # EmptyStmt
       /\ Effective(b.adds[i], b.label).label \in ValidLabel
  /\ \A i \in DOMAIN b.removes : b.removes[i].stmt # EmptyStmt

\* Commit and CommitSync up to the point where the commit id is drawn.
BeginCommit(p, b, sync) ==
  /\ Unpaused
  /\ nextId \in Id
  /\ MayWrite(p, b.adds) /\ MayWrite(p, b.removes)
  /\ Careful => FreshAdds(b.adds, b.label) /\ PresentRemoves(b)
  /\ Accepted(b)
  /\ Goto(p, "writer", "committing")
  /\ cur' = [cur EXCEPT ![p] = [batch |-> b, id |-> nextId, sync |-> sync]]
  /\ nextId' = nextId + 1
  /\ UNCHANGED <<db, worlds, promised, ld, tally>>

\* wb.Commit(pebble.NoSync): every key of the batch at once.
ApplyCommit(p) ==
  /\ Goto(p, "committing", IF cur[p].sync THEN "syncing" ELSE "writer")
  /\ WriteNoSync(CommittedTo(db, cur[p].id, cur[p].batch))
  /\ cur' = IF cur[p].sync THEN cur ELSE [cur EXCEPT ![p] = NoCommit]
  /\ UNCHANGED <<nextId, promised, ld, tally>>

\* LogData(nil, Sync), a second step of CommitSync.
SyncCommit(p) ==
  /\ Goto(p, "syncing", "writer")
  /\ WriteSync(db)
  /\ promised' = promised \cup {cur[p].id}
  /\ cur' = [cur EXCEPT ![p] = NoCommit]
  /\ UNCHANGED <<nextId, ld, tally>>

(* BulkLoader *)

OpenLoader(p, l) ==
  /\ "loader" \in Kinds
  /\ l \in ValidLabel
  /\ Goto(p, "idle", "loader")
  /\ ld' = [ld EXCEPT ![p] = [NoLoader EXCEPT !.label = l]]
  /\ UNCHANGED <<db, worlds, nextId, promised, cur, tally>>

\* Mutated Flush: the accumulated deltas are not cleared.
FlushKeepsDeltas(p, loader) ==
  IF loader.rows = 0
  THEN /\ ld' = [ld EXCEPT ![p] = loader]
       /\ UNCHANGED <<db, worlds, nextId>>
  ELSE /\ nextId \in Id
       /\ WriteNoSync(FlushedTo(db, nextId, loader))
       /\ ld' = [ld EXCEPT ![p] = [loader EXCEPT !.buf = {}, !.rows = 0,
                                                 !.wrote = @ \cup {nextId}]]
       /\ nextId' = nextId + 1

\* flush writes the rows (if any) as one batch and starts an empty one.
Flush(p, loader) ==
  IF loader.rows = 0
  THEN /\ ld' = [ld EXCEPT ![p] = loader]
       /\ UNCHANGED <<db, worlds, nextId>>
  ELSE /\ nextId \in Id
       /\ WriteNoSync(FlushedTo(db, nextId, loader))
       /\ ld' = [ld EXCEPT ![p] = [loader EXCEPT !.buf = {}, !.rows = 0, !.deltas = Zero,
                                                 !.wrote = @ \cup {nextId}]]
       /\ nextId' = nextId + 1

Buffered(loader, q) ==
  LET eff == Effective(q, loader.label)
  IN [loader EXCEPT !.buf = @ \cup {eff}, !.rows = @ + 1,
                    !.deltas = OneMore(@, eff.label)]

\* Add buffers the quad, whatever its label, and flushes a full buffer.
LoaderAdd(p, q) ==
  /\ pc[p] = "loader"
  /\ Unpaused
  /\ q.stmt # EmptyStmt
  /\ p \in Owner[q.stmt]
  /\ Careful => FreshAdds(<<q>>, ld[p].label) /\ Effective(q, ld[p].label) \notin ld[p].buf
  /\ LET loader == Buffered(ld[p], q)
     IN IF loader.rows >= BatchSize
        THEN Flush(p, loader)
        ELSE /\ ld' = [ld EXCEPT ![p] = loader]
             /\ UNCHANGED <<db, worlds, nextId>>
  /\ UNCHANGED <<promised, pc, cur, tally>>

LoaderFlush(p) ==
  /\ pc[p] = "loader"
  /\ Unpaused
  /\ Flush(p, ld[p])
  /\ UNCHANGED <<promised, pc, cur, tally>>

\* Close: the last buffered rows are written ...
LoaderClose(p) ==
  /\ Unpaused
  /\ Goto(p, "loader", "closing")
  /\ Flush(p, ld[p])
  /\ UNCHANGED <<promised, cur, tally>>

\* ... and db.Flush puts the memtable, so every write so far, on disk.
LoaderHarden(p) ==
  /\ Goto(p, "closing", "idle")
  /\ WriteSync(db)
  /\ promised' = promised \cup ld[p].wrote
  /\ ld' = [ld EXCEPT ![p] = NoLoader]
  /\ UNCHANGED <<nextId, cur, tally>>

(* IngestSorted *)

\* Pebble flushes a memtable that overlaps the tables it ingests.  Unsynced
\* writes to the ingested keys show as worlds that differ on those keys.
Overlapping(qs) ==
  \E w \in worlds : w.keys \cap KeysOf(qs) # db.keys \cap KeysOf(qs)

\* The contents that stay possible when tables with these quads are ingested.
Kept(qs) == IF Overlapping(qs) THEN {db} ELSE worlds

\* db.Ingest: the sstables are linked in atomically and are durable at once;
\* the counters are not part of them.
IngestTables(p, g) ==
  /\ "ingest" \in Kinds
  /\ Unpaused
  /\ nextId \in Id
  /\ MayWrite(p, g.quads)
  /\ Careful => FreshAdds(g.quads, g.label)
  /\ g.label \in ValidLabel
  /\ \A i \in DOMAIN g.quads :
       /\ g.quads[i].stmt # EmptyStmt
       /\ Effective(g.quads[i], g.label).label \in ValidLabel
  /\ Goto(p, "idle", "counting")
  /\ db' = IngestedTo(db, nextId, g)
  /\ worlds' = {IngestedTo(w, nextId, g) : w \in Kept(EffectiveSet(g.quads, g.label))}
  /\ tally' = [tally EXCEPT ![p] = LabelTally(g.quads, g.label)]
  /\ cur' = [cur EXCEPT ![p].id = nextId]
  /\ nextId' = nextId + 1
  /\ UNCHANGED <<promised, ld>>

\* The counters (one of them for the empty label) follow in a batch of their
\* own, synced; for an empty input there is none.
IngestCounters(p) ==
  /\ Goto(p, "counting", "idle")
  /\ IF tally[p] = Zero THEN UNCHANGED <<db, worlds>> ELSE WriteSync(CountedIn(db, tally[p]))
  /\ promised' = promised \cup {cur[p].id}
  /\ tally' = [tally EXCEPT ![p] = Zero]
  /\ cur' = [cur EXCEPT ![p] = NoCommit]
  /\ UNCHANGED <<nextId, ld>>

(* RebuildLabelCounters *)

\* Phase 1 reads the LSP keyspace through an iterator, a snapshot of db.
RebuildScan(p) ==
  /\ "rebuild" \in Kinds
  /\ PauseForRebuild => \A o \in Proc : pc[o] \in {"idle", "writer", "loader"}
  /\ Goto(p, "idle", "rebuilding")
  /\ tally' = [tally EXCEPT ![p] = LabelScan(db)]
  /\ UNCHANGED <<db, worlds, nextId, promised, cur, ld>>

\* Phase 2 replaces the whole counter keyspace in one synced batch.
RebuildReplace(p) ==
  /\ Goto(p, "rebuilding", "idle")
  /\ WriteSync(RecountedTo(db, tally[p]))
  /\ tally' = [tally EXCEPT ![p] = Zero]
  /\ UNCHANGED <<nextId, promised, cur, ld>>

(* The process *)

NoHandles ==
  /\ pc' = [p \in Proc |-> "idle"]
  /\ cur' = [p \in Proc |-> NoCommit]
  /\ ld' = [p \in Proc |-> NoLoader]
  /\ tally' = [p \in Proc |-> Zero]

\* The process dies; Open finds one of the possible contents.
Crash ==
  /\ \E w \in worlds : WriteSync(w)
  /\ NoHandles
  /\ UNCHANGED <<nextId, promised>>

\* Store.Close between calls syncs the log; the store is opened again.
Reopen ==
  /\ \A p \in Proc : pc[p] = "idle"
  /\ WriteSync(db)
  /\ NoHandles
  /\ UNCHANGED <<nextId, promised>>

Writer(p) ==
  \/ OpenWriter(p)
  \/ CloseWriter(p)
  \/ \E b \in BatchChoice, sync \in BOOLEAN : BeginCommit(p, b, sync)
  \/ ApplyCommit(p)
  \/ SyncCommit(p)

Loader(p) ==
  \/ \E l \in ValidLabel : OpenLoader(p, l)
  \/ \E q \in Quad : LoaderAdd(p, q)
  \/ LoaderFlush(p)
  \/ LoaderClose(p)
  \/ LoaderHarden(p)

Importer(p) ==
  \/ \E g \in IngestChoice : IngestTables(p, g)
  \/ IngestCounters(p)
  \/ RebuildScan(p)
  \/ RebuildReplace(p)

Next ==
  \/ \E p \in Proc : Writer(p) \/ Loader(p) \/ Importer(p)
  \/ Crash
  \/ Reopen

Spec == Init /\ [][Next]_vars

----------------------------------------------------------------------------
(* Properties *)

PC == {"idle", "writer", "committing", "syncing", "loader", "closing", "counting", "rebuilding"}

CommitState == [batch : BatchChoice \cup {NoBatch}, id : Id \cup {0}, sync : BOOLEAN]

LoaderState ==
  [label : ValidLabel, buf : SUBSET Quad, rows : Nat, deltas : [AnyLabel -> Int],
   wrote : SUBSET Id]

\* Types of the variables; what is readable now is one of the possible worlds.
TypeOK ==
  /\ db \in worlds
  /\ worlds \subseteq Contents
  /\ nextId \in 1..(MaxWrites + 1)
  /\ promised \subseteq Id
  /\ pc \in [Proc -> PC]
  /\ cur \in [Proc -> CommitState]
  /\ ld \in [Proc -> LoaderState]
  /\ tally \in [Proc -> [AnyLabel -> Int]]

\* After any crash, and during any interleaving, the four keyspaces of the
\* Pebble layout hold the same quads: a read gives one answer whichever of
\* them Find picks, and no crash leaves a quad in some of them only.
KeyspacesAgree ==
  \A w \in worlds : \A ks \in Keyspace : Held(w, ks) = Held(w, "SPO")

\* A write whose caller was told it is on disk (CommitSync returned,
\* BulkLoader.Close returned, IngestSorted returned) is in every state a
\* crash can leave, whatever other goroutines wrote without syncing.
SyncedWritesSurvive == \A w \in worlds : promised \subseteq w.applied

\* Every stored quad carries a namespace label or none: nothing with an
\* invalid label gets past the validation of Commit and IngestSorted.
LabelsEnforced ==
  \A w \in worlds : \A q \in Held(w, "SPO") : q.label \in ValidLabel

\* The label counter of the 'L' keyspace plus the ingested quads that are
\* still to be counted is the number of quads of that label: under the usage
\* the counters are meant for, no interleaving of commits, flushes, ingests
\* and (paused) rebuilds, and no crash, makes Count(Label) drift by more than
\* an ingest whose second step is outstanding or was cut off.
CountersExact == \A w \in worlds : Plus(w.count, w.uncounted) = LabelScan(w)

\* The order of the commit ids and, in a commit, of the numbers that the keys
\* of its operations encode.  (Not that of the keys themselves: the bytes of a
\* uvarint are in another order from 129 operations on, store.go:425.)
Before(o, u) == o.id < u.id \/ (o.id = u.id /\ o.seq < u.seq)

\* The quads an audit reader finds who decodes the operations and replays them
\* commit by commit, by number.
Replayed(ops) ==
  {q \in Quad : \E o \in ops :
     /\ o.quad = q /\ o.kind = "add"
     /\ \A u \in ops : u.quad = q /\ u.kind = "remove" => Before(u, o)}

\* Replaying the operations in the order of commit ids and numbers gives
\* exactly the stored quads, in every state a crash can leave, as long as every
\* write is audited and no two goroutines write the same statement: journal and
\* quads are never torn apart, and each commit's operations are numbered in the
\* order they take effect.
JournalReplays == \A w \in worlds : Replayed(w.ops) = Held(w, "SPO")

(* Refinement: the SPO keyspace implements the abstract graph.  No accepted
   batch is refused: an error of Pebble itself kills the process. *)

\* What a batch asks of the graph.
Wanted(b) ==
  [adds    |-> EffectiveSet(b.adds, b.label),
   removes |-> {b.removes[i] : i \in DOMAIN b.removes}]

Asked == [p \in Proc |-> IF pc[p] = "committing" THEN {Wanted(cur[p].batch)} ELSE {}]

Abstract == INSTANCE QuadGraph
  WITH Caller <- Proc,
       Loads  <- SUBSET Quad,
       Change <- {Wanted(b) : b \in BatchChoice},
       graph  <- Held(db, "SPO"),
       worlds <- {Held(w, "SPO") : w \in worlds},
       asked  <- Asked,
       failed <- {}

\* Every call of every goroutine changes the readable graph, and the graphs a
\* crash may leave, as the abstract store does: each accepted batch exactly
\* once and as a whole, or, if the process dies, not at all.
ImplementsQuadGraph == Abstract!Spec

=============================================================================
