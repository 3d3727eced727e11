# quadstore in TLA+

quadstore is a Go library that stores *quads*: a subject, a predicate and an object,
plus a label that names where the statement came from. It has two backends with the
same surface: SQLite (package `quadstore`: `quadstore.go`, `writer.go`, `bulk.go`,
`partitioned.go`, `migrate.go`, `schema.go`) and Pebble (`internal/pebbleq`, wrapped by
`pebble_store.go`). This directory holds TLA+ models of the library, TLC
configurations that check them on small instances, and TLAPS proofs.

Run a check with `tlc -config PebbleAll.cfg MCPebbleStore.tla`, a proof with
`tlapm PebbleStoreProofs.tla`. `PROJECT.json` lists the runs, the mutants, the source
lines of every definition, the hazards and the theorems.

## Inventory of the system

| Component | State | Operations | What is hard about it |
|---|---|---|---|
| Pebble writes (`internal/pebbleq/store.go`, `labelcount.go`, `ingest_sorted.go`) | four keys per quad, a counter per label, commit rows and commit_ops rows; batches held by Writers and BulkLoaders | `Writer.Commit`, `CommitSync`, `BulkLoader.Add/Flush/Close`, `IngestSorted`, `RebuildLabelCounters`, `Open`, `Close` | no lock of its own: any number of goroutines write at once; writes are acknowledged before they are fsynced; counters are deltas, separate from the keys |
| External ingest (`ingest_sorted_external.go`, `pebble_store.go`) | two channels, a forwarding goroutine, a chunk, run files | `IngestSortedExternal` on both levels | goroutines, back-pressure, cancellation, errors in the middle, a k-way merge |
| Pebble reads (`store.go`) | iterators | `Find`, `Count`, `LabelCounts`, `Stats`, `CommitStatsAt`, `Checkpoint` | several iterators per call, opened at different moments; key ranges and prefixes |
| SQLite Store and Writer (`quadstore.go`, `writer.go`) | quads, commits, commit_ops tables; a one-slot semaphore per partition; a connection pool | `Add`, `AddBatch`, `Delete`, `WriterFor`, `Commit`, `PruneOps`, `Vacuum` | legacy calls bypass the slot; a transaction per commit; cancellation |
| SQLite BulkLoader (`bulk.go`) | buffer, sticky error, bulk mode (PRAGMAs and dropped indexes) | `Add`, `Flush`, `Close` | PRAGMAs are per connection; leaving bulk mode can fail; synchronous=OFF |
| Partitions (`partitioned.go`, `reader.go`) | one SQLite store per partition, a routing function | `partFor`, `partForPattern`, `Find`, `Count` | reads that route by label must find what writes routed |
| Migration (`migrate.go`, `pebble_store.go:400`) | a loader per destination, copied audit rows | `Migrate`, `MigrateFromSnapshot`, `MigrateToPebble` | re-runs, interrupted runs, unknown partitions |
| Schema (`schema.go`, `Open`, `OpenPartitioned`) | a version row | `migrate` on open | a crash between two statements, two processes opening at once |
| Iterator and Path (`quadstore.go`) | an open cursor, a frontier | `Match`, `Iterate`, `Path` | resources, duplicates in a traversal |
| Shape (`shape.go`) | none | `Shape` | two SELECTs per partition, at different moments |
| `cmd/ingest-index` | a workspace of index entries; the quads its stages leave for later ones | signals, three greedy reductions, contention, page text, aboutness, subtraction | maps in any order; a stage whose quads are not stored is reported and skipped, and the later ones read what is there |
| `cmd/observe` | a union-find | clusters of similar pages, page lists, statistics, HTML | path compression, order of the pairs |
| `cmd/prune`, `cmd/pebble-correctness` | none of their own | preview and prune; copy to Pebble and compare | counts that are stale when they are used; a sample that may miss |
| Examples | none | example programs | nothing |

How they interact: both backends are libraries called from any goroutine. Writers and
loaders share the store (Pebble) or compete for the partition's slot (SQLite); readers
run beside them; `Migrate` reads one store through iterators and writes another through
loaders; `IngestSortedExternal` connects the caller, its own goroutine and the store by
channels. Nothing calls back into the caller.

What makes each correct: a commit is all or nothing, in every keyspace and through every
crash; what was reported as durable stays; a read returns what was there at a moment of the call; the journal and the counters agree with the
quads; a label outside the namespaces is never stored; a bulk call ingests all of its
input or nothing, always returns, and leaves no goroutine behind; two ways to build the same
table build the same table. `hazards` in `PROJECT.json` names the lines where each of these
could go wrong.

## Modules

| Module | Models | Role |
|---|---|---|
| `QuadGraph` | what either backend promises | abstract specification |
| `PebbleStore` | Pebble writes | detailed specification; implements `QuadGraph` |
| `MCPebbleStore` | | instances for TLC |
| `PebbleReads` | the key encoding, reads and checkpoints of Pebble | composes a reader with the writers of `PebbleStore` |
| `MCPebbleReads` | | an instance |
| `PebbleReadsProofs` | | theorems about `PebbleReads` |
| `PebbleStoreProofs` | | theorems about `PebbleStore` |
| `Partitions` | labels, quads, the namespace check and the routing of labels on SQLite | shared by the SQLite modules |
| `SqliteWriter` | SQLite: slots, transactions, pruning, older calls, partitions | detailed specification; each file implements `QuadGraph` |
| `MCSqliteWriter` | | instances |
| `SqliteWriterProofs` | | theorems about `SqliteWriter` |
| `SqliteReads` | reads and paths over partitions, `Shape`, `cmd/prune` | composes a reader with the writers of `SqliteWriter` |
| `SqliteReadsProofs` | | theorems about `SqliteReads` |
| `Schema` | `Open`, `OpenPartitioned`, `migrate` | specification |
| `SqliteBulk` | SQLite bulk loads, statement by statement over a pool of connections | specification with fairness |
| `MCSqliteBulk` | | instances |
| `Migrate` | `Migrate`, `MigrateFromSnapshot` | composes the loaders of `SqliteBulk` with a source and a driver |
| `MCMigrate` | | instances |
| `MigrateProofs` | | theorems about `SqliteBulk` and `Migrate` |
| `PebbleCopy` | `MigrateToPebble` and `cmd/pebble-correctness` | specification |
| `IndexTool` | the stages of `cmd/ingest-index` that choose among entries | specification |
| `Clusters` | the clusters of `cmd/observe` | specification |
| `MCSessions` | | instances of `SqliteReads`, `Schema`, `IndexTool`, `Clusters`, `PebbleCopy` |
| `SessionProofs` | | theorems about `Schema`, `PebbleCopy`, `IndexTool`, `Clusters` and `MergeRuns` |
| `IngestPipeline` | external ingest: caller, channels, goroutine, chunks | specification with fairness |
| `MCIngestPipeline` | | instances |
| `IngestPipelineProofs` | | theorems about `IngestPipeline` |
| `MergeRuns` | the k-way merge of run files; the in-memory sort and dedup | specification and reference definition |
| `MCMergeRuns` | | instances |
| `Induction` | | least counterexamples, recursive functions, folds, sums and unions, for the proofs |

### QuadGraph

A set of quads, the set `worlds` of graphs the store may come back with, and the commits
callers are waiting for (`asked`). An accepted batch is asked for (`Ask`) and applied exactly once: `Commit`
replaces the graph by (graph + adds) - removes in one step, answers its caller, and adds one world, for it
may or may not survive. Otherwise it is refused, unapplied, and its caller told (`Refuse`; `failed` remembers), or the process dies
(`Recover`). `Load` only adds; `Ingest` adds to every world, for linked files
are durable at once, and may harden what was there; `Harden` leaves the current
graph as the only world; `Recover` makes one of the worlds current.

### PebbleStore

*State.* `db` is the contents a reader sees: `keys` (pairs of a keyspace and a quad),
`count` (the 'L' keyspace), `commits`, `ops`. Two fields are history and exist
only for the properties: `applied`, the writes contained in these contents, and
`uncounted`, the ingested quads whose counters are not written yet. `nextId` stands for the UUIDv7
of a commit (ids grow in the order they are drawn). `pc`, `cur`, `ld`, `tally` are what each
goroutine holds between two steps of a call.

*Crashes.* `worlds` is the set of contents a crash may leave. Pebble's log is
sequential: after `NoSync` writes a crash leaves any prefix of them, so each such
write adds the new contents to `worlds`; a write with `Sync` (or `LogData` with `Sync`, or `db.Flush`)
makes the current contents the only world. `Ingest` is durable at once, without the
log: it adds its quads to every world, except that Pebble first flushes a memtable that
overlaps the files, which hardens everything before it. `Crash` picks a world and forgets every
handle. `promised` collects the writes whose caller was told that they are on disk.

*Steps.* One action for each point where another goroutine can come in between.
`Commit` draws its id (`BeginCommit`) and then applies one Pebble batch
(`ApplyCommit`); `CommitSync` has a third step (`SyncCommit`), since it calls
`LogData(nil, Sync)` after `Commit`. `BulkLoader.Close` is a last flush and then `db.Flush`
(`LoaderClose`, `LoaderHarden`). `IngestSorted` ingests its tables and then
writes the counters (`IngestTables`, `IngestCounters`). `RebuildLabelCounters`
scans and later replaces (`RebuildScan`, `RebuildReplace`). Fatal errors of Pebble (a log or manifest that cannot
be written) panic in this code (`quietLogger.Fatalf`), and so are crashes; the error of an iterator is returned, before
anything is written, and is in `PebbleReads`. An import of nothing writes no counters.

*Callers.* The code leaves three things to its callers, and constants say what they do:
`Careful` (they add only absent quads and remove only present ones, the usage
`labelcount.go` describes for exact counters), `Owner` (which goroutines write which statements) and
`PauseForRebuild` (they hold their calls during a rebuild). Properties that need a
discipline are checked with it and, where a comment claims more, shown to fail without it.

### PebbleReads

*State.* Strings are sequences of bytes, so that key ranges are what they are in the code: `encodeKey`, `SplitN`,
`upperBoundForPrefix` and `uvarint` are translated, and `KeyRange` is what an iterator with these bounds finds. `rd` is
the call the reader is in: `snap` the contents its open iterator reads (those of the moment it was opened), `found` what it has
so far. `since` is history, the contents of the store from the beginning of the call on, and so is `cut`, the labels whose own scan failed.

*Steps.* One action for every iterator a call opens: `Find` and `Drain`; `Count`; `LabelCounts`, whose outer iterator jumps from
label to label (`CountLabel`, each counted by an iterator of its own, and `CountLabelCut` for one that fails, whose error nobody looks at: `store.go:766-769`);
`Stats` (SPO, then POS); `CommitStatsAt` (commits,
then commit_ops, where the id is cut out of the key at the first separator, `OfCommit`). Any other iterator that fails ends the call with an error (`ReadFails`). In between the writers of `PebbleStore` step, and the process may crash. `TakeCheckpoint` is one of the worlds of `PebbleStore`:
`Checkpoint` copies the log without a sync. A commit id is one byte, in the order of the ids, which is all the code uses of a
UUIDv7; values of commit rows are not decoded. An answer stands until the reader returns, and writers wait that long, which loses no order of steps.

### SqliteWriter

*State.* `file[p]` is the contents of partition `p` (quads, commit rows, operations) and `worlds[p]` what a crash
may leave: SQLite runs with `synchronous=NORMAL`, so a committed transaction survives the process but not
always a power loss. `slot[p]` is the `writerSlot` channel with its blocked senders, which the Go runtime
serves in order: the first goroutine of the sequence has the slot. `call` is a write in progress: its batch, how
many statements are done, and the image its transaction works on. `begun`, `cutoff` and `failed` are history.

*Steps.* Waiting in the `select` of `WriterFor`, giving up, `Close`; validation and `BeginTx` (`BeginCommit`); each statement
(`Execute`: the commit row, an add with its operation, a remove with its operation); `tx.Commit`; and at any
statement an error, a cancelled context or a busy timeout (`Rollback`). `PruneOps` is one statement of a Writer between its
commits. `Add`, `AddBatch` and `Delete` run through the same transaction steps but
need no slot (`BeginLegacy`), so they meet a Writer's transaction anywhere. SQLite itself is external: the first write of a transaction
takes the file's write lock, nobody sees the image before it is committed, a rollback leaves nothing.

*Partitions.* `RouteLabel` is the configured router; an answer the store does not know means the default partition. A crash
leaves each file in a world of its own: nothing is atomic over partitions, and no property says so.

*Fairness.* A transaction goes on until it returns (`WF`: any of its statements ends, if only by `busy_timeout`), and a caller that
can close its Writer again and again does so (`SF`): the library cannot take a slot back.
Getting the slot needs no fairness, the channel hands it over.

### SqliteReads

A call is a list of SELECTs (`todo`), each on one partition, and each a step (`Query`): it sees the file of that moment, and the writers of
`SqliteWriter` step in between. `partForPattern` is the router of reads; `ReadsAssumption` states what a pattern router owes: it
may name a partition, for a subject, a label or whatever else is in the pattern, if all that the callers write (`Written`) and that matches goes there. `Fail` is a SELECT that fails; `StatsCutShort` is `Stats`, which does not look at
`rows.Err` (`quadstore.go:242`) and may return too few predicates. A path is a round of SELECTs per step over the frontier
(`PathStep`, `PathGather`), refused when it needs more variables than SQLite has. `PruneTool` and `PruneApply` are `cmd/prune`:
a preview of four SELECTs, and the DELETE. `since[p]` is history. Left out: the limit and the numbering of nodes in `Shape`.

### Schema

`disk[f]` is a file (its tables, its indexes and its version row), `lasting[f]` what a power loss may leave of it, `opener[p]` the `Open` call of a process:
the partitions of its configuration it has opened and the statements of `migrate` it still has to run. `db.Exec` of a script runs its statements one by
one, each in a transaction of its own, so every `CREATE` is a step and any of them may be the last. Files start empty, newer than the code,
with a version that is not a number, or marked current without the indexes that a bulk load dropped and, after a crash or a `Close` that failed, did not
create again (`bulk.go:254-256`); files of version 0 with any part of the schema come about on the way. No store is in a bulk load meanwhile: an `Open` in another process
would create the indexes that the load has dropped, and the load would drop them again.

### SqliteBulk

*State.* `db[p]` is a partition's file as this component sees it: quads, secondary indexes, journal mode. `pool[p]` is
the `database/sql` pool: its open connections with the `synchronous` setting of each, and the idle ones, of which
the one given back last is taken next and at most two are kept. `loader[p]` is the `BulkLoader` that has the
slot, with `todo` the statements it still has to run. `given`, `promised` and `told` are history: what it was given,
what its successful `Close` promised, and whether its caller was told of an error.

*Steps.* `enterBulkMode`, `flushBuf` and `exitBulkMode` are lists of statements, and each statement is a step
(`Succeed`, `Fail`) on the connection the pool hands out at that moment; `Borrow` and `GiveBack` are the other users of
the store. A statement can fail alone, or all of them after a cancellation. SQLite leaves WAL mode only for
the sole connection of a file (`Allowed`), and a new connection asks for WAL again. `Reopen` is a process that dies between any
two statements: `migrate` then creates the missing indexes. Left out: `cache_size` and `temp_store`, which the code sets and
never sets back, `Stats`, and damage to the file by a power loss under `synchronous=OFF`, which the code accepts by design.

*Fairness.* A statement ends (`WF`), and an owner closes its loader if it can again and again (`SF`), as the comment on
`BulkLoader` asks.

### Migrate

*State.* `src` is the source, written to at any time (`SourceWrite`), `audit[p]` the commits and operations of a destination
partition (a bag: `commit_ops` has no key), `job` the run: what it still has to open and scan, and the `rows` of its current SELECT,
which SQLite takes from one moment of the file. `snapshot` runs read what the source was at the start (`base`).

*Steps.* Opening each loader, the SELECT on quads, a row into a loader, the Flushes, the SELECT on commits, the
transaction of each partition with its commits, the SELECT on operations, each partition's transaction with them, the
error returns (`Abort`), the deferred Closes, whose errors are dropped, and the removal of the snapshot. In between the
loaders run as in `SqliteBulk`. `Die` can come anywhere and a next run start over what is left. A write to the source while the job reads
nothing has the effect it would have just before the next SELECT, so `SourceWrite` is enabled at the SELECTs only.

### PebbleCopy

The tool's phases: the baseline of the source (two SELECTs), the copy (one SELECT, rows into a buffer, a flush whenever it is full, an
error path at any row), the comparison of totals, subjects and predicates, and a sample of subjects. The source may be written to (`OtherWrites`),
the destination may hold what an earlier run left, and `Damage` is what the tool is there to find.

### IndexTool

One action per stage of `main`, and one per selection of a greedy reduction. `stored` is what the stages exchange: each writes its signals as one batch
(`AddBatch`, atomic), which may fail (`MaxErrors` of them in one run); then `main` prints the error and goes on, and a later stage reads zeroes. Texts, prompts and
scores are data: `Foreground`, `WeightChoice` and `about` stand for what they may be. `Lookups` keeps the map that gives a term's foregroundness to one of the entries of that
term. Stages that only print, or write what none of these reads, are left out.

### Clusters

`parent` is the union-find of `clusterPages`, with path compression; the similar pairs come in any order. Similarity is a choice among the pairs that have a
word in common after the document-frequency filter, for the cosine of others is zero. `sortInts` is the list of a group that `sort.Ints` leaves, and `formatPageList` its runs of
consecutive pages.

### IngestPipeline

The caller sends `input` and closes the channel; it may cancel at any time, and after that
may go silent (stop sending without closing, as in the package's own cancellation
test). The forwarding goroutine of `pebble_store.go` is `fwd`, with `held` the quad it has received and not yet
sent. The call reads, flushes chunks into `runs`, ingests and counts. An unbuffered channel is one
whose send needs a waiting receiver (`Room`). `select` is nondeterministic between
what is ready: `ReadCancelled` and `ReadQuad`/`ReadEnd` are enabled together. `forwarded = FALSE`
is the internal method, which reads the caller's channel directly. Any file operation may fail.

Fairness (`MergeRuns` likewise has weak fairness of the merge's own work, and no failure is owed to
it): weak fairness of the caller's sends, of the goroutine and of the call: the Go scheduler
runs what can run. Nothing makes a caller cancel.

### MergeRuns

Keys are numbers, for the merge only compares them. `at[r]` is the key reader `r` stands on,
`heap` the readers pushed into the heap; `heap.Pop` yields a reader with a least key, any one if there
are several. `dedupSorted` and `InMemory` are the other ingest path, `IngestSorted`, which sorts and
dedups in memory; the merge is checked against it. `sortByteSlices` is what `sort.Slice` leaves of a list.

## Runs

| Run | Checks | Instance |
|---|---|---|
| `pebble_all` | `KeyspacesAgree`, `SyncedWritesSurvive`, `ImplementsQuadGraph` | two goroutines, two statements, one label; every kind of write, no discipline; two writes |
| `pebble_counters` | `CountersExact` | all kinds of writes, two labels, careful callers, paused rebuilds; three writes |
| `pebble_reads` | `TypeOK`, `LabelsEnforced`, `JournalReplays`, `ReadsOfAMoment`, `JournalOfAMoment`, `BackupWhole` | one reader, two goroutines with a statement of their own each; fields and labels of which one is the beginning of another; batches that add, move (with an operation number of two bytes, the uvarint taken to base 2), cancel out, or are invalid, and invalid ingests; three writes; crashes |
| `pipeline_all` | `WholeOrNothing`, `BoundedMemory`, `CallReturns`, `CancelFreesForwarder` | six inputs of up to five quads (empty, duplicates in and across chunks, an empty field or a bad label after a run is written), chunks of two, capacities 0 to 2, both methods, three default labels |
| `sqlite_all` | `OneWriterPerPartition`, `RightPartition`, `JournalWhole`, `ImplementsQuadGraph` | two goroutines (symmetric), two partitions and a router that answers with an unknown name for some labels; batches with own and default labels, unaudited, crossing partitions or invalid; the older calls, one of which fails half-way; prunes; two writes, two seconds |
| `sqlite_journal` | `JournalReplays`, `WaitingEnds` | three goroutines, one file, audited batches on the same two quads; three commits |
| `bulk_all` | `NothingLost`, `IndexesBack`, `SlotComesBack` | one partition of two loaded, two connections, rows per INSERT two, three adds, two loaders; any statement may fail |
| `migrate_all` | `CopyComplete`, `AuditTrailWhole` | two partitions, a router that knows a third; two writes to the source out of five kinds, two runs, each full or incremental, with or without audit trail and snapshot; reads of a setting and INSERTs may fail, and every statement of the job itself |
| `merge_all` | `TypeOK`, `TableIncreases`, `TableComplete`, `AgreesWithInMemory`, `MergeEnds` | all sequences of up to three sorted runs of up to three keys out of three |
| `sqlite_sessions` | `ScopedReadsComplete`, `TotalsConsistent`, `PathMeaning`, `PreviewHolds`, `OpenedWhole`, `CurveReachesAll`, `GreedyNearBest`, `RemovedWithCause`, `ClustersExact`, `CopyVerified` | five machines, see below |

`sqlite_sessions` holds five machines that share no state: `SessionNext` lets one move while the others rest in their initial
states, so its states are the sum of theirs and each is explored in full. `SqliteReads`: one reader and one writing goroutine, two partitions with an edge
from one to the other, reads by label, by predicate and by a subject that the pattern router knows the partition of, two writes, two seconds, three variables per statement. `Schema`: two processes, two files (one empty, newer, with a bad version or without the indexes of a bulk load; the other without these),
seven configurations (one partition, two, names twice or empty, no default, no router, none). `IndexTool`: three entries, two of one term, on any subsets of four pages (page 0 among
them); the limits are scaled to them: a book of 12 pages for 68, two subsuming terms for 5 (single words), two others per page for 50. An entry can be dropped for having
no page, too many pages, too many others on them, a subsumed single word, or no aboutness; the tests on long, broad and dismissed terms, which compare constants,
drop nobody here; any two batches of signals may be lost. `Clusters`: six pages, two texts: two topics apart, and with pages of both. `PebbleCopy`: two subjects with two quads each, flushes of two
rows for 500, a sample of two, one write to the source.

Why the bounds are enough. Interference on the store is between two writes: a third goroutine
would do what one of the two can do after it returns. Two writes are the least that let one be
synced while the other is not, and a crash fall between; three let a rebuild, an ingest and a commit
follow each other, and let the journal hold an add, a move and a bystander. Two
statements let two goroutines touch the same or different quads. In the pipeline a chunk of
two with inputs of five gives two full runs and a partial one, and capacities 0, 1
and 2 with the goroutine's hand let every buffer be empty, full and in between. Three runs of
three keys contain every pattern of a duplicate inside a run, across two and across three. A reader needs one writer beside it: its iterators or SELECTs
fall before and after any of the writes. Two openers let one read a version that the other is about to change; with one file each would only wait. Six
pages hold two chains of three, so that two roots are united after compression.

The remaining runs each check one statement of a comment, a document or a test that the code
does not keep; TLC shows how:

| Run | The statement | What happens |
|---|---|---|
| `pipeline_truncates` | `ingest_sorted_external.go:77` reads "until the channel is closed"; its test: "returns ctx.Err() when the caller cancels mid-stream" | a cancelled public call may ingest part of the input and return nil: the goroutine closes the inner channel on cancellation and `select` may see that first |
| `bulk_settings` | `bulk.go:11`: "on Close the file returns to the library's defaults" | a reader that has a connection while the loader closes makes the restore run on another one; a pooled connection keeps `synchronous=OFF` although nothing failed and `Close` returned nil |

More divergences are plain from the code and have no run:

- `README.md:110`: "re-runs don't double-count on either backend"; Pebble's label counter counts every Add (its own
  comment, `labelcount.go:12`, says so).
- `README.md:79`: the label namespace is enforced at write time; `BulkLoader.Add` validates no label of its own, on
  either backend. `README.md:57`: the writer rejects a quad without a label; `validateLabel` (`store.go:174`) accepts it.
- `labelcount.go:122`: removes use the quad's own label; a removal of an unlabelled quad is charged to the batch's label.
- `ingest_sorted.go:67`: the counters are a fifth table of the same ingest; they are a second batch, and a crash in
  between leaves quads that are not counted (`CountersExact` allows for it).
- `ingest_sorted_external.go:77`: quads are read until the channel is closed; after an error nobody reads, and the
  forwarding goroutine and the caller wait until the context is cancelled.
- `bulk.go:64`: `Close` restores PRAGMAs; `cache_size` and `temp_store` are never restored, and the indexes stay dropped
  (with an error) after a cancellation or when `enterBulkMode` fails half-way.
- `migrate.go:76`: `INSERT OR IGNORE` makes re-runs safe; `commit_ops` is copied with a plain `INSERT` (`migrate.go:380`) and
  doubles. `migrate.go:30`: `CopyCommits` defaults to true; its zero value is false and nothing sets it.
- `migrate.go:292`: a commit whose label routes to a partition the destination lacks is a nil dereference, where a
  quad gets `ErrUnknownPartition`.
- `labelcount.go:163`: deltas written during a rebuild "re-emerge"; the `DeleteRange` (`:199`) erases them, and the counter stays
  wrong. `CountersExact` is checked with calls held back during a rebuild.
- `cmd/ingest-index/main.go:400` writes the predicate `see_also`; `topology.go:182`, `:291`, `:482` and `signals.go:71` look for `see-also`.
- `cmd/ingest-index`: when the page text cannot be stored, `main` prints the error and the subtraction, finding no aboutness, drops every
  entry that has pages (`RemovedWithCause` says so). `greedy.go:114` prints the covered entries as "Entries with pages".
- `background.go:289`: one half is the "default for entries without computed fg"; a term on every page has computed foregroundness 0 and
  is given one half too (`:292`).
- `cmd/observe/cluster.go:202`: words "shared by >50% of pages"; the threshold is half of them, rounded down (`:219`).
- `schema.go:45`: a file newer than the library is refused; the base tables are created in it first (`:20`).
- `pebble_store.go:389`: `CopyAudit` copies the trail; there is no such option. `:416` divides by `ProgressEvery`, which is zero unless set.
- `quadstore.go:242`: `Stats` does not look at `rows.Err`, and may report too few predicates without an error.
- `pebble_store.go:81-83`: the checkpoint is "point-in-time at the moment Checkpoint returns" (`internal/pebbleq/store.go:163-164` likewise); the log is copied
  without a flush, so writes acknowledged without a sync before the call may be missing (`BackupWhole` promises what was synced, and whole writes).
- `internal/pebbleq/store.go:726`: `LabelCounts` "returns the count of quads per label"; the iterator that counts a label is never asked for its error
  (`:766-769`), so a scan that fails half-way gives too small a number and a nil error. `ReadsOfAMoment` only bounds such a number.
- `internal/pebbleq/store.go:419-431`: the number of an operation in its key is a little-endian uvarint, whose bytes are in another order than the numbers from 129 operations of a
  commit on. Nothing in the code reads the operations in order; `JournalReplays` is about a reader who decodes the numbers and sorts by them.
- Two `PartitionSpec`s may name one file under two names; then it has two writer slots (`partitioned.go`).

Reading the properties. `KeyspacesAgree`: no crash or interleaving leaves a quad in some keyspaces
only, so `Find` gives one answer whichever it picks. `SyncedWritesSurvive`: what was reported durable is in every world.
`LabelsEnforced`: with Writers and `IngestSorted` only (a BulkLoader enforces nothing).
`ReadsOfAMoment`: each number and each result set is that of one moment of the call, whichever keyspace is scanned and whatever fields begin alike;
the numbers of one `LabelCounts` or `Stats` may be of different moments, and a label whose own scan fails gets no more than it had. `JournalOfAMoment`: the two walks of `CommitStatsAt` agree on the old commits and their operations,
for ids grow, nothing prunes this store, and an operation's commit is what is before the first separator of its key, though a digit of its number may look like one. `BackupWhole`: a checkpoint holds what was promised when it began, and whole writes only; later ones it may lack.
`JournalReplays` (of `PebbleStore`): replaying `commit_ops` in the order of commit ids and decoded operation numbers gives the stored quads in every world,
when every write is audited and no two goroutines write the same statement; without the second condition
the order of the ids need not be the order in which the commits took effect. On SQLite the second condition is not needed: the id is drawn by whoever has the slot (`SqliteWriter`'s `JournalReplays`), as long as one process writes the file: the slot is a channel of a process, and a second process on the file (`partitioned.go:197-202`) is not modelled.
`JournalWhole`: a commit row has all of its batch's operations, or none if it is older than a prune, in every world.
`OneWriterPerPartition`: token and open Writer go together, through every mix of waiting, giving up, closing and crashing.
`RightPartition`: no quad is in a file that reads for its label do not go to.
`NothingLost`: what a loader was given is in the file or, in order, still in its buffer, through failed flushes and the retry in `Close`, and the buffer never outgrows its INSERT.
`IndexesBack`: an index is missing only while a loader is open or after an error its caller was told of.
`CopyComplete`: what a migration that returned nil has copied, when its source stood still or was a snapshot.
`AuditTrailWhole`: the rows of one commit are in one partition, operations never without their commit, in every state; and a first run that returned nil
has copied each of them once (a second run has not, see above).
`ScopedReadsComplete`: a read that is routed to one partition leaves out none that has a match, whoever wrote it. `TotalsConsistent`: sums over partitions that are read one after
another, of numbers each of which its partition had at one moment of the call. `PathMeaning`: a path finds what edges that stayed lead to, and nothing without a chain of edges that were there at some moment. `PreviewHolds`: `cmd/prune`
deletes at least what it announced.
`OpenedWhole`: no crash, failure or second opener leaves a file marked current without anything but the indexes a bulk load had dropped, and an open store stands on files with every table and every
index, those that had been left dropped included.
`CurveReachesAll`, `GreedyNearBest`: each reduction ranks by falling gain, counts a page once, covers all; the first k entries are within 1 - (1 - 1/k)^k of
the best k. `RemovedWithCause`: which entries survive, with all signals stored and with some lost. `ClustersExact`: roots are the classes of the chains of pairs (assuming that no two files carry one page number).
`CopyVerified`: what `MigrateToPebble` leaves, on success and on error, and that the comparison passes no damaged copy when the sample drew every subject.
`ImplementsQuadGraph` (both backends): a write that returned nil was applied once and whole, one that returned an error not at all.
`CountersExact`: counters plus ingested-but-uncounted quads
equal the LSP keyspace. `WholeOrNothing`: a call that returned nil ingested all of the input, or after a cancellation a
prefix; one that failed ingested nothing. `BoundedMemory`: back-pressure reaches the caller.
`AgreesWithInMemory`: both ingest paths build one table and report the same number of duplicates.

## Proofs

TLAPS proves, for any sets of goroutines, partitions, statements and labels, any batches, inputs and routers, and any bounds:

| Theorem | States |
|---|---|
| `PebbleStoreProofs!TypeCorrect` | `Spec => []TypeOK` |
| `PebbleStoreProofs!KeyspacesAlwaysAgree` | `Spec => []KeyspacesAgree` |
| `PebbleStoreProofs!AcknowledgedWritesSurvive` | `Spec => []SyncedWritesSurvive` |
| `PebbleStoreProofs!StoreImplementsQuadGraph` | `Spec => ImplementsQuadGraph` |
| `PebbleStoreProofs!LabelsAlwaysEnforced` | `Spec => []LabelsEnforced`, if `"loader"` is not in `Kinds` |
| `PebbleStoreProofs!JournalAlwaysReplays` | `Spec => []JournalReplays`, if `OneOwner` and `AllJournalled` |
| `PebbleStoreProofs!CountersAlwaysExact` | `Spec => []CountersExact`, if `CountedUsage` |
| `PebbleReadsProofs!JournalAlwaysClosed` | `Spec => []JournalClosed` (no operation without its commit row, in any world) |
| `PebbleReadsProofs!CheckpointsAreWhole` | `RSpec => []BackupWhole` |
| `PebbleReadsProofs!FindsAreExact` | `RSpec => []FindExact`, if `Encodable` |
| `PebbleReadsProofs!LabelCountsAreExact` | `RSpec => []LabelCountsExact`, if `Encodable` |
| `PebbleReadsProofs!StatsAreExact` | `RSpec => []StatsExact`, if `Encodable` |
| `PebbleReadsProofs!CountsAreExact` | `RSpec => []CountExact`, if `Encodable`, `LabelPatterns`, `CountedUsage` and `NoImports` |
| `PebbleReadsProofs!ReadsAlwaysOfAMoment` | `RSpec => []ReadsOfAMoment`, under the same conditions |
| `PebbleReadsProofs!JournalStatsOfAMoment` | `RSpec => []JournalOfAMoment`, if `Encodable` |
| `SqliteWriterProofs!TypeCorrect` | `Spec => []TypeInv` |
| `SqliteWriterProofs!OneWriterAlways` | `Spec => []OneWriterPerPartition` |
| `SqliteWriterProofs!QuadsInTheirPartition` | `Spec => []RightPartition` |
| `SqliteWriterProofs!JournalAlwaysWhole` | `Spec => []JournalWhole` |
| `SqliteWriterProofs!SqliteImplementsQuadGraph` | `Spec => ImplementsQuadGraph` |
| `SqliteWriterProofs!JournalAlwaysReplays` | `Spec => []JournalReplays`, if `AuditedWritersOnly` |
| `SqliteReadsProofs!ReadsComplete` | `RSpec => []ScopedReadsComplete` |
| `SqliteReadsProofs!TotalsAlwaysConsistent` | `RSpec => []TotalsConsistent` |
| `SqliteReadsProofs!PathsMeanWhatTheySay` | `RSpec => []PathMeaning` |
| `SqliteReadsProofs!PreviewsHold` | `RSpec => []PreviewHolds`, if `~Prune` |
| `MigrateProofs!LoadersLoseNothing` | `SqliteBulk`: `Spec => []NothingLost` |
| `MigrateProofs!IndexesAlwaysBack` | `SqliteBulk`: `Spec => []IndexesBack` |
| `MigrateProofs!CopyAlwaysComplete` | `MSpec => []CopyComplete` |
| `MigrateProofs!AuditTrailAlwaysWhole` | `MSpec => []AuditTrailWhole` |
| `IngestPipelineProofs!PipelineTypeCorrect` | `Spec => []TypeInv` |
| `IngestPipelineProofs!ImportsWholeOrNothing` | `Spec => []WholeOrNothing` |
| `IngestPipelineProofs!MemoryAlwaysBounded` | `Spec => []BoundedMemory` |
| `SessionProofs!MergeTypeCorrect` | `MergeRuns`: `Spec => []TypeOK` |
| `SessionProofs!TableAlwaysIncreases` | `MergeRuns`: `Spec => []TableIncreases` |
| `SessionProofs!TableAlwaysComplete` | `MergeRuns`: `Spec => []TableComplete` |
| `SessionProofs!MergeAlwaysAgrees` | `MergeRuns`: `Spec => []AgreesWithInMemory` |
| `SessionProofs!OpenedAlwaysWhole` | `OpenSpec => []OpenedWhole` |
| `SessionProofs!CopyAlwaysVerified` | `CopySpec => []CopyVerified` |
| `SessionProofs!RemovedAlwaysWithCause` | `IndexSpec => []RemovedWithCause` |
| `SessionProofs!CurveAlwaysReachesAll` | `IndexSpec => []CurveReachesAll` |
| `SessionProofs!GreedyAlwaysNearBest` | `IndexSpec => []GreedyNearBest` |
| `SessionProofs!ClustersAlwaysExact` | `ClusterSpec => []ClustersExact` |

Assumptions: `ConstantsAssumption` (the set of quads is finite, so that the counts are
numbers; batches are batches), the `ReadsAssumption` of `PebbleReads` (patterns are patterns, a cutoff is a number, a uvarint has a base of two at least), that of `SqliteReads` (the partitions are listed once each, as
`ErrDuplicatePartition` makes sure, `partitioned.go:149`; a pattern router names a partition only if every quad the callers write that matches goes there; the steps of a path are of the four kinds there are), `MergeAssumption` (keys are numbers, runs are sorted),
`RoutingAssumption`, `SqliteAssumption`, `BulkAssumption`, `MigrateAssumption` and `PipelineAssumption` (what the constants are; two connections at least;
the older calls have neither label nor trail; the empty name names no partition), `SchemaAssumption` (a file that is there before the run is one the
library left: marked with the current version only if it has everything but, perhaps, the indexes a bulk load drops; a configuration names files), `CopyAssumption`, `ClustersAssumption` and
`IndexAssumption` (quads, entries and pages are finite, page numbers numbers, limits positive; so are the weights, which `weighted.go` keeps from zero by an epsilon; foregroundness counts quarters).
`~Prune`, for `PreviewsHold`: nobody else prunes between the preview and the DELETE, as in `Sessions.cfg`; with two prunes at once the later one finds fewer rows than it announced. `AuditedWritersOnly`: no older calls, no prune, every batch audited,
as in the run `sqlite_journal`; an unaudited write is not in the journal, so without it there is nothing to replay. For Pebble `AllJournalled` says the
same (no loader, and validation refuses every ingest), and `OneOwner` that each statement has one goroutine that writes it: without a lock, two commits on one quad may be applied
against the order of their ids. `CountedUsage` is what the comments of `labelcount.go` ask of the callers, who add only what is not there, remove only
what is there (`Careful`) and hold calls back during a rebuild (`PauseForRebuild`), and one owner per statement; and that a batch with a label removes no unlabelled quad,
for `labelcount.go:122` charges that removal to the batch's label though the quad that goes has none. The run `pebble_reads` satisfies `AllJournalled`, `OneOwner` and `CountedUsage`; `pebble_counters` satisfies the last with every kind of write.
What reads answer depends on three more, which `pebble_reads` satisfies too. `Encodable`: no field holds the separator, as `encodeKey` asks of its callers (`internal/pebbleq/store.go:190-192`).
`LabelPatterns`: a label counted alone is one the constants name, whether it is stored or not. `NoImports`: validation refuses every import,
for `IngestSorted` adds its counters after its rows can be read, and `Count` of a label reports in between what it was before.

### The arguments

*`PebbleStore`.* `TypeOK` is not inductive: what a goroutine applies must be the batch it
validated and the id it drew, which `Midway` adds. The next three theorems rest on one lemma,
`NextIsStoreStep`: whoever steps, the contents and the commits in flight change in one of a few ways (`StoreStep`). For the keyspaces,
`HeldAfterWrite` shows that setting and deleting the four keys of whole quads changes every keyspace alike. The same
lemma gives the refinement: each of them is a step of `QuadGraph` under the mapping that reads the SPO keyspace of every world and the batch of every goroutine about to apply one.
Durability needs `InFlight`: a goroutine about to report success has its writes in `db`,
so the sync that follows leaves only worlds that contain them; and no step but a crash takes a
write away (`AppliedGrows`), while a crash ends all goroutines.
Labels need `ValidatedWork`: what a goroutine is about to apply is a batch that passed validation; a BulkLoader validates nothing, hence the condition.

The replay needs `JournalInv`: what the journal has about the statements of a commit in flight has smaller ids, because one goroutine writes them all, so applying the commit adds to the
end of what a replay does to them (`CommitReplays`); and a world that a crash may leave is replayed like the one in memory.
The counters need `CountInv`: the batch that a goroutine has validated is still new to the stored quads, or names what is still there, when it is applied, since nobody else touches its statements;
a loader's deltas are the cardinalities of its buffer; and between the scan of a rebuild and the replacement nobody else is in a call. One lemma for each kind of write adds up the
cardinalities, label by label.

*`PebbleReads`.* A behaviour with a reader is one of the store without it (`ReaderLeavesWriters`), so the theorems above hold in it; the copy is one of the worlds,
and what was promised when the call began is still promised when the copy is taken (`BackupInv`).
What reads answer is proved from the bytes up. `SplitN` recovers four fields without separators from a key (`FourFields`), so each of the four keys of a quad stands for that quad alone
(`KeyStandsForQuad`), the keys between a prefix and its upper bound are those that begin with it (`RangeOfPrefix`), and a scan finds the keys of the
quads of one keyspace under a prefix (`ScanOfKeyspace`); whichever prefix `Find` picks, every match is under it (`MatchesAreInScan`). `MomentInv` says of the steps of a call what all
four reads need: the contents its iterators were opened on are among those of the call, and in each of these the keyspaces agree.
For `LabelCounts`, `Walked` is the invariant of the loop over labels: what was found is behind the iterator, each label once, and nothing that the snapshot
has behind it is left out; it needs that the order of keys is total and that only the keys of one label begin with it.
For `CommitStatsAt`, `RowsInv` says that a commit in flight has an id nobody else has, so between the two scans the journal grows by operations of commits that
the first scan did not see (`Grown`), which the count of old operations leaves out (`OldOps`); that no two operations have one key is the injectivity of `uvarint`.

*`SqliteReads`.* The invariants of `SqliteWriter` that say what is in a file hold beside a reader as well; `FewInv` adds that files stay finite, so that counts are numbers, and hold only what callers write, and `JournalGrows`
that the image of a transaction has at least the journal of its file. `CallInv` follows a call: the SELECTs still to come are the end of what the call's kind asks for (`Remains` of `SelectsOf`), and each one answered
gave what some contents of its file since the call began have (`GotSoFar`, `Answers`). Completeness of a scoped read is then that every file a pattern routes away from holds nothing that
matches (`ScopeOfPattern`, from the routing of writes). For the totals, the labels of one file add up to its quads (`LabelsAddUp`). For the preview, what may be pruned before a cutoff only grows
(`EligibleGrows`), because nobody takes rows of the journal away in between.
A path needs more (`PathInv`): the frontier lists, each once, nodes to which a chain of edges leads, one per step done; the edges are among those that some file had at some moment of the call
(`Ever`), and every node that edges present throughout (`Always`) lead to is in it. `Gathered` and `Deduped` are folds; `GatheredLists` and `DedupedLists` say
what they list, and `ReachedIsReachable` that the recursive reference definition is the existence of such a chain.

*`MergeRuns`.* The order needs `NothingSmaller`: no key left in a run is below the last one written, since
the heap yields the least of the current keys and runs are sorted; completeness needs
`Passed`: every key a reader has passed is in the table. The agreement with the in-memory path needs, further, that the keys read are the keys written and the keys dropped (`CountInv`). That
path sorts the flattened runs and drops repeated keys, a fold that lists the keys of a sorted list each once, in increasing order (`DedupLists`); and an increasing list is determined
by its keys, so the two tables are one.

*`SqliteWriter`.* One Writer per partition needs to know where the waiting goroutines are (`SlotInv`: who waits or writes is in the queue of the
partition it asked for). The rest is about a file and the transactions on it. `TxInv`: a call in a transaction has an id of its own and passed the routing check, and one call
at most has the write lock of a file. From that, `ImageInv`: the image of a transaction is the file as it is plus its statements so far,
because nobody else can have changed the file. `JournalInv` says how much of a commit is in an image and in a published file, with what a prune may have
taken. A commit is then a step of `QuadGraph` that applies the whole batch. The replay needs the order (`ReplayInv`): the last id drawn in a file belongs to who has its slot.

*`SqliteBulk`.* `LoaderInv` says for each mode of a loader which statements it may still have. Two parts carry the theorems: `Split`, that
what was given is a beginning that is in the file and the buffer, in order; and that a loader that closes without an error so far has the INSERT of what
is buffered first on its list, and a `CREATE INDEX` on it for every index that is missing. A failed statement either sets the error or leaves the list.

*`Migrate`.* The loaders of a job keep `BulkInv`, whatever they do (`RunMoves`: a step of a loader neither loses a quad nor adds one that was not buffered).
`ContentInv`: file and buffer of a loader are what was there before the job and what the job gave it. `StreamInv`: what has been read of the source
is what was given or is still in the current SELECT. Both become `DoneInv` when the last buffer is flushed (`Flushed`), and nothing changes the quads after that, for the buffers stay
empty. The trail needs that ids are drawn once (`SourceInv`), so that commits that share an id are one and live in one source partition; then the
operations of two groups are never the same (`OneCommit`), and putting them into the bag of a partition counts each once (`BagOfUnion`). `TrailInv` adds up
the source partitions that were read. `partFor`, which reads use, and `Target`, which `Migrate` uses, differ on unknown names only, and a job that meets one fails (`KnownTarget`).

*`Schema`.* `MarkedInv`: no file that a power loss may leave has the version row of the library without the rest, but for the indexes of a bulk load, since the row is written last by the statements each
opener still has to run (`OpeningInv`), and two openers only ever add objects. `OpeningInv` follows the scripts: an object of a script that is done with is in the file, the base script is run on
every file, whatever its version, and so an open store has the indexes again.

*`IngestPipeline`.* `StreamInv` follows the quads: runs, chunk, inner channel, the forwarder's hand and outer channel, put one after another, are the input so far, but
for one quad that a cancelled forwarder drops. `RoomInv` bounds each of them; the sum is `BoundedMemory`. `RunsInv` ties the counters of labels to the runs, and `ResultInv` what the call returned
to them.

*The programs.* For `cmd/pebble-correctness`, `CopyInv` says what the destination has at each phase and `ComparedInv` what each comparison that passed implies of the two stores. For
`cmd/ingest-index`, `SignalsInv` says which signals were stored or reported when a stage begins. `CurveInv` says where on its curve a greedy reduction stands: entries selected are covered, the gain of
what is left is at most that of the last pick, since gains fall as more is covered, and the new pages add up to the pages covered. `NearInv` is stated for every k, and not for the
number of picks alone, to be inductive: for any k and any k entries that cover `best` pages, after i picks `k^i * (best - covered) <= (k - 1)^i * best`. A step of it is the union bound: what the k entries have left to
cover is at most k times the gain of the best one, which is picked. `Power` is a recursive function, for the provers know nothing of `^`.
For `cmd/observe`, `ClusterInv` says that the parents are a forest, with a rank that falls towards the root: so `find` ends, and compression changes no answer of it (`CompressedFinds`), and hanging
a root under another joins their two trees and no others (`UnionFinds`). The trees are then the least sets that no pair united so far leaves (`LinksAll`), and so is `Linked`, whose fold
grows by a page at least in each turn until it is such a set (`LinkedLeast`). `sortIntsLists` and `RunsCover` say that the lists and the printed runs hold the pages of a group and no
others. A group holds a pair (`GroupHasPair`), whose common word is shared by enough pages of it if they are five at most (`PairShares`).

*`Induction`.* The provers cannot instantiate an induction rule over predicates. A set of numbers that is not empty has a least element, which is a fact about sets; from it follow that a
function defined by recursion exists and equals its definition (`RecursiveFunction`: every argument where it does not stop has a smaller next one), and, by the least counterexample, what
it computes. `SplitN` and `uvarint` are proved about in this way. The folds of the community modules are such functions too: `FoldGrows` turns `FoldLeft` over a sequence into a sequence of
its values, one per element, about which a proof can say what the first n elements made of it. The rest is what finite sets need: sums (`SumsAddUp`, `TotalOfPart`) and the size of a
union (`UnionBound`).

Every safety invariant that a run checks, and every refinement, is proved. Only model-checked are the liveness properties (`CallReturns`, `CancelFreesForwarder`, `WaitingEnds`, `SlotComesBack`,
`MergeEnds`), for fairness and `ENABLED` are out of the prover's reach, and the two runs that show a divergence. Where a theorem has a condition on the constants, the runs satisfy
it, and the text above says which usage of the library it stands for.

## Not modelled

Pebble's own machinery (compaction, block cache, the sstable format), SQLite's, file formats
and formatting. Statistics of failed calls. A log sync that fails: Pebble
treats it as fatal. `Writer.Commit` on a closed store and other misuse reported by plain error returns.
`Vacuum` and `VacuumFor`, which rewrite a file with the same contents. The type conversions of `pebble_store.go`. The values of commit
rows.

Of the programs: the analyses of `cmd/ingest-index` that only print, or write quads that none of the modelled stages reads (`topology.go`, prediction, structure, tuning), its
comparison with a human index and its DOCX parser; the HTML, statistics and verification of `cmd/observe`; the examples.
These are sequential computations over one snapshot, and what they owe their reader is wording and statistics rather than a
property over states.

## Plan

Every component of the library is modelled, but for what is named above, and every invariant is proved. What is left:

1. `CountExact` while imports are under way: between the numbers before and after each of them.
2. `PreviewHolds` with other prunes beside `cmd/prune`: what it deletes and what they deleted together are what it announced.
3. The stages of `cmd/ingest-index` that only print, should one of them begin to write signals that a later one reads.
