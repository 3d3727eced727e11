------------------------------- MODULE Schema -------------------------------
(***************************************************************************)
(* Opening SQLite stores: Open, OpenPartitioned and migrate (quadstore.go, *)
(* partitioned.go, schema.go), by several processes at once, statement by  *)
(* statement, over files of any age.                                       *)
(*                                                                         *)
(* db.Exec runs the statements of a schema script one by one, each in a    *)
(* transaction of its own; a power loss leaves a file as it was after some *)
(* earlier statement (WAL, synchronous=NORMAL).                            *)
(*                                                                         *)
(* No store is in a bulk load meanwhile (SqliteBulk); one that ended badly *)
(* before may have left its file without the indexes it drops.             *)
(***************************************************************************)
EXTENDS Naturals, Sequences, FiniteSets

CONSTANTS
  Opener,        \* processes
  DbFile,        \* database files
  DiskChoice,    \* DiskChoice[f]: what file f may hold before: [objects, version]
  ConfigChoice,  \* ConfigChoice[p]: [single, parts : Seq([name, file]), default, router]
  NoName,        \* the empty partition name
  Junk           \* a schema_version that is not a number

VARIABLES
  disk,    \* disk[f]: the tables and indexes of file f, and its schema_version
  lasting,  \* lasting[f]: what a power loss may leave of it
  opener   \* opener[p]: the Open call of process p, or the store it has

schemaVars == <<disk, lasting, opener>>

currentSchemaVersion == 2

\* Each CREATE of the scripts is a statement of its own.
BaseSchema    == <<"quads", "idx_spo", "idx_pos", "idx_osp", "idx_lsp", "meta">>
JournalSchema == <<"commits", "idx_commits_created", "commit_ops", "idx_commit_ops_commit",
                   "idx_commit_ops_quad">>

Objects(script) == {script[i] : i \in DOMAIN script}
AllObjects == Objects(BaseSchema) \cup Objects(JournalSchema)

\* What a bulk load drops.
BulkIndexes == {"idx_pos", "idx_osp", "idx_lsp"}

Whole(file) == file.version = currentSchemaVersion /\ AllObjects \subseteq file.objects

\* A file marked current has all the rest.
Marked(file) == file.version = currentSchemaVersion => AllObjects \ BulkIndexes \subseteq file.objects

\* Files come from earlier runs of the same code, the bulk loads that were cut
\* off included; Open is called with one path.
ASSUME SchemaAssumption ==
  /\ \A f \in DbFile : \A w \in DiskChoice[f] :
       /\ w \in [objects : SUBSET AllObjects, version : {Junk} \cup Nat]
       /\ Marked(w)
  /\ \A p \in Opener : \A cfg \in ConfigChoice[p] :
       /\ cfg.parts \in Seq([name : {cfg.parts[i].name : i \in DOMAIN cfg.parts}, file : DbFile])
       /\ cfg.single => Len(cfg.parts) = 1

\* What migrate runs first, and what it runs on a version below 2.
BaseScript == BaseSchema \o <<"readSchemaVersion">>

\* Mutated UpgradeScript: the version is written before the tables.
UpgradeMarkedFirst == <<"writeSchemaVersion">> \o JournalSchema

UpgradeScript == JournalSchema \o <<"writeSchemaVersion">>

Closed == [state |-> "closed", cfg |-> <<>>, parts |-> {}, todo |-> <<>>, at |-> 1]

OpenInit ==
  /\ disk \in {d \in [DbFile -> UNION {DiskChoice[f] : f \in DbFile}] :
                \A f \in DbFile : d[f] \in DiskChoice[f]}
  /\ lasting = [f \in DbFile |-> {disk[f]}]
  /\ opener = [p \in Opener |-> Closed]

UnchangedDisk == UNCHANGED <<disk, lasting>>

\* Every error path closes the connections opened so far.
GiveUp(p) == opener' = [opener EXCEPT ![p] = Closed]

\* No partitions, no router: refused before anything is opened.
CallOpen(p) ==
  /\ opener[p].state = "closed"
  /\ \E cfg \in ConfigChoice[p] :
       /\ cfg.single \/ (cfg.parts # <<>> /\ cfg.router)
       /\ opener' = [opener EXCEPT ![p] = [Closed EXCEPT !.state = "opening", !.cfg = cfg]]
  /\ UnchangedDisk

Opening(p, todo) == opener[p].state = "opening" /\ (opener[p].todo # <<>>) = todo

PartSpec(p) == opener[p].cfg.parts[opener[p].at]

\* The names of a partitioned store are distinct and not empty.
NameRefused(p) ==
  /\ ~opener[p].cfg.single
  /\ PartSpec(p).name = NoName \/ \E part \in opener[p].parts : part.name = PartSpec(p).name

\* openSQLite for the next partition of the list.
OpenPartition(p) ==
  /\ Opening(p, FALSE) /\ opener[p].at <= Len(opener[p].cfg.parts)
  /\ IF NameRefused(p) THEN GiveUp(p)
     ELSE opener' = [opener EXCEPT ![p].parts = @ \cup {PartSpec(p)}, ![p].todo = BaseScript]
  /\ UnchangedDisk

\* The rest of migrate's script is `todo'; without one, the next partition.
Proceed(p, todo) ==
  opener' = [opener EXCEPT ![p].todo = todo, ![p].at = IF todo = <<>> THEN @ + 1 ELSE @]

Change(f, new) ==
  /\ disk' = [disk EXCEPT ![f] = new]
  /\ lasting' = [lasting EXCEPT ![f] = @ \cup {new}]

\* CREATE TABLE IF NOT EXISTS, CREATE INDEX IF NOT EXISTS
Create(p) ==
  LET f == PartSpec(p).file
      object == Head(opener[p].todo)
  IN /\ Opening(p, TRUE) /\ object \in AllObjects
     /\ Change(f, [disk[f] EXCEPT !.objects = @ \cup {object}])
     /\ Proceed(p, Tail(opener[p].todo))

\* A file without the row is of version 0.
ReadSchemaVersion(p) ==
  /\ Opening(p, TRUE) /\ Head(opener[p].todo) = "readSchemaVersion"
  /\ LET version == disk[PartSpec(p).file].version
     IN IF version = Junk THEN GiveUp(p)
        ELSE IF version > currentSchemaVersion THEN GiveUp(p)
        ELSE Proceed(p, IF version < 2 THEN UpgradeScript ELSE <<>>)
  /\ UnchangedDisk

WriteSchemaVersion(p) ==
  LET f == PartSpec(p).file
  IN /\ Opening(p, TRUE) /\ Head(opener[p].todo) = "writeSchemaVersion"
     /\ Change(f, [disk[f] EXCEPT !.version = 2])
     /\ Proceed(p, Tail(opener[p].todo))

\* A statement fails, or the process dies; or the store is closed.
StatementFails(p) == Opening(p, TRUE) /\ GiveUp(p) /\ UnchangedDisk

CloseStore(p) == opener[p].state = "open" /\ GiveUp(p) /\ UnchangedDisk

\* The Default is looked up when all the partitions are open.
FinishOpen(p) ==
  /\ Opening(p, FALSE) /\ opener[p].at > Len(opener[p].cfg.parts)
  /\ IF opener[p].cfg.single \/ \E part \in opener[p].parts : part.name = opener[p].cfg.default
     THEN opener' = [opener EXCEPT ![p].state = "open"]
     ELSE GiveUp(p)
  /\ UnchangedDisk

PowerLoss ==
  /\ disk' \in {d \in [DbFile -> UNION {lasting[f] : f \in DbFile}] :
                 \A f \in DbFile : d[f] \in lasting[f]}
  /\ lasting' = [f \in DbFile |-> {disk'[f]}]
  /\ opener' = [p \in Opener |-> Closed]

OpenNext ==
  \/ \E p \in Opener :
       \/ CallOpen(p) \/ OpenPartition(p) \/ Create(p) \/ ReadSchemaVersion(p)
       \/ WriteSchemaVersion(p) \/ StatementFails(p) \/ FinishOpen(p) \/ CloseStore(p)
  \/ PowerLoss

OpenSpec == OpenInit /\ [][OpenNext]_schemaVars

----------------------------------------------------------------------------
(* Properties *)

\* Whatever process dies or fails wherever in a schema script, and whatever
\* others open meanwhile: a file marked with the current version lacks, before
\* and after a power loss, at most the indexes a bulk load drops; and a store
\* that is open has each partition of its configuration once, each on a file of
\* the current version, never a newer one, with every table and every index,
\* those a bulk load had left dropped included, and its default among them.
OpenedWhole ==
  /\ \A f \in DbFile : \A w \in lasting[f] : Marked(w)
  /\ \A p \in Opener : opener[p].state = "open" =>
       LET cfg == opener[p].cfg
       IN /\ \A part \in opener[p].parts : Whole(disk[part.file])
          /\ Cardinality({part.name : part \in opener[p].parts}) = Len(cfg.parts)
          /\ cfg.single \/ \E part \in opener[p].parts : part.name = cfg.default
=============================================================================
