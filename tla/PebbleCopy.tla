----------------------------- MODULE PebbleCopy -----------------------------
(***************************************************************************)
(* cmd/pebble-correctness: MigrateToPebble (pebble_store.go) copies a      *)
(* SQLite store into a Pebble store, and the tool compares the two, while  *)
(* others may write to the source.                                         *)
(*                                                                         *)
(* The label counters of the destination are not compared and not here;    *)
(* PebbleStore has them.                                                   *)
(***************************************************************************)
EXTENDS Naturals, FiniteSets

CONSTANTS
  CopyQuad,        \* quads
  SubjectOf,       \* SubjectOf[q]
  PredicateOf,     \* PredicateOf[q]
  HeldBefore,      \* what the destination may hold before, sets of quads
  BufferSize,      \* 500: rows per flush of the bulk loader
  SampleSize,      \* -sample
  MaxSourceWrites  \* bound: quads others add to or remove from the source

ASSUME CopyAssumption == IsFiniteSet(CopyQuad)

VARIABLES
  phase,      \* of the tool
  source,     \* quads of the SQLite store
  dest,       \* quads of the Pebble store
  found,      \* the source's baseline: [total, subjects, predicates]
  snapshot,   \* what the SELECT of the copy reads
  rows,       \* the rows of it still to come
  buffer,     \* quads added to the bulk loader and not flushed
  subjects,   \* those the sample draws from
  samples,    \* subjects compared so far
  mismatches, \* how many of them differed
  checked,    \* history: the subjects drawn
  before,     \* history: dest at the beginning
  damaged,    \* history: the destination lost or gained quads on the way
  writes      \* history: writes of others

loader   == <<snapshot, rows, buffer>>
sampling == <<subjects, samples, mismatches, checked>>
stores   == <<source, dest, before, damaged, writes>>
copyVars == <<phase, found, loader, sampling, stores>>

Subjects(quads)   == {SubjectOf[q] : q \in quads}
Predicates(quads) == {PredicateOf[q] : q \in quads}

CopyInit ==
  /\ phase = "idle"
  /\ source = {} /\ dest = {} /\ before = {} /\ damaged = FALSE /\ writes = 0
  /\ found = [total |-> 0, subjects |-> {}, predicates |-> {}]
  /\ snapshot = {} /\ rows = {} /\ buffer = {}
  /\ subjects = {} /\ samples = 0 /\ mismatches = 0 /\ checked = {}

\* The destination may hold what an earlier run left.
OpenBoth ==
  /\ phase = "idle" /\ phase' = "count"
  /\ source' \in SUBSET CopyQuad
  /\ dest' \in HeldBefore /\ before' = dest'
  /\ UNCHANGED <<found, loader, sampling, damaged, writes>>

\* summarize counts with one SELECT and scans with another.
CountSource ==
  /\ phase = "count" /\ phase' = "scan"
  /\ found' = [found EXCEPT !.total = Cardinality(source)]
  /\ UNCHANGED <<loader, sampling, stores>>

ScanSource ==
  /\ phase = "scan" /\ phase' = "migrate"
  /\ found' = [found EXCEPT !.subjects = Subjects(source), !.predicates = Predicates(source)]
  /\ UNCHANGED <<loader, sampling, stores>>

----------------------------------------------------------------------------
(* MigrateToPebble *)

\* One SELECT over the one file of the store.
BeginMigrate ==
  /\ phase = "migrate" /\ phase' = "copy"
  /\ snapshot' = source /\ rows' = source
  /\ UNCHANGED <<found, buffer, sampling, stores>>

Full(q) == Cardinality(buffer) + 1 >= BufferSize

CopyRow ==
  /\ phase = "copy"
  /\ \E q \in rows :
       /\ rows' = rows \ {q}
       /\ IF Full(q)
          THEN dest' = dest \cup buffer \cup {q} /\ buffer' = {}
          ELSE buffer' = buffer \cup {q} /\ UNCHANGED dest
  /\ UNCHANGED <<phase, source, found, snapshot, sampling, before, damaged, writes>>

\* A row cannot be read, added or flushed: the deferred Close flushes what is
\* buffered, if it can, and the tool stops.
MigrateFails ==
  /\ phase = "copy" /\ phase' = "stopped"
  /\ dest' \in {dest, dest \cup buffer} \cup {dest \cup buffer \cup {q} : q \in {r \in rows : Full(r)}}
  /\ rows' = {} /\ buffer' = {}
  /\ UNCHANGED <<source, found, snapshot, sampling, before, damaged, writes>>

CloseLoader ==
  /\ phase = "copy" /\ rows = {} /\ phase' = "compare"
  /\ dest' = dest \cup buffer /\ buffer' = {}
  /\ UNCHANGED <<source, found, snapshot, rows, sampling, before, damaged, writes>>

----------------------------------------------------------------------------
(* The comparison *)

\* (external) What the tool is there to find: a store that went wrong.
Damage ==
  /\ phase = "compare" /\ ~damaged /\ damaged' = TRUE
  /\ dest' \in SUBSET CopyQuad
  /\ UNCHANGED <<phase, source, found, loader, sampling, before, writes>>

compareBaselines ==
  /\ phase = "compare"
  /\ phase' = IF found = [total |-> Cardinality(dest), subjects |-> Subjects(dest),
                          predicates |-> Predicates(dest)]
              THEN "sample" ELSE "failed"
  /\ UNCHANGED <<found, loader, sampling, stores>>

\* The subjects as the source has them now.
ListSubjects ==
  /\ phase = "sample"
  /\ subjects' = Subjects(source)
  /\ phase' = IF Subjects(source) = {} THEN "passed" ELSE "sampling"
  /\ UNCHANGED <<found, loader, samples, mismatches, checked, stores>>

About(quads, s) == {q \in quads : SubjectOf[q] = s}

\* Mutated sameQuadSet: only as many quads.
sameCount(a, b) == Cardinality(a) = Cardinality(b)

sameQuadSet(a, b) == Cardinality(a) = Cardinality(b) /\ b \subseteq a

SampleSubject ==
  /\ phase = "sampling" /\ samples < SampleSize
  /\ samples' = samples + 1
  /\ \E s \in subjects :
       /\ checked' = checked \cup {s}
       /\ mismatches' = mismatches + IF sameQuadSet(About(source, s), About(dest, s)) THEN 0 ELSE 1
  /\ UNCHANGED <<phase, found, loader, subjects, stores>>

SampleEnds ==
  /\ phase = "sampling" /\ samples = SampleSize
  /\ phase' = IF mismatches = 0 THEN "passed" ELSE "failed"
  /\ UNCHANGED <<found, loader, sampling, stores>>

\* MigrateToPebble does not lock the source.
OtherWrites ==
  /\ phase \notin {"idle", "stopped", "passed", "failed"}
  /\ writes < MaxSourceWrites /\ writes' = writes + 1
  /\ \E q \in CopyQuad : source' = IF q \in source THEN source \ {q} ELSE source \cup {q}
  /\ UNCHANGED <<phase, dest, found, loader, sampling, before, damaged>>

CopyNext ==
  \/ OpenBoth \/ CountSource \/ ScanSource
  \/ BeginMigrate \/ CopyRow \/ MigrateFails \/ CloseLoader
  \/ Damage \/ compareBaselines \/ ListSubjects \/ SampleSubject \/ SampleEnds
  \/ OtherWrites

CopySpec == CopyInit /\ [][CopyNext]_copyVars

----------------------------------------------------------------------------
(* Properties *)

\* The copy adds the source as it was when its SELECT began, whole when
\* MigrateToPebble returns without an error and never more than that, whatever
\* is written meanwhile; and the tool passes a destination, however it went
\* wrong, only if it equals a source that nobody wrote to, provided the sample
\* drew every subject.
CopyVerified ==
  /\ phase = "compare" /\ ~damaged => dest = before \cup snapshot
  /\ phase \in {"copy", "stopped"} => before \subseteq dest /\ dest \subseteq before \cup snapshot
  /\ phase = "passed" /\ writes = 0 /\ Subjects(source) \subseteq checked => dest = source
=============================================================================
