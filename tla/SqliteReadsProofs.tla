------------------------- MODULE SqliteReadsProofs -------------------------
(* Theorems about SqliteReads, for every value of its constants. *)
EXTENDS SqliteReads, SqliteWriterProofs, Induction

----------------------------------------------------------------------------
(* The writers' invariant, next to a reader and the prune tool. *)

\* Only so many quads and operations, and no quad but those callers write.
Few(f) == IsFiniteSet(f.quads) /\ IsFiniteSet(f.ops) /\ f.quads \subseteq Written

FewInv ==
  /\ \A p \in Part : \A f \in worlds[p] : Few(f)
  /\ \A g \in Proc : call[g].locked => Few(call[g].image)

\* A transaction only adds to the journal of its file.
JournalGrows ==
  \A g \in Proc : LET c == call[g] IN c.locked =>
    file[at[g]].commits \subseteq c.image.commits /\ file[at[g]].ops \subseteq c.image.ops

StoreInv ==
  /\ SlotInv /\ TypeInv /\ TxInv /\ ImageInv /\ ChosenInv /\ RightPartition
  /\ FewInv /\ JournalGrows

\* A statement adds at most one quad and one operation, the quad one of its
\* batch, and takes none away from the journal.
LEMMA ExecutedFew ==
  ASSUME NEW f \in Contents, NEW c \in Call, NEW now, NEW k \in DOMAIN Jobs(c.batch),
         c.batch \in AskedFor, Jobs(c.batch)[k].do = "add" => Jobs(c.batch)[k].quad.stmt # EmptyStmt
  PROVE  LET e == Executed(f, c, Jobs(c.batch)[k], now) IN
         /\ f.commits \subseteq e.commits /\ f.ops \subseteq e.ops
         /\ Few(f) => Few(e)
<1> DEFINE job == Jobs(c.batch)[k]
           e == Executed(f, c, job, now)
<1>1. job.do \in {"commit", "add", "remove"}
  BY JobKinds DEF Call
<1>2. f \in [quads : SUBSET Quad, commits : SUBSET [id : Nat, at : Nat], ops : SUBSET OpRow]
  BY DEF Contents
<1>3. IsFiniteSet(OpOf(c, job))
  BY FS_EmptySet, FS_Singleton DEF OpOf
<1>7. job.do = "add" => job.quad \in Written
  <2> SUFFICES ASSUME job.do = "add" PROVE job.quad \in Written
    OBVIOUS
  <2>1. c.batch \in Batch
    BY DEF Call
  <2>2. PICK i \in DOMAIN c.batch.adds : job.quad = Effective(c.batch.adds[i], c.batch.label)
    BY <2>1, JobKinds
  <2>3. job.quad \in Wanted(c.batch).adds /\ job.quad.stmt # EmptyStmt
    BY <2>2 DEF Wanted
  <2> QED
    BY <2>3 DEF Written, AskedFor
<1> SUFFICES f.commits \subseteq e.commits /\ f.ops \subseteq e.ops /\ (Few(f) => Few(e))
  OBVIOUS
<1> HIDE DEF job
<1>4. CASE job.do = "commit"
  <2>1. e.quads = f.quads /\ e.ops = f.ops /\ f.commits \subseteq e.commits
    BY <1>2, <1>4 DEF Executed
  <2> HIDE DEF e
  <2> QED
    BY <2>1 DEF Few
<1>5. CASE job.do = "add"
  <2>1. e.quads = f.quads \cup {job.quad} /\ e.ops = f.ops \cup OpOf(c, job) /\ e.commits = f.commits
    BY <1>2, <1>5 DEF Executed
  <2> HIDE DEF e
  <2>2. IsFiniteSet({job.quad})
    BY FS_Singleton
  <2>3. f.quads \subseteq Written => e.quads \subseteq Written
    BY <1>5, <1>7, <2>1
  <2> QED
    <3>1. IsFiniteSet(f.quads) /\ IsFiniteSet(f.ops) => IsFiniteSet(f.quads \cup {job.quad})
      BY <2>2, FS_Union
    <3>2. IsFiniteSet(f.ops) => IsFiniteSet(f.ops \cup OpOf(c, job))
      BY <1>3, FS_Union
    <3> QED
      BY <2>1, <2>3, <3>1, <3>2 DEF Few
<1>6. CASE job.do = "remove"
  <2>1. e.quads = f.quads \ {job.quad} /\ e.ops = f.ops \cup OpOf(c, job) /\ e.commits = f.commits
    BY <1>2, <1>6 DEF Executed
  <2> HIDE DEF e
  <2> QED
    BY <1>3, <2>1, FS_Subset, FS_Union DEF Few
<1> QED
  BY <1>1, <1>4, <1>5, <1>6 DEF job

\* A prune takes operations away and leaves the rest of a file alone.
LEMMA PrunedFew ==
  ASSUME NEW f \in Contents, NEW before
  PROVE  /\ Pruned(f, before).quads = f.quads /\ Pruned(f, before).commits = f.commits
         /\ Pruned(f, before).ops \subseteq f.ops
         /\ Few(f) => Few(Pruned(f, before))
<1>1. /\ Pruned(f, before).quads = f.quads /\ Pruned(f, before).commits = f.commits
      /\ Pruned(f, before).ops \subseteq f.ops
  BY DEF Pruned, Contents
<1> QED
  BY <1>1, FS_Subset DEF Few

\* At first there is little, and nothing to compare.
LEMMA FewAtFirst == Init => FewInv /\ JournalGrows
<1> SUFFICES ASSUME Init PROVE FewInv /\ JournalGrows
  OBVIOUS
<1>1. \A g \in Proc : ~call[g].locked
  BY NoCallIsIdle DEF Init
<1>2. Few(EmptyFile)
  BY FS_EmptySet DEF Few, EmptyFile
<1>3. \A p \in Part : worlds[p] = {EmptyFile}
  BY DEF Init
<1> QED
  BY <1>1, <1>2, <1>3 DEF FewInv, JournalGrows

\* No step of a goroutine writes more than it could.
LEMMA StepKeepsFew ==
  ASSUME SlotInv, TypeInv, TxInv, ChosenInv, FewInv, JournalGrows, NEW g \in Proc, Step(g)
  PROVE  FewInv' /\ JournalGrows'
<1>0. SlotTypes
  BY DEF SlotInv
<1>1. ASSUME NEW p \in Part, NEW f \in worlds'[p]
      PROVE  Few(f)
  <2>1. CASE f \in worlds[p]
    BY <2>1 DEF FewInv
  <2>2. CASE call[g].locked /\ f = call[g].image
    BY <2>2 DEF FewInv
  <2>3. CASE \E before \in Second : f = Pruned(file[p], before)
    BY <2>3, PrunedFew DEF FewInv, TypeInv
  <2> QED
    BY <1>0, <2>1, <2>2, <2>3, WhatIsPublished
<1>2. ASSUME NEW h \in Proc, call'[h].locked
      PROVE  /\ Few(call'[h].image)
             /\ file'[at'[h]].commits \subseteq call'[h].image.commits
             /\ file'[at'[h]].ops \subseteq call'[h].image.ops
  <2>1. /\ at'[h] = at[h] /\ file'[at[h]] = file[at[h]]
        /\ (h = g /\ \E now \in Second : Execute(g, now)) \/ call'[h] = call[h]
    BY <1>0, <1>2, OthersUntouched
  <2>2. CASE call'[h] = call[h]
    BY <1>2, <2>1, <2>2 DEF FewInv, JournalGrows
  <2>3. CASE h = g /\ \E now \in Second : Execute(g, now)
    <3>1. PICK now \in Second : Execute(g, now)
      BY <2>3
    <3> DEFINE c == call[g]
               base == IF c.locked THEN c.image ELSE file[at[g]]
    <3>2. /\ c \in Call /\ base \in Contents /\ c.done + 1 \in DOMAIN Jobs(c.batch)
          /\ at[g] \in Part
          /\ call'[g].image = Executed(base, c, Jobs(c.batch)[c.done + 1], now)
      BY <1>0, <3>1, ExecutedImage
    <3>3. /\ Few(base)
          /\ file[at[g]].commits \subseteq base.commits /\ file[at[g]].ops \subseteq base.ops
      BY <3>2 DEF FewInv, JournalGrows, TypeInv
    <3>5. /\ c.batch \in AskedFor
          /\ Jobs(c.batch)[c.done + 1].do = "add" => Jobs(c.batch)[c.done + 1].quad.stmt # EmptyStmt
      BY <3>1 DEF Execute, ChosenInv
    <3> HIDE DEF c, base
    <3>4. LET e == Executed(base, c, Jobs(c.batch)[c.done + 1], now) IN
          /\ base.commits \subseteq e.commits /\ base.ops \subseteq e.ops
          /\ Few(base) => Few(e)
      BY <3>2, <3>5, ExecutedFew
    <3> QED
      BY <2>1, <2>3, <3>2, <3>3, <3>4
  <2> QED
    BY <2>1, <2>2, <2>3
<1> QED
  BY <1>1, <1>2 DEF FewInv, JournalGrows

\* Nor does a crash, nor doing nothing.
LEMMA NextKeepsStore == StoreInv /\ [Next]_vars => StoreInv'
<1> SUFFICES ASSUME StoreInv, [Next]_vars PROVE StoreInv'
  OBVIOUS
<1> USE DEF StoreInv
<1>1. FewInv' /\ JournalGrows'
  <2>1. CASE \E g \in Proc : Step(g)
    BY <2>1, StepKeepsFew
  <2>2. CASE Crash
    BY <2>2, CrashStep, NoCallIsIdle DEF FewInv, JournalGrows
  <2>3. CASE UNCHANGED vars
    BY <2>3 DEF vars, FewInv, JournalGrows
  <2> QED
    BY <2>1, <2>2, <2>3 DEF Next
<1> QED
  BY <1>1, NextKeepsSlots, NextKeepsTypes, NextKeepsTx, NextKeepsImages, NextKeepsChosen, NextKeepsPartitions

\* The prune tool writes one file that nobody has locked, and only takes
\* operations away.
LEMMA PruneApplyKeepsStore ==
  ASSUME StoreInv, PruneApply, rd.arg.part \in Part, rd.arg.before \in Nat
  PROVE  StoreInv'
<1> USE DEF StoreInv
<1> DEFINE p == rd.arg.part
           new == Pruned(file[p], rd.arg.before)
<1>1. /\ UNCHANGED <<slot, pc, at, call, clock, nextId, begun, failed>>
      /\ Unlocked(p) /\ Publish(p, new)
      /\ cutoff' = [cutoff EXCEPT ![p] = IF rd.arg.before > cutoff[p] THEN rd.arg.before ELSE cutoff[p]]
  BY DEF PruneApply
<1>2. /\ file[p] \in Contents /\ file[p] \in worlds[p] /\ new \in Contents
      /\ new.quads = file[p].quads /\ (Few(file[p]) => Few(new))
  BY PrunedType, PrunedFew DEF TypeInv
<1> HIDE DEF p, new
<1>3. p \in Part
  BY DEF p
<1>4. /\ file' \in [Part -> Contents] /\ worlds' \in [Part -> SUBSET Contents]
      /\ \A q \in Part : file'[q] \in worlds'[q]
  BY <1>1, <1>2, <1>3, PublishTypes
<1>5. /\ file' = [file EXCEPT ![p] = new] /\ worlds' = [worlds EXCEPT ![p] = worlds[p] \cup {new}]
  BY <1>1 DEF Publish
<1>6. \A q \in Part : \A f \in worlds'[q] : f \in worlds[q] \/ (q = p /\ f = new)
  BY <1>3, <1>5 DEF TypeInv
<1>7. \A g \in Proc : call[g].locked => at[g] \in Part /\ at[g] # p /\ file'[at[g]] = file[at[g]]
  BY <1>1, <1>3, <1>5 DEF Unlocked, TypeInv, SlotInv, SlotTypes
<1>8. SlotInv' /\ TxInv' /\ ChosenInv'
  BY <1>1 DEF SlotInv, SlotTypes, AtSlot, OneWriterPerPartition, TxInv, Routed, InTx, ChosenInv
<1>9. TypeInv'
  <2>1. cutoff' \in [Part -> Nat]
    BY <1>1 DEF TypeInv
  <2> QED
    BY <1>1, <1>4, <2>1 DEF TypeInv
<1>10. ImageInv' /\ JournalGrows'
  BY <1>1, <1>7 DEF ImageInv, JournalGrows
<1>11. RightPartition' /\ FewInv'
  BY <1>1, <1>2, <1>6 DEF RightPartition, FewInv
<1> QED
  BY <1>8, <1>9, <1>10, <1>11

----------------------------------------------------------------------------
(* The SELECTs of a call *)

Selects(J) == [part : Part, job : J]

\* What PerPart lists.
Lists(a, parts, jobs) ==
  /\ \A i \in DOMAIN parts : \A j \in DOMAIN jobs : \E m \in DOMAIN a :
       a[m] = [part |-> parts[i], job |-> jobs[j]]
  /\ \A m \in DOMAIN a : \E i \in DOMAIN parts : \E j \in DOMAIN jobs :
       a[m] = [part |-> parts[i], job |-> jobs[j]]

\* PerPart lists each SELECT for each partition, and nothing else.
LEMMA PerPartLists ==
  ASSUME NEW J, NEW parts \in Seq(Part), NEW jobs \in Seq(J)
  PROVE  PerPart(parts, jobs) \in Seq(Selects(J)) /\ Lists(PerPart(parts, jobs), parts, jobs)
<1> DEFINE S    == Selects(J)
           seqs == [i \in DOMAIN parts |-> [j \in DOMAIN jobs |-> [part |-> parts[i], job |-> jobs[j]]]]
           a    == FlattenSeq(seqs)
<1>1. /\ DOMAIN parts = 1..Len(parts) /\ DOMAIN jobs = 1..Len(jobs)
      /\ Len(parts) \in Nat /\ Len(jobs) \in Nat
  OBVIOUS
<1>2. \A i \in DOMAIN parts : \A j \in DOMAIN jobs : [part |-> parts[i], job |-> jobs[j]] \in S
  BY DEF Selects
<1>3. \A i \in DOMAIN parts : seqs[i] \in Seq(S)
  BY <1>1, <1>2
<1>4. seqs \in Seq(Seq(S)) /\ Len(seqs) = Len(parts)
  BY <1>1, <1>3
<1>5. PerPart(parts, jobs) = a
  BY DEF PerPart
<1>6. /\ \A i \in DOMAIN parts : DOMAIN seqs[i] = DOMAIN jobs
      /\ \A i \in DOMAIN parts : \A j \in DOMAIN jobs : seqs[i][j] = [part |-> parts[i], job |-> jobs[j]]
  OBVIOUS
<1> HIDE DEF seqs, S
<1>7. /\ a \in Seq(S)
      /\ \A x \in S : (\E m \in DOMAIN a : a[m] = x) <=> Upto(seqs, Len(seqs), x)
  BY <1>4, FlattenHolds
<1> HIDE DEF a
<1>8. \A m \in DOMAIN a : a[m] \in S
  BY <1>7
<1>9. ASSUME NEW i \in DOMAIN parts, NEW j \in DOMAIN jobs
      PROVE  \E m \in DOMAIN a : a[m] = [part |-> parts[i], job |-> jobs[j]]
  <2>1. Upto(seqs, Len(seqs), [part |-> parts[i], job |-> jobs[j]])
    BY <1>1, <1>4, <1>6 DEF Upto
  <2> QED
    BY <1>2, <1>7, <2>1
<1>10. ASSUME NEW m \in DOMAIN a
       PROVE  \E i \in DOMAIN parts : \E j \in DOMAIN jobs : a[m] = [part |-> parts[i], job |-> jobs[j]]
  <2>1. Upto(seqs, Len(seqs), a[m])
    BY <1>7, <1>8
  <2>2. PICK i \in DOMAIN parts : \E j \in DOMAIN seqs[i] : seqs[i][j] = a[m]
    BY <1>1, <1>4, <2>1 DEF Upto
  <2> QED
    BY <1>6, <2>2
<1> QED
  BY <1>5, <1>7, <1>9, <1>10 DEF Lists, S

\* One SELECT on each partition.
LEMMA PerPartOne ==
  ASSUME NEW J, NEW parts \in Seq(Part), NEW jobs \in Seq(J), Len(jobs) = 1
  PROVE  /\ Len(PerPart(parts, jobs)) = Len(parts)
         /\ \A i \in 1..Len(parts) : PerPart(parts, jobs)[i] = [part |-> parts[i], job |-> jobs[1]]
<1> DEFINE S    == Selects(J)
           seqs == [i \in DOMAIN parts |-> [j \in DOMAIN jobs |-> [part |-> parts[i], job |-> jobs[j]]]]
<1>1. /\ DOMAIN parts = 1..Len(parts) /\ DOMAIN jobs = 1..1 /\ Len(parts) \in Nat
  OBVIOUS
<1>2. \A i \in DOMAIN parts : \A j \in DOMAIN jobs : [part |-> parts[i], job |-> jobs[j]] \in S
  BY DEF Selects
<1>3. \A i \in DOMAIN parts : seqs[i] \in Seq(S) /\ Len(seqs[i]) = 1 /\ seqs[i][1] = [part |-> parts[i], job |-> jobs[1]]
  BY <1>1, <1>2
<1>4. seqs \in Seq(Seq(S)) /\ Len(seqs) = Len(parts) /\ DOMAIN seqs = DOMAIN parts
  BY <1>1, <1>3
<1>5. PerPart(parts, jobs) = FlattenSeq(seqs)
  BY DEF PerPart
<1> HIDE DEF seqs, S
<1>6. FlattenSeq(seqs) = [i \in 1..Len(seqs) |-> seqs[i][1]]
  <2>1. \A i \in DOMAIN seqs : Len(seqs[i]) = 1
    BY <1>3, <1>4
  <2> QED
    BY <1>4, <2>1, FlattenOnes
<1>7. Len(FlattenSeq(seqs)) = Len(parts)
  BY <1>1, <1>4, <1>6
<1>8. \A i \in 1..Len(parts) : FlattenSeq(seqs)[i] = seqs[i][1]
  BY <1>4, <1>6
<1> QED
  BY <1>1, <1>3, <1>5, <1>7, <1>8

\* Several SELECTs on one partition.
LEMMA PerPartSingle ==
  ASSUME NEW J, NEW p \in Part, NEW jobs \in Seq(J)
  PROVE  /\ Len(PerPart(<<p>>, jobs)) = Len(jobs)
         /\ \A j \in 1..Len(jobs) : PerPart(<<p>>, jobs)[j] = [part |-> p, job |-> jobs[j]]
<1> DEFINE S    == Selects(J)
           only == [j \in DOMAIN jobs |-> [part |-> p, job |-> jobs[j]]]
           seqs == [i \in DOMAIN <<p>> |-> [j \in DOMAIN jobs |-> [part |-> <<p>>[i], job |-> jobs[j]]]]
<1>1. DOMAIN jobs = 1..Len(jobs) /\ Len(jobs) \in Nat /\ DOMAIN <<p>> = 1..1 /\ <<p>>[1] = p
  OBVIOUS
<1>2. only \in Seq(S) /\ Len(only) = Len(jobs)
  BY <1>1 DEF Selects
<1>3. DOMAIN seqs = 1..1 /\ seqs[1] = only
  BY <1>1
<1>4. PerPart(<<p>>, jobs) = FlattenSeq(seqs)
  BY DEF PerPart
<1>5. seqs = [i \in 1..1 |-> only]
  BY <1>1
<1> HIDE DEF seqs, S, only
<1>6. seqs \in Seq(Seq(S)) /\ Len(seqs) = 1 /\ seqs # <<>>
  BY <1>2, <1>3, <1>5
<1>7. FlattenSeq(seqs) = only
  <2>1. PICK g : Grows(seqs, S, g) /\ FlattenSeq(seqs) = g[Len(seqs)]
    BY <1>6, FlattenGrows
  <2> QED
    BY <1>3, <1>6, <2>1 DEF Grows
<1> QED
  BY <1>1, <1>2, <1>4, <1>7 DEF only

(* What a call asked and got *)

\* The last of the SELECTs a are still to come.
Remains(todo, a) ==
  /\ Len(todo) <= Len(a)
  /\ \A i \in 1..Len(todo) : todo[i] = a[(Len(a) - Len(todo)) + i]

\* The next SELECT, and what remains after it.
LEMMA NextSelect ==
  ASSUME NEW S, NEW a \in Seq(S), NEW todo \in Seq(S), Remains(todo, a), todo # <<>>
  PROVE  /\ (Len(a) - Len(todo)) + 1 \in 1..Len(a)
         /\ Head(todo) = a[(Len(a) - Len(todo)) + 1]
         /\ Tail(todo) \in Seq(S) /\ Remains(Tail(todo), a) /\ Len(Tail(todo)) = Len(todo) - 1
<1> USE DEF Remains
<1>1. Len(todo) \in Nat \ {0} /\ Len(a) \in Nat /\ Len(todo) <= Len(a)
  OBVIOUS
<1>2. Head(todo) = a[(Len(a) - Len(todo)) + 1]
  BY <1>1
<1>3. Tail(todo) \in Seq(S) /\ Len(Tail(todo)) = Len(todo) - 1
  BY <1>1
<1>4. ASSUME NEW i \in 1..Len(Tail(todo))
      PROVE  Tail(todo)[i] = a[(Len(a) - Len(Tail(todo))) + i]
  <2>1. Tail(todo)[i] = todo[i + 1] /\ i + 1 \in 1..Len(todo)
    BY <1>1, <1>3
  <2>2. (Len(a) - Len(Tail(todo))) + i = (Len(a) - Len(todo)) + (i + 1)
    BY <1>1, <1>3
  <2> QED
    BY <2>1, <2>2
<1> QED
  BY <1>1, <1>2, <1>3, <1>4

----------------------------------------------------------------------------
(* The calls that are a list of SELECTs *)

\* The calls that are one list of SELECTs.
ListCall == {"find", "count", "labels", "stats", "shape", "journal", "prune"}

\* The SELECTs of those calls.
Job ==
  [sel : {"quads", "count"}, pat : PatternChoice]
    \cup [sel : {"labels", "total", "preds", "edges", "commits", "ops"}]
    \cup [sel : {"old", "oldops"}, before : CutoffChoice]

\* What a call may be called with.
ArgOf(op, arg) ==
  /\ op \in {"find", "count"} => arg \in PatternChoice
  /\ op = "journal" => arg \in CutoffChoice
  /\ op = "prune" => arg \in [part : Part, before : CutoffChoice \ {0}]

\* The SELECTs of a call, in order.
SelectsOf(op, arg) ==
  CASE op = "find"    -> PerPart(partsForPattern(arg), <<[sel |-> "quads", pat |-> arg]>>)
    [] op = "count"   -> PerPart(partsForPattern(arg), <<[sel |-> "count", pat |-> arg]>>)
    [] op = "labels"  -> PerPart(PartOrder, <<Select("labels")>>)
    [] op = "stats"   -> PerPart(PartOrder, <<Select("total"), Select("preds")>>)
    [] op = "shape"   -> PerPart(PartOrder, <<Select("preds"), Select("edges")>>)
    [] op = "journal" -> PerPart(PartOrder, JournalSelects(arg))
    [] op = "prune"   -> PerPart(<<arg.part>>, JournalSelects(arg.before))

\* A partition of its own is a list of one.
LEMMA OneToSeq ==
  ASSUME NEW x
  PROVE  Len(SetToSeq({x})) = 1 /\ SetToSeq({x}) \in Seq({x}) /\ SetToSeq({x})[1] = x
<1> DEFINE f == [i \in 1..1 |-> x]
<1>1. Cardinality({x}) = 1
  BY FS_Singleton
<1>2. f \in [1..1 -> {x}] /\ IsInjective(f)
  BY DEF IsInjective
<1>3. SetToSeq({x}) \in [1..1 -> {x}]
  BY <1>1, <1>2 DEF SetToSeq
<1> HIDE DEF f
<1> DEFINE s == SetToSeq({x})
<1>4. s \in [1..1 -> {x}]
  BY <1>3
<1> HIDE DEF s
<1>5. s[1] = x
  BY <1>4
<1>6. s \in Seq({x}) /\ Len(s) = 1
  <2> DEFINE T == {x}
  <2>1. s \in [1..1 -> T]
    BY <1>4
  <2> HIDE DEF T
  <2>2. s \in Seq(T)
    <3>1. \A n \in Nat : [1..n -> T] \subseteq Seq(T)
      OBVIOUS
    <3> QED
      BY <2>1, <3>1
  <2>3. Len(s) = 1
    BY <2>1, <2>2
  <2> QED
    BY <2>2, <2>3 DEF T
<1> QED
  BY <1>5, <1>6 DEF s

\* The partition a pattern is scoped to.
LEMMA ScopeOfPattern ==
  ASSUME NEW pat \in PatternChoice
  PROVE  /\ partsForPattern(pat) \in Seq(Part)
         /\ \A p \in Part : (\A i \in DOMAIN partsForPattern(pat) : partsForPattern(pat)[i] # p) =>
              \A q \in Written : Matches(pat, q) => partFor(q.label) # p
<1>1. /\ PartOrder \in Seq(Part) /\ Range(PartOrder) = Part
      /\ pat \in DOMAIN RoutePattern
      /\ RoutePattern[pat] \in Part =>
           \A q \in Written : Matches(pat, q) => partFor(q.label) = RoutePattern[pat]
  BY ReadsAssumption
<1>2. \A l : partFor(l) \in Part
  BY RoutingAssumption DEF partFor
<1>3. CASE partForPattern(pat) = {}
  <2>1. partsForPattern(pat) = PartOrder
    BY <1>3 DEF partsForPattern
  <2> QED
    BY <1>1, <2>1 DEF Range
<1>4. ASSUME NEW r \in Part, partForPattern(pat) = {r},
             \A q \in Written : Matches(pat, q) => partFor(q.label) = r
      PROVE  /\ partsForPattern(pat) \in Seq(Part)
             /\ \A p \in Part : (\A i \in DOMAIN partsForPattern(pat) : partsForPattern(pat)[i] # p) =>
                  \A q \in Written : Matches(pat, q) => partFor(q.label) # p
  <2>1. partsForPattern(pat) = SetToSeq({r})
    BY <1>4 DEF partsForPattern
  <2> DEFINE s == partsForPattern(pat)
  <2>2. Len(s) = 1 /\ s \in Seq({r}) /\ s[1] = r
    BY <2>1, OneToSeq
  <2> HIDE DEF s
  <2>3. s \in Seq(Part) /\ 1 \in DOMAIN s
    BY <2>2
  <2>4. \A p \in Part : (\A i \in DOMAIN s : s[i] # p) => p # r
    BY <2>2, <2>3
  <2> QED
    BY <1>4, <2>3, <2>4 DEF s
<1>5. CASE Len(PartOrder) = 1
  <2> DEFINE r == PartOrder[1]
  <2>1. DOMAIN PartOrder = 1..1
    BY <1>1, <1>5
  <2>2. Part = {r}
    BY <1>1, <2>1 DEF Range
  <2> HIDE DEF r
  <2>3. partForPattern(pat) = {r}
    BY <1>5, <2>2 DEF partForPattern
  <2> QED
    BY <1>2, <1>4, <2>2, <2>3
<1>6. CASE Len(PartOrder) # 1 /\ RoutePattern[pat] \in Part
  <2>1. partForPattern(pat) = {RoutePattern[pat]}
    BY <1>6 DEF partForPattern
  <2> QED
    BY <1>1, <1>4, <1>6, <2>1
<1>7. CASE Len(PartOrder) # 1 /\ RoutePattern[pat] \notin Part /\ partForPattern(pat) # {}
  <2>1. partForPattern(pat) = {p \in Part : pat.l # Wild /\ p = RouteLabel[pat.l]}
    BY <1>7 DEF partForPattern
  <2>2. pat.l # Wild /\ RouteLabel[pat.l] \in Part /\ partForPattern(pat) = {RouteLabel[pat.l]}
    BY <1>7, <2>1
  <2>3. \A q \in Written : Matches(pat, q) => partFor(q.label) = RouteLabel[pat.l]
    BY <2>2 DEF partFor, Matches, Accepts
  <2> QED
    BY <1>4, <2>2, <2>3
<1> QED
  BY <1>3, <1>5, <1>6, <1>7

\* The SELECTs about the journal.
LEMMA JournalSelectsType ==
  ASSUME NEW before \in CutoffChoice
  PROVE  /\ JournalSelects(before) \in Seq(Job)
         /\ before # 0 => /\ Len(JournalSelects(before)) = 4
                          /\ JournalSelects(before)[4] = SelectOlder("oldops", before)
<1>1. /\ Select("commits") \in Job /\ Select("ops") \in Job
      /\ SelectOlder("old", before) \in Job /\ SelectOlder("oldops", before) \in Job
  BY DEF Job, Select, SelectOlder
<1>2. CASE before = 0
  <2>1. JournalSelects(before) = <<Select("commits"), Select("ops")>> \o <<>>
    BY <1>2 DEF JournalSelects
  <2>2. <<Select("commits"), Select("ops")>> \in Seq(Job) /\ <<>> \in Seq(Job)
    BY <1>1
  <2>3. <<Select("commits"), Select("ops")>> \o <<>> \in Seq(Job)
    <3> DEFINE a == <<Select("commits"), Select("ops")>>
               b == <<>>
    <3>1. a \in Seq(Job) /\ b \in Seq(Job)
      BY <2>2
    <3> HIDE DEF a, b
    <3>2. a \o b \in Seq(Job)
      BY <3>1
    <3> QED
      BY <3>2 DEF a, b
  <2> QED
    BY <1>2, <2>1, <2>3
<1>3. CASE before # 0
  <2> DEFINE a == <<Select("commits"), Select("ops")>>
             b == <<SelectOlder("old", before), SelectOlder("oldops", before)>>
  <2>1. JournalSelects(before) = a \o b
    BY <1>3 DEF JournalSelects
  <2>2. a \in Seq(Job) /\ b \in Seq(Job) /\ Len(a) = 2 /\ Len(b) = 2 /\ b[2] = SelectOlder("oldops", before)
    BY <1>1
  <2> HIDE DEF a, b
  <2>3. a \o b \in Seq(Job) /\ Len(a \o b) = Len(a) + Len(b)
    BY <2>2, ConcatProperties
  <2>4. \A i \in 1..(Len(a) + Len(b)) : (a \o b)[i] = IF i <= Len(a) THEN a[i] ELSE b[i - Len(a)]
    BY <2>2, ConcatProperties
  <2>5. Len(a \o b) = 4 /\ (a \o b)[4] = b[2]
    BY <2>2, <2>3, <2>4
  <2> QED
    BY <1>3, <2>1, <2>2, <2>3, <2>5
<1> QED
  BY <1>2, <1>3

\* The list of every call, and what it is a list of.
LEMMA SelectsOfLists ==
  ASSUME NEW op \in ListCall, NEW arg, ArgOf(op, arg)
  PROVE  /\ SelectsOf(op, arg) \in Seq(Selects(Job))
         /\ op = "find"   => Lists(SelectsOf(op, arg), partsForPattern(arg), <<[sel |-> "quads", pat |-> arg]>>)
         /\ op = "count"  => Lists(SelectsOf(op, arg), partsForPattern(arg), <<[sel |-> "count", pat |-> arg]>>)
         /\ op = "stats"  => Lists(SelectsOf(op, arg), PartOrder, <<Select("total"), Select("preds")>>)
         /\ op = "shape"  => Lists(SelectsOf(op, arg), PartOrder, <<Select("preds"), Select("edges")>>)
         /\ op = "labels" =>
              /\ Len(SelectsOf(op, arg)) = Len(PartOrder)
              /\ \A i \in 1..Len(PartOrder) :
                   SelectsOf(op, arg)[i] = [part |-> PartOrder[i], job |-> Select("labels")]
         /\ op = "prune"  =>
              /\ Len(SelectsOf(op, arg)) = 4
              /\ SelectsOf(op, arg)[4] = [part |-> arg.part, job |-> SelectOlder("oldops", arg.before)]
<1>1. PartOrder \in Seq(Part)
  BY ReadsAssumption
<1>2. /\ Select("labels") \in Job /\ Select("total") \in Job
      /\ Select("preds") \in Job /\ Select("edges") \in Job
      /\ \A pat \in PatternChoice : [sel |-> "quads", pat |-> pat] \in Job /\ [sel |-> "count", pat |-> pat] \in Job
  BY DEF Job, Select
<1>3. /\ <<Select("labels")>> \in Seq(Job) /\ Len(<<Select("labels")>>) = 1
      /\ <<Select("labels")>>[1] = Select("labels")
      /\ <<Select("total"), Select("preds")>> \in Seq(Job) /\ <<Select("preds"), Select("edges")>> \in Seq(Job)
      /\ \A pat \in PatternChoice : <<[sel |-> "quads", pat |-> pat]>> \in Seq(Job)
                                     /\ <<[sel |-> "count", pat |-> pat]>> \in Seq(Job)
  BY <1>2
<1>4. CASE op = "find"
  <2>1. arg \in PatternChoice /\ partsForPattern(arg) \in Seq(Part)
    BY <1>4, ScopeOfPattern DEF ArgOf
  <2>2. SelectsOf(op, arg) = PerPart(partsForPattern(arg), <<[sel |-> "quads", pat |-> arg]>>)
    BY <1>4 DEF SelectsOf
  <2> QED
    BY <1>3, <1>4, <2>1, <2>2, PerPartLists
<1>5. CASE op = "count"
  <2>1. arg \in PatternChoice /\ partsForPattern(arg) \in Seq(Part)
    BY <1>5, ScopeOfPattern DEF ArgOf
  <2>2. SelectsOf(op, arg) = PerPart(partsForPattern(arg), <<[sel |-> "count", pat |-> arg]>>)
    BY <1>5 DEF SelectsOf
  <2> QED
    BY <1>3, <1>5, <2>1, <2>2, PerPartLists
<1>6. CASE op = "labels"
  <2>1. SelectsOf(op, arg) = PerPart(PartOrder, <<Select("labels")>>)
    BY <1>6 DEF SelectsOf
  <2> QED
    <3>1. PerPart(PartOrder, <<Select("labels")>>) \in Seq(Selects(Job))
      BY <1>1, <1>3, PerPartLists
    <3>2. /\ Len(PerPart(PartOrder, <<Select("labels")>>)) = Len(PartOrder)
          /\ \A i \in 1..Len(PartOrder) : PerPart(PartOrder, <<Select("labels")>>)[i]
               = [part |-> PartOrder[i], job |-> <<Select("labels")>>[1]]
      BY <1>1, <1>3, PerPartOne
    <3> QED
      BY <1>3, <1>6, <2>1, <3>1, <3>2
<1>7. CASE op = "stats"
  <2>1. SelectsOf(op, arg) = PerPart(PartOrder, <<Select("total"), Select("preds")>>)
    BY <1>7 DEF SelectsOf
  <2> QED
    BY <1>1, <1>3, <1>7, <2>1, PerPartLists
<1>8. CASE op = "shape"
  <2>1. SelectsOf(op, arg) = PerPart(PartOrder, <<Select("preds"), Select("edges")>>)
    BY <1>8 DEF SelectsOf
  <2> QED
    BY <1>1, <1>3, <1>8, <2>1, PerPartLists
<1>9. CASE op = "journal"
  <2>1. SelectsOf(op, arg) = PerPart(PartOrder, JournalSelects(arg)) /\ JournalSelects(arg) \in Seq(Job)
    BY <1>9, JournalSelectsType DEF SelectsOf, ArgOf
  <2> QED
    BY <1>1, <1>9, <2>1, PerPartLists
<1>10. CASE op = "prune"
  <2>1. arg.part \in Part /\ arg.before \in CutoffChoice /\ arg.before # 0 /\ <<arg.part>> \in Seq(Part)
    BY <1>10 DEF ArgOf
  <2>2. /\ SelectsOf(op, arg) = PerPart(<<arg.part>>, JournalSelects(arg.before))
        /\ JournalSelects(arg.before) \in Seq(Job) /\ Len(JournalSelects(arg.before)) = 4
        /\ JournalSelects(arg.before)[4] = SelectOlder("oldops", arg.before)
    BY <1>10, <2>1, JournalSelectsType DEF SelectsOf
  <2>3. /\ Len(SelectsOf(op, arg)) = 4
        /\ SelectsOf(op, arg)[4] = [part |-> arg.part, job |-> SelectOlder("oldops", arg.before)]
    BY <2>1, <2>2, PerPartSingle
  <2> QED
    BY <1>10, <2>1, <2>2, <2>3, PerPartLists
<1> QED
  BY <1>4, <1>5, <1>6, <1>7, <1>8, <1>9, <1>10 DEF ListCall

----------------------------------------------------------------------------
(* What is known during a call *)

\* A file of partition p as a read may find it.
Filed(p, f) == f \in Contents /\ Few(f) /\ \A q \in f.quads : partFor(q.label) = p

ReadShape ==
  rd = [op |-> rd.op, todo |-> rd.todo, got |-> rd.got, arg |-> rd.arg,
        front |-> rd.front, steps |-> rd.steps]

\* The moments of a call are those of its files; the prune tool's own DELETE
\* is not one of them.
SinceInv ==
  /\ DOMAIN since = Part
  /\ \A p \in Part : IsFiniteSet(since[p]) /\ \A f \in since[p] : Filed(p, f)
  /\ rd.op \notin {"none", "prune"} => \A p \in Part : file[p] \in since[p]

IsList(s) == s \in Seq({s[i] : i \in DOMAIN s})

\* These rows were in the file at some moment of the call; Stats may have
\* missed some of its predicates.
Answers(op, select, rows, moments) ==
  \E f \in moments[select.part] :
    \/ rows = Rows(f, select.job)
    \/ op = "stats" /\ select.job.sel = "preds" /\ rows \subseteq Rows(f, select.job)

\* The first n SELECTs of a have their answers; the prune tool adds what its
\* DELETE removed.
GotSoFar(op, a, todo, got, moments) ==
  LET n == Len(a) - Len(todo) IN
  /\ IsList(got)
  /\ Len(got) = n \/ (op = "prune" /\ todo = <<>> /\ Len(got) = n + 1)
  /\ \A i \in 1..n :
       /\ got[i].part = a[i].part /\ got[i].job = a[i].job
       /\ op # "prune" => Answers(op, a[i], got[i].rows, moments)

Underway(op, arg, todo, got, moments) ==
  /\ ArgOf(op, arg)
  /\ todo \in Seq(Selects(Job)) /\ Remains(todo, SelectsOf(op, arg))
  /\ GotSoFar(op, SelectsOf(op, arg), todo, got, moments)

CallInv == rd.op \in ListCall => Underway(rd.op, rd.arg, rd.todo, rd.got, since)

ReadInv == StoreInv /\ ReadShape /\ SinceInv /\ CallInv

\* One more element at the end of a list.
LEMMA LongerList ==
  ASSUME NEW s, IsList(s), NEW e
  PROVE  /\ IsList(Append(s, e)) /\ Len(s) \in Nat /\ Len(Append(s, e)) = Len(s) + 1
         /\ \A i \in 1..Len(s) : Append(s, e)[i] = s[i]
         /\ Append(s, e)[Len(s) + 1] = e
<1> DEFINE X == {s[i] : i \in DOMAIN s}
           Y == X \cup {e}
           t == Append(s, e)
<1>1. s \in Seq(X)
  BY DEF IsList
<1>2. X \subseteq Y /\ e \in Y
  OBVIOUS
<1> HIDE DEF X, Y
<1>3. s \in Seq(Y) /\ Len(s) \in Nat
  BY <1>1, <1>2, SeqMonotonic
<1>4. /\ t \in Seq(Y) /\ Len(t) = Len(s) + 1
      /\ \A i \in 1..Len(s) : t[i] = s[i]
      /\ t[Len(s) + 1] = e
  BY <1>2, <1>3, AppendProperties
<1> HIDE DEF t
<1>5. IsList(t)
  <2> DEFINE Z == {t[i] : i \in DOMAIN t}
  <2>1. \A i \in 1..Len(t) : t[i] \in Z
    BY <1>4
  <2> HIDE DEF Z
  <2>2. t \in [1..Len(t) -> Z] /\ Len(t) \in Nat
    BY <1>4, <2>1
  <2>3. t \in Seq(Z)
    BY <2>2, SeqDef
  <2> QED
    BY <2>3 DEF Z, IsList
<1> QED
  BY <1>3, <1>4, <1>5 DEF t

\* No element yet.
LEMMA EmptyIsList == IsList(<<>>) /\ Len(<<>>) = 0
BY DEF IsList

\* The record of a call with one SELECT answered.
LEMMA NextRecord ==
  ASSUME ReadShape, NEW todo, NEW got,
         rd' = [rd EXCEPT !.todo = todo, !.got = got]
  PROVE  /\ rd'.op = rd.op /\ rd'.arg = rd.arg /\ rd'.todo = todo /\ rd'.got = got
         /\ rd'.front = rd.front /\ rd'.steps = rd.steps /\ ReadShape'
BY DEF ReadShape

\* The record of no call.
LEMMA NoReadShape ==
  rd' = NoRead => ReadShape' /\ rd'.op = "none" /\ rd'.todo = <<>> /\ rd'.got = <<>>
BY DEF NoRead, ReadShape

\* A call that begins.
LEMMA OpenKeepsReads ==
  ASSUME ReadInv, NEW op \in ListCall, NEW arg, ArgOf(op, arg), UNCHANGED vars,
         Open(op, arg, SelectsOf(op, arg))
  PROVE  ReadShape' /\ SinceInv' /\ CallInv'
<1> DEFINE a == SelectsOf(op, arg)
<1>1. /\ rd'.op = op /\ rd'.arg = arg /\ rd'.todo = a /\ rd'.got = <<>> /\ ReadShape'
      /\ since' = [p \in Part |-> {file[p]}] /\ file' = file
  BY DEF Open, NoRead, ReadShape, vars
<1>2. \A p \in Part : Filed(p, file[p])
  BY DEF ReadInv, StoreInv, TypeInv, RightPartition, FewInv, Filed
<1>3. SinceInv'
  <2>1. \A p \in Part : since'[p] = {file[p]} /\ IsFiniteSet(since'[p])
    BY <1>1, FS_Singleton
  <2> QED
    BY <1>1, <1>2, <2>1 DEF SinceInv
<1>4. a \in Seq(Selects(Job))
  BY SelectsOfLists
<1> HIDE DEF a
<1>5. Remains(a, a) /\ Len(a) - Len(a) = 0
  BY <1>4 DEF Remains
<1>6. GotSoFar(op, a, a, <<>>, since')
  BY <1>5, EmptyIsList DEF GotSoFar
<1> QED
  BY <1>1, <1>3, <1>4, <1>5, <1>6 DEF CallInv, Underway, a

\* One more of the SELECTs is answered.
LEMMA AnswerGrows ==
  ASSUME NEW J, NEW op, NEW a \in Seq(Selects(J)), NEW todo \in Seq(Selects(J)), Remains(todo, a), todo # <<>>,
         NEW got, NEW moments, GotSoFar(op, a, todo, got, moments),
         NEW rows, op # "prune" => Answers(op, Head(todo), rows, moments)
  PROVE  /\ Tail(todo) \in Seq(Selects(J)) /\ Remains(Tail(todo), a)
         /\ GotSoFar(op, a, Tail(todo), Append(got, WithRows(Head(todo), rows)), moments)
<1> DEFINE h == Head(todo)
           n == Len(a) - Len(todo)
<1>1. /\ n + 1 \in 1..Len(a) /\ h = a[n + 1]
      /\ Tail(todo) \in Seq(Selects(J)) /\ Remains(Tail(todo), a) /\ Len(Tail(todo)) = Len(todo) - 1
  BY NextSelect
<1>2. /\ IsList(got) /\ Len(got) = n
      /\ \A i \in 1..n :
           /\ got[i].part = a[i].part /\ got[i].job = a[i].job
           /\ op # "prune" => Answers(op, a[i], got[i].rows, moments)
  BY DEF GotSoFar
<1> DEFINE w == WithRows(h, rows)
           more == Append(got, w)
<1>3. w.part = h.part /\ w.job = h.job /\ w.rows = rows
  BY DEF WithRows
<1> HIDE DEF w
<1>4. /\ IsList(more) /\ Len(more) = n + 1
      /\ \A i \in 1..n : more[i] = got[i]
      /\ more[n + 1] = w
  <2>1. IsList(got)
    BY <1>2
  <2>2. /\ IsList(Append(got, w)) /\ Len(Append(got, w)) = Len(got) + 1
        /\ \A i \in 1..Len(got) : Append(got, w)[i] = got[i]
        /\ Append(got, w)[Len(got) + 1] = w
    BY <2>1, LongerList
  <2> HIDE DEF n, h
  <2> QED
    BY <1>2, <2>2
<1>5. n \in Nat /\ Len(a) - Len(Tail(todo)) = n + 1
  <2>1. Len(a) \in Nat /\ Len(todo) \in Nat /\ Len(todo) <= Len(a)
    BY DEF Remains
  <2>2. Len(Tail(todo)) = Len(todo) - 1
    BY <1>1
  <2> DEFINE x == Len(a)
             y == Len(todo)
             z == Len(Tail(todo))
  <2> HIDE DEF x, y, z
  <2>3. x \in Nat /\ y \in Nat /\ y <= x /\ z = y - 1
    BY <2>1, <2>2 DEF x, y, z
  <2>4. x - y \in Nat /\ x - z = (x - y) + 1
    BY <2>3
  <2> QED
    BY <2>4 DEF x, y, z
<1>6. op # "prune" => Answers(op, h, rows, moments)
  OBVIOUS
<1> HIDE DEF n, more, h
<1>7. ASSUME NEW i \in 1..(n + 1)
      PROVE  /\ more[i].part = a[i].part /\ more[i].job = a[i].job
             /\ op # "prune" => Answers(op, a[i], more[i].rows, moments)
  <2>1. i \in 1..n \/ i = n + 1
    BY <1>5
  <2> QED
    BY <1>1, <1>2, <1>3, <1>4, <1>6, <2>1
<1>8. GotSoFar(op, a, Tail(todo), more, moments)
  BY <1>4, <1>5, <1>7 DEF GotSoFar
<1> QED
  BY <1>1, <1>8 DEF more, w, h

\* A SELECT is answered.
LEMMA AnswerKeepsReads ==
  ASSUME ReadInv, rd.todo # <<>>, UNCHANGED vars, UNCHANGED since, NEW rows,
         rd.op \in ListCall =>
           \/ rows = Rows(file[Head(rd.todo).part], Head(rd.todo).job)
           \/ /\ rd.op = "stats" /\ Head(rd.todo).job.sel = "preds"
              /\ rows \subseteq Rows(file[Head(rd.todo).part], Head(rd.todo).job),
         rd' = [rd EXCEPT !.todo = Tail(rd.todo), !.got = Append(rd.got, WithRows(Head(rd.todo), rows))]
  PROVE  ReadShape' /\ SinceInv' /\ CallInv'
<1> USE DEF ReadInv
<1>1. /\ rd'.op = rd.op /\ rd'.arg = rd.arg /\ rd'.todo = Tail(rd.todo)
      /\ rd'.got = Append(rd.got, WithRows(Head(rd.todo), rows)) /\ ReadShape'
  BY NextRecord
<1>2. SinceInv'
  BY <1>1 DEF SinceInv, vars
<1>3. ASSUME rd.op \in ListCall
      PROVE  Underway(rd.op, rd.arg, rd'.todo, rd'.got, since)
  <2> DEFINE a == SelectsOf(rd.op, rd.arg)
             h == Head(rd.todo)
  <2>1. /\ ArgOf(rd.op, rd.arg) /\ rd.todo \in Seq(Selects(Job)) /\ Remains(rd.todo, a)
        /\ GotSoFar(rd.op, a, rd.todo, rd.got, since)
    BY <1>3 DEF CallInv, Underway
  <2>2. a \in Seq(Selects(Job))
    BY <1>3, <2>1, SelectsOfLists
  <2>3. h \in Selects(Job)
    <3> DEFINE todo == rd.todo
    <3>1. todo \in Seq(Selects(Job)) /\ todo # <<>>
      BY <2>1
    <3> HIDE DEF todo
    <3>2. Head(todo) \in Selects(Job)
      BY <3>1, HeadTailProperties
    <3> QED
      BY <3>2 DEF todo
  <2>4. rd.op # "prune" => Answers(rd.op, h, rows, since)
    <3>1. h.part \in Part
      BY <2>3 DEF Selects
    <3>2. rd.op # "prune" => file[h.part] \in since[h.part]
      BY <1>3, <3>1 DEF SinceInv, ListCall
    <3> QED
      BY <1>3, <3>2 DEF Answers
  <2>5. /\ Tail(rd.todo) \in Seq(Selects(Job)) /\ Remains(Tail(rd.todo), a)
        /\ GotSoFar(rd.op, a, Tail(rd.todo), Append(rd.got, WithRows(h, rows)), since)
    <3> DEFINE op == rd.op
               todo == rd.todo
               got == rd.got
    <3>1. /\ todo \in Seq(Selects(Job)) /\ Remains(todo, a) /\ todo # <<>>
          /\ GotSoFar(op, a, todo, got, since) /\ (op # "prune" => Answers(op, Head(todo), rows, since))
      BY <2>1, <2>4
    <3> HIDE DEF op, todo, got, a
    <3>2. /\ Tail(todo) \in Seq(Selects(Job)) /\ Remains(Tail(todo), a)
          /\ GotSoFar(op, a, Tail(todo), Append(got, WithRows(Head(todo), rows)), since)
      BY <2>2, <3>1, AnswerGrows
    <3> QED
      BY <3>2 DEF op, todo, got
  <2> QED
    BY <1>1, <2>1, <2>5 DEF Underway
<1> QED
  BY <1>1, <1>2, <1>3 DEF CallInv

----------------------------------------------------------------------------
\* A call that is over, or has failed.
LEMMA NoReadKeepsReads ==
  ASSUME ReadInv, rd' = NoRead,
         since' = since \/ since' = [p \in Part |-> {}]
  PROVE  ReadShape' /\ SinceInv' /\ CallInv'
<1>1. ReadShape' /\ rd'.op = "none"
  BY NoReadShape
<1>2. SinceInv'
  <2>1. \A p \in Part : IsFiniteSet(since'[p]) /\ \A f \in since'[p] : Filed(p, f)
    BY FS_EmptySet DEF ReadInv, SinceInv
  <2> QED
    BY <1>1, <2>1 DEF ReadInv, SinceInv
<1> QED
  BY <1>1, <1>2 DEF CallInv, ListCall

\* A path goes on, from its begin or from where it was.
LEMMA PathKeepsReads ==
  ASSUME ReadInv, UNCHANGED vars, ReadShape', rd'.op = "path",
         \/ rd.op = "path" /\ since' = since
         \/ since' = [p \in Part |-> {file[p]}]
  PROVE  SinceInv' /\ CallInv'
<1>1. \A p \in Part : Filed(p, file[p])
  BY DEF ReadInv, StoreInv, TypeInv, RightPartition, FewInv, Filed
<1>2. SinceInv'
  <2>1. CASE since' = [p \in Part |-> {file[p]}]
    <3>1. \A p \in Part : since'[p] = {file[p]} /\ IsFiniteSet(since'[p])
      BY <2>1, FS_Singleton
    <3> QED
      BY <1>1, <2>1, <3>1 DEF SinceInv, vars
  <2>2. CASE rd.op = "path" /\ since' = since
    BY <2>2 DEF ReadInv, SinceInv, vars
  <2> QED
    BY <2>1, <2>2
<1> QED
  BY <1>2 DEF CallInv, ListCall

\* Whatever the reader does, its call stays what it is.
LEMMA ReaderKeepsReads ==
  ASSUME ReadInv, Reader, UNCHANGED vars
  PROVE  ReadShape' /\ SinceInv' /\ CallInv'
<1> USE DEF ListCall, ArgOf
<1>1. CASE Find
  <2>1. PICK pat \in PatternChoice :
          Open("find", pat, PerPart(partsForPattern(pat), <<[sel |-> "quads", pat |-> pat]>>))
    BY <1>1 DEF Find
  <2>2. Open("find", pat, SelectsOf("find", pat))
    BY <2>1 DEF SelectsOf
  <2> QED
    BY <2>2, OpenKeepsReads
<1>2. CASE Count
  <2>1. PICK pat \in PatternChoice :
          Open("count", pat, PerPart(partsForPattern(pat), <<[sel |-> "count", pat |-> pat]>>))
    BY <1>2 DEF Count
  <2>2. Open("count", pat, SelectsOf("count", pat))
    BY <2>1 DEF SelectsOf
  <2> QED
    BY <2>2, OpenKeepsReads
<1>3. CASE LabelCounts \/ Stats \/ Shape
  <2>1. \E op \in {"labels", "stats", "shape"} : Open(op, <<>>, SelectsOf(op, <<>>))
    BY <1>3 DEF LabelCounts, Stats, Shape, SelectsOf
  <2> QED
    BY <2>1, OpenKeepsReads
<1>4. CASE CommitStatsAt
  <2>1. PICK before \in CutoffChoice : Open("journal", before, PerPart(PartOrder, JournalSelects(before)))
    BY <1>4 DEF CommitStatsAt
  <2>2. Open("journal", before, SelectsOf("journal", before))
    BY <2>1 DEF SelectsOf
  <2> QED
    BY <2>2, OpenKeepsReads
<1>5. CASE PruneTool
  <2>1. PICK p \in Part, before \in CutoffChoice \ {0} :
          Open("prune", [part |-> p, before |-> before], PerPart(<<p>>, JournalSelects(before)))
    BY <1>5 DEF PruneTool
  <2> DEFINE arg == [part |-> p, before |-> before]
  <2>2. Open("prune", arg, SelectsOf("prune", arg))
    BY <2>1 DEF SelectsOf
  <2>3. ArgOf("prune", arg)
    OBVIOUS
  <2> HIDE DEF arg, ArgOf
  <2> QED
    BY <2>2, <2>3, OpenKeepsReads
<1>6. CASE Query
  BY <1>6, AnswerKeepsReads DEF Query
<1>7. CASE StatsCutShort
  <2>1. PICK rows \in SUBSET Rows(file[Head(rd.todo).part], Head(rd.todo).job) :
          rd' = [rd EXCEPT !.todo = Tail(rd.todo), !.got = Append(rd.got, WithRows(Head(rd.todo), rows))]
    BY <1>7 DEF StatsCutShort
  <2>2. rd.op = "stats" /\ rd.todo # <<>> /\ Head(rd.todo).job.sel = "preds" /\ UNCHANGED since
    BY <1>7 DEF StatsCutShort
  <2> QED
    BY <2>1, <2>2, AnswerKeepsReads
<1>8. CASE Fail \/ EndCall
  BY <1>8, NoReadKeepsReads DEF Fail, EndCall
<1>9. CASE Path
  <2>1. ReadShape' /\ rd'.op = "path" /\ since' = [p \in Part |-> {file[p]}]
    BY <1>9 DEF Path, NoRead, ReadShape
  <2> QED
    BY <2>1, PathKeepsReads
<1>10. CASE PathStep
  <2>1. rd.op = "path" /\ since' = since
    BY <1>10 DEF PathStep, AtStep
  <2>2. CASE rd' = NoRead
    BY <2>1, <2>2, NoReadKeepsReads
  <2>3. CASE rd' # NoRead
    <3>1. ReadShape' /\ rd'.op = "path"
      BY <1>10, <2>1, <2>3 DEF PathStep, ReadInv, ReadShape
    <3> QED
      BY <2>1, <3>1, PathKeepsReads
  <2> QED
    BY <2>2, <2>3
<1>11. CASE PathGather \/ PathUnique
  <2>1. /\ rd.op = "path" /\ since' = since
        /\ ReadShape' /\ rd'.op = "path"
    BY <1>11 DEF PathGather, PathUnique, AtStep, ReadInv, ReadShape
  <2> QED
    BY <2>1, PathKeepsReads
<1> QED
  BY <1>1, <1>2, <1>3, <1>4, <1>5, <1>6, <1>7, <1>8, <1>9, <1>10, <1>11 DEF Reader

\* What was an answer at some moment still was.
LEMMA MoreAnswers ==
  ASSUME NEW J, NEW op, NEW a \in Seq(Selects(J)), NEW todo \in Seq(Selects(J)), Remains(todo, a), NEW got,
         NEW before, NEW after, \A p \in Part : before[p] \subseteq after[p],
         GotSoFar(op, a, todo, got, before)
  PROVE  GotSoFar(op, a, todo, got, after)
<1>1. \A i \in 1..(Len(a) - Len(todo)) : a[i].part \in Part
  <2>1. \A i \in 1..(Len(a) - Len(todo)) : i \in 1..Len(a)
    BY DEF Remains
  <2>2. \A i \in 1..Len(a) : a[i] \in Selects(J)
    OBVIOUS
  <2>3. \A select \in Selects(J) : select.part \in Part
    BY DEF Selects
  <2> QED
    BY <2>1, <2>2, <2>3
<1>2. \A select, rows : select.part \in Part /\ Answers(op, select, rows, before) => Answers(op, select, rows, after)
  BY DEF Answers
<1> QED
  BY <1>1, <1>2 DEF GotSoFar

\* Every moment that a call had it still has.
LEMMA MoreMoments ==
  ASSUME NEW op, NEW arg, NEW todo, NEW got, NEW before, NEW after, ArgOf(op, arg), op \in ListCall,
         Underway(op, arg, todo, got, before), \A p \in Part : before[p] \subseteq after[p]
  PROVE  Underway(op, arg, todo, got, after)
<1> DEFINE a == SelectsOf(op, arg)
<1>1. a \in Seq(Selects(Job)) /\ Remains(todo, a) /\ todo \in Seq(Selects(Job))
  BY SelectsOfLists DEF Underway
<1> HIDE DEF a
<1>2. GotSoFar(op, a, todo, got, before)
  BY DEF Underway, a
<1>3. GotSoFar(op, a, todo, got, after)
  BY <1>1, <1>2, MoreAnswers
<1> QED
  BY <1>3 DEF Underway, a

\* Somebody writes while the reader waits for its next answer.
LEMMA WriterKeepsReads ==
  ASSUME ReadInv, StoreInv', Meanwhile
  PROVE  ReadShape' /\ SinceInv' /\ CallInv'
<1>1. rd' = rd /\ since' = IF rd.op = "none" THEN since ELSE [p \in Part |-> since[p] \cup {file'[p]}]
  BY DEF Meanwhile
<1>2. \A p \in Part : Filed(p, file'[p])
  BY DEF StoreInv, TypeInv, RightPartition, FewInv, Filed
<1>3. ReadShape'
  BY <1>1 DEF ReadInv, ReadShape
<1>4. CASE rd.op = "none"
  BY <1>1, <1>3, <1>4 DEF ReadInv, SinceInv, CallInv, ListCall
<1>5. CASE rd.op # "none"
  <2>1. since' = [p \in Part |-> since[p] \cup {file'[p]}]
    BY <1>1, <1>5
  <2>2. \A p \in Part : since'[p] = since[p] \cup {file'[p]} /\ since[p] \subseteq since'[p]
    BY <2>1
  <2>3. \A p \in Part : IsFiniteSet(since'[p])
    <3> SUFFICES ASSUME NEW p \in Part PROVE IsFiniteSet(since'[p])
      OBVIOUS
    <3>1. IsFiniteSet(since[p])
      BY DEF ReadInv, SinceInv
    <3>2. IsFiniteSet(since[p] \cup {file'[p]})
      BY <3>1, FS_AddElement
    <3> QED
      BY <2>2, <3>2
  <2>4. SinceInv'
    BY <1>1, <1>2, <2>1, <2>2, <2>3 DEF ReadInv, SinceInv
  <2>5. ASSUME rd.op \in ListCall
        PROVE  Underway(rd.op, rd.arg, rd.todo, rd.got, since')
    <3>1. Underway(rd.op, rd.arg, rd.todo, rd.got, since) /\ ArgOf(rd.op, rd.arg)
      BY <2>5 DEF ReadInv, CallInv, Underway
    <3> QED
      BY <2>2, <2>5, <3>1, MoreMoments
  <2> QED
    BY <1>1, <1>3, <2>4, <2>5 DEF CallInv
<1> QED
  BY <1>4, <1>5

\* The prune tool deletes once, after its four counts.
LEMMA PruneApplyKeepsReads ==
  ASSUME ReadInv, PruneApply
  PROVE  StoreInv' /\ ReadShape' /\ SinceInv' /\ CallInv'
<1> USE DEF ReadInv
<1> DEFINE n == Cardinality(file[rd.arg.part].ops) - Cardinality(Pruned(file[rd.arg.part], rd.arg.before).ops)
<1>1. /\ rd.op = "prune" /\ rd.todo = <<>> /\ Len(rd.got) = 4 /\ since' = since
      /\ rd' = [rd EXCEPT !.got = Append(rd.got, n)]
  BY DEF PruneApply
<1> HIDE DEF n
<1>2. /\ rd'.op = rd.op /\ rd'.arg = rd.arg /\ rd'.todo = rd.todo /\ rd'.got = Append(rd.got, n)
      /\ ReadShape'
  BY <1>1 DEF ReadShape
<1>3. Underway("prune", rd.arg, <<>>, rd.got, since)
  BY <1>1 DEF CallInv, ListCall
<1>4. ArgOf("prune", rd.arg) /\ rd.arg.part \in Part /\ rd.arg.before \in Nat
  BY <1>3, ReadsAssumption DEF Underway, ArgOf
<1>5. StoreInv'
  BY <1>4, PruneApplyKeepsStore
<1>6. SinceInv'
  BY <1>1, <1>2 DEF SinceInv
<1> DEFINE a == SelectsOf("prune", rd.arg)
<1>7. Len(a) = 4
  BY <1>4, SelectsOfLists DEF ListCall
<1> HIDE DEF a
<1>8. /\ IsList(rd.got)
      /\ \A i \in 1..4 : rd.got[i].part = a[i].part /\ rd.got[i].job = a[i].job
  <2>1. GotSoFar("prune", a, <<>>, rd.got, since)
    BY <1>3 DEF Underway, a
  <2>2. Len(a) - Len(<<>>) = 4
    BY <1>7
  <2> QED
    BY <2>1, <2>2 DEF GotSoFar
<1>9. /\ IsList(Append(rd.got, n)) /\ Len(Append(rd.got, n)) = 5
      /\ \A i \in 1..4 : Append(rd.got, n)[i] = rd.got[i]
  <2> DEFINE got == rd.got
  <2>1. IsList(got) /\ Len(got) = 4
    BY <1>1, <1>8
  <2> HIDE DEF got
  <2>2. /\ IsList(Append(got, n)) /\ Len(Append(got, n)) = 5
        /\ \A i \in 1..4 : Append(got, n)[i] = got[i]
    <3>1. /\ IsList(Append(got, n)) /\ Len(Append(got, n)) = Len(got) + 1
          /\ \A i \in 1..Len(got) : Append(got, n)[i] = got[i]
      <4>1. IsList(got)
        BY <2>1
      <4> QED
        BY <4>1, LongerList
    <3> QED
      BY <2>1, <3>1
  <2> QED
    BY <2>2 DEF got
<1>10. GotSoFar("prune", a, <<>>, Append(rd.got, n), since)
  <2> DEFINE more == Append(rd.got, n)
  <2>1. Len(a) - Len(<<>>) = 4
    BY <1>7
  <2>2. /\ IsList(more) /\ Len(more) = 4 + 1
        /\ \A i \in 1..4 : more[i].part = a[i].part /\ more[i].job = a[i].job
    BY <1>8, <1>9
  <2> HIDE DEF more
  <2>3. GotSoFar("prune", a, <<>>, more, since)
    BY <2>1, <2>2 DEF GotSoFar
  <2> QED
    BY <2>3 DEF more
<1> QED
  BY <1>1, <1>2, <1>3, <1>5, <1>6, <1>10 DEF CallInv, Underway, a

\* What a call knows is always what its files held, and it asks for all of it.
LEMMA ReadInvariant == RSpec => []ReadInv
<1>1. RInit => ReadInv
  <2> SUFFICES ASSUME RInit PROVE ReadInv
    OBVIOUS
  <2>1. Init /\ rd = NoRead /\ since = [p \in Part |-> {}]
    BY DEF RInit
  <2>2. StoreInv
    BY <2>1, SlotsAtFirst, TypesAtFirst, TxAtFirst, ImagesAtFirst, ChosenAtFirst, PartitionsAtFirst,
       FewAtFirst DEF StoreInv
  <2>3. ReadShape /\ rd.op = "none"
    BY <2>1 DEF ReadShape, NoRead
  <2>4. SinceInv
    BY <2>1, <2>3, FS_EmptySet DEF SinceInv
  <2> QED
    BY <2>2, <2>3, <2>4 DEF ReadInv, CallInv, ListCall
<1>2. ReadInv /\ [RNext]_<<vars, reading>> => ReadInv'
  <2> SUFFICES ASSUME ReadInv, [RNext]_<<vars, reading>> PROVE ReadInv'
    OBVIOUS
  <2>0. StoreInv
    BY DEF ReadInv
  <2>1. CASE Reader /\ UNCHANGED vars
    BY <2>0, <2>1, ReaderKeepsReads, NextKeepsStore DEF ReadInv
  <2>2. CASE PruneApply
    BY <2>2, PruneApplyKeepsReads DEF ReadInv
  <2>3. CASE (\E g \in Proc : Step(g)) /\ Meanwhile
    <3>1. StoreInv'
      BY <2>0, <2>3, NextKeepsStore DEF Next
    <3> QED
      BY <2>3, <3>1, WriterKeepsReads DEF ReadInv
  <2>4. CASE Crash /\ rd' = NoRead /\ since' = [p \in Part |-> {}]
    <3>1. StoreInv'
      BY <2>0, <2>4, NextKeepsStore DEF Next
    <3> QED
      BY <2>4, <3>1, NoReadKeepsReads DEF ReadInv
  <2>5. CASE UNCHANGED <<vars, reading>>
    <3>1. StoreInv' /\ rd' = rd /\ since' = since /\ file' = file
      BY <2>0, <2>5, NextKeepsStore DEF vars, reading
    <3> QED
      BY <3>1 DEF ReadInv, ReadShape, SinceInv, CallInv
  <2> QED
    BY <2>1, <2>2, <2>3, <2>4, <2>5 DEF RNext
<1> QED
  BY <1>1, <1>2, PTL DEF RSpec

----------------------------------------------------------------------------
(* What a call reports *)

\* What GotFrom yields: the rows of such an answer, if there is one.
LEMMA GotFromAnswer ==
  ASSUME NEW p, NEW sel, NEW none, Len(rd.got) \in Nat
  PROVE  \/ /\ GotFrom(p, sel, none) = none
            /\ \A i \in 1..Len(rd.got) : ~(rd.got[i].part = p /\ rd.got[i].job.sel = sel)
         \/ \E i \in 1..Len(rd.got) :
              rd.got[i].part = p /\ rd.got[i].job.sel = sel /\ GotFrom(p, sel, none) = rd.got[i].rows
<1> DEFINE S == {i \in 1..Len(rd.got) : rd.got[i].part = p /\ rd.got[i].job.sel = sel}
           i == SelectInSeq(rd.got, LAMBDA g : g.part = p /\ g.job.sel = sel)
<1>1. i = IF S # {} THEN Min(S) ELSE 0
  BY DEF SelectInSeq
<1>2. GotFrom(p, sel, none) = IF i = 0 THEN none ELSE rd.got[i].rows
  BY DEF GotFrom
<1> HIDE DEF i
<1>3. CASE S # {}
  <2>1. S \in SUBSET Nat
    OBVIOUS
  <2>2. PICK n \in S : \A m \in S : n <= m
    BY <1>3, <2>1, LeastNumber
  <2>3. i = n
    <3> HIDE DEF S
    <3> QED
      BY <1>1, <1>3, <2>1, <2>2, LeastIsMin
  <2> QED
    BY <1>2, <2>3
<1>4. CASE S = {}
  BY <1>1, <1>2, <1>4
<1> QED
  BY <1>3, <1>4

\* All SELECTs of a call have their answers.
AllAnswered(op, a, got, moments) ==
  /\ a \in Seq(Selects(Job)) /\ Len(got) = Len(a)
  /\ \A i \in 1..Len(a) :
       got[i].part = a[i].part /\ got[i].job = a[i].job /\ Answers(op, a[i], got[i].rows, moments)

\* A call that is over has all its answers.
LEMMA CallAnswered ==
  ASSUME ReadInv, Answered, rd.op \in ListCall \ {"prune"}
  PROVE  ArgOf(rd.op, rd.arg) /\ AllAnswered(rd.op, SelectsOf(rd.op, rd.arg), rd.got, since)
<1> DEFINE a == SelectsOf(rd.op, rd.arg)
<1>1. Underway(rd.op, rd.arg, <<>>, rd.got, since)
  BY DEF ReadInv, CallInv, Answered
<1>2. ArgOf(rd.op, rd.arg) /\ a \in Seq(Selects(Job)) /\ GotSoFar(rd.op, a, <<>>, rd.got, since)
  BY <1>1, SelectsOfLists DEF Underway
<1> HIDE DEF a
<1>3. Len(a) - Len(<<>>) = Len(a)
  BY <1>2
<1>4. AllAnswered(rd.op, a, rd.got, since)
  BY <1>2, <1>3 DEF GotSoFar, AllAnswered
<1> QED
  BY <1>2, <1>4 DEF a

\* What a call reports of partition p: nothing, if it did not ask it, or what
\* p held at some moment.
Told(p, parts, job, none) ==
  LET got == GotFrom(p, job.sel, none) IN
  \/ got = none /\ \A i \in DOMAIN parts : parts[i] # p
  \/ \E f \in since[p] : got = Rows(f, job) \/ (rd.op = "stats" /\ job.sel = "preds" /\ got \subseteq Rows(f, job))

\* Every call but the prune tool's tells that of each partition.
LEMMA CallTold ==
  ASSUME ReadInv, Answered, rd.op \in ListCall \ {"prune"},
         NEW parts, NEW jobs, Lists(SelectsOf(rd.op, rd.arg), parts, jobs),
         NEW job, \E j \in DOMAIN jobs : jobs[j] = job,
         \A k \in DOMAIN jobs : jobs[k].sel = job.sel => jobs[k] = job,
         NEW p, NEW none
  PROVE  Told(p, parts, job, none)
<1> DEFINE a == SelectsOf(rd.op, rd.arg)
           got == GotFrom(p, job.sel, none)
<1>1. AllAnswered(rd.op, a, rd.got, since) /\ Lists(a, parts, jobs)
  BY CallAnswered
<1> HIDE DEF a
<1>2. Len(a) \in Nat /\ DOMAIN a = 1..Len(a) /\ Len(rd.got) = Len(a)
  BY <1>1 DEF AllAnswered
<1>3. \A i \in 1..Len(a) :
        rd.got[i].part = a[i].part /\ rd.got[i].job = a[i].job /\ Answers(rd.op, a[i], rd.got[i].rows, since)
  BY <1>1 DEF AllAnswered
<1>4. CASE /\ got = none
           /\ \A i \in 1..Len(a) : ~(rd.got[i].part = p /\ rd.got[i].job.sel = job.sel)
  <2>1. ASSUME NEW i \in DOMAIN parts, parts[i] = p
        PROVE  FALSE
    <3>1. PICK m \in DOMAIN a : a[m] = [part |-> p, job |-> job]
      BY <1>1, <2>1 DEF Lists
    <3>2. a[m].part = p /\ a[m].job = job
      BY <3>1
    <3> QED
      BY <1>2, <1>3, <1>4, <3>2
  <2> QED
    BY <1>4, <2>1 DEF Told
<1>5. ASSUME NEW i \in 1..Len(a), rd.got[i].part = p, rd.got[i].job.sel = job.sel, got = rd.got[i].rows
      PROVE  Told(p, parts, job, none)
  <2>1. /\ a[i].part = p /\ a[i].job.sel = job.sel /\ Answers(rd.op, a[i], got, since)
    BY <1>3, <1>5
  <2>2. PICK m \in DOMAIN parts, k \in DOMAIN jobs : a[i] = [part |-> parts[m], job |-> jobs[k]]
    BY <1>1, <1>2 DEF Lists
  <2>3. a[i].job = job
    BY <2>1, <2>2
  <2> HIDE DEF got
  <2>4. PICK f \in since[p] : got = Rows(f, job) \/ (rd.op = "stats" /\ job.sel = "preds" /\ got \subseteq Rows(f, job))
    BY <2>1, <2>3 DEF Answers
  <2> QED
    BY <2>4 DEF Told, got
<1> QED
  BY <1>2, <1>4, <1>5, GotFromAnswer

\* What is read of a file that has no quad a pattern may match.
LEMMA FoundOrAbsent ==
  ASSUME ReadInv, Answered, rd.op \in {"find", "count"}, NEW p \in Part,
         NEW job, job = [sel |-> IF rd.op = "find" THEN "quads" ELSE "count", pat |-> rd.arg], NEW none
  PROVE  \E f \in since[p] :
           \/ GotFrom(p, job.sel, none) = Rows(f, job)
           \/ GotFrom(p, job.sel, none) = none /\ {q \in f.quads : Matches(rd.arg, q)} = {}
<1> DEFINE parts == partsForPattern(rd.arg)
           jobs == <<job>>
<1>1. rd.op \in ListCall \ {"prune"} /\ ArgOf(rd.op, rd.arg) /\ rd.arg \in PatternChoice
  BY CallAnswered DEF ListCall, ArgOf
<1>2. Lists(SelectsOf(rd.op, rd.arg), parts, jobs)
  BY <1>1, SelectsOfLists
<1>3. (\E j \in DOMAIN jobs : jobs[j] = job) /\ \A k \in DOMAIN jobs : jobs[k] = job
  OBVIOUS
<1>4. \A q \in Part : (\A i \in DOMAIN parts : parts[i] # q) =>
        \A written \in Written : Matches(rd.arg, written) => partFor(written.label) # q
  BY <1>1, ScopeOfPattern
<1> HIDE DEF jobs, parts
<1>5. Told(p, parts, job, none)
  BY <1>1, <1>2, <1>3, CallTold
<1>6. CASE GotFrom(p, job.sel, none) = none /\ \A i \in DOMAIN parts : parts[i] # p
  <2>1. file[p] \in since[p] /\ Filed(p, file[p])
    BY <1>1 DEF ReadInv, SinceInv, ListCall
  <2>2. ASSUME NEW q \in file[p].quads, Matches(rd.arg, q)
        PROVE  FALSE
    <3>1. q \in Written /\ partFor(q.label) = p
      BY <2>1 DEF Filed, Few
    <3> QED
      BY <1>4, <1>6, <2>2, <3>1
  <2>3. {q \in file[p].quads : Matches(rd.arg, q)} = {}
    BY <2>2
  <2> QED
    BY <1>6, <2>1, <2>3
<1>7. CASE \E f \in since[p] : GotFrom(p, job.sel, none) = Rows(f, job)
  BY <1>7
<1> QED
  BY <1>5, <1>6, <1>7 DEF Told

\* Find and Count.
LEMMA ReadsAreComplete == ReadInv => ScopedReadsComplete
<1> SUFFICES ASSUME ReadInv PROVE ScopedReadsComplete
  OBVIOUS
<1>1. ASSUME Answered, rd.op = "find", NEW p \in Part
      PROVE  \E f \in since[p] : GotFrom(p, "quads", {}) = {q \in f.quads : Matches(rd.arg, q)}
  <2> DEFINE job == [sel |-> "quads", pat |-> rd.arg]
  <2>1. job.sel = "quads" /\ \A f : Rows(f, job) = {q \in f.quads : Matches(rd.arg, q)}
    BY DEF Rows
  <2>2. job = [sel |-> IF rd.op = "find" THEN "quads" ELSE "count", pat |-> rd.arg]
    BY <1>1
  <2> HIDE DEF job
  <2>3. PICK f \in since[p] :
          \/ GotFrom(p, job.sel, {}) = Rows(f, job)
          \/ GotFrom(p, job.sel, {}) = {} /\ {q \in f.quads : Matches(rd.arg, q)} = {}
    BY <1>1, <2>2, FoundOrAbsent
  <2> QED
    BY <2>1, <2>3
<1>2. ASSUME Answered, rd.op = "count", NEW p \in Part
      PROVE  \E f \in since[p] : GotFrom(p, "count", 0) = Cardinality({q \in f.quads : Matches(rd.arg, q)})
  <2> DEFINE job == [sel |-> "count", pat |-> rd.arg]
  <2>1. job.sel = "count" /\ \A f : Rows(f, job) = Cardinality({q \in f.quads : Matches(rd.arg, q)})
    BY DEF Rows
  <2>2. job = [sel |-> IF rd.op = "find" THEN "quads" ELSE "count", pat |-> rd.arg]
    BY <1>2
  <2> HIDE DEF job
  <2>3. PICK f \in since[p] :
          \/ GotFrom(p, job.sel, 0) = Rows(f, job)
          \/ GotFrom(p, job.sel, 0) = 0 /\ {q \in f.quads : Matches(rd.arg, q)} = {}
    BY <1>2, <2>2, FoundOrAbsent
  <2>4. Cardinality({}) = 0
    BY FS_EmptySet
  <2> QED
    BY <2>1, <2>3, <2>4
<1> QED
  BY <1>1, <1>2 DEF ScopedReadsComplete

\* Scoped reads are complete: whatever is written and pruned while Find or Count asks
\* one partition after another, each partition's part of the answer is what that file
\* held at one moment of the call, and a partition that partsForPattern leaves out
\* holds nothing that matches.
THEOREM ReadsComplete == RSpec => []ScopedReadsComplete
BY ReadInvariant, ReadsAreComplete, PTL

----------------------------------------------------------------------------
(* Totals *)

\* The quads of a file that carry a label.
Carrying(f, l) == {q \in f.quads : q.label = l}

\* LabelCounts: one partition has a label's quads, the others add nothing.
LEMMA LabelsAddUp ==
  ASSUME ReadInv, Answered, rd.op = "labels", NEW l \in AnyLabel
  PROVE  \E f \in since[partFor(l)] : LabelTotal(l) = Cardinality(Carrying(f, l))
<1> DEFINE S == DOMAIN rd.got
           fun == [i \in S |-> IF l \in DOMAIN rd.got[i].rows THEN rd.got[i].rows[l] ELSE 0]
<1>1. /\ rd.op \in ListCall \ {"prune"} /\ ArgOf(rd.op, rd.arg)
      /\ AllAnswered(rd.op, SelectsOf(rd.op, rd.arg), rd.got, since)
  BY CallAnswered DEF ListCall
<1>2. /\ Len(SelectsOf(rd.op, rd.arg)) = Len(PartOrder)
      /\ \A i \in 1..Len(PartOrder) : SelectsOf(rd.op, rd.arg)[i] = [part |-> PartOrder[i], job |-> Select("labels")]
  BY <1>1, SelectsOfLists
<1>3. PartOrder \in Seq(Part) /\ Range(PartOrder) = Part /\ IsInjective(PartOrder)
  BY ReadsAssumption
<1>4. /\ Len(rd.got) = Len(PartOrder) /\ Len(PartOrder) \in Nat
      /\ DOMAIN PartOrder = 1..Len(PartOrder)
  BY <1>1, <1>2, <1>3 DEF AllAnswered
<1>5. S = 1..Len(PartOrder) /\ IsFiniteSet(S)
  <2>1. IsList(rd.got)
    BY <1>1 DEF ReadInv, CallInv, Underway, GotSoFar
  <2>2. S = 1..Len(rd.got)
    BY <2>1 DEF IsList
  <2>3. \A n \in Nat : IsFiniteSet(1..n)
    BY FS_Interval
  <2> QED
    BY <1>4, <2>2, <2>3
<1>6. \A i \in S : \E f \in since[PartOrder[i]] : rd.got[i].rows = Rows(f, Select("labels"))
  <2> SUFFICES ASSUME NEW i \in S
               PROVE  \E f \in since[PartOrder[i]] : rd.got[i].rows = Rows(f, Select("labels"))
    OBVIOUS
  <2> DEFINE select == SelectsOf(rd.op, rd.arg)[i]
  <2>1. Answers(rd.op, select, rd.got[i].rows, since)
    <3> DEFINE a == SelectsOf(rd.op, rd.arg)
               n == Len(PartOrder)
    <3>1. Len(a) = n /\ AllAnswered(rd.op, a, rd.got, since) /\ i \in 1..n
      BY <1>1, <1>2, <1>5
    <3> HIDE DEF a, n
    <3>2. Answers(rd.op, a[i], rd.got[i].rows, since)
      BY <3>1 DEF AllAnswered
    <3> QED
      BY <3>2 DEF a
  <2>2. select.part = PartOrder[i] /\ select.job = Select("labels")
    <3>1. i \in 1..Len(PartOrder)
      BY <1>5
    <3>2. select = [part |-> PartOrder[i], job |-> Select("labels")]
      BY <1>2, <3>1
    <3> HIDE DEF select
    <3> QED
      BY <3>2
  <2> HIDE DEF select
  <2> QED
    BY <2>1, <2>2 DEF Answers
<1>7. ASSUME NEW i \in S, NEW f \in since[PartOrder[i]], rd.got[i].rows = Rows(f, Select("labels"))
      PROVE  fun[i] = Cardinality(Carrying(f, l)) /\ fun[i] \in Nat /\ (Carrying(f, l) # {} => PartOrder[i] = partFor(l))
  <2>1. PartOrder[i] \in Part
    BY <1>3, <1>5
  <2>2. Filed(PartOrder[i], f)
    BY <2>1 DEF ReadInv, SinceInv
  <2>3. IsFiniteSet(Carrying(f, l)) /\ Cardinality(Carrying(f, l)) \in Nat
    <3>1. Carrying(f, l) \in SUBSET f.quads /\ IsFiniteSet(f.quads)
      BY <2>2 DEF Filed, Few, Carrying
    <3> QED
      BY <3>1, FS_Subset, FS_CardinalityType
  <2>4. rd.got[i].rows = [k \in {q.label : q \in f.quads} |-> Cardinality({q \in f.quads : q.label = k})]
    BY <1>7 DEF Rows, Select
  <2>5. CASE l \in {q.label : q \in f.quads}
    BY <2>3, <2>4, <2>5, <2>2 DEF Carrying, Filed
  <2>6. CASE l \notin {q.label : q \in f.quads}
    <3>1. Carrying(f, l) = {} /\ l \notin DOMAIN rd.got[i].rows
      BY <2>4, <2>6 DEF Carrying
    <3> QED
      BY <3>1, FS_EmptySet
  <2> QED
    BY <2>5, <2>6
<1>8. fun \in [S -> Nat] /\ DOMAIN fun = S
  <2>1. \A i \in S : fun[i] \in Nat
    BY <1>6, <1>7
  <2> QED
    BY <2>1
<1>9. PICK k \in S : PartOrder[k] = partFor(l)
  BY <1>3, <1>4, <1>5, RoutingAssumption DEF Range, partFor
<1>10. ASSUME NEW i \in S, i # k
       PROVE  fun[i] = 0
  <2>1. PartOrder[i] # partFor(l)
    BY <1>3, <1>4, <1>5, <1>9, <1>10 DEF IsInjective
  <2>2. PICK f \in since[PartOrder[i]] : rd.got[i].rows = Rows(f, Select("labels"))
    BY <1>6
  <2>3. fun[i] = Cardinality(Carrying(f, l)) /\ Carrying(f, l) = {}
    BY <1>7, <2>1, <2>2
  <2> HIDE DEF fun
  <2> QED
    BY <2>3, FS_EmptySet
<1>11. LabelTotal(l) = SumFunction(fun)
  BY DEF LabelTotal
<1>12. PICK f \in since[PartOrder[k]] : rd.got[k].rows = Rows(f, Select("labels"))
  BY <1>6
<1>13. fun[k] = Cardinality(Carrying(f, l))
  BY <1>7, <1>12
<1> HIDE DEF fun, S
<1>14. SumFunction(fun) = fun[k]
  BY <1>5, <1>8, <1>10, SumOfOne
<1> QED
  BY <1>9, <1>11, <1>13, <1>14

\* What Stats and Shape read of a partition.
LEMMA ReadOfEach ==
  ASSUME ReadInv, Answered, NEW sel, NEW p \in Part,
         (rd.op = "stats" /\ sel = "preds") \/ (rd.op = "shape" /\ sel \in {"preds", "edges"})
  PROVE  \E f \in since[p] :
           \/ GotFrom(p, sel, {}) = Rows(f, Select(sel))
           \/ rd.op = "stats" /\ GotFrom(p, sel, {}) \subseteq Rows(f, Select(sel))
<1> DEFINE jobs == IF rd.op = "stats" THEN <<Select("total"), Select("preds")>> ELSE <<Select("preds"), Select("edges")>>
           job == Select(sel)
<1>1. rd.op \in ListCall \ {"prune"} /\ ArgOf(rd.op, rd.arg)
  BY CallAnswered DEF ListCall
<1>2. Lists(SelectsOf(rd.op, rd.arg), PartOrder, jobs)
  BY <1>1, SelectsOfLists
<1>3. job.sel = sel /\ (\E j \in DOMAIN jobs : jobs[j] = job) /\ \A k \in DOMAIN jobs : jobs[k].sel = sel => jobs[k] = job
  BY DEF Select
<1> HIDE DEF jobs, job
<1>4. Told(p, PartOrder, job, {})
  BY <1>1, <1>2, <1>3, CallTold
<1>5. \E i \in DOMAIN PartOrder : PartOrder[i] = p
  BY ReadsAssumption DEF Range
<1> QED
  BY <1>3, <1>4, <1>5 DEF Told, job

\* Stats never reports a predicate that no file had.
LEMMA PredicatesAreReal ==
  ASSUME ReadInv, Answered, rd.op = "stats"
  PROVE  UNION {GotFrom(p, "preds", {}) : p \in Part}
           \subseteq {q.stmt[2] : q \in UNION {f.quads : f \in UNION {since[p] : p \in Part}}}
<1> SUFFICES ASSUME NEW p \in Part, NEW pred \in GotFrom(p, "preds", {})
             PROVE  pred \in {q.stmt[2] : q \in UNION {f.quads : f \in UNION {since[p1] : p1 \in Part}}}
  OBVIOUS
<1>1. PICK f \in since[p] : GotFrom(p, "preds", {}) \subseteq Rows(f, Select("preds"))
  BY ReadOfEach
<1>2. pred \in {q.stmt[2] : q \in f.quads}
  BY <1>1 DEF Rows, Select
<1> QED
  BY <1>2

\* While nobody writes, a Shape's predicates are those of its edges.
LEMMA ShapeOfStillness ==
  ASSUME ReadInv, Answered, rd.op = "shape", Quiet
  PROVE  UNION {GotFrom(p, "preds", {}) : p \in Part}
           = {e[2] : e \in UNION {GotFrom(p, "edges", {}) : p \in Part}}
<1>1. ASSUME NEW p \in Part
      PROVE  GotFrom(p, "preds", {}) = {e[2] : e \in GotFrom(p, "edges", {})}
  <2>1. PICK f \in since[p] : GotFrom(p, "preds", {}) = Rows(f, Select("preds"))
    BY ReadOfEach
  <2>2. PICK g \in since[p] : GotFrom(p, "edges", {}) = Rows(g, Select("edges"))
    BY ReadOfEach
  <2>3. f = g
    <3>1. IsFiniteSet(since[p]) /\ Cardinality(since[p]) = 1
      BY DEF ReadInv, SinceInv, Quiet
    <3>2. \E x : since[p] = {x}
      <4> DEFINE moments == since[p]
      <4>1. IsFiniteSet(moments) /\ Cardinality(moments) = 1 /\ f \in moments
        BY <3>1
      <4> HIDE DEF moments
      <4>2. IsFiniteSet(moments \ {f}) /\ Cardinality(moments \ {f}) = 1 - 1
        BY <4>1, FS_RemoveElement
      <4>3. moments \ {f} = {}
        BY <4>2, FS_EmptySet
      <4> QED
        BY <4>1, <4>3 DEF moments
    <3> QED
      BY <3>2
  <2>4. GotFrom(p, "preds", {}) = {q.stmt[2] : q \in f.quads} /\ GotFrom(p, "edges", {}) = {q.stmt : q \in f.quads}
    BY <2>1, <2>2, <2>3 DEF Rows, Select
  <2> QED
    BY <2>4
<1> QED
  BY <1>1

\* What Stats adds up: the quads of each partition at some moment.
LEMMA TotalOfEach ==
  ASSUME ReadInv, Answered, rd.op = "stats", NEW p \in Part
  PROVE  \E f \in since[p] : GotFrom(p, "total", 0) = Cardinality(f.quads)
<1> DEFINE jobs == <<Select("total"), Select("preds")>>
           job == Select("total")
<1>1. rd.op \in ListCall \ {"prune"} /\ ArgOf(rd.op, rd.arg)
  BY CallAnswered DEF ListCall
<1>2. Lists(SelectsOf(rd.op, rd.arg), PartOrder, jobs)
  BY <1>1, SelectsOfLists
<1>3. /\ job.sel = "total" /\ (\E j \in DOMAIN jobs : jobs[j] = job)
      /\ \A k \in DOMAIN jobs : jobs[k].sel = job.sel => jobs[k] = job
  BY DEF Select
<1>6. \A f : Rows(f, job) = Cardinality(f.quads)
  BY DEF Rows, Select
<1> HIDE DEF jobs, job
<1>4. Told(p, PartOrder, job, 0)
  BY <1>1, <1>2, <1>3, CallTold
<1>5. \E i \in DOMAIN PartOrder : PartOrder[i] = p
  BY ReadsAssumption DEF Range
<1> QED
  BY <1>3, <1>4, <1>5, <1>6 DEF Told

\* All of them.
LEMMA TotalsAreConsistent == ReadInv => TotalsConsistent
<1> SUFFICES ASSUME ReadInv PROVE TotalsConsistent
  OBVIOUS
<1>1. ASSUME Answered, rd.op = "labels", NEW l \in AnyLabel
      PROVE  \E f \in since[partFor(l)] : LabelTotal(l) = Cardinality({q \in f.quads : q.label = l})
  BY <1>1, LabelsAddUp DEF Carrying
<1> QED
  BY <1>1, PredicatesAreReal, TotalOfEach, ShapeOfStillness DEF TotalsConsistent

\* Totals are consistent: LabelCounts adds up, over partitions read at different moments,
\* a number that each label had at one of them; Stats, even when it stops at an error of
\* rows.Err unnoticed, reports no predicate that was never there, and adds up a number of
\* quads each partition had at one of them; and the predicates of a
\* Shape are those of its edges while nobody writes.
THEOREM TotalsAlwaysConsistent == RSpec => []TotalsConsistent
BY ReadInvariant, TotalsAreConsistent, PTL

----------------------------------------------------------------------------
(* The preview of cmd/prune *)

\* The operations a prune would delete.
Eligible(f, before) == {o \in f.ops : \E c \in Old(f, before) : c.id = o.id}

\* Nobody prunes inside the store: a file's journal only grows.
LEMMA JournalOnlyGrows ==
  ASSUME StoreInv, ~Prune, NEW g \in Proc, Step(g), NEW p \in Part
  PROVE  file[p].commits \subseteq file'[p].commits /\ file[p].ops \subseteq file'[p].ops
<1>0. SlotTypes
  BY DEF StoreInv, SlotInv
<1>1. CASE file' = file
  BY <1>1
<1>2. CASE CommitTx(g) /\ call[g].locked
  <2>1. file' = [file EXCEPT ![at[g]] = call[g].image]
    BY <1>2 DEF CommitTx, Publish
  <2>2. file'[p] = IF p = at[g] THEN call[g].image ELSE file[p]
    BY <2>1 DEF StoreInv, TypeInv
  <2> QED
    BY <1>2, <2>2 DEF StoreInv, JournalGrows
<1>3. CASE CommitTx(g) /\ ~call[g].locked
  BY <1>1, <1>3 DEF CommitTx, contents
<1>4. CASE AtSlots \/ (\E b \in BatchChoice \cup LegacyChoice : Starts(g, b)) \/ (\E now \in Second : Execute(g, now)) \/ Rollback(g)
  BY <1>1, <1>4 DEF AtSlots, Starts, Execute, Rollback, contents
<1> QED
  BY <1>0, <1>2, <1>3, <1>4, StepKinds DEF PruneOps

\* So does what a prune would delete.
LEMMA EligibleGrows ==
  ASSUME NEW f, NEW g, NEW before, f.commits \subseteq g.commits, f.ops \subseteq g.ops, Few(g)
  PROVE  /\ Cardinality(Eligible(f, before)) \in Nat /\ Cardinality(Eligible(g, before)) \in Nat
         /\ Cardinality(Eligible(f, before)) <= Cardinality(Eligible(g, before))
<1> DEFINE E == Eligible(f, before)
           F == Eligible(g, before)
<1>1. E \in SUBSET F /\ F \in SUBSET g.ops /\ IsFiniteSet(g.ops)
  BY DEF Eligible, Old, Few
<1> HIDE DEF E, F
<1>2. IsFiniteSet(F)
  BY <1>1, FS_Subset
<1>3. IsFiniteSet(E) /\ Cardinality(E) <= Cardinality(F)
  BY <1>1, <1>2, FS_Subset
<1> QED
  BY <1>2, <1>3, FS_CardinalityType DEF E, F

\* What a prune deletes.
LEMMA PruneDeletes ==
  ASSUME NEW f \in Contents, Few(f), NEW before
  PROVE  Cardinality(f.ops) - Cardinality(Pruned(f, before).ops) = Cardinality(Eligible(f, before))
<1> DEFINE E == Eligible(f, before)
           ops == f.ops
           left == Pruned(f, before).ops
<1>1. left = ops \ E /\ ops \cap E = E /\ E \in SUBSET ops /\ IsFiniteSet(ops)
  BY DEF Pruned, Contents, Eligible, Old, Few
<1> HIDE DEF E, ops, left
<1>2. Cardinality(left) = Cardinality(ops) - Cardinality(E)
  BY <1>1, FS_Difference
<1>3. Cardinality(ops) \in Nat /\ Cardinality(E) \in Nat
  BY <1>1, FS_Subset, FS_CardinalityType
<1> DEFINE x == Cardinality(ops)
           y == Cardinality(E)
           z == Cardinality(left)
<1> HIDE DEF x, y, z
<1>4. z = x - y /\ x \in Nat /\ y \in Nat
  BY <1>2, <1>3 DEF x, y, z
<1>5. x - z = y
  BY <1>4
<1> QED
  BY <1>5 DEF x, y, z, E, ops, left

\* The preview is a number of operations that are there to be deleted, and no
\* larger than what was deleted.
Previewed(got, arg, f) ==
  /\ Len(got) = 4 => got[4].rows \in Nat /\ got[4].rows <= Cardinality(Eligible(f, arg.before))
  /\ Len(got) = 5 => got[5] >= got[4].rows

PreviewInv == rd.op = "prune" => Previewed(rd.got, rd.arg, file[rd.arg.part])

\* The prune tool's call.
LEMMA PruneCall ==
  ASSUME NEW arg, NEW todo, NEW got, NEW moments, Underway("prune", arg, todo, got, moments)
  PROVE  /\ arg.part \in Part /\ IsList(got) /\ Len(got) \in Nat
         /\ Len(got) >= 4 =>
              /\ todo = <<>>
              /\ got[4].part = arg.part /\ got[4].job = SelectOlder("oldops", arg.before)
<1> DEFINE a == SelectsOf("prune", arg)
<1>1. /\ ArgOf("prune", arg) /\ todo \in Seq(Selects(Job)) /\ Remains(todo, a)
      /\ GotSoFar("prune", a, todo, got, moments)
  BY DEF Underway
<1>2. Len(a) = 4 /\ a[4] = [part |-> arg.part, job |-> SelectOlder("oldops", arg.before)]
  BY <1>1, SelectsOfLists DEF ListCall
<1> HIDE DEF a
<1>3. arg.part \in Part
  BY <1>1 DEF ArgOf
<1>4. IsList(got) /\ Len(got) \in Nat
  BY <1>1, LongerList DEF GotSoFar
<1>5. ASSUME Len(got) >= 4
      PROVE  todo = <<>> /\ got[4].part = a[4].part /\ got[4].job = a[4].job
  <2>1. Len(todo) \in Nat /\ (Len(todo) = 0 => todo = <<>>)
    BY <1>1
  <2>2. /\ Len(got) = 4 - Len(todo) \/ todo = <<>>
        /\ \A i \in 1..(4 - Len(todo)) : got[i].part = a[i].part /\ got[i].job = a[i].job
    BY <1>1, <1>2 DEF GotSoFar
  <2>3. todo = <<>>
    <3> DEFINE x == Len(todo)
               y == Len(got)
    <3>1. x \in Nat /\ y \in Nat /\ y >= 4 /\ (y = 4 - x \/ todo = <<>>) /\ (x = 0 => todo = <<>>)
      BY <1>4, <1>5, <2>1, <2>2
    <3> HIDE DEF x, y
    <3> QED
      BY <3>1
  <2>4. 4 - Len(todo) = 4
    BY <2>3
  <2> QED
    BY <2>2, <2>3, <2>4
<1> QED
  BY <1>2, <1>3, <1>4, <1>5

\* As long as it lasts.
LEMMA PruneUnderway ==
  ReadInv /\ rd.op = "prune" => Underway("prune", rd.arg, rd.todo, rd.got, since)
BY DEF ReadInv, CallInv, ListCall

\* A SELECT of the prune tool.
LEMMA QueryKeepsPreview ==
  ASSUME ReadInv, ReadInv', Query, UNCHANGED vars, rd.op = "prune"
  PROVE  PreviewInv'
<1> DEFINE next == Head(rd.todo)
           rows == Rows(file[next.part], next.job)
           w == WithRows(next, rows)
           n == Len(rd.got)
<1>1. /\ rd.todo # <<>> /\ rd'.op = "prune" /\ rd'.arg = rd.arg /\ rd'.got = Append(rd.got, w)
      /\ file' = file
  BY DEF Query, ReadInv, ReadShape, vars
<1>2. w.part = next.part /\ w.job = next.job /\ w.rows = rows
  BY DEF WithRows
<1>3. IsList(rd.got) /\ n \in Nat /\ n < 4
  <2> DEFINE got == rd.got
  <2>1. IsList(got) /\ Len(got) \in Nat /\ (Len(got) >= 4 => rd.todo = <<>>)
    <3>1. Underway("prune", rd.arg, rd.todo, got, since)
      BY PruneUnderway
    <3> HIDE DEF got
    <3> QED
      BY <3>1, PruneCall
  <2> DEFINE m == Len(got)
  <2>2. m \in Nat /\ ~(m >= 4)
    BY <1>1, <2>1
  <2> HIDE DEF m
  <2>3. m < 4
    BY <2>2
  <2> QED
    BY <2>1, <2>3 DEF m
<1> HIDE DEF w, rows, next
<1>4. Len(rd'.got) = n + 1 /\ rd'.got[n + 1] = w
  <2> DEFINE got == rd.got
  <2>1. IsList(got)
    BY <1>3
  <2> HIDE DEF got
  <2>2. Len(Append(got, w)) = Len(got) + 1 /\ Append(got, w)[Len(got) + 1] = w
    BY <2>1, LongerList
  <2> QED
    BY <1>1, <2>2 DEF got
<1>5. Len(rd'.got) # 5
  <2> DEFINE more == rd'.got
  <2> HIDE DEF n, more
  <2> QED
    BY <1>3, <1>4 DEF more
<1>6. ASSUME Len(rd'.got) = 4
      PROVE  rd'.got[4].rows \in Nat /\ rd'.got[4].rows = Cardinality(Eligible(file[rd.arg.part], rd.arg.before))
  <2>1. n + 1 = 4
    BY <1>4, <1>6
  <2>2. rd'.got[4] = w
    BY <1>4, <2>1
  <2>3. rd'.got[4].part = rd.arg.part /\ rd'.got[4].job = SelectOlder("oldops", rd.arg.before)
    <3>1. Underway("prune", rd'.arg, rd'.todo, rd'.got, since')
      BY <1>1 DEF ReadInv, CallInv, ListCall
    <3> DEFINE more == rd'.got
    <3>2. Len(more) = 4 /\ Underway("prune", rd.arg, rd'.todo, more, since')
      BY <1>1, <1>6, <3>1
    <3> HIDE DEF more
    <3>3. more[4].part = rd.arg.part /\ more[4].job = SelectOlder("oldops", rd.arg.before)
      BY <3>2, PruneCall
    <3> QED
      BY <3>3 DEF more
  <2>4. rows = Rows(file[rd.arg.part], SelectOlder("oldops", rd.arg.before))
    BY <1>2, <2>2, <2>3 DEF rows
  <2>5. rows = Cardinality(Eligible(file[rd.arg.part], rd.arg.before))
    BY <2>4 DEF Rows, SelectOlder, Eligible
  <2>6. Cardinality(Eligible(file[rd.arg.part], rd.arg.before)) \in Nat
    <3>1. rd.arg.part \in Part
      BY PruneUnderway, PruneCall
    <3>2. Few(file[rd.arg.part])
      BY <3>1 DEF ReadInv, StoreInv, TypeInv, FewInv
    <3> QED
      BY <3>2, EligibleGrows
  <2> QED
    BY <1>2, <2>2, <2>5, <2>6
<1>7. Previewed(rd'.got, rd.arg, file[rd.arg.part])
  <2> DEFINE more == rd'.got
             e == Cardinality(Eligible(file[rd.arg.part], rd.arg.before))
  <2>1. Len(more) # 5 /\ (Len(more) = 4 => more[4].rows \in Nat /\ more[4].rows = e)
    BY <1>5, <1>6
  <2> HIDE DEF more, e
  <2>2. Len(more) # 5 /\ (Len(more) = 4 => more[4].rows \in Nat /\ more[4].rows <= e)
    BY <2>1
  <2> QED
    BY <2>2 DEF Previewed, more, e
<1> QED
  BY <1>1, <1>7 DEF PreviewInv

\* The DELETE that follows.
LEMMA PruneApplyKeepsPreview ==
  ASSUME ReadInv, PreviewInv, PruneApply
  PROVE  PreviewInv'
<1> DEFINE p == rd.arg.part
           e == Cardinality(Eligible(file[p], rd.arg.before))
           n == Cardinality(file[p].ops) - Cardinality(Pruned(file[p], rd.arg.before).ops)
           got == rd.got
           more == Append(got, n)
<1>1. /\ rd.op = "prune" /\ Len(got) = 4 /\ rd'.op = "prune" /\ rd'.got = more /\ rd'.arg = rd.arg
  BY DEF PruneApply, ReadInv, ReadShape
<1>2. p \in Part /\ IsList(got)
  BY <1>1, PruneUnderway, PruneCall
<1>3. file[p] \in Contents /\ Few(file[p])
  BY <1>2 DEF ReadInv, StoreInv, TypeInv, FewInv
<1>4. n = e /\ e \in Nat
  BY <1>3, PruneDeletes, EligibleGrows
<1>5. got[4].rows \in Nat /\ got[4].rows <= e
  BY <1>1 DEF PreviewInv, Previewed
<1> HIDE DEF p, e, n, got
<1>6. Len(more) = 5 /\ more[4] = got[4] /\ more[5] = n
  <2>1. Len(got) \in Nat /\ Len(more) = Len(got) + 1 /\ (\A i \in 1..Len(got) : more[i] = got[i]) /\ more[Len(got) + 1] = n
    <3>1. IsList(got)
      BY <1>2
    <3> QED
      BY <3>1, LongerList
  <2> HIDE DEF more
  <2> QED
    BY <1>1, <2>1
<1> HIDE DEF more
<1>7. Previewed(more, rd.arg, file'[rd.arg.part])
  BY <1>4, <1>5, <1>6 DEF Previewed
<1> QED
  BY <1>1, <1>7 DEF PreviewInv

\* Others commit while the tool is between its counts and its DELETE.
LEMMA CommitsKeepPreview ==
  ASSUME ReadInv, StoreInv', PreviewInv, ~Prune, NEW g \in Proc, Step(g), Meanwhile
  PROVE  PreviewInv'
<1> SUFFICES ASSUME rd.op = "prune" PROVE Previewed(rd.got, rd.arg, file'[rd.arg.part])
  BY DEF Meanwhile, PreviewInv
<1> DEFINE p == rd.arg.part
           e == Cardinality(Eligible(file[p], rd.arg.before))
           d == Cardinality(Eligible(file'[p], rd.arg.before))
<1>1. p \in Part
  BY PruneUnderway, PruneCall
<1>2. file[p].commits \subseteq file'[p].commits /\ file[p].ops \subseteq file'[p].ops
  BY <1>1, JournalOnlyGrows DEF ReadInv
<1>3. Few(file'[p])
  BY <1>1 DEF StoreInv, TypeInv, FewInv
<1> HIDE DEF p
<1>4. e \in Nat /\ d \in Nat /\ e <= d
  BY <1>2, <1>3, EligibleGrows
<1>5. /\ Len(rd.got) = 4 => rd.got[4].rows \in Nat /\ rd.got[4].rows <= e
      /\ Len(rd.got) = 5 => rd.got[5] >= rd.got[4].rows
  BY DEF PreviewInv, Previewed, p
<1> HIDE DEF d, e
<1>6. Len(rd.got) = 4 => rd.got[4].rows \in Nat /\ rd.got[4].rows <= d
  BY <1>4, <1>5
<1> QED
  BY <1>5, <1>6 DEF Previewed, p, d

\* Nothing was counted yet, or there is no prune.
LEMMA NoPreview ==
  ASSUME rd'.op # "prune" \/ rd'.got = <<>>
  PROVE  PreviewInv'
<1>1. rd'.got = <<>> => Len(rd'.got) = 0
  OBVIOUS
<1>2. rd'.got = <<>> => Previewed(rd'.got, rd'.arg, file'[rd'.arg.part])
  BY <1>1 DEF Previewed
<1> QED
  BY <1>2 DEF PreviewInv

\* Whatever the reader does.
LEMMA ReaderKeepsPreview ==
  ASSUME ReadInv, ReadInv', PreviewInv, Reader, UNCHANGED vars
  PROVE  PreviewInv'
<1>1. CASE Find \/ Count \/ LabelCounts \/ Stats \/ Shape \/ CommitStatsAt \/ PruneTool
  <2>1. rd'.got = <<>>
    BY <1>1 DEF Find, Count, LabelCounts, Stats, Shape, CommitStatsAt, PruneTool, Open, NoRead
  <2> QED
    BY <2>1, NoPreview
<1>2. CASE Query /\ rd.op = "prune"
  BY <1>2, QueryKeepsPreview
<1>3. CASE Query /\ rd.op # "prune"
  <2>1. rd'.op # "prune"
    BY <1>3 DEF Query, ReadInv, ReadShape
  <2> QED
    BY <2>1, NoPreview
<1>4. CASE StatsCutShort
  <2>1. rd'.op # "prune"
    BY <1>4 DEF StatsCutShort, ReadInv, ReadShape
  <2> QED
    BY <2>1, NoPreview
<1>5. CASE Fail \/ EndCall
  <2>1. rd'.op # "prune"
    BY <1>5 DEF Fail, EndCall, NoRead
  <2> QED
    BY <2>1, NoPreview
<1>6. CASE Path \/ PathStep \/ PathGather \/ PathUnique
  <2>1. ReadShape
    BY DEF ReadInv
  <2>2. Path \/ PathStep => rd'.op # "prune"
    <3>2. Path => rd'.op = "path"
      BY DEF Path, NoRead
    <3>3. ASSUME PathStep
          PROVE  rd'.op # "prune"
      <4>1. rd.op = "path"
        BY <3>3 DEF PathStep, AtStep
      <4>2. CASE rd' = NoRead
        BY <4>2 DEF NoRead
      <4>3. CASE rd' # NoRead
        <5>1. PICK todo : rd' = [rd EXCEPT !.todo = todo]
          BY <3>3, <4>3 DEF PathStep
        <5> QED
          BY <2>1, <4>1, <5>1 DEF ReadShape
      <4> QED
        BY <4>2, <4>3
    <3> QED
      BY <3>2, <3>3
  <2>3. PathGather \/ PathUnique => rd'.op # "prune"
    BY <2>1 DEF PathGather, PathUnique, AtStep, ReadShape
  <2> QED
    BY <1>6, <2>2, <2>3, NoPreview
<1> QED
  BY <1>1, <1>2, <1>3, <1>4, <1>5, <1>6 DEF Reader

\* The preview of cmd/prune is a lower bound: commits may go on between its four counts
\* and the DELETE, which then removes no fewer operations than were called eligible,
\* unless a Writer inside the store prunes too.
THEOREM PreviewsHold == ~Prune /\ RSpec => []PreviewHolds
<1> SUFFICES ASSUME ~Prune PROVE RSpec => []PreviewHolds
  OBVIOUS
<1>1. RInit => PreviewInv
  BY DEF RInit, NoRead, PreviewInv
<1>2. PreviewInv /\ ReadInv /\ ReadInv' /\ [RNext]_<<vars, reading>> => PreviewInv'
  <2> SUFFICES ASSUME PreviewInv, ReadInv, ReadInv', [RNext]_<<vars, reading>> PROVE PreviewInv'
    OBVIOUS
  <2>1. CASE Reader /\ UNCHANGED vars
    BY <2>1, ReaderKeepsPreview
  <2>2. CASE PruneApply
    BY <2>2, PruneApplyKeepsPreview
  <2>3. CASE (\E g \in Proc : Step(g)) /\ Meanwhile
    <3>1. PICK g \in Proc : Step(g)
      BY <2>3
    <3>2. StoreInv'
      BY DEF ReadInv
    <3> QED
      BY <2>3, <3>1, <3>2, CommitsKeepPreview
  <2>4. CASE Crash /\ rd' = NoRead /\ since' = [p \in Part |-> {}]
    BY <2>4, NoPreview DEF NoRead
  <2>5. CASE UNCHANGED <<vars, reading>>
    BY <2>5 DEF vars, reading, PreviewInv
  <2> QED
    BY <2>1, <2>2, <2>3, <2>4, <2>5 DEF RNext
<1>3. PreviewInv => PreviewHolds
  BY DEF PreviewInv, Previewed, PreviewHolds
<1> QED
  BY <1>1, <1>2, <1>3, ReadInvariant, PTL DEF RSpec

(* Lists without duplicates *)

\* s lists the elements of S, each once.
ListsOnce(s, S) == s \in Seq(S) /\ Range(s) = S /\ IsInjective(s)

\* SetToSeq lists a finite set.
LEMMA SetToSeqLists ==
  ASSUME NEW S, IsFiniteSet(S)
  PROVE  ListsOnce(SetToSeq(S), S)
<1> DEFINE n == Cardinality(S)
           s == SetToSeq(S)
<1>1. n \in Nat
  BY FS_CardinalityType
<1>2. IsFiniteSet(1..n) /\ Cardinality(1..n) = n
  <2> HIDE DEF n
  <2>1. 1 \in Int /\ n \in Int
    BY <1>1
  <2>2. IsFiniteSet(1..n) /\ Cardinality(1..n) = IF 1 > n THEN 0 ELSE n - 1 + 1
    BY <2>1, FS_Interval
  <2> QED
    BY <1>1, <2>2
<1>3. \E f \in [1..n -> S] : IsInjective(f)
  <2> DEFINE D == 1..n
  <2>1. ExistsBijection(D, S)
    <3> HIDE DEF D
    <3> QED
      BY <1>2, FS_SameCardinalityBij DEF D
  <2> HIDE DEF D
  <2> QED
    BY <2>1 DEF ExistsBijection, Bijection, Injection, D
<1>4. s \in [1..n -> S] /\ IsInjective(s)
  BY <1>3 DEF SetToSeq
<1> HIDE DEF s
<1>5. s \in Surjection(1..n, S)
  <2> DEFINE D == 1..n
  <2>1. s \in Injection(D, S) /\ IsFiniteSet(S) /\ Cardinality(D) = Cardinality(S)
    BY <1>2, <1>4 DEF Injection
  <2> HIDE DEF D, n
  <2> QED
    BY <2>1, FS_Injection DEF D
<1>6. Range(s) = S
  BY <1>4, <1>5 DEF Surjection, Range
<1>7. s \in Seq(S)
  BY <1>1, <1>4
<1> QED
  BY <1>4, <1>6, <1>7 DEF ListsOnce, s

\* A list is one of what it holds.
LEMMA ListOfRange ==
  ASSUME NEW U, NEW s \in Seq(U)
  PROVE  s \in Seq(Range(s))
<1> DEFINE n == Len(s)
           R == Range(s)
<1>1. n \in Nat /\ s \in [1..n -> U]
  BY LenProperties
<1>2. \A i \in 1..n : s[i] \in R
  BY <1>1 DEF Range
<1> HIDE DEF n, R
<1>3. s \in [1..n -> R]
  BY <1>1, <1>2
<1>4. s \in Seq(R)
  BY <1>1, <1>3
<1> QED
  BY <1>4 DEF R

\* What a frontier becomes when it is extended with some nodes.
LEMMA AppendedLists ==
  ASSUME NEW U, NEW front \in Seq(U), IsInjective(front), NEW nodes \in SUBSET U, IsFiniteSet(nodes)
  PROVE  /\ Appended(front, nodes) \in Seq(U) /\ IsInjective(Appended(front, nodes))
         /\ Range(Appended(front, nodes)) = Range(front) \cup nodes
<1> DEFINE new == nodes \ Range(front)
           b   == SetToSeq(new)
           m   == Len(front)
           n   == Len(b)
<1>1. ListsOnce(b, new)
  <2>1. IsFiniteSet(new)
    BY FS_Subset
  <2> HIDE DEF new
  <2> QED
    BY <2>1, SetToSeqLists
<1>2. /\ m \in Nat /\ n \in Nat /\ DOMAIN front = 1..m /\ DOMAIN b = 1..n
      /\ \A i \in 1..m : front[i] \in U /\ front[i] \in Range(front)
      /\ \A i \in 1..n : b[i] \in U /\ b[i] \notin Range(front)
  <2>1. b \in Seq(new)
    BY <1>1 DEF ListsOnce
  <2>2. n \in Nat /\ DOMAIN b = 1..n /\ \A i \in 1..n : b[i] \in new
    BY <2>1, LenProperties, ElementOfSeq
  <2>3. m \in Nat /\ DOMAIN front = 1..m /\ \A i \in 1..m : front[i] \in U
    BY LenProperties, ElementOfSeq
  <2> QED
    BY <2>2, <2>3 DEF Range
<1>3. b \in Seq(U)
  BY <1>1, SeqMonotonic DEF ListsOnce
<1>4. Appended(front, nodes) = front \o b
  BY DEF Appended
<1> DEFINE c == front \o b
<1> HIDE DEF b
<1>5. /\ c \in Seq(U) /\ Len(c) = m + n /\ DOMAIN c = 1..(m + n)
      /\ \A i \in 1..(m + n) : c[i] = IF i <= m THEN front[i] ELSE b[i - m]
  BY <1>2, <1>3, ConcatProperties, LenProperties
<1> HIDE DEF c, m, n
<1>6. \A i \in 1..m : i \in 1..(m + n) /\ c[i] = front[i]
  BY <1>2, <1>5
<1>7. \A i \in 1..n : m + i \in 1..(m + n) /\ c[m + i] = b[i]
  <2> SUFFICES ASSUME NEW i \in 1..n PROVE m + i \in 1..(m + n) /\ c[m + i] = b[i]
    OBVIOUS
  <2>1. m + i \in 1..(m + n) /\ ~(m + i <= m) /\ (m + i) - m = i
    BY <1>2
  <2> QED
    BY <1>5, <2>1
<1>8. \A i \in 1..(m + n) : i \in 1..m \/ \E j \in 1..n : i = m + j
  <2> SUFFICES ASSUME NEW i \in 1..(m + n), i \notin 1..m PROVE \E j \in 1..n : i = m + j
    OBVIOUS
  <2>1. i - m \in 1..n /\ i = m + (i - m)
    BY <1>2
  <2> QED
    BY <2>1
<1>9. Range(c) = Range(front) \cup nodes
  <2>1. Range(b) = new
    BY <1>1 DEF ListsOnce
  <2>0. (\A i \in 1..m : front[i] \in Range(front)) /\ (\A i \in 1..n : b[i] \in Range(b))
    BY <1>2 DEF Range
  <2>2. \A x \in Range(c) : x \in Range(front) \/ x \in Range(b)
    <3> SUFFICES ASSUME NEW i \in 1..(m + n) PROVE c[i] \in Range(front) \/ c[i] \in Range(b)
      BY <1>5 DEF Range
    <3>1. CASE i \in 1..m
      BY <1>6, <2>0, <3>1
    <3>2. CASE i \notin 1..m
      <4>1. PICK j \in 1..n : i = m + j
        BY <1>8, <3>2
      <4> QED
        BY <1>7, <2>0, <4>1
    <3> QED
      BY <3>1, <3>2
  <2>3. \A x \in Range(front) \cup Range(b) : x \in Range(c)
    <3>1. \A i \in 1..(m + n) : c[i] \in Range(c)
      BY <1>5 DEF Range
    <3>2. \A x \in Range(front) : \E i \in 1..m : front[i] = x
      BY <1>2 DEF Range
    <3>3. \A x \in Range(b) : \E i \in 1..n : b[i] = x
      BY <1>2 DEF Range
    <3>4. \A x \in Range(front) : x \in Range(c)
      BY <1>6, <3>1, <3>2
    <3>5. \A x \in Range(b) : x \in Range(c)
      BY <1>7, <3>1, <3>3
    <3> QED
      BY <3>4, <3>5
  <2> HIDE DEF c
  <2> QED
    BY <2>1, <2>2, <2>3
<1>10. IsInjective(c)
  <2> SUFFICES ASSUME NEW i \in 1..(m + n), NEW j \in 1..(m + n), c[i] = c[j]
               PROVE  i = j
    BY <1>5 DEF IsInjective
  <2>1. CASE i \in 1..m /\ j \in 1..m
    BY <1>2, <1>6, <2>1 DEF IsInjective
  <2>2. CASE i \notin 1..m /\ j \notin 1..m
    <3>1. PICK k \in 1..n, l \in 1..n : i = m + k /\ j = m + l
      BY <1>8, <2>2
    <3>2. b[k] = b[l]
      BY <1>7, <3>1
    <3>3. k = l
      BY <1>1, <1>2, <3>2 DEF ListsOnce, IsInjective
    <3> QED
      BY <3>1, <3>3
  <2>3. CASE i \in 1..m /\ j \notin 1..m
    <3>1. PICK l \in 1..n : j = m + l
      BY <1>8, <2>3
    <3>2. front[i] = b[l]
      BY <1>6, <1>7, <2>3, <3>1
    <3> QED
      BY <1>2, <2>3, <3>2
  <2>4. CASE i \notin 1..m /\ j \in 1..m
    <3>1. PICK l \in 1..n : i = m + l
      BY <1>8, <2>4
    <3>2. front[j] = b[l]
      BY <1>6, <1>7, <2>4, <3>1
    <3> QED
      BY <1>2, <2>4, <3>2
  <2> QED
    BY <2>1, <2>2, <2>3, <2>4
<1> QED
  BY <1>4, <1>5, <1>9, <1>10 DEF c

\* The fold of Gathered and Deduped.
Joins(sets, h) ==
  [x \in SUBSET DOMAIN sets |-> IF x = {} THEN <<>> ELSE Appended(h[x \ {Max(x)}], sets[Max(x)])]

\* The sets are finite and within U.
Joinable(sets, U) == sets \in Seq({nodes \in SUBSET U : IsFiniteSet(nodes)})

\* There is such a fold, and it lists what is in the sets, each node once.
LEMMA JoinsList ==
  ASSUME NEW sets, NEW U, Joinable(sets, U)
  PROVE  /\ \E f : f = Joins(sets, f)
         /\ \A h : h = Joins(sets, h) => ListsOnce(h[DOMAIN sets], UNION {sets[i] : i \in DOMAIN sets})
<1> DEFINE n    == Len(sets)
           D    == DOMAIN sets
           S    == {nodes \in SUBSET U : IsFiniteSet(nodes)}
           V    == {front \in Seq(U) : IsInjective(front)}
           base == <<>>
           step == [a \in V \X S |-> Appended(a[1], a[2])]
<1>1. n \in Nat /\ D = 1..n /\ sets \in Seq(S) /\ \A i \in D : sets[i] \in S
  BY LenProperties, ElementOfSeq DEF Joinable
<1>2. \A front \in V, nodes \in S : /\ Appended(front, nodes) \in V
                                   /\ Range(Appended(front, nodes)) = Range(front) \cup nodes
  BY AppendedLists
<1> HIDE DEF V, S
<1>3. \A front \in V, nodes \in S : step[<<front, nodes>>] = Appended(front, nodes)
  OBVIOUS
<1>4. step \in [V \X S -> V]
  <2>1. \A a \in V \X S : a[1] \in V /\ a[2] \in S
    OBVIOUS
  <2> QED
    BY <1>2, <2>1
<1>5. base \in V
  BY DEF V, IsInjective
<1>6. Steps(sets, S, V, base, step)
  <2> HIDE DEF step, base
  <2> QED
    BY <1>1, <1>4, <1>5 DEF Steps
<1>7. \A x \in SUBSET D : x # {} => Max(x) \in D
  BY <1>1, MaxOfPositions
<1>8. \E f : f = Joins(sets, f)
  <2>1. PICK f : FoldsUp(sets, V, base, step, f)
    <3> HIDE DEF step, base
    <3> QED
      BY <1>6, FoldExists
  <2>2. f \in [SUBSET DOMAIN sets -> V]
    BY <2>1 DEF FoldsUp
  <2>3. ASSUME NEW x \in SUBSET DOMAIN sets
        PROVE  f[x] = Joins(sets, f)[x]
    <3>1. f[x] = IF x = {} THEN base ELSE step[<<f[x \ {Max(x)}], sets[Max(x)]>>]
      <4> HIDE DEF step, base
      <4> QED
        BY <2>1 DEF FoldsUp
    <3>2. CASE x # {}
      <4>1. f[x \ {Max(x)}] \in V /\ sets[Max(x)] \in S
        BY <1>1, <1>7, <2>2, <3>2
      <4>2. step[<<f[x \ {Max(x)}], sets[Max(x)]>>] = Appended(f[x \ {Max(x)}], sets[Max(x)])
        <5> HIDE DEF step
        <5> QED
          BY <1>3, <4>1
      <4> HIDE DEF step
      <4> QED
        BY <3>1, <3>2, <4>2 DEF Joins
    <3> QED
      BY <3>1, <3>2 DEF Joins
  <2>4. f = Joins(sets, f)
    BY <2>2, <2>3 DEF Joins
  <2> QED
    BY <2>4
<1>9. ASSUME NEW h, h = Joins(sets, h)
      PROVE  ListsOnce(h[DOMAIN sets], UNION {sets[i] : i \in DOMAIN sets})
  <2>1. ASSUME NEW x \in SUBSET DOMAIN sets
        PROVE  /\ x = {} => h[x] = base
               /\ x # {} /\ h[x \ {Max(x)}] \in V => h[x] = step[<<h[x \ {Max(x)}], sets[Max(x)]>>]
    <3>1. h[x] = IF x = {} THEN <<>> ELSE Appended(h[x \ {Max(x)}], sets[Max(x)])
      BY <1>9 DEF Joins
    <3>2. CASE x # {} /\ h[x \ {Max(x)}] \in V
      <4>1. sets[Max(x)] \in S
        BY <1>1, <1>7, <3>2
      <4> HIDE DEF step
      <4> QED
        BY <1>3, <3>1, <3>2, <4>1
    <3> QED
      BY <3>1, <3>2
  <2>2. PICK g : Accumulates(sets, V, base, step, g) /\ h[DOMAIN sets] = g[Len(sets)]
    <3> HIDE DEF step, base
    <3>1. FoldsIn(sets, V, base, step, h)
      BY <2>1 DEF FoldsIn
    <3> QED
      BY <1>6, <3>1, FoldGrows
  <2>3. /\ \A k \in 0..n : g[k] \in V
        /\ g[0] = <<>> /\ \A k \in 0..(n - 1) : g[k + 1] = Appended(g[k], sets[k + 1])
    <3>1. /\ \A k \in 0..n : g[k] \in V
          /\ g[0] = base /\ \A k \in 0..(n - 1) : g[k + 1] = step[<<g[k], sets[k + 1]>>]
      <4> HIDE DEF base, step
      <4> QED
        BY <2>2 DEF Accumulates
    <3>2. \A k \in 0..(n - 1) : k \in 0..n /\ k + 1 \in D
      BY <1>1
    <3> HIDE DEF step
    <3> QED
      BY <1>1, <1>3, <3>1, <3>2
  <2> HIDE DEF step
  <2> DEFINE T == {k \in Nat : k <= n => Range(g[k]) = UNION {sets[i] : i \in 1..k}}
  <2>4. 0 \in T
    <3>1. Range(g[0]) = {} /\ 1..0 = {}
      BY <2>3 DEF Range
    <3> QED
      BY <3>1
  <2>5. ASSUME NEW k \in T
        PROVE  k + 1 \in T
    <3> SUFFICES ASSUME k + 1 <= n
                 PROVE  Range(g[k + 1]) = UNION {sets[i] : i \in 1..(k + 1)}
      OBVIOUS
    <3>1. k \in Nat /\ k \in 0..(n - 1) /\ k \in 0..n /\ k <= n /\ k + 1 \in D
      BY <1>1
    <3>2. Range(g[k]) = UNION {sets[i] : i \in 1..k}
      BY <2>5, <3>1
    <3>3. g[k + 1] = Appended(g[k], sets[k + 1]) /\ g[k] \in V /\ sets[k + 1] \in S
      BY <1>1, <2>3, <3>1
    <3>4. Range(g[k + 1]) = Range(g[k]) \cup sets[k + 1]
      BY <1>2, <3>3
    <3>5. 1..(k + 1) = (1..k) \cup {k + 1}
      BY <3>1
    <3> QED
      BY <3>2, <3>4, <3>5
  <2> HIDE DEF T
  <2>6. T = Nat
    BY <2>4, <2>5, NumbersInduct DEF T
  <2>7. n \in Nat /\ n <= n /\ n \in 0..n
    BY <1>1
  <2> HIDE DEF n
  <2>8. g[n] \in V /\ Range(g[n]) = UNION {sets[i] : i \in 1..n}
    BY <2>3, <2>6, <2>7 DEF T
  <2>9. g[n] \in Seq(U) /\ IsInjective(g[n])
    BY <2>8 DEF V
  <2>10. g[n] \in Seq(Range(g[n]))
    BY <2>9, ListOfRange
  <2>11. h[DOMAIN sets] = g[n]
    BY <2>2 DEF n
  <2> QED
    BY <1>1, <2>8, <2>9, <2>10, <2>11 DEF ListsOnce
<1> QED
  BY <1>8, <1>9

\* The fold of Gathered.
Gathers(got, h) ==
  [x \in SUBSET DOMAIN got |-> IF x = {} THEN <<>> ELSE Appended(h[x \ {Max(x)}], got[Max(x)].rows)]

LEMMA GatheredIsGathers ==
  ASSUME NEW got
  PROVE  Gathered(got) = (CHOOSE h : h = Gathers(got, h))[DOMAIN got]
BY DEF Gathered, FoldLeft, MapThenFoldSet, Gathers

\* Some sets of nodes in a sequence.
LEMMA SetsJoinable ==
  ASSUME NEW U, NEW n \in Nat, NEW sets, DOMAIN sets = 1..n, sets = [i \in 1..n |-> sets[i]],
         \A i \in 1..n : sets[i] \subseteq U /\ IsFiniteSet(sets[i])
  PROVE  Joinable(sets, U)
<1> DEFINE S == {nodes \in SUBSET U : IsFiniteSet(nodes)}
<1>1. \A i \in 1..n : sets[i] \in S
  OBVIOUS
<1> HIDE DEF S
<1>2. sets \in [1..n -> S]
  BY <1>1
<1>3. sets \in Seq(S)
  BY <1>2
<1> QED
  BY <1>3 DEF Joinable, S

\* n answers with some nodes each.
RowsWithin(got, n, U) ==
  DOMAIN got = 1..n /\ \A i \in 1..n : got[i].rows \subseteq U /\ IsFiniteSet(got[i].rows)

AllRows(got, n) == UNION {got[i].rows : i \in 1..n}

\* Gathered lists what the partitions answered, each node once.
LEMMA GatheredLists ==
  ASSUME NEW U, NEW n \in Nat, NEW got, RowsWithin(got, n, U)
  PROVE  ListsOnce(Gathered(got), AllRows(got, n))
<1> DEFINE sets == [i \in 1..n |-> got[i].rows]
           h    == CHOOSE f : f = Gathers(got, f)
<1>0. DOMAIN got = 1..n /\ \A i \in 1..n : got[i].rows \subseteq U /\ IsFiniteSet(got[i].rows)
  BY DEF RowsWithin
<1>1. DOMAIN sets = 1..n /\ \A i \in 1..n : sets[i] = got[i].rows
  OBVIOUS
<1>2. sets = [i \in 1..n |-> sets[i]]
  OBVIOUS
<1> HIDE DEF sets
<1>3. Joinable(sets, U)
  BY <1>0, <1>1, <1>2, SetsJoinable
<1>4. ASSUME NEW f PROVE Gathers(got, f) = Joins(sets, f)
  <2>1. \A x \in SUBSET (1..n) : x # {} => sets[Max(x)] = got[Max(x)].rows
    BY <1>0, <1>1, MaxOfPositions
  <2> QED
    BY <1>0, <1>1, <2>1 DEF Gathers, Joins
<1>5. h = Gathers(got, h)
  <2>1. \E f : f = Joins(sets, f)
    BY <1>3, JoinsList
  <2>2. \E f : f = Gathers(got, f)
    BY <1>4, <2>1
  <2> QED
    BY <2>2
<1> HIDE DEF h
<1>6. h = Joins(sets, h)
  BY <1>4, <1>5
<1>7. ListsOnce(h[DOMAIN sets], UNION {sets[i] : i \in DOMAIN sets})
  BY <1>3, <1>6, JoinsList
<1>8. Gathered(got) = h[DOMAIN got]
  BY GatheredIsGathers DEF h
<1>9. {sets[i] : i \in DOMAIN sets} = {got[i].rows : i \in 1..n}
  BY <1>1
<1> QED
  BY <1>0, <1>1, <1>7, <1>8, <1>9 DEF AllRows

\* The fold of Deduped.
Seen(front, h) ==
  [x \in SUBSET DOMAIN front |-> IF x = {} THEN <<>> ELSE Appended(h[x \ {Max(x)}], {front[Max(x)]})]

LEMMA DedupedIsSeen ==
  ASSUME NEW front
  PROVE  Deduped(front) = (CHOOSE h : h = Seen(front, h))[DOMAIN front]
BY DEF Deduped, FoldLeft, MapThenFoldSet, Seen

\* Deduped lists the same nodes, each once.
LEMMA DedupedLists ==
  ASSUME NEW front, front \in Seq(Range(front))
  PROVE  ListsOnce(Deduped(front), Range(front))
<1> DEFINE n    == Len(front)
           U    == Range(front)
           sets == [i \in 1..n |-> {front[i]}]
           h    == CHOOSE f : f = Seen(front, f)
<1>0. n \in Nat /\ DOMAIN front = 1..n
  BY LenProperties
<1>1. DOMAIN sets = 1..n /\ \A i \in 1..n : sets[i] = {front[i]} /\ IsFiniteSet(sets[i]) /\ sets[i] \subseteq U
  <2>1. \A i \in 1..n : front[i] \in U
    BY <1>0 DEF Range
  <2> QED
    BY <2>1, FS_Singleton
<1>2. sets = [i \in 1..n |-> sets[i]]
  OBVIOUS
<1> HIDE DEF sets, n, U
<1>3. Joinable(sets, U)
  BY <1>0, <1>1, <1>2, SetsJoinable
<1>4. ASSUME NEW f PROVE Seen(front, f) = Joins(sets, f)
  <2>1. \A x \in SUBSET (1..n) : x # {} => sets[Max(x)] = {front[Max(x)]}
    BY <1>0, <1>1, MaxOfPositions
  <2> QED
    BY <1>0, <1>1, <2>1 DEF Seen, Joins
<1>5. h = Seen(front, h)
  <2>1. \E f : f = Joins(sets, f)
    BY <1>3, JoinsList
  <2>2. \E f : f = Seen(front, f)
    BY <1>4, <2>1
  <2> QED
    BY <2>2
<1> HIDE DEF h
<1>6. h = Joins(sets, h)
  BY <1>4, <1>5
<1>7. ListsOnce(h[DOMAIN sets], UNION {sets[i] : i \in DOMAIN sets})
  BY <1>3, <1>6, JoinsList
<1>8. Deduped(front) = h[DOMAIN front]
  BY DedupedIsSeen DEF h
<1>9. UNION {sets[i] : i \in DOMAIN sets} = U
  BY <1>0, <1>1 DEF Range, U
<1> QED
  BY <1>0, <1>1, <1>7, <1>8, <1>9 DEF U

----------------------------------------------------------------------------
(* Where a path leads *)

Kinds == {"out", "in", "has", "unique"}

PathShape(path) ==
  /\ path.seeds \in Seq(Range(path.seeds)) /\ path.steps \in Seq(Range(path.steps))
  /\ \A st \in Range(path.steps) : st.kind \in Kinds

\* Step st leads from node m to node n, by one edge at most.
Leads(quads, st, m, n) ==
  \/ st.kind = "unique" /\ m = n
  \/ /\ st.kind = "out"
     /\ \E q \in quads : q.stmt[1] = m /\ q.stmt[3] = n /\ (st.preds = {} \/ q.stmt[2] \in st.preds)
  \/ /\ st.kind = "in"
     /\ \E q \in quads : q.stmt[3] = m /\ q.stmt[1] = n /\ (st.preds = {} \/ q.stmt[2] \in st.preds)
  \/ /\ st.kind = "has" /\ m = n
     /\ \E q \in quads : \E pred \in st.preds : q.stmt = <<n, pred, st.value>>

\* Targets are where the step leads to.
LEMMA TargetsLead ==
  ASSUME NEW quads, NEW st, st.kind \in Kinds \ {"unique"}, NEW front, NEW n
  PROVE  n \in Targets(quads, st, front) <=> \E m \in Range(front) : Leads(quads, st, m, n)
<1> DEFINE stmts == {q.stmt : q \in quads}
           along == {t \in stmts : st.preds = {} \/ t[2] \in st.preds}
<1>1. CASE st.kind = "out"
  <2>1. Targets(quads, st, front) = {t[3] : t \in {u \in along : u[1] \in Range(front)}}
    BY <1>1 DEF Targets
  <2>2. n \in Targets(quads, st, front) <=> \E t \in along : t[1] \in Range(front) /\ t[3] = n
    BY <2>1
  <2>3. (\E m \in Range(front) : Leads(quads, st, m, n)) <=> \E t \in along : t[1] \in Range(front) /\ t[3] = n
    BY <1>1 DEF Leads
  <2> QED
    BY <2>2, <2>3
<1>2. CASE st.kind = "in"
  <2>1. Targets(quads, st, front) = {t[1] : t \in {u \in along : u[3] \in Range(front)}}
    BY <1>2 DEF Targets
  <2>2. n \in Targets(quads, st, front) <=> \E t \in along : t[3] \in Range(front) /\ t[1] = n
    BY <2>1
  <2>3. (\E m \in Range(front) : Leads(quads, st, m, n)) <=> \E t \in along : t[3] \in Range(front) /\ t[1] = n
    BY <1>2 DEF Leads
  <2> QED
    BY <2>2, <2>3
<1>3. CASE st.kind = "has"
  <2>1. Targets(quads, st, front) = {x \in Range(front) : \E pred \in st.preds : <<x, pred, st.value>> \in stmts}
    BY <1>3 DEF Targets
  <2>2. n \in Targets(quads, st, front) <=> n \in Range(front) /\ \E pred \in st.preds : <<n, pred, st.value>> \in stmts
    BY <2>1
  <2>3. (\E m \in Range(front) : Leads(quads, st, m, n))
          <=> n \in Range(front) /\ \E pred \in st.preds : <<n, pred, st.value>> \in stmts
    BY <1>3 DEF Leads
  <2> QED
    BY <2>2, <2>3
<1> QED
  BY <1>1, <1>2, <1>3 DEF Kinds

\* More edges, more ways.
LEMMA LeadsFurther ==
  ASSUME NEW quads, NEW more, quads \subseteq more, NEW st, NEW m, NEW n, Leads(quads, st, m, n)
  PROVE  Leads(more, st, m, n)
BY DEF Leads

\* A chain of nodes along the first k steps, and where one ends.
Chain(quads, path, k, c) ==
  c[0] \in Range(path.seeds) /\ \A i \in 1..k : Leads(quads, path.steps[i], c[i - 1], c[i])

Reachable(quads, path, k, n) == \E c : Chain(quads, path, k, c) /\ c[k] = n

LEMMA ReachableFirst ==
  ASSUME NEW quads, NEW path, NEW n
  PROVE  Reachable(quads, path, 0, n) <=> n \in Range(path.seeds)
<1>1. ASSUME n \in Range(path.seeds)
      PROVE  Reachable(quads, path, 0, n)
  <2> DEFINE c == [i \in {0} |-> n]
  <2>1. c[0] = n
    OBVIOUS
  <2> HIDE DEF c
  <2>2. Chain(quads, path, 0, c)
    BY <1>1, <2>1 DEF Chain
  <2> QED
    BY <2>1, <2>2 DEF Reachable
<1> QED
  BY <1>1 DEF Reachable, Chain

LEMMA ReachableNext ==
  ASSUME NEW quads, NEW path, NEW k \in Nat, NEW n
  PROVE  Reachable(quads, path, k + 1, n)
           <=> \E m : Reachable(quads, path, k, m) /\ Leads(quads, path.steps[k + 1], m, n)
<1>1. ASSUME Reachable(quads, path, k + 1, n)
      PROVE  \E m : Reachable(quads, path, k, m) /\ Leads(quads, path.steps[k + 1], m, n)
  <2>1. PICK c : Chain(quads, path, k + 1, c) /\ c[k + 1] = n
    BY <1>1 DEF Reachable
  <2>2. k + 1 \in 1..(k + 1) /\ (k + 1) - 1 = k /\ \A i \in 1..k : i \in 1..(k + 1)
    OBVIOUS
  <2>3. Leads(quads, path.steps[k + 1], c[k], n)
    BY <2>1, <2>2 DEF Chain
  <2>4. Chain(quads, path, k, c)
    BY <2>1, <2>2 DEF Chain
  <2> QED
    BY <2>3, <2>4 DEF Reachable
<1>2. ASSUME NEW m, Reachable(quads, path, k, m), Leads(quads, path.steps[k + 1], m, n)
      PROVE  Reachable(quads, path, k + 1, n)
  <2>1. PICK c : Chain(quads, path, k, c) /\ c[k] = m
    BY <1>2 DEF Reachable
  <2> DEFINE d == [i \in 0..(k + 1) |-> IF i = k + 1 THEN n ELSE c[i]]
  <2>2. d[k + 1] = n /\ \A i \in 0..k : d[i] = c[i]
    OBVIOUS
  <2> HIDE DEF d
  <2>3. d[0] = c[0] /\ d[k] = m
    BY <2>1, <2>2
  <2>4. ASSUME NEW i \in 1..(k + 1)
        PROVE  Leads(quads, path.steps[i], d[i - 1], d[i])
    <3>1. CASE i = k + 1
      <4>1. i - 1 = k
        BY <3>1
      <4> QED
        BY <1>2, <2>2, <2>3, <3>1, <4>1
    <3>2. CASE i # k + 1
      <4>1. i \in 1..k /\ i \in 0..k /\ i - 1 \in 0..k
        BY <3>2
      <4> QED
        BY <2>1, <2>2, <4>1 DEF Chain
    <3> QED
      BY <3>1, <3>2
  <2>5. Chain(quads, path, k + 1, d)
    BY <2>1, <2>3, <2>4 DEF Chain
  <2> QED
    BY <2>2, <2>5 DEF Reachable
<1> QED
  BY <1>1, <1>2

LEMMA ReachableFurther ==
  ASSUME NEW quads, NEW more, quads \subseteq more, NEW path, NEW k, NEW n, Reachable(quads, path, k, n)
  PROVE  Reachable(more, path, k, n)
BY LeadsFurther DEF Reachable, Chain

\* The nodes one step further.
StepTo(quads, st, nodes) == IF st.kind = "unique" THEN nodes ELSE Targets(quads, st, SetToSeq(nodes))

\* The fold of Reached.
Reaches(quads, path, h) ==
  [x \in SUBSET DOMAIN path.steps |->
     IF x = {} THEN Range(path.seeds) ELSE StepTo(quads, path.steps[Max(x)], h[x \ {Max(x)}])]

LEMMA ReachedIsReaches ==
  ASSUME NEW quads, NEW path
  PROVE  Reached(quads, path) = (CHOOSE h : h = Reaches(quads, path, h))[DOMAIN path.steps]
BY DEF Reached, FoldLeft, MapThenFoldSet, Reaches, StepTo

\* A step leads nowhere but along the edges.
LEMMA StepToLeads ==
  ASSUME NEW quads, NEW st, st.kind \in Kinds, NEW nodes, IsFiniteSet(nodes), NEW n
  PROVE  n \in StepTo(quads, st, nodes) <=> \E m \in nodes : Leads(quads, st, m, n)
<1>1. CASE st.kind = "unique"
  BY <1>1 DEF StepTo, Leads
<1>2. CASE st.kind # "unique"
  <2> DEFINE front == SetToSeq(nodes)
  <2>1. Range(front) = nodes
    BY SetToSeqLists DEF ListsOnce
  <2> HIDE DEF front
  <2>2. st.kind \in Kinds \ {"unique"}
    BY <1>2
  <2>3. n \in Targets(quads, st, front) <=> \E m \in Range(front) : Leads(quads, st, m, n)
    BY <2>2, TargetsLead
  <2> QED
    BY <1>2, <2>1, <2>3 DEF StepTo, front
<1> QED
  BY <1>1, <1>2

\* The nodes at the ends of the edges.
EdgeEnds(quads) == {q.stmt[1] : q \in quads} \cup {q.stmt[3] : q \in quads}

LEMMA EndsFinite ==
  ASSUME NEW quads, IsFiniteSet(quads)
  PROVE  IsFiniteSet(EdgeEnds(quads))
<1> DEFINE A == {q.stmt[1] : q \in quads}
           B == {q.stmt[3] : q \in quads}
           f == [q \in quads |-> q.stmt[1]]
           g == [q \in quads |-> q.stmt[3]]
<1>1. f \in Surjection(quads, A) /\ g \in Surjection(quads, B)
  BY DEF Surjection
<1> HIDE DEF f, g, A, B
<1>2. IsFiniteSet(A)
  BY <1>1, FS_Surjection
<1>3. IsFiniteSet(B)
  BY <1>1, FS_Surjection
<1>4. IsFiniteSet(A \cup B)
  BY <1>2, <1>3, FS_Union
<1> QED
  BY <1>4 DEF A, B, EdgeEnds

\* A list holds finitely many.
LEMMA RangeFinite ==
  ASSUME NEW s, s \in Seq(Range(s))
  PROVE  IsFiniteSet(Range(s))
<1> DEFINE n == Len(s)
           D == 1..n
           R == Range(s)
<1>1. n \in Nat /\ s \in [D -> R] /\ \A x \in R : \E i \in D : s[i] = x
  BY LenProperties DEF Range
<1>2. IsFiniteSet(D)
  <2> HIDE DEF n
  <2>1. 1 \in Int /\ n \in Int
    BY <1>1
  <2> QED
    BY <2>1, FS_Interval
<1> HIDE DEF D, R
<1>3. s \in Surjection(D, R)
  BY <1>1 DEF Surjection
<1>4. IsFiniteSet(R)
  BY <1>2, <1>3, FS_Surjection
<1> QED
  BY <1>4 DEF R

LEMMA LeadsToEnds ==
  ASSUME NEW quads, NEW st, NEW m, NEW n, Leads(quads, st, m, n)
  PROVE  n = m \/ n \in EdgeEnds(quads)
BY DEF Leads, EdgeEnds

\* What Reached computes step by step is where the chains of edges end.
LEMMA ReachedIsReachable ==
  ASSUME NEW quads, IsFiniteSet(quads), NEW path, PathShape(path)
  PROVE  \A n : n \in Reached(quads, path) <=> Reachable(quads, path, Len(path.steps), n)
<1> DEFINE steps == path.steps
           l     == Len(steps)
           D     == DOMAIN steps
           U     == Range(path.seeds) \cup EdgeEnds(quads)
           S     == Range(steps)
           V     == SUBSET U
           base  == Range(path.seeds)
           step  == [a \in V \X S |-> StepTo(quads, a[2], a[1])]
           h     == CHOOSE f : f = Reaches(quads, path, f)
<1>1. l \in Nat /\ D = 1..l /\ steps \in Seq(S) /\ (\A i \in D : steps[i] \in S) /\ \A st \in S : st.kind \in Kinds
  BY LenProperties, ElementOfSeq DEF PathShape
<1>2. \A nodes \in V : IsFiniteSet(nodes)
  <2>1. IsFiniteSet(Range(path.seeds)) /\ IsFiniteSet(EdgeEnds(quads))
    <3> DEFINE s == path.seeds
    <3>1. s \in Seq(Range(s))
      BY DEF PathShape
    <3> HIDE DEF s
    <3>2. IsFiniteSet(Range(s))
      BY <3>1, RangeFinite
    <3> QED
      BY <3>2, EndsFinite DEF s
  <2>2. IsFiniteSet(U)
    BY <2>1, FS_Union
  <2> HIDE DEF U
  <2> QED
    BY <2>2, FS_Subset
<1>3. \A nodes \in V, st \in S : StepTo(quads, st, nodes) \in V
  <2> SUFFICES ASSUME NEW nodes \in V, NEW st \in S, NEW n \in StepTo(quads, st, nodes)
               PROVE  n \in U
    OBVIOUS
  <2>1. st.kind \in Kinds /\ IsFiniteSet(nodes)
    BY <1>1, <1>2
  <2>2. PICK m \in nodes : Leads(quads, st, m, n)
    BY <2>1, StepToLeads
  <2>3. n = m \/ n \in EdgeEnds(quads)
    BY <2>2, LeadsToEnds
  <2> QED
    BY <2>3
<1>4. base \in V
  OBVIOUS
<1> HIDE DEF V, S
<1>5. \A nodes \in V, st \in S : step[<<nodes, st>>] = StepTo(quads, st, nodes)
  OBVIOUS
<1>6. step \in [V \X S -> V]
  <2>1. \A a \in V \X S : a[1] \in V /\ a[2] \in S
    OBVIOUS
  <2> QED
    BY <1>3, <2>1
<1>7. Steps(steps, S, V, base, step)
  <2> HIDE DEF step, base, steps
  <2> QED
    BY <1>1, <1>4, <1>6 DEF Steps
<1>8. \A x \in SUBSET D : x # {} => Max(x) \in D
  <2> HIDE DEF l, D
  <2> QED
    BY <1>1, MaxOfPositions
<1>9. h = Reaches(quads, path, h)
  <2>1. PICK f : FoldsUp(steps, V, base, step, f)
    <3> HIDE DEF step, base, steps, h
    <3> QED
      BY <1>7, FoldExists
  <2>2. f \in [SUBSET DOMAIN steps -> V]
    BY <2>1 DEF FoldsUp
  <2>3. ASSUME NEW x \in SUBSET DOMAIN steps
        PROVE  f[x] = IF x = {} THEN base ELSE StepTo(quads, steps[Max(x)], f[x \ {Max(x)}])
    <3>1. f[x] = IF x = {} THEN base ELSE step[<<f[x \ {Max(x)}], steps[Max(x)]>>]
      <4> HIDE DEF step, base, steps, h
      <4> QED
        BY <2>1 DEF FoldsUp
    <3>2. CASE x # {}
      <4>1. f[x \ {Max(x)}] \in V /\ steps[Max(x)] \in S
        BY <1>1, <1>8, <2>2, <3>2
      <4> HIDE DEF step, base, steps, h
      <4>2. step[<<f[x \ {Max(x)}], steps[Max(x)]>>] = StepTo(quads, steps[Max(x)], f[x \ {Max(x)}])
        BY <1>5, <4>1
      <4> QED
        BY <3>1, <3>2, <4>2
    <3> QED
      BY <3>1, <3>2
  <2>4. f = Reaches(quads, path, f)
    <3> HIDE DEF h, step
    <3> QED
      BY <2>2, <2>3 DEF Reaches
  <2>5. \E g : g = Reaches(quads, path, g)
    BY <2>4
  <2> QED
    BY <2>5
<1>10. Reached(quads, path) = h[D]
  BY ReachedIsReaches
<1> HIDE DEF h
<1>11. PICK g : Accumulates(steps, V, base, step, g) /\ h[DOMAIN steps] = g[Len(steps)]
  <2>1. ASSUME NEW x \in SUBSET DOMAIN steps
        PROVE  /\ x = {} => h[x] = base
               /\ x # {} /\ h[x \ {Max(x)}] \in V => h[x] = step[<<h[x \ {Max(x)}], steps[Max(x)]>>]
    <3>1. h[x] = IF x = {} THEN base ELSE StepTo(quads, steps[Max(x)], h[x \ {Max(x)}])
      <4> HIDE DEF step
      <4> QED
        BY <1>9 DEF Reaches
    <3>2. CASE x # {} /\ h[x \ {Max(x)}] \in V
      <4>1. steps[Max(x)] \in S
        BY <1>1, <1>8, <3>2
      <4> HIDE DEF step, base, steps
      <4> QED
        BY <1>5, <3>1, <3>2, <4>1
    <3> QED
      BY <3>1, <3>2
  <2> HIDE DEF step, base, steps
  <2>2. FoldsIn(steps, V, base, step, h)
    BY <2>1 DEF FoldsIn
  <2> QED
    BY <1>7, <2>2, FoldGrows
<1>12. /\ \A k \in 0..l : g[k] \in V
       /\ g[0] = base /\ \A k \in 0..(l - 1) : g[k + 1] = StepTo(quads, steps[k + 1], g[k])
  <2>1. /\ \A k \in 0..l : g[k] \in V
        /\ g[0] = base /\ \A k \in 0..(l - 1) : g[k + 1] = step[<<g[k], steps[k + 1]>>]
    <3> HIDE DEF base, step, steps
    <3> QED
      BY <1>11 DEF Accumulates
  <2>2. \A k \in 0..(l - 1) : k \in 0..l /\ k + 1 \in D
    <3> HIDE DEF l, D
    <3> QED
      BY <1>1
  <2> HIDE DEF step, base, steps, l, D
  <2> QED
    BY <1>1, <1>5, <2>1, <2>2
<1> HIDE DEF step
<1> DEFINE T == {k \in Nat : k <= l => \A n : n \in g[k] <=> Reachable(quads, path, k, n)}
<1>13. 0 \in T
  BY <1>12, ReachableFirst
<1>14. ASSUME NEW k \in T
       PROVE  k + 1 \in T
  <2> HIDE DEF l
  <2> SUFFICES ASSUME k + 1 <= l, NEW n
               PROVE  n \in g[k + 1] <=> Reachable(quads, path, k + 1, n)
    OBVIOUS
  <2>1. k \in Nat /\ k \in 0..(l - 1) /\ k \in 0..l /\ k <= l /\ k + 1 \in 1..l
    BY <1>1
  <2>2. \A m : m \in g[k] <=> Reachable(quads, path, k, m)
    BY <1>14, <2>1
  <2>3. g[k + 1] = StepTo(quads, steps[k + 1], g[k]) /\ g[k] \in V
    BY <1>12, <2>1
  <2>4. steps[k + 1].kind \in Kinds /\ IsFiniteSet(g[k])
    BY <1>1, <1>2, <2>1, <2>3
  <2>5. n \in g[k + 1] <=> \E m \in g[k] : Leads(quads, steps[k + 1], m, n)
    <3> DEFINE st == steps[k + 1]
               nodes == g[k]
    <3>1. st.kind \in Kinds /\ IsFiniteSet(nodes)
      BY <2>4
    <3> HIDE DEF st, nodes
    <3>2. n \in StepTo(quads, st, nodes) <=> \E m \in nodes : Leads(quads, st, m, n)
      BY <3>1, StepToLeads
    <3> QED
      BY <2>3, <3>2 DEF st, nodes
  <2>6. Reachable(quads, path, k + 1, n)
          <=> \E m : Reachable(quads, path, k, m) /\ Leads(quads, steps[k + 1], m, n)
    BY <2>1, ReachableNext
  <2> QED
    BY <2>2, <2>5, <2>6
<1> HIDE DEF T
<1>15. T = Nat
  BY <1>13, <1>14, NumbersInduct DEF T
<1>16. l \in Nat /\ l <= l
  <2> HIDE DEF l
  <2> QED
    BY <1>1
<1>17. \A n : n \in g[l] <=> Reachable(quads, path, l, n)
  <2> HIDE DEF l
  <2> QED
    BY <1>15, <1>16 DEF T
<1> QED
  BY <1>10, <1>11, <1>17

(* What a path has found so far *)

\* The edges that were there at some moment, and those that were there at every one.
Ever(moments) == UNION {f.quads : f \in UNION {moments[p] : p \in Part}}

Always(moments) == UNION {{q \in Quad : \A f \in moments[p] : q \in f.quads} : p \in Part}

\* After k steps the frontier holds what edges that stayed lead to, and nothing that
\* no edges led to.
Listed(path, k, front, moments) ==
  /\ front \in Seq(Range(front))
  /\ \A n \in Range(front) : Reachable(Ever(moments), path, k, n)
  /\ \A n : Reachable(Always(moments), path, k, n) => n \in Range(front)
  /\ k # 0 => IsInjective(front)

\* The path with these steps still to go.
OnPath(path, front, steps, moments) ==
  /\ path \in PathChoice
  /\ steps \in Seq(Range(path.steps)) /\ Remains(steps, path.steps)
  /\ Listed(path, Len(path.steps) - Len(steps), front, moments)

StepJob(st, front) == [sel |-> "step", step |-> st, front |-> front]

StepSelects(st, front) == PerPart(PartOrder, <<StepJob(st, front)>>)

\* The partitions are being asked for the next step.
Inquiring(st, front, todo, got, moments) ==
  /\ st.kind # "unique"
  /\ todo \in Seq(Selects({StepJob(st, front)})) /\ Remains(todo, StepSelects(st, front))
  /\ GotSoFar("path", StepSelects(st, front), todo, got, moments)

Asking(steps, front, todo, got, moments) ==
  \/ todo = <<>> /\ got = <<>>
  \/ steps # <<>> /\ Inquiring(Head(steps), front, todo, got, moments)

PathInv ==
  rd.op = "path" =>
    /\ OnPath(rd.arg, rd.front, rd.steps, since)
    /\ Asking(rd.steps, rd.front, rd.todo, rd.got, since)

\* A path is configured with steps of the four kinds.
LEMMA PathsShaped == ASSUME NEW path \in PathChoice PROVE PathShape(path)
BY ReadsAssumption DEF PathShape, Kinds

\* One SELECT for each partition.
LEMMA StepSelectsLists ==
  ASSUME NEW st, NEW front
  PROVE  /\ StepSelects(st, front) \in Seq(Selects({StepJob(st, front)}))
         /\ Len(StepSelects(st, front)) = Len(PartOrder)
         /\ \A i \in 1..Len(PartOrder) :
              StepSelects(st, front)[i] = [part |-> PartOrder[i], job |-> StepJob(st, front)]
<1> DEFINE job == StepJob(st, front)
           J   == {job}
           jobs == <<job>>
<1>1. jobs \in Seq(J) /\ Len(jobs) = 1 /\ jobs[1] = job
  OBVIOUS
<1>2. PartOrder \in Seq(Part)
  BY ReadsAssumption
<1> HIDE DEF J, jobs, job
<1>3. PerPart(PartOrder, jobs) \in Seq(Selects(J))
  BY <1>1, <1>2, PerPartLists
<1>4. /\ Len(PerPart(PartOrder, jobs)) = Len(PartOrder)
      /\ \A i \in 1..Len(PartOrder) : PerPart(PartOrder, jobs)[i] = [part |-> PartOrder[i], job |-> jobs[1]]
  BY <1>1, <1>2, PerPartOne
<1>5. StepSelects(st, front) = PerPart(PartOrder, jobs)
  BY DEF StepSelects, jobs, job
<1> QED
  BY <1>1, <1>3, <1>4, <1>5 DEF J, job

\* One more step.
LEMMA ListedNext ==
  ASSUME NEW path, NEW k \in Nat, NEW front, NEW moments, Listed(path, k, front, moments),
         NEW next, next \in Seq(Range(next)), IsInjective(next),
         \A n \in Range(next) : \E m \in Range(front) : Leads(Ever(moments), path.steps[k + 1], m, n),
         \A m \in Range(front) : \A n : Leads(Always(moments), path.steps[k + 1], m, n) => n \in Range(next)
  PROVE  Listed(path, k + 1, next, moments)
<1>1. ASSUME NEW n \in Range(next)
      PROVE  Reachable(Ever(moments), path, k + 1, n)
  BY ReachableNext DEF Listed
<1>2. ASSUME NEW n, Reachable(Always(moments), path, k + 1, n)
      PROVE  n \in Range(next)
  <2>1. PICK m : Reachable(Always(moments), path, k, m) /\ Leads(Always(moments), path.steps[k + 1], m, n)
    BY <1>2, ReachableNext
  <2> QED
    BY <2>1 DEF Listed
<1> QED
  BY <1>1, <1>2 DEF Listed

\* The next of the steps.
LEMMA PathNext ==
  ASSUME NEW path, NEW front, NEW steps, NEW moments, OnPath(path, front, steps, moments), steps # <<>>
  PROVE  LET k == Len(path.steps) - Len(steps) IN
         /\ k \in Nat /\ Head(steps) = path.steps[k + 1] /\ Listed(path, k, front, moments)
         /\ Head(steps).kind \in Kinds
         /\ \A next : Listed(path, k + 1, next, moments) => OnPath(path, next, Tail(steps), moments)
<1> DEFINE a == path.steps
           S == Range(a)
           k == Len(a) - Len(steps)
<1>1. a \in Seq(S) /\ steps \in Seq(S) /\ Remains(steps, a) /\ \A st \in S : st.kind \in Kinds
  BY PathsShaped DEF OnPath, PathShape
<1> HIDE DEF a, S
<1>2. /\ k + 1 \in 1..Len(a) /\ Head(steps) = a[k + 1]
      /\ Tail(steps) \in Seq(S) /\ Remains(Tail(steps), a) /\ Len(Tail(steps)) = Len(steps) - 1
  BY <1>1, NextSelect
<1>3. Head(steps) \in S
  BY <1>1, HeadTailProperties
<1>4. k \in Nat /\ Len(a) - Len(Tail(steps)) = k + 1
  <2>1. Len(a) \in Nat /\ Len(steps) \in Nat /\ Len(steps) <= Len(a) /\ Len(Tail(steps)) = Len(steps) - 1
    BY <1>1, <1>2, LenProperties DEF Remains
  <2> DEFINE x == Len(a)
             y == Len(steps)
             z == Len(Tail(steps))
  <2> HIDE DEF x, y, z
  <2>2. x \in Nat /\ y \in Nat /\ y <= x /\ z = y - 1
    BY <2>1 DEF x, y, z
  <2>3. x - y \in Nat /\ x - z = (x - y) + 1
    BY <2>2
  <2> QED
    BY <2>3 DEF x, y, z
<1>5. Listed(path, k, front, moments) /\ path \in PathChoice
  BY DEF OnPath, a
<1>6. ASSUME NEW next, Listed(path, k + 1, next, moments)
      PROVE  OnPath(path, next, Tail(steps), moments)
  BY <1>2, <1>4, <1>5, <1>6 DEF OnPath, a, S
<1> QED
  BY <1>1, <1>2, <1>3, <1>4, <1>5, <1>6 DEF a

\* What the partitions answer to a step lists, each once, nodes that edges led to, and all
\* that edges which stayed lead to.
LEMMA GatheredStep ==
  ASSUME NEW moments, \A p \in Part : \A f \in moments[p] : Few(f),
         NEW st, st.kind \in Kinds \ {"unique"}, NEW front, front \in Seq(Range(front)),
         NEW got, Inquiring(st, front, <<>>, got, moments)
  PROVE  LET next == Gathered(got) IN
         /\ next \in Seq(Range(next)) /\ IsInjective(next)
         /\ \A n \in Range(next) : \E m \in Range(front) : Leads(Ever(moments), st, m, n)
         /\ \A m \in Range(front) : \A n : Leads(Always(moments), st, m, n) => n \in Range(next)
<1> DEFINE a == StepSelects(st, front)
           l == Len(PartOrder)
           job == StepJob(st, front)
<1>1. /\ l \in Nat /\ DOMAIN PartOrder = 1..l /\ (\A i \in 1..l : PartOrder[i] \in Part)
      /\ \A p \in Part : \E i \in 1..l : PartOrder[i] = p
  BY ReadsAssumption, LenProperties, ElementOfSeq DEF Range
<1>2. Len(a) = l /\ \A i \in 1..l : a[i] = [part |-> PartOrder[i], job |-> job]
  BY StepSelectsLists
<1>3. IsList(got) /\ Len(got) = l /\ \A i \in 1..l : Answers("path", a[i], got[i].rows, moments)
  <2>1. GotSoFar("path", a, <<>>, got, moments)
    BY DEF Inquiring
  <2>2. Len(a) - Len(<<>>) = l
    BY <1>1, <1>2
  <2> HIDE DEF a, l
  <2> QED
    BY <2>1, <2>2 DEF GotSoFar
<1>4. DOMAIN got = 1..l
  <2>1. got \in Seq({got[i] : i \in DOMAIN got})
    BY <1>3 DEF IsList
  <2>2. DOMAIN got = 1..Len(got)
    BY <2>1, LenProperties
  <2> QED
    BY <1>3, <2>2
<1>5. \A i \in 1..l : \E f \in moments[PartOrder[i]] : got[i].rows = Targets(f.quads, st, front)
  <2> SUFFICES ASSUME NEW i \in 1..l
               PROVE  \E f \in moments[PartOrder[i]] : got[i].rows = Targets(f.quads, st, front)
    OBVIOUS
  <2> DEFINE s == a[i]
  <2>1. s.part = PartOrder[i] /\ s.job = job
    <3>1. s = [part |-> PartOrder[i], job |-> job]
      BY <1>2
    <3> HIDE DEF s, job
    <3> QED
      BY <3>1
  <2>2. Answers("path", s, got[i].rows, moments)
    BY <1>3
  <2> HIDE DEF s
  <2>3. PICK f \in moments[PartOrder[i]] : got[i].rows = Rows(f, job)
    BY <2>1, <2>2 DEF Answers
  <2>4. Rows(f, job) = Targets(f.quads, st, front)
    BY DEF Rows, StepJob
  <2> QED
    BY <2>3, <2>4
<1> HIDE DEF a, l, job
<1>6. \A i \in 1..l : IsFiniteSet(got[i].rows)
  <2> SUFFICES ASSUME NEW i \in 1..l
               PROVE  IsFiniteSet(got[i].rows)
    OBVIOUS
  <2>1. PICK f \in moments[PartOrder[i]] : got[i].rows = Targets(f.quads, st, front)
    BY <1>5
  <2> DEFINE X == Range(front)
             Y == EdgeEnds(f.quads)
  <2>2. IsFiniteSet(X)
    BY RangeFinite
  <2>3. IsFiniteSet(Y)
    BY <1>1, EndsFinite DEF Few
  <2>4. Targets(f.quads, st, front) \subseteq X \cup Y
    <3> SUFFICES ASSUME NEW n \in Targets(f.quads, st, front) PROVE n \in X \cup Y
      OBVIOUS
    <3>1. PICK m \in Range(front) : Leads(f.quads, st, m, n)
      BY TargetsLead
    <3> QED
      BY <3>1, LeadsToEnds
  <2> HIDE DEF X, Y
  <2>5. IsFiniteSet(X \cup Y)
    BY <2>2, <2>3, FS_Union
  <2> QED
    BY <2>1, <2>4, <2>5, FS_Subset
<1> DEFINE U == AllRows(got, l)
           next == Gathered(got)
<1>7. ListsOnce(next, U)
  <2>1. \A i \in 1..l : got[i].rows \subseteq U
    BY DEF AllRows
  <2> HIDE DEF U, next
  <2>2. \A i \in 1..l : got[i].rows \subseteq U /\ IsFiniteSet(got[i].rows)
    BY <1>6, <2>1
  <2> HIDE DEF l
  <2>3. RowsWithin(got, l, U)
    BY <1>4, <2>2 DEF RowsWithin
  <2>4. l \in Nat
    BY <1>1
  <2>5. ListsOnce(Gathered(got), AllRows(got, l))
    BY <2>3, <2>4, GatheredLists
  <2> QED
    BY <2>5 DEF U, next
<1>8. next \in Seq(Range(next)) /\ IsInjective(next) /\ Range(next) = U
  <2> HIDE DEF U, next
  <2> QED
    BY <1>7 DEF ListsOnce
<1>9. ASSUME NEW n \in U
      PROVE  \E m \in Range(front) : Leads(Ever(moments), st, m, n)
  <2>1. PICK i \in 1..l : n \in got[i].rows
    BY DEF AllRows
  <2>2. PICK f \in moments[PartOrder[i]] : got[i].rows = Targets(f.quads, st, front)
    BY <1>5
  <2>3. PICK m \in Range(front) : Leads(f.quads, st, m, n)
    BY <2>1, <2>2, TargetsLead
  <2>4. f.quads \subseteq Ever(moments)
    BY <1>1 DEF Ever
  <2> QED
    BY <2>3, <2>4, LeadsFurther
<1>10. ASSUME NEW m \in Range(front), NEW n, Leads(Always(moments), st, m, n)
       PROVE  n \in U
  <2>1. PICK q \in Always(moments) : Leads({q}, st, m, n)
    BY <1>10 DEF Leads, Kinds
  <2>2. PICK p \in Part : \A f \in moments[p] : q \in f.quads
    BY DEF Always
  <2>3. PICK i \in 1..l : PartOrder[i] = p
    BY <1>1
  <2>4. PICK f \in moments[PartOrder[i]] : got[i].rows = Targets(f.quads, st, front)
    BY <1>5
  <2>5. {q} \subseteq f.quads
    BY <2>2, <2>3, <2>4
  <2>6. Leads(f.quads, st, m, n)
    BY <2>1, <2>5, LeadsFurther
  <2>7. n \in got[i].rows
    BY <2>4, <2>6, TargetsLead
  <2> QED
    BY <2>7 DEF AllRows
<1> HIDE DEF U, next
<1>11. /\ next \in Seq(Range(next)) /\ IsInjective(next)
       /\ \A n \in Range(next) : \E m \in Range(front) : Leads(Ever(moments), st, m, n)
       /\ \A m \in Range(front) : \A n : Leads(Always(moments), st, m, n) => n \in Range(next)
  BY <1>8, <1>9, <1>10
<1> QED
  BY <1>11 DEF next

\* While others write, edges come and go.
LEMMA ListedLater ==
  ASSUME NEW path, NEW k, NEW front, NEW before, NEW after, \A p \in Part : before[p] \subseteq after[p],
         Listed(path, k, front, before)
  PROVE  Listed(path, k, front, after)
<1>1. Ever(before) \subseteq Ever(after)
  BY DEF Ever
<1>2. Always(after) \subseteq Always(before)
  <2> SUFFICES ASSUME NEW q \in Always(after) PROVE q \in Always(before)
    OBVIOUS
  <2>1. PICK p \in Part : q \in Quad /\ \A f \in after[p] : q \in f.quads
    BY DEF Always
  <2> QED
    BY <2>1 DEF Always
<1> QED
  BY <1>1, <1>2, ReachableFurther DEF Listed

\* A path begins at its seeds.
LEMMA PathBegins ==
  ASSUME Path
  PROVE  PathInv'
<1>1. PICK path \in PathChoice :
        rd' = [NoRead EXCEPT !.op = "path", !.arg = path, !.front = path.seeds, !.steps = path.steps]
  BY DEF Path
<1>2. rd'.arg = path /\ rd'.front = path.seeds /\ rd'.steps = path.steps /\ rd'.todo = <<>> /\ rd'.got = <<>>
  BY <1>1 DEF NoRead
<1> DEFINE a == path.steps
           S == Range(a)
           front == path.seeds
<1>3. a \in Seq(S) /\ front \in Seq(Range(front))
  BY PathsShaped DEF PathShape
<1> HIDE DEF S, a, front
<1>4. Remains(a, a) /\ Len(a) - Len(a) = 0
  BY <1>3 DEF Remains
<1>5. Listed(path, 0, front, since')
  <2>1. \A n : Reachable(Ever(since'), path, 0, n) <=> n \in Range(front)
    BY ReachableFirst DEF front
  <2>2. \A n : Reachable(Always(since'), path, 0, n) <=> n \in Range(front)
    BY ReachableFirst DEF front
  <2> QED
    BY <1>3, <2>1, <2>2 DEF Listed
<1>6. OnPath(path, front, a, since')
  BY <1>3, <1>4, <1>5 DEF OnPath, S, a
<1> QED
  BY <1>2, <1>6 DEF PathInv, Asking, a, front

\* A step of it asks every partition, or is refused.
LEMMA StepKeepsPath ==
  ASSUME ReadShape, PathInv, PathStep
  PROVE  PathInv'
<1> DEFINE st == Head(rd.steps)
           front == rd.front
           a == StepSelects(st, front)
<1>1. /\ rd.op = "path" /\ rd.todo = <<>> /\ rd.got = <<>> /\ rd.steps # <<>> /\ st.kind # "unique"
      /\ since' = since
      /\ rd' = NoRead \/ rd' = [rd EXCEPT !.todo = a]
  BY DEF PathStep, AtStep, StepSelects, StepJob
<1>2. CASE rd' = NoRead
  BY <1>2 DEF NoRead, PathInv
<1>3. CASE rd' = [rd EXCEPT !.todo = a]
  <2>1. /\ rd'.op = rd.op /\ rd'.arg = rd.arg /\ rd'.front = front /\ rd'.steps = rd.steps
        /\ rd'.todo = a /\ rd'.got = <<>>
    BY <1>1, <1>3 DEF ReadShape
  <2> HIDE DEF st, front
  <2>2. a \in Seq(Selects({StepJob(st, front)}))
    BY StepSelectsLists
  <2> DEFINE S == Selects({StepJob(st, front)})
  <2> HIDE DEF S, a
  <2>3. Remains(a, a) /\ Len(a) - Len(a) = 0
    BY <2>2 DEF Remains, S
  <2>4. GotSoFar("path", a, a, <<>>, since)
    BY <2>3, EmptyIsList DEF GotSoFar
  <2>5. Inquiring(st, front, a, <<>>, since)
    BY <1>1, <2>2, <2>3, <2>4 DEF Inquiring, a
  <2>6. OnPath(rd.arg, front, rd.steps, since)
    BY <1>1 DEF PathInv, front
  <2> QED
    BY <1>1, <2>1, <2>5, <2>6 DEF PathInv, Asking, st
<1> QED
  BY <1>1, <1>2, <1>3

\* A partition answers.
LEMMA QueryKeepsPath ==
  ASSUME ReadShape, SinceInv, PathInv, Query, UNCHANGED vars, rd.op = "path"
  PROVE  PathInv'
<1> DEFINE st == Head(rd.steps)
           front == rd.front
           todo == rd.todo
           got == rd.got
           J == {StepJob(st, front)}
           a == StepSelects(st, front)
           h == Head(todo)
           rows == Rows(file[h.part], h.job)
           more == Append(got, WithRows(h, rows))
<1>1. /\ todo # <<>> /\ since' = since
      /\ rd' = [rd EXCEPT !.todo = Tail(todo), !.got = more]
  BY DEF Query
<1>2. /\ rd'.op = rd.op /\ rd'.arg = rd.arg /\ rd'.todo = Tail(todo) /\ rd'.got = more
      /\ rd'.front = front /\ rd'.steps = rd.steps
  BY <1>1, NextRecord
<1>3. OnPath(rd.arg, front, rd.steps, since) /\ rd.steps # <<>> /\ Inquiring(st, front, todo, got, since)
  BY <1>1 DEF PathInv, Asking
<1>4. st.kind # "unique" /\ todo \in Seq(Selects(J)) /\ Remains(todo, a) /\ GotSoFar("path", a, todo, got, since)
  BY <1>3 DEF Inquiring
<1> HIDE DEF st, front
<1>5. a \in Seq(Selects(J))
  BY StepSelectsLists
<1> HIDE DEF J, a, todo, got, rows
<1>6. Answers("path", h, rows, since)
  <2>1. h \in Selects(J)
    BY <1>1, <1>4, HeadTailProperties
  <2>2. h.part \in Part
    BY <2>1 DEF Selects
  <2>3. file[h.part] \in since[h.part]
    BY <2>2 DEF SinceInv
  <2> QED
    BY <2>3 DEF Answers, rows
<1>7. /\ Tail(todo) \in Seq(Selects(J)) /\ Remains(Tail(todo), a)
      /\ GotSoFar("path", a, Tail(todo), Append(got, WithRows(Head(todo), rows)), since)
  <2> DEFINE op == "path"
  <2>1. GotSoFar(op, a, todo, got, since) /\ Answers(op, h, rows, since)
    BY <1>4, <1>6
  <2> HIDE DEF op
  <2>2. GotSoFar(op, a, Tail(todo), Append(got, WithRows(Head(todo), rows)), since)
    BY <1>1, <1>4, <1>5, <2>1, AnswerGrows
  <2>3. Tail(todo) \in Seq(Selects(J)) /\ Remains(Tail(todo), a)
    BY <1>1, <1>4, <1>5, NextSelect
  <2> QED
    BY <2>2, <2>3 DEF op
<1>8. Inquiring(st, front, Tail(todo), more, since)
  BY <1>4, <1>7 DEF Inquiring, J, a
<1> HIDE DEF more
<1> QED
  BY <1>1, <1>2, <1>3, <1>8 DEF PathInv, Asking, st

\* The answers become the next frontier.
LEMMA GatherKeepsPath ==
  ASSUME ReadShape, SinceInv, PathInv, PathGather
  PROVE  PathInv'
<1> DEFINE st == Head(rd.steps)
           path == rd.arg
           front == rd.front
           steps == rd.steps
           got == rd.got
           next == Gathered(got)
           k == Len(path.steps) - Len(steps)
<1>1. /\ rd.op = "path" /\ rd.todo = <<>> /\ got # <<>> /\ since' = since
      /\ rd' = [rd EXCEPT !.front = next, !.got = <<>>, !.steps = Tail(steps)]
  BY DEF PathGather
<1>2. /\ rd'.op = "path" /\ rd'.arg = path /\ rd'.todo = <<>> /\ rd'.got = <<>>
      /\ rd'.front = next /\ rd'.steps = Tail(steps)
  BY <1>1 DEF ReadShape
<1>3. OnPath(path, front, steps, since) /\ steps # <<>> /\ Inquiring(st, front, <<>>, got, since)
  BY <1>1 DEF PathInv, Asking
<1> HIDE DEF path, front, steps, got
<1>4. /\ k \in Nat /\ Head(steps) = path.steps[k + 1] /\ Listed(path, k, front, since)
      /\ Head(steps).kind \in Kinds
      /\ \A x : Listed(path, k + 1, x, since) => OnPath(path, x, Tail(steps), since)
  BY <1>3, PathNext
<1>5. st = Head(steps) /\ st.kind # "unique"
  BY <1>3 DEF Inquiring, steps
<1>6. front \in Seq(Range(front))
  BY <1>4 DEF Listed
<1>7. \A p \in Part : \A f \in since[p] : Few(f)
  BY DEF SinceInv, Filed
<1> HIDE DEF st
<1>8. /\ next \in Seq(Range(next)) /\ IsInjective(next)
      /\ \A n \in Range(next) : \E m \in Range(front) : Leads(Ever(since), st, m, n)
      /\ \A m \in Range(front) : \A n : Leads(Always(since), st, m, n) => n \in Range(next)
  <2>1. st.kind \in Kinds \ {"unique"}
    BY <1>4, <1>5
  <2> QED
    BY <1>3, <1>6, <1>7, <2>1, GatheredStep
<1> HIDE DEF next, k
<1>9. Listed(path, k + 1, next, since)
  BY <1>4, <1>5, <1>8, ListedNext
<1>10. OnPath(path, next, Tail(steps), since)
  BY <1>4, <1>9
<1> QED
  BY <1>1, <1>2, <1>10 DEF PathInv, Asking

\* Unique, or a step from nowhere.
LEMMA UniqueKeepsPath ==
  ASSUME ReadShape, PathInv, PathUnique
  PROVE  PathInv'
<1> DEFINE st == Head(rd.steps)
           path == rd.arg
           front == rd.front
           steps == rd.steps
           next == Deduped(front)
           k == Len(path.steps) - Len(steps)
<1>1. /\ rd.op = "path" /\ rd.todo = <<>> /\ rd.got = <<>> /\ steps # <<>> /\ since' = since
      /\ front = <<>> \/ st.kind = "unique"
      /\ rd' = [rd EXCEPT !.front = next, !.steps = Tail(steps)]
  BY DEF PathUnique, AtStep
<1>2. /\ rd'.op = "path" /\ rd'.arg = path /\ rd'.todo = <<>> /\ rd'.got = <<>>
      /\ rd'.front = next /\ rd'.steps = Tail(steps)
  BY <1>1 DEF ReadShape
<1>3. OnPath(path, front, steps, since)
  BY <1>1 DEF PathInv
<1>0. st = Head(steps)
  OBVIOUS
<1> HIDE DEF path, front, steps, st
<1>4. /\ k \in Nat /\ Head(steps) = path.steps[k + 1] /\ Listed(path, k, front, since)
      /\ \A x : Listed(path, k + 1, x, since) => OnPath(path, x, Tail(steps), since)
  BY <1>1, <1>3, PathNext
<1>5. front \in Seq(Range(front))
  BY <1>4 DEF Listed
<1>6. ListsOnce(next, Range(front))
  BY <1>5, DedupedLists
<1> HIDE DEF next, k
<1>7. next \in Seq(Range(next)) /\ IsInjective(next) /\ Range(next) = Range(front)
  BY <1>6 DEF ListsOnce
<1>8. Range(front) = {} \/ st.kind = "unique"
  <2>1. CASE front = <<>>
    BY <2>1 DEF Range
  <2> QED
    BY <1>1, <2>1
<1>9. /\ \A n \in Range(next) : \E m \in Range(front) : Leads(Ever(since), st, m, n)
      /\ \A m \in Range(front) : \A n : Leads(Always(since), st, m, n) => n \in Range(next)
  BY <1>7, <1>8 DEF Leads
<1>10. Listed(path, k + 1, next, since)
  BY <1>0, <1>4, <1>7, <1>9, ListedNext
<1>11. OnPath(path, next, Tail(steps), since)
  BY <1>4, <1>10
<1> QED
  BY <1>1, <1>2, <1>11 DEF PathInv, Asking

\* Whatever the reader does.
LEMMA ReaderKeepsPath ==
  ASSUME ReadInv, PathInv, Reader, UNCHANGED vars
  PROVE  PathInv'
<1> USE DEF ReadInv
<1>1. CASE Find \/ Count \/ LabelCounts \/ Stats \/ Shape \/ CommitStatsAt \/ PruneTool
  <2>1. rd'.op # "path"
    BY <1>1 DEF Find, Count, LabelCounts, Stats, Shape, CommitStatsAt, PruneTool, Open, NoRead
  <2> QED
    BY <2>1 DEF PathInv
<1>2. CASE Query /\ rd.op = "path"
  BY <1>2, QueryKeepsPath
<1>3. CASE Query /\ rd.op # "path"
  <2>1. rd'.op # "path"
    BY <1>3 DEF Query, ReadShape
  <2> QED
    BY <2>1 DEF PathInv
<1>4. CASE StatsCutShort
  <2>1. rd'.op # "path"
    BY <1>4 DEF StatsCutShort, ReadShape
  <2> QED
    BY <2>1 DEF PathInv
<1>5. CASE Fail \/ EndCall
  <2>1. rd'.op # "path"
    BY <1>5 DEF Fail, EndCall, NoRead
  <2> QED
    BY <2>1 DEF PathInv
<1> QED
  BY <1>1, <1>2, <1>3, <1>4, <1>5, PathBegins, StepKeepsPath, GatherKeepsPath, UniqueKeepsPath DEF Reader

\* Somebody writes while the path waits for its next answer.
LEMMA WriterKeepsPath ==
  ASSUME PathInv, Meanwhile
  PROVE  PathInv'
<1> SUFFICES ASSUME rd.op = "path"
             PROVE  OnPath(rd.arg, rd.front, rd.steps, since') /\ Asking(rd.steps, rd.front, rd.todo, rd.got, since')
  BY DEF Meanwhile, PathInv
<1>1. \A p \in Part : since[p] \subseteq since'[p]
  BY DEF Meanwhile
<1>2. OnPath(rd.arg, rd.front, rd.steps, since')
  BY <1>1, ListedLater DEF PathInv, OnPath
<1>3. CASE rd.todo = <<>> /\ rd.got = <<>>
  BY <1>2, <1>3 DEF Asking
<1>4. CASE rd.steps # <<>> /\ Inquiring(Head(rd.steps), rd.front, rd.todo, rd.got, since)
  <2> DEFINE st == Head(rd.steps)
             front == rd.front
             todo == rd.todo
             got == rd.got
             J == {StepJob(st, front)}
             a == StepSelects(st, front)
             op == "path"
  <2>1. Inquiring(st, front, todo, got, since)
    BY <1>4
  <2> HIDE DEF st, front, todo, got
  <2>2. /\ st.kind # "unique" /\ todo \in Seq(Selects(J)) /\ Remains(todo, a) /\ GotSoFar(op, a, todo, got, since)
    BY <2>1 DEF Inquiring
  <2>3. a \in Seq(Selects(J))
    BY StepSelectsLists
  <2> HIDE DEF J, a, op
  <2>4. GotSoFar(op, a, todo, got, since')
    BY <1>1, <2>2, <2>3, MoreAnswers
  <2>5. Inquiring(st, front, todo, got, since')
    BY <2>2, <2>4 DEF Inquiring, J, a, op
  <2> QED
    BY <1>2, <1>4, <2>5 DEF Asking, st, front, todo, got
<1> QED
  BY <1>3, <1>4 DEF PathInv, Asking

\* Both sets of edges are finite, and what was always there was there at some moment.
LEMMA EdgesFinite ==
  ASSUME SinceInv, rd.op = "path"
  PROVE  IsFiniteSet(Ever(since)) /\ IsFiniteSet(Always(since))
<1> DEFINE moments == UNION {since[p] : p \in Part}
           parts == {since[p] : p \in Part}
           edges == {f.quads : f \in moments}
           s == [p \in Part |-> since[p]]
           t == [f \in moments |-> f.quads]
<1>1. IsFiniteSet(Part)
  <2>1. PartOrder \in Seq(Range(PartOrder)) /\ Range(PartOrder) = Part
    BY ReadsAssumption
  <2> QED
    BY <2>1, RangeFinite
<1>2. s \in Surjection(Part, parts) /\ t \in Surjection(moments, edges)
  BY DEF Surjection
<1>3. (\A x \in parts : IsFiniteSet(x)) /\ \A x \in edges : IsFiniteSet(x)
  BY DEF SinceInv, Filed, Few
<1>4. moments = UNION parts /\ Ever(since) = UNION edges
  BY DEF Ever
<1> HIDE DEF moments, parts, edges, s, t
<1>5. IsFiniteSet(parts)
  BY <1>1, <1>2, FS_Surjection
<1>6. IsFiniteSet(moments)
  BY <1>3, <1>4, <1>5, FS_UNION
<1>7. IsFiniteSet(edges)
  BY <1>2, <1>6, FS_Surjection
<1>8. IsFiniteSet(Ever(since))
  BY <1>3, <1>4, <1>7, FS_UNION
<1>9. Always(since) \subseteq Ever(since)
  <2> SUFFICES ASSUME NEW q \in Always(since) PROVE q \in Ever(since)
    OBVIOUS
  <2>1. PICK p \in Part : \A f \in since[p] : q \in f.quads
    BY DEF Always
  <2>2. file[p] \in since[p]
    BY DEF SinceInv
  <2> QED
    BY <2>1, <2>2 DEF Ever
<1> QED
  BY <1>8, <1>9, FS_Subset

\* At its end.
LEMMA PathsAreFound == ReadInv /\ PathInv => PathMeaning
<1> SUFFICES ASSUME ReadInv, PathInv, Answered, rd.op = "path"
             PROVE  /\ Reached(Always(since), rd.arg) \subseteq Range(rd.front)
                    /\ Range(rd.front) \subseteq Reached(Ever(since), rd.arg)
                    /\ rd.arg.steps # <<>> => IsInjective(rd.front)
  BY DEF PathMeaning, Always, Ever
<1> DEFINE path == rd.arg
           front == rd.front
           a == path.steps
           S == Range(a)
<1>1. path \in PathChoice /\ rd.steps = <<>> /\ Listed(path, Len(a) - Len(rd.steps), front, since)
  BY DEF PathInv, OnPath, Answered
<1>2. PathShape(path) /\ a \in Seq(S)
  BY <1>1, PathsShaped DEF PathShape
<1>3. IsFiniteSet(Ever(since)) /\ IsFiniteSet(Always(since))
  BY EdgesFinite DEF ReadInv
<1> DEFINE l == Len(a)
<1>4. Listed(path, l, front, since)
  <2>1. Len(a) - Len(rd.steps) = Len(a)
    <3> HIDE DEF a, S
    <3> QED
      BY <1>1, <1>2
  <2> QED
    BY <1>1, <2>1
<1>5. \A n : n \in Reached(Always(since), path) <=> Reachable(Always(since), path, l, n)
  <2> HIDE DEF path
  <2> QED
    BY <1>2, <1>3, ReachedIsReachable
<1>6. \A n : n \in Reached(Ever(since), path) <=> Reachable(Ever(since), path, l, n)
  <2> HIDE DEF path
  <2> QED
    BY <1>2, <1>3, ReachedIsReachable
<1>7. a # <<>> => l # 0
  <2> HIDE DEF a, S
  <2> QED
    BY <1>2
<1> HIDE DEF path, front, l
<1>8. /\ Reached(Always(since), path) \subseteq Range(front)
      /\ Range(front) \subseteq Reached(Ever(since), path)
      /\ l # 0 => IsInjective(front)
  BY <1>4, <1>5, <1>6 DEF Listed
<1> QED
  BY <1>7, <1>8 DEF path, front

\* A path means what it says, over partitions that are asked one after another while others
\* write: it lists every node that edges which stayed lead to, no node without a chain of
\* edges each of which was there at some moment, and after a step no node twice.
THEOREM PathsMeanWhatTheySay == RSpec => []PathMeaning
<1>1. RInit => PathInv
  BY DEF RInit, NoRead, PathInv
<1>2. PathInv /\ ReadInv /\ [RNext]_<<vars, reading>> => PathInv'
  <2> SUFFICES ASSUME PathInv, ReadInv, [RNext]_<<vars, reading>> PROVE PathInv'
    OBVIOUS
  <2>1. CASE Reader /\ UNCHANGED vars
    BY <2>1, ReaderKeepsPath
  <2>2. CASE PruneApply
    <3>1. rd'.op = "prune"
      BY <2>2 DEF PruneApply, ReadInv, ReadShape
    <3> QED
      BY <3>1 DEF PathInv
  <2>3. CASE (\E g \in Proc : Step(g)) /\ Meanwhile
    BY <2>3, WriterKeepsPath
  <2>4. CASE Crash /\ rd' = NoRead /\ since' = [p \in Part |-> {}]
    BY <2>4 DEF NoRead, PathInv
  <2>5. CASE UNCHANGED <<vars, reading>>
    BY <2>5 DEF reading, PathInv
  <2> QED
    BY <2>1, <2>2, <2>3, <2>4, <2>5 DEF RNext
<1> QED
  BY <1>1, <1>2, ReadInvariant, PathsAreFound, PTL DEF RSpec
=============================================================================
