----------------------------- MODULE SqliteReads -----------------------------
(***************************************************************************)
(* The read side of the SQLite backend (reader.go, quadstore.go,           *)
(* partitioned.go, shape.go): Find and Match, Count, LabelCounts, Stats,   *)
(* CommitStatsAt, Shape and path traversal, and the cmd/prune tool, one    *)
(* reader next to the writers of SqliteWriter.                             *)
(*                                                                         *)
(* A call is a list of SELECTs, each on one partition.  A SELECT sees that *)
(* file as it is at that moment; the next one may see a later moment.      *)
(* A statement is <<subject, predicate, object>>.                          *)
(***************************************************************************)
EXTENDS SqliteWriter, FiniteSets

CONSTANTS
  PartOrder,      \* the partitions as configured, in order
  RoutePattern,   \* RoutePattern[pat]: what the optional pattern router answers
  PatternChoice,  \* the patterns of Find, Match and Count
  PathChoice,     \* the paths: [seeds, steps]
  CutoffChoice,   \* the cutoffs of CommitStatsAt and cmd/prune; 0 is no time
  MaxVariables,   \* 32766 in SQLite: variables of one statement
  Wild            \* an empty field of a pattern, or of a path's predicates

Accepts(f, v) == f \in {Wild, v}

\* buildMatchQuery
Matches(pat, q) ==
  /\ Accepts(pat.s, q.stmt[1]) /\ Accepts(pat.p, q.stmt[2]) /\ Accepts(pat.o, q.stmt[3])
  /\ Accepts(pat.l, q.label)

\* The quads that callers ever write.
Written == {q \in UNION {Wanted(b).adds : b \in BatchChoice \cup LegacyChoice} : q.stmt # EmptyStmt}

\* A pattern router knows what the callers write where: it may name a
\* partition, by the subject or whatever else is in the pattern, if every quad
\* they write that matches goes there.
ASSUME ReadsAssumption ==
  /\ PartOrder \in Seq(Part) /\ Range(PartOrder) = Part /\ IsInjective(PartOrder)
  /\ PatternChoice \subseteq DOMAIN RoutePattern
  /\ \A pat \in PatternChoice :
       RoutePattern[pat] \in Part =>
         \A q \in Written : Matches(pat, q) => partFor(q.label) = RoutePattern[pat]
  /\ \A path \in PathChoice :
       /\ path.seeds \in Seq(Range(path.seeds)) /\ path.steps \in Seq(Range(path.steps))
       /\ \A st \in Range(path.steps) : st.kind \in {"out", "in", "has", "unique"}
  /\ CutoffChoice \subseteq Nat
  /\ MaxVariables \in Nat

VARIABLES
  rd,     \* the call the reader is in: the SELECTs to come and the rows so far
  since   \* since[p]: history, what file p held from the begin of the call on

reading == <<rd, since>>

NoRead == [op |-> "none", todo |-> <<>>, got |-> <<>>, arg |-> <<>>, front |-> <<>>, steps |-> <<>>]

----------------------------------------------------------------------------
(* Routing *)

\* Mutated partForPattern: a pattern without a label asks the label router.
routesUnlabelled(pat) ==
  CASE Len(PartOrder) = 1          -> Part
    [] RoutePattern[pat] \in Part  -> {RoutePattern[pat]}
    [] OTHER -> {p \in Part : p = RouteLabel[IF pat.l = Wild THEN NoLabel ELSE pat.l]}

\* The partition a pattern is scoped to, if any.
partForPattern(pat) ==
  CASE Len(PartOrder) = 1          -> Part
    [] RoutePattern[pat] \in Part  -> {RoutePattern[pat]}
    [] OTHER -> {p \in Part : pat.l # Wild /\ p = RouteLabel[pat.l]}

partsForPattern(pat) ==
  IF partForPattern(pat) = {} THEN PartOrder
  ELSE SetToSeq(partForPattern(pat))

----------------------------------------------------------------------------
(* SELECTs *)

\* Mutated Old: the cutoff second counts as old.
OldThrough(f, before) == {c \in f.commits : c.at <= before}

Old(f, before) == {c \in f.commits : c.at < before}

\* The nodes one step of a path leads to from `front'.
Targets(quads, st, front) ==
  LET stmts == {q.stmt : q \in quads}
      along == {t \in stmts : st.preds = {} \/ t[2] \in st.preds}
  IN CASE st.kind = "out" -> {t[3] : t \in {u \in along : u[1] \in Range(front)}}
       [] st.kind = "in"  -> {t[1] : t \in {u \in along : u[3] \in Range(front)}}
       [] st.kind = "has" -> {n \in Range(front) : \E pred \in st.preds : <<n, pred, st.value>> \in stmts}

Rows(f, job) ==
  CASE job.sel = "quads"   -> {q \in f.quads : Matches(job.pat, q)}
    [] job.sel = "count"   -> Cardinality({q \in f.quads : Matches(job.pat, q)})
    [] job.sel = "labels"  -> [l \in {q.label : q \in f.quads} |->
                                 Cardinality({q \in f.quads : q.label = l})]
    [] job.sel = "total"   -> Cardinality(f.quads)
    [] job.sel = "preds"   -> {q.stmt[2] : q \in f.quads}
    [] job.sel = "edges"   -> {q.stmt : q \in f.quads}
    [] job.sel = "commits" -> Cardinality(f.commits)
    [] job.sel = "ops"     -> Cardinality(f.ops)
    [] job.sel = "old"     -> Cardinality(Old(f, job.before))
    [] job.sel = "oldops"  -> Cardinality({o \in f.ops : \E c \in Old(f, job.before) : c.id = o.id})
    [] job.sel = "step"    -> Targets(f.quads, job.step, job.front)

\* The SELECTs of a call on each of the partitions, one partition at a time.
PerPart(parts, jobs) ==
  FlattenSeq([i \in DOMAIN parts |-> [j \in DOMAIN jobs |-> [part |-> parts[i], job |-> jobs[j]]]])

Select(name)             == [sel |-> name]
SelectOlder(name, before) == [sel |-> name, before |-> before]

----------------------------------------------------------------------------
(* Calls *)

RInit == Init /\ rd = NoRead /\ since = [p \in Part |-> {}]

\* A call begins: what it was called with, and its SELECTs.
Open(op, arg, todo) ==
  /\ rd.op = "none"
  /\ rd' = [NoRead EXCEPT !.op = op, !.arg = arg, !.todo = todo]
  /\ since' = [p \in Part |-> {file[p]}]

\* Find; Match with its Iterator runs the same SELECTs.
Find ==
  \E pat \in PatternChoice :
    Open("find", pat, PerPart(partsForPattern(pat), <<[sel |-> "quads", pat |-> pat]>>))

Count ==
  \E pat \in PatternChoice :
    Open("count", pat, PerPart(partsForPattern(pat), <<[sel |-> "count", pat |-> pat]>>))

LabelCounts == Open("labels", <<>>, PerPart(PartOrder, <<Select("labels")>>))

Stats == Open("stats", <<>>, PerPart(PartOrder, <<Select("total"), Select("preds")>>))

\* Mutated Shape: the predicates come from the first partition.
ShapeOfFirst ==
  Open("shape", <<>>, PerPart(<<PartOrder[1]>>, <<Select("preds")>>) \o PerPart(PartOrder, <<Select("edges")>>))

Shape == Open("shape", <<>>, PerPart(PartOrder, <<Select("preds"), Select("edges")>>))

\* Without a cutoff nothing is old, and the last two are not asked.
JournalSelects(before) ==
  <<Select("commits"), Select("ops")>>
    \o IF before = 0 THEN <<>> ELSE <<SelectOlder("old", before), SelectOlder("oldops", before)>>

CommitStatsAt ==
  \E before \in CutoffChoice :
    Open("journal", before, PerPart(PartOrder, JournalSelects(before)))

\* A SELECT and the rows it yielded.
WithRows(select, rows) == [part |-> select.part, job |-> select.job, rows |-> rows]

\* The next SELECT of the call.
Query ==
  /\ rd.todo # <<>>
  /\ LET next == Head(rd.todo)
     IN rd' = [rd EXCEPT !.todo = Tail(@),
                         !.got = Append(@, WithRows(next, Rows(file[next.part], next.job)))]
  /\ UNCHANGED since

\* Stats does not look at rows.Err: predicates may be missing unnoticed.
StatsCutShort ==
  /\ rd.op = "stats" /\ rd.todo # <<>>
  /\ LET next == Head(rd.todo)
     IN /\ next.job.sel = "preds"
        /\ \E rows \in SUBSET Rows(file[next.part], next.job) :
             rd' = [rd EXCEPT !.todo = Tail(@), !.got = Append(@, WithRows(next, rows))]
  /\ UNCHANGED since

\* A SELECT fails and the call returns the error (after the rows it has
\* already yielded, if it is an iteration).
Fail == rd.todo # <<>> /\ rd' = NoRead /\ UNCHANGED since

(* Path.Iterate: one round of SELECTs per step *)

Path ==
  \E path \in PathChoice :
    /\ rd.op = "none"
    /\ rd' = [NoRead EXCEPT !.op = "path", !.arg = path, !.front = path.seeds,
                            !.steps = path.steps]
    /\ since' = [p \in Part |-> {file[p]}]

\* One variable per node of the frontier, per predicate, and for the value.
Variables(st) == Len(rd.front) + Cardinality(st.preds) + IF st.kind = "has" THEN 1 ELSE 0

AtStep == rd.op = "path" /\ rd.todo = <<>> /\ rd.got = <<>> /\ rd.steps # <<>>

\* Out, In and Has ask every partition.
PathStep ==
  LET st == Head(rd.steps)
  IN /\ AtStep /\ rd.front # <<>> /\ st.kind # "unique"
     /\ rd' = IF Variables(st) > MaxVariables
              THEN NoRead
              ELSE [rd EXCEPT !.todo = PerPart(PartOrder, <<[sel |-> "step", step |-> st, front |-> rd.front]>>)]
     /\ UNCHANGED since

\* Nodes in the order they come, each once.
Appended(front, nodes) == front \o SetToSeq(nodes \ Range(front))

\* Mutated Gathered: duplicates are dropped within a partition only.
GatheredPerPart(got) == FlattenSeq([i \in DOMAIN got |-> SetToSeq(got[i].rows)])

\* The answers of the partitions in order, without duplicates.
Gathered(got) == FoldLeft(LAMBDA front, g : Appended(front, g.rows), <<>>, got)

PathGather ==
  /\ rd.op = "path" /\ rd.todo = <<>> /\ rd.got # <<>>
  /\ rd' = [rd EXCEPT !.front = Gathered(rd.got), !.got = <<>>, !.steps = Tail(@)]
  /\ UNCHANGED since

Deduped(front) == FoldLeft(LAMBDA seen, n : Appended(seen, {n}), <<>>, front)

\* Unique asks nobody; an empty frontier stays empty.
PathUnique ==
  /\ AtStep
  /\ rd.front = <<>> \/ Head(rd.steps).kind = "unique"
  /\ rd' = [rd EXCEPT !.front = Deduped(@), !.steps = Tail(@)]
  /\ UNCHANGED since

(* cmd/prune: another process, with the file of one partition as its store *)

PruneTool ==
  \E p \in Part, before \in CutoffChoice \ {0} :
    Open("prune", [part |-> p, before |-> before], PerPart(<<p>>, JournalSelects(before)))

\* With --apply, PruneOps of a Writer of its own follows the preview.
PruneApply ==
  LET p   == rd.arg.part
      new == Pruned(file[p], rd.arg.before)
  IN /\ rd.op = "prune" /\ rd.todo = <<>> /\ Len(rd.got) = 4
     /\ Unlocked(p)
     /\ Publish(p, new)
     /\ cutoff' = [cutoff EXCEPT ![p] = IF rd.arg.before > @ THEN rd.arg.before ELSE @]
     /\ rd' = [rd EXCEPT !.got = Append(@, Cardinality(file[p].ops) - Cardinality(new.ops))]
     /\ UNCHANGED <<slot, pc, at, call, clock, nextId, begun, failed, since>>

Answered == rd.op # "none" /\ rd.todo = <<>> /\ (rd.op = "path" => rd.steps = <<>> /\ rd.got = <<>>)

EndCall == Answered /\ rd' = NoRead /\ since' = [p \in Part |-> {}]

Reader ==
  \/ Find \/ Count \/ LabelCounts \/ Stats \/ Shape \/ CommitStatsAt \/ Query \/ StatsCutShort \/ Fail
  \/ Path \/ PathStep \/ PathGather \/ PathUnique
  \/ PruneTool
  \/ EndCall

\* Others write; a call that has its answer no longer reads, so they wait for
\* it to return, except where the prune tool has its DELETE to come.
Meanwhile ==
  /\ Answered => rd.op = "prune"
  /\ UNCHANGED rd
  /\ since' = IF rd.op = "none" THEN since ELSE [p \in Part |-> since[p] \cup {file'[p]}]

RNext ==
  \/ Reader /\ UNCHANGED vars
  \/ PruneApply
  \/ (\E g \in Proc : Step(g)) /\ Meanwhile
  \/ Crash /\ rd' = NoRead /\ since' = [p \in Part |-> {}]

RSpec == RInit /\ [][RNext]_<<vars, reading>>

----------------------------------------------------------------------------
(* Properties *)

\* The answer the call has from partition p to this SELECT, or else `none'.
GotFrom(p, sel, none) ==
  LET i == SelectInSeq(rd.got, LAMBDA g : g.part = p /\ g.job.sel = sel)
  IN IF i = 0 THEN none ELSE rd.got[i].rows

\* Whatever is written meanwhile and whether or not the read is scoped to one
\* partition, what Find or Count returns for each partition of the store is
\* what that partition held at one moment of the call: a scoped read leaves
\* out no partition that has a matching quad, whoever wrote it.
ScopedReadsComplete ==
  /\ Answered /\ rd.op = "find" =>
       \A p \in Part : \E f \in since[p] :
         GotFrom(p, "quads", {}) = {q \in f.quads : Matches(rd.arg, q)}
  /\ Answered /\ rd.op = "count" =>
       \A p \in Part : \E f \in since[p] :
         GotFrom(p, "count", 0) = Cardinality({q \in f.quads : Matches(rd.arg, q)})

\* What LabelCounts adds up for a label.
LabelTotal(l) ==
  SumFunction([i \in DOMAIN rd.got |->
     IF l \in DOMAIN rd.got[i].rows THEN rd.got[i].rows[l] ELSE 0])

Quiet == \A p \in Part : Cardinality(since[p]) = 1

\* Although the partitions are read one after another: LabelCounts gives each
\* label a number it had at one moment of the call; Stats reports no predicate
\* that the store did not have during the call, and adds up the number of quads
\* that each partition had at one moment of it; and a Shape taken while nobody
\* writes lists exactly the predicates of its edges.
TotalsConsistent ==
  /\ Answered /\ rd.op = "labels" =>
       \A l \in AnyLabel : \E f \in since[partFor(l)] :
         LabelTotal(l) = Cardinality({q \in f.quads : q.label = l})
  /\ Answered /\ rd.op = "stats" =>
       UNION {GotFrom(p, "preds", {}) : p \in Part}
         \subseteq {q.stmt[2] : q \in UNION {f.quads : f \in UNION {since[p] : p \in Part}}}
  /\ Answered /\ rd.op = "stats" =>
       \A p \in Part : \E f \in since[p] : GotFrom(p, "total", 0) = Cardinality(f.quads)
  /\ Answered /\ rd.op = "shape" /\ Quiet =>
       UNION {GotFrom(p, "preds", {}) : p \in Part}
         = {e[2] : e \in UNION {GotFrom(p, "edges", {}) : p \in Part}}

\* The nodes a path leads to in a set of quads.
Reached(quads, path) ==
  FoldLeft(LAMBDA nodes, st : IF st.kind = "unique" THEN nodes
                              ELSE Targets(quads, st, SetToSeq(nodes)),
           Range(path.seeds), path.steps)

\* A path finds every node that edges which were there during the whole call
\* lead to, across partitions, and no node without a chain of edges each of
\* which was there at some moment of it; after a step it lists a node once.
PathMeaning ==
  Answered /\ rd.op = "path" =>
    LET always == UNION {{q \in Quad : \A f \in since[p] : q \in f.quads} : p \in Part}
        ever   == UNION {f.quads : f \in UNION {since[p] : p \in Part}}
    IN /\ Reached(always, rd.arg) \subseteq Range(rd.front)
       /\ Range(rd.front) \subseteq Reached(ever, rd.arg)
       /\ rd.arg.steps # <<>> => IsInjective(rd.front)

\* cmd/prune deletes no fewer operations than its preview called eligible,
\* though commits go on between the counts and the DELETE.
PreviewHolds == rd.op = "prune" /\ Len(rd.got) = 5 => rd.got[5] >= rd.got[4].rows

=============================================================================
