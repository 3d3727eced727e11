---------------------------- MODULE SqliteWriter ----------------------------
(***************************************************************************)
(* The write side of the SQLite backend (writer.go, quadstore.go and the   *)
(* routing of partitioned.go): Writers that own the slot of a partition    *)
(* and commit batches in a transaction, PruneOps, and the older calls      *)
(* Store.Add, AddBatch and Delete, which do not take the slot.             *)
(*                                                                         *)
(* Every partition is a SQLite file of its own.  What SQLite does is       *)
(* external: a transaction works on its own image of the file, its first   *)
(* write takes the file's only write lock, and publishing the image is     *)
(* atomic.  With synchronous=NORMAL a published image is not yet on disk.  *)
(***************************************************************************)
EXTENDS Partitions, Integers, Sequences, SequencesExt

CONSTANTS
  Proc,          \* goroutines that use the store
  BatchChoice,   \* the batches the Writers commit
  LegacyChoice,  \* what Add, AddBatch and Delete are called with, as batches
  Prune,         \* whether PruneOps is used
  MaxCommits,    \* bound of the model: commits and legacy calls that start
  MaxClock       \* bound of the model: the last second there is

Id         == 1..MaxCommits
Second     == 1..MaxClock
Batch      == [adds : Seq(Quad), removes : Seq(Quad), label : AnyLabel, audit : BOOLEAN]

ASSUME SqliteAssumption ==
  /\ BatchChoice \subseteq Batch
  /\ LegacyChoice \subseteq {b \in Batch : b.label = NoLabel /\ ~b.audit}
  /\ Prune \in BOOLEAN
  /\ MaxCommits \in Nat
  /\ MaxClock \in Nat \ {0}

VARIABLES
  file,     \* file[p]: what a reader of partition p sees
  worlds,   \* worlds[p]: what a crash may leave in that file
  slot,     \* slot[p]: the goroutines at its writerSlot; the first one has it
  pc,       \* where each goroutine stands
  at,       \* the partition it works on
  call,     \* the commit, or the older call, it is in the middle of
  clock,    \* the second of the last commit; time goes on between commits only
  nextId,   \* the next commit id: a UUIDv7, growing
  begun,    \* history: the batch of each commit id
  cutoff,   \* history: up to which second the operations of p were ever pruned
  failed    \* history: the goroutines whose last write to p returned an error

vars == <<file, worlds, slot, pc, at, call, clock, nextId, begun, cutoff, failed>>

EmptyFile == [quads |-> {}, commits |-> {}, ops |-> {}]
NoBatch   == [adds |-> <<>>, removes |-> <<>>, label |-> NoLabel, audit |-> FALSE]
NoCall    == [batch |-> NoBatch, id |-> 0, done |-> 0, locked |-> FALSE, image |-> EmptyFile]

\* The statements of a call in order, each with its commit_ops row.
Jobs(b) ==
  (IF b.audit THEN <<[do |-> "commit"]>> ELSE <<>>)
  \o [i \in DOMAIN b.adds |-> [do |-> "add", quad |-> Effective(b.adds[i], b.label), seq |-> i]]
  \o [i \in DOMAIN b.removes |->
        [do |-> "remove", quad |-> b.removes[i], seq |-> Len(b.adds) + i]]

OpOf(c, job) ==
  IF c.batch.audit
  THEN {[id |-> c.id, seq |-> job.seq, kind |-> job.do, quad |-> job.quad]}
  ELSE {}

\* INSERT of the commit row; INSERT OR IGNORE or DELETE of a quad, logged
\* whether or not it changes anything.
Executed(f, c, job, now) ==
  CASE job.do = "commit" -> [f EXCEPT !.commits = @ \cup {[id |-> c.id, at |-> now]}]
    [] job.do = "add"    -> [f EXCEPT !.quads = @ \cup {job.quad}, !.ops = @ \cup OpOf(c, job)]
    [] job.do = "remove" -> [f EXCEPT !.quads = @ \ {job.quad}, !.ops = @ \cup OpOf(c, job)]

Pruned(f, before) ==
  [f EXCEPT !.ops = {o \in @ : ~\E c \in f.commits : c.id = o.id /\ c.at < before}]

----------------------------------------------------------------------------
Init ==
  /\ file = [p \in Part |-> EmptyFile]
  /\ worlds = [p \in Part |-> {EmptyFile}]
  /\ slot = [p \in Part |-> <<>>]
  /\ pc = [g \in Proc |-> "idle"]
  /\ at = [g \in Proc |-> Default]
  /\ call = [g \in Proc |-> NoCall]
  /\ clock = 1
  /\ nextId = 1
  /\ begun = <<>>
  /\ cutoff = [p \in Part |-> 0]
  /\ failed = [p \in Part |-> {}]

\* A goroutine that works on no partition.
Leave(g) == at' = [at EXCEPT ![g] = Default]

\* g's token, or its place in the queue, goes.
LeaveSlot(g) ==
  \E i \in DOMAIN slot[at[g]] :
    /\ slot[at[g]][i] = g
    /\ slot' = [slot EXCEPT ![at[g]] = RemoveAt(@, i)]

Goto(g, from, to) == pc[g] = from /\ pc' = [pc EXCEPT ![g] = to]

contents == <<file, worlds>>
history  == <<nextId, begun, cutoff, failed>>

\* A published image, not yet on the disk.
Publish(p, f) ==
  /\ file' = [file EXCEPT ![p] = f]
  /\ worlds' = [worlds EXCEPT ![p] = @ \cup {f}]

\* The one write lock of a SQLite file.
Unlocked(p) == \A g \in Proc : ~(at[g] = p /\ call[g].locked)

(* The slot: a channel of capacity one; blocked senders are served in order. *)

\* Mutated WriterFor: the slot is not waited for.
WriterForAtOnce(g, p) ==
  /\ Goto(g, "idle", "writer")
  /\ slot' = [slot EXCEPT ![p] = Append(@, g)]
  /\ at' = [at EXCEPT ![g] = p]
  /\ UNCHANGED <<contents, call, clock, history>>

\* WriterFor.  The call waits in the select when the slot is taken.
WriterFor(g, p) ==
  /\ Goto(g, "idle", IF slot[p] = <<>> THEN "writer" ELSE "waiting")
  /\ slot' = [slot EXCEPT ![p] = Append(@, g)]
  /\ at' = [at EXCEPT ![g] = p]
  /\ UNCHANGED <<contents, call, clock, history>>

\* Mutated Cancelled: a sender that gave up is still served.
CancelledStaysQueued(g) ==
  /\ Goto(g, "waiting", "idle")
  /\ Leave(g)
  /\ UNCHANGED <<contents, slot, call, clock, history>>

\* ctx.Done in that select.
Cancelled(g) ==
  /\ Goto(g, "waiting", "idle")
  /\ LeaveSlot(g)
  /\ Leave(g)
  /\ UNCHANGED <<contents, call, clock, history>>

\* The sender that is unblocked when the token is taken out.
Served(p) == {o \in Proc : pc[o] = "waiting" /\ Len(slot[p]) > 1 /\ slot[p][2] = o}

\* Mutated Close: the token stays in the slot.
CloseKeepsSlot(g) ==
  /\ Goto(g, "writer", "idle")
  /\ Leave(g)
  /\ UNCHANGED <<contents, slot, call, clock, history>>

\* Writer.Close takes the token out and the first waiting sender puts its own
\* in.  (A second Close does nothing.)
Close(g) ==
  /\ pc[g] = "writer"
  /\ pc' = [o \in Proc |-> IF o = g THEN "idle"
                           ELSE IF o \in Served(at[g]) THEN "writer" ELSE pc[o]]
  /\ LeaveSlot(g)
  /\ Leave(g)
  /\ UNCHANGED <<contents, call, clock, history>>

(* Commit *)

\* Mutated Accepted: the router sees an add without its effective label.
RoutesOwnLabel(p, b) ==
  /\ b.label \in ValidLabel
  /\ \A i \in DOMAIN b.adds :
       /\ Effective(b.adds[i], b.label).label \in ValidLabel
       /\ b.adds[i].stmt # EmptyStmt
       /\ partFor(b.adds[i].label) = p
  /\ \A i \in DOMAIN b.removes :
       b.removes[i].stmt # EmptyStmt /\ partFor(b.removes[i].label) = p

\* Validation of the whole batch before the database is touched.
Accepted(p, b) ==
  /\ b.label \in ValidLabel
  /\ \A i \in DOMAIN b.adds :
       LET q == Effective(b.adds[i], b.label)
       IN q.label \in ValidLabel /\ q.stmt # EmptyStmt /\ partFor(q.label) = p
  /\ \A i \in DOMAIN b.removes :
       b.removes[i].stmt # EmptyStmt /\ partFor(b.removes[i].label) = p

Begin(g, b) ==
  /\ nextId \in Id
  /\ call' = [call EXCEPT ![g] = [NoCall EXCEPT !.batch = b, !.id = nextId]]
  /\ begun' = Append(begun, b)
  /\ nextId' = nextId + 1

\* Commit up to BeginTx.
BeginCommit(g, b) ==
  /\ Accepted(at[g], b)
  /\ Goto(g, "writer", "commit")
  /\ Begin(g, b)
  /\ UNCHANGED <<contents, slot, at, clock, cutoff, failed>>

\* Add, AddBatch and Delete take neither the slot nor the label rules; all
\* quads of a call must route to one partition.
BeginLegacy(g, p, b) ==
  /\ \A q \in Range(b.adds) \cup Range(b.removes) : partFor(q.label) = p
  /\ Goto(g, "idle", "legacy")
  /\ at' = [at EXCEPT ![g] = p]
  /\ Begin(g, b)
  /\ UNCHANGED <<contents, slot, clock, cutoff, failed>>

InTx(g) == pc[g] \in {"commit", "legacy"}

\* The next statement; the first one takes the write lock.  A commit row gets
\* the time.  AddBatch finds an empty field only when it gets to it.
Execute(g, now) ==
  LET c    == call[g]
      jobs == Jobs(c.batch)
      job  == jobs[c.done + 1]
      base == IF c.locked THEN c.image ELSE file[at[g]]
  IN /\ InTx(g)
     /\ c.done < Len(jobs)
     /\ c.locked \/ Unlocked(at[g])
     /\ job.do = "add" => job.quad.stmt # EmptyStmt
     /\ IF job.do = "commit" THEN now >= clock ELSE now = clock
     /\ clock' = now
     /\ call' = [call EXCEPT ![g] = [c EXCEPT !.done = @ + 1, !.locked = TRUE,
                                              !.image = Executed(base, c, job, now)]]
     /\ UNCHANGED <<contents, slot, pc, at, history>>

Return(g) ==
  /\ pc' = [pc EXCEPT ![g] = IF @ = "commit" THEN "writer" ELSE "idle"]
  /\ call' = [call EXCEPT ![g] = NoCall]
  /\ IF pc[g] = "commit" THEN UNCHANGED at ELSE Leave(g)
  /\ UNCHANGED <<slot, clock, nextId, begun, cutoff>>

\* tx.Commit.
CommitTx(g) ==
  LET c == call[g]
      p == at[g]
  IN /\ InTx(g)
     /\ c.done = Len(Jobs(c.batch))
     /\ IF c.locked THEN Publish(p, c.image) ELSE UNCHANGED contents
     /\ failed' = [failed EXCEPT ![p] = @ \ {g}]
     /\ Return(g)

\* Mutated Rollback: tx.Commit runs anyway.
CommitsAnyway(g) ==
  LET p == at[g]
  IN /\ InTx(g)
     /\ IF call[g].locked THEN Publish(p, call[g].image) ELSE UNCHANGED contents
     /\ failed' = [failed EXCEPT ![p] = @ \cup {g}]
     /\ Return(g)

\* Any statement may fail: an I/O error, a cancelled context, the lock not
\* free within busy_timeout.  The deferred Rollback drops the image.
Rollback(g) ==
  /\ InTx(g)
  /\ failed' = [failed EXCEPT ![at[g]] = @ \cup {g}]
  /\ Return(g)
  /\ UNCHANGED contents

\* Mutated PruneOps: the operations of the cutoff second go too.
PruneThrough(g, before) ==
  LET p == at[g]
  IN /\ Prune
     /\ pc[g] = "writer"
     /\ Unlocked(p)
     /\ Publish(p, Pruned(file[p], before + 1))
     /\ cutoff' = [cutoff EXCEPT ![p] = IF before > @ THEN before ELSE @]
     /\ UNCHANGED <<slot, pc, at, call, clock, nextId, begun, failed>>

\* One DELETE statement by a Writer between its commits.
PruneOps(g, before) ==
  LET p == at[g]
  IN /\ Prune
     /\ pc[g] = "writer"
     /\ Unlocked(p)
     /\ Publish(p, Pruned(file[p], before))
     /\ cutoff' = [cutoff EXCEPT ![p] = IF before > @ THEN before ELSE @]
     /\ UNCHANGED <<slot, pc, at, call, clock, nextId, begun, failed>>

\* The process dies and the store is opened again: new channels, open
\* transactions gone, and each file as one of its worlds.
Crash ==
  /\ \E left \in [Part -> UNION {worlds[p] : p \in Part}] :
       /\ \A p \in Part : left[p] \in worlds[p]
       /\ file' = left
       /\ worlds' = [p \in Part |-> {left[p]}]
  /\ slot' = [p \in Part |-> <<>>]
  /\ pc' = [g \in Proc |-> "idle"]
  /\ call' = [g \in Proc |-> NoCall]
  /\ failed' = [p \in Part |-> {}]
  /\ at' = [g \in Proc |-> Default]
  /\ UNCHANGED <<clock, nextId, begun, cutoff>>

Write(g) ==
  \/ \E now \in Second : Execute(g, now)
  \/ CommitTx(g)
  \/ Rollback(g)

Step(g) ==
  \/ \E p \in Part : WriterFor(g, p)
  \/ Cancelled(g)
  \/ Close(g)
  \/ \E b \in BatchChoice : BeginCommit(g, b)
  \/ \E p \in Part, b \in LegacyChoice : BeginLegacy(g, p, b)
  \/ Write(g)
  \/ \E before \in Second : PruneOps(g, before)

Next == (\E g \in Proc : Step(g)) \/ Crash

\* A transaction goes on until it returns; a caller closes its Writer if it
\* gets the chance again and again.  Nothing else is owed.
Fairness == \A g \in Proc : WF_vars(Write(g)) /\ SF_vars(Close(g))

Spec == Init /\ [][Next]_vars /\ Fairness

----------------------------------------------------------------------------
(* Properties *)

\* The slot of a partition holds a token exactly while one Writer on it is
\* open, whatever mix of waiting, giving up, closing and crashing went before;
\* who waits is queued once and nobody else is.
OneWriterPerPartition ==
  \A p \in Part :
    /\ \A g \in Proc : pc[g] \in {"writer", "commit"} /\ at[g] = p => Head(slot[p]) = g
    /\ slot[p] # <<>> => pc[Head(slot[p])] \in {"writer", "commit"} /\ at[Head(slot[p])] = p
    /\ \A i \in 2..Len(slot[p]) : pc[slot[p][i]] = "waiting" /\ at[slot[p][i]] = p
    /\ \A i, j \in DOMAIN slot[p] : slot[p][i] = slot[p][j] => i = j

\* Every quad is in the file that reads for its label go to, whoever wrote it.
RightPartition ==
  \A p \in Part : \A f \in worlds[p] : \A q \in f.quads : partFor(q.label) = p

\* The operations a batch asks for, in full.
OpsOf(id) ==
  LET jobs == Jobs(begun[id])
  IN {[id |-> id, seq |-> jobs[i].seq, kind |-> jobs[i].do, quad |-> jobs[i].quad] :
        i \in {j \in DOMAIN jobs : jobs[j].do # "commit"}}

\* In every state a crash can leave, each commit row has all the operations
\* of its batch, or none if they are older than a prune; and no operation
\* stands without its commit row.
JournalWhole ==
  \A p \in Part : \A f \in worlds[p] :
    /\ \A o \in f.ops : \E c \in f.commits : c.id = o.id
    /\ \A c \in f.commits :
         LET ops == {o \in f.ops : o.id = c.id}
         IN ops = OpsOf(c.id) \/ (ops = {} /\ c.at < cutoff[p])

\* (commit, position) order of commit_ops.
Before(o, u) == o.id < u.id \/ (o.id = u.id /\ o.seq < u.seq)

Replayed(ops) ==
  {q \in Quad : \E o \in ops :
     /\ o.quad = q /\ o.kind = "add"
     /\ \A u \in ops : u.quad = q /\ u.kind = "remove" => Before(u, o)}

\* Without pruning, unaudited batches and the older calls, replaying a file's
\* commit_ops by commit id gives its quads, even when two goroutines write the
\* same quad: the id is drawn by whoever has the slot.
JournalReplays == \A p \in Part : \A f \in worlds[p] : Replayed(f.ops) = f.quads

\* Who waits for a slot gets it, gives up, or dies with the process.
WaitingEnds == \A g \in Proc : pc[g] = "waiting" ~> pc[g] # "waiting"

(* Refinement: each file implements the abstract graph. *)

Wanted(b) ==
  [adds    |-> {Effective(b.adds[i], b.label) : i \in DOMAIN b.adds},
   removes |-> Range(b.removes)]

Graph(p) == INSTANCE QuadGraph
  WITH Caller <- Proc,
       Loads  <- {},
       Change <- {Wanted(b) : b \in BatchChoice \cup LegacyChoice},
       graph  <- file[p].quads,
       worlds <- {f.quads : f \in worlds[p]},
       asked  <- [g \in Proc |-> IF InTx(g) /\ at[g] = p THEN {Wanted(call[g].batch)} ELSE {}],
       failed <- failed[p]

\* Every write to a partition is a whole step of the abstract graph: applied
\* exactly once if it returns nil, not at all if it returns an error.
ImplementsQuadGraph ==
  /\ \A p \in Part : Graph(p)!Init
  /\ [][\A p \in Part : [Graph(p)!Next]_(Graph(p)!vars)]_vars

=============================================================================
