------------------------------ MODULE Migrate ------------------------------
(***************************************************************************)
(* Migrate and MigrateFromSnapshot (migrate.go): one BulkLoader for every  *)
(* partition of the destination, the quads of the source streamed into     *)
(* them, the commits and their operations copied after, every loader       *)
(* closed on the way out.  The loaders are those of SqliteBulk.            *)
(*                                                                         *)
(* A SELECT of SQLite sees its file at one moment (external), but the      *)
(* SELECTs of a run see it at different moments, and writers of the source *)
(* go on in between unless the run reads a snapshot.                       *)
(***************************************************************************)
EXTENDS SqliteBulk, Bags

CONSTANTS
  EmptyName,     \* the empty partition name, which a router may answer
  SrcPart,       \* the partitions of the source
  SourceChoice,  \* what is written to the source
  Since,         \* the values of OnlySince; 0 is the zero time
  MaxSource,     \* bound of the model: writes to the source
  MaxRuns        \* bound of the model: migrations that start

VARIABLES
  src,       \* src[x]: a partition of the source
  lastId,    \* commits made to the source so far; ids and times alike
  audit,     \* audit[p]: the commits and the commit_ops of partition p
  job,       \* the migration
  runs,      \* migrations started so far
  snapFile,  \* whether there is a snapshot file
  before     \* history: quads and audit of the destination when the job started

mvars == <<src, lastId, audit, job, runs, snapFile, before>>
bulk  == vars

Change == [adds : SUBSET Quad, removes : SUBSET Quad, label : AnyLabel, audit : BOOLEAN]

ASSUME MigrateAssumption ==
  /\ EmptyName \notin Part
  /\ IsFiniteSet(SrcPart) /\ SrcPart # {}
  /\ SourceChoice \subseteq Change
  /\ Since \subseteq Nat
  /\ MaxSource \in Nat /\ MaxRuns \in Nat

EmptySource == [quads |-> {}, commits |-> {}, ops |-> {}]
EmptyAudit  == [commits |-> {}, ops |-> EmptyBag]

\* Where Migrate sends a label: unlike partFor it does not forgive a name the
\* destination does not know.
Target(l) == IF RouteLabel[l] = EmptyName THEN Default ELSE RouteLabel[l]

\* The quads to copy: all of them, or with OnlySince those that a commit from
\* then on added.
Selected(f, since) ==
  IF since = 0 THEN f.quads
  ELSE {q \in f.quads : \E o \in f.ops : o.quad = q /\ o.kind = "add" /\ o.id >= since}

InWindow(rows, since) == {r \in rows : since = 0 \/ r.id >= since}

NoJob ==
  [pc |-> "idle", since |-> 0, copyCommits |-> FALSE, snapshot |-> FALSE,
   base |-> [x \in SrcPart |-> EmptySource], quiet |-> TRUE,
   toOpen |-> {}, left |-> {}, reading |-> {}, rows |-> {}, known |-> {}, result |-> "none"]

\* Source partition x, to a SELECT of the job.
Seen(x) == IF job.snapshot THEN job.base[x] ELSE src[x]

----------------------------------------------------------------------------
(* The source *)

Written(f, id, b) ==
  [quads   |-> (f.quads \cup b.adds) \ b.removes,
   commits |-> f.commits \cup IF b.audit THEN {[id |-> id, label |-> b.label]} ELSE {},
   ops     |-> f.ops \cup
     IF b.audit THEN {[id |-> id, kind |-> "add", quad |-> q] : q \in b.adds}
                     \cup {[id |-> id, kind |-> "remove", quad |-> q] : q \in b.removes}
     ELSE {}]

\* Somebody writes to the source, at any time; but what is written while the
\* job reads nothing is as if it were written before its next SELECT.
SourceWrite(x, b) ==
  /\ job.pc \in {"idle", "quads", "audit", "commits"}
  /\ lastId < MaxSource
  /\ lastId' = lastId + 1
  /\ src' = [src EXCEPT ![x] = Written(@, lastId + 1, b)]
  /\ job' = [job EXCEPT !.quiet = @ /\ job.pc = "idle"]
  /\ UNCHANGED <<bulk, audit, runs, snapFile, before>>

----------------------------------------------------------------------------
(* The job *)

MInit ==
  /\ Init
  /\ src = [x \in SrcPart |-> EmptySource]
  /\ lastId = 0
  /\ audit = [p \in Part |-> EmptyAudit]
  /\ job = NoJob
  /\ runs = 0
  /\ snapFile = FALSE
  /\ before = [quads |-> [p \in Part |-> {}], audit |-> audit]

\* Migrate, or MigrateFromSnapshot after VACUUM INTO, which refuses to
\* overwrite a snapshot file.
Start(since, copyCommits, snapshot) ==
  /\ job.pc = "idle" /\ runs < MaxRuns
  /\ snapshot => Cardinality(SrcPart) = 1 /\ ~snapFile
  /\ runs' = runs + 1
  /\ job' = [NoJob EXCEPT !.pc = "open", !.toOpen = Part, !.left = SrcPart, !.since = since,
                          !.copyCommits = copyCommits, !.snapshot = snapshot, !.base = src]
  /\ snapFile' = (snapshot \/ snapFile)
  /\ before' = [quads |-> [p \in Part |-> db[p].quads], audit |-> audit]
  /\ UNCHANGED <<bulk, src, lastId, audit>>

\* A call into a loader has returned, and without an error.
Settled  == \A p \in Part : loader[p].mode \in {"none", "open"}
NoErrors == \A p \in Part \ job.toOpen : loader[p].mode = "open" /\ ~loader[p].stickyErr

Ready(pc) == job.pc = pc /\ Settled /\ NoErrors

Goto(pc) == job' = [job EXCEPT !.pc = pc]

OpenLoader(p) ==
  /\ Ready("open") /\ p \in job.toOpen
  /\ BulkLoader(p, NoLabel)
  /\ job' = [job EXCEPT !.toOpen = @ \ {p}]
  /\ UNCHANGED <<src, lastId, audit, runs, snapFile, before>>

AllOpen ==
  /\ Ready("open") /\ job.toOpen = {}
  /\ Goto("quads")
  /\ UNCHANGED <<bulk, src, lastId, audit, runs, snapFile, before>>

\* The SELECT on the quads of a source partition.
ScanQuads(x) ==
  /\ Ready("quads") /\ x \in job.left
  /\ job' = [job EXCEPT !.pc = "stream", !.left = @ \ {x}, !.rows = Selected(Seen(x), job.since)]
  /\ UNCHANGED <<bulk, src, lastId, audit, runs, snapFile, before>>

\* streamQuads: a row goes to the loader of its partition.
StreamQuad(q) ==
  /\ Ready("stream") /\ q \in job.rows
  /\ Target(q.label) \in Part
  /\ Add(Target(q.label), q)
  /\ job' = [job EXCEPT !.rows = @ \ {q}]
  /\ UNCHANGED <<src, lastId, audit, runs, snapFile, before>>

Return == [job EXCEPT !.pc = "close", !.result = "ok"]

\* Mutated StreamEnd: the last rows are left to the deferred Closes.
StreamEndUnflushed ==
  /\ Ready("stream") /\ job.rows = {}
  /\ job' = IF job.left = {} THEN Return ELSE [job EXCEPT !.pc = "quads"]
  /\ UNCHANGED <<bulk, src, lastId, audit, runs, snapFile, before>>

StreamEnd ==
  /\ Ready("stream") /\ job.rows = {}
  /\ Goto(IF job.left = {} THEN "flush" ELSE "quads")
  /\ UNCHANGED <<bulk, src, lastId, audit, runs, snapFile, before>>

FlushLoader(p) ==
  /\ Ready("flush")
  /\ Flush(p)
  /\ UNCHANGED mvars

\* The quads are copied; the audit trail follows if it is wanted.
Flushed ==
  /\ Ready("flush") /\ \A p \in Part : loader[p].buf = <<>>
  /\ job' = IF job.copyCommits THEN [job EXCEPT !.pc = "audit", !.left = SrcPart] ELSE Return
  /\ UNCHANGED <<bulk, src, lastId, audit, runs, snapFile, before>>

\* copyAudit: the SELECT on the commits of a source partition.
ScanCommits(x) ==
  /\ Ready("audit") /\ x \in job.left
  /\ LET rows == InWindow(Seen(x).commits, job.since)
     IN job' = [job EXCEPT !.pc = "commits", !.left = @ \ {x}, !.reading = {x},
                           !.rows = rows, !.known = rows]
  /\ UNCHANGED <<bulk, src, lastId, audit, runs, snapFile, before>>

\* The commits of one destination partition, in a transaction.
PutCommits(p) ==
  LET group == {c \in job.rows : Target(c.label) = p}
  IN /\ Ready("commits") /\ group # {}
     /\ audit' = [audit EXCEPT ![p].commits = @ \cup group]
     /\ job' = [job EXCEPT !.rows = @ \ group]
     /\ UNCHANGED <<bulk, src, lastId, runs, snapFile, before>>

\* The SELECT on commit_ops.  Operations of other commits than those collected
\* are skipped.
ScanOps ==
  /\ Ready("commits") /\ job.rows = {}
  /\ \E x \in job.reading :
       job' = [job EXCEPT !.pc = "ops",
                          !.rows = {o \in Seen(x).ops : \E c \in job.known : c.id = o.id}]
  /\ UNCHANGED <<bulk, src, lastId, audit, runs, snapFile, before>>

\* Mutated PutOps: an operation goes where its quad goes.
PutOpsByQuad(p) ==
  LET group == {o \in job.rows : Target(o.quad.label) = p}
  IN /\ Ready("ops") /\ group # {}
     /\ audit' = [audit EXCEPT ![p].ops = @ (+) SetToBag(group)]
     /\ job' = [job EXCEPT !.rows = @ \ group]
     /\ UNCHANGED <<bulk, src, lastId, runs, snapFile, before>>

\* The transaction of one partition with the operations of its commits; all
\* of them are open until the last row is read, then committed one by one.
PutOps(p) ==
  LET group == {o \in job.rows : \E c \in job.known : c.id = o.id /\ Target(c.label) = p}
  IN /\ Ready("ops") /\ group # {}
     /\ audit' = [audit EXCEPT ![p].ops = @ (+) SetToBag(group)]
     /\ job' = [job EXCEPT !.rows = @ \ group]
     /\ UNCHANGED <<bulk, src, lastId, runs, snapFile, before>>

OpsEnd ==
  /\ Ready("ops") /\ job.rows = {}
  /\ job' = IF job.left = {} THEN Return ELSE [job EXCEPT !.pc = "audit"]
  /\ UNCHANGED <<bulk, src, lastId, audit, runs, snapFile, before>>

\* What a loader reported: it could not be opened, or a flush failed.
LoaderError ==
  \E p \in Part \ job.toOpen : loader[p].mode = "open" => loader[p].stickyErr

\* A label the destination's router sends to a partition it does not have: an
\* error for a quad, a nil dereference for a commit.  The deferred Closes run.
Unknown ==
  \/ job.pc = "stream" /\ \E q \in job.rows : Target(q.label) \notin Part
  \/ job.pc = "commits" /\ \E c \in job.rows : Target(c.label) \notin Part

\* An error return: what a loader reported, an unknown partition, a statement
\* on the source or the audit tables, the context.
Abort ==
  /\ job.pc \notin {"idle", "close"} /\ Settled
  /\ LoaderError \/ Unknown \/ Failures # {}
  /\ job' = [job EXCEPT !.pc = "close", !.result = "err"]
  /\ UNCHANGED <<bulk, src, lastId, audit, runs, snapFile, before>>

\* The deferred loop over the loaders.  What their Close returns is dropped.
CloseLoader(p) ==
  /\ job.pc = "close" /\ Settled
  /\ Close(p)
  /\ UNCHANGED mvars

\* The snapshot is removed after a good run, and stays after a bad one.
End ==
  /\ job.pc = "close" /\ \A p \in Part : loader[p] = NoLoader
  /\ Goto("idle")
  /\ snapFile' = (snapFile /\ ~(job.snapshot /\ job.result = "ok"))
  /\ UNCHANGED <<bulk, src, lastId, audit, runs, before>>

\* The process dies.
Die ==
  /\ job.pc # "idle"
  /\ Reopen
  /\ job' = NoJob
  /\ UNCHANGED <<src, lastId, audit, runs, snapFile, before>>

LoaderRuns == \E p \in Part : Run(p) /\ UNCHANGED mvars

MNext ==
  \/ \E x \in SrcPart, b \in SourceChoice : SourceWrite(x, b)
  \/ \E s \in Since, a \in BOOLEAN, n \in BOOLEAN : Start(s, a, n)
  \/ \E p \in Part : OpenLoader(p) \/ FlushLoader(p) \/ PutCommits(p) \/ PutOps(p) \/ CloseLoader(p)
  \/ \E x \in SrcPart : ScanQuads(x) \/ ScanCommits(x)
  \/ \E q \in job.rows : job.pc = "stream" /\ StreamQuad(q)
  \/ AllOpen \/ StreamEnd \/ Flushed \/ ScanOps \/ OpsEnd \/ Abort \/ End \/ Die
  \/ LoaderRuns

MSpec == MInit /\ [][MNext]_<<bulk, mvars>>

----------------------------------------------------------------------------
(* Properties *)

\* The source of the job did not change under it.
Frozen == job.quiet \/ job.snapshot

Succeeded == job.pc = "idle" /\ job.result = "ok" /\ Frozen

\* A run that returned nil has put every selected quad into the file that
\* reads for its label go to, and nothing else into any, whatever earlier runs
\* left there.
CopyComplete ==
  Succeeded =>
    LET copied == UNION {Selected(job.base[x], job.since) : x \in SrcPart}
    IN \A p \in Part : db[p].quads = before.quads[p] \cup {q \in copied : partFor(q.label) = p}

\* The trail of a commit is in one partition, its row and there its operations,
\* through failures, re-runs and a source that changes; and a first run that
\* returned nil has copied every commit and every operation of it once.
AuditTrailWhole ==
  /\ \A p \in Part :
       /\ \A o \in BagToSet(audit[p].ops) : \E c \in audit[p].commits : c.id = o.id
       /\ \A r \in Part \ {p} : \A c \in audit[p].commits : \A d \in audit[r].commits : c.id # d.id
  /\ Succeeded /\ job.copyCommits /\ before.audit = [p \in Part |-> EmptyAudit] =>
       LET commits == UNION {InWindow(job.base[x].commits, job.since) : x \in SrcPart}
           ops     == UNION {InWindow(job.base[x].ops, job.since) : x \in SrcPart}
       IN \A p \in Part :
            LET here == {c \in commits : partFor(c.label) = p}
            IN /\ audit[p].commits = here
               /\ audit[p].ops = SetToBag({o \in ops : \E c \in here : c.id = o.id})

=============================================================================
