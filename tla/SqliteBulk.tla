----------------------------- MODULE SqliteBulk -----------------------------
(***************************************************************************)
(* The BulkLoader of the SQLite backend (bulk.go): it owns the writer slot *)
(* of a partition, loosens the file's settings, drops its secondary        *)
(* indexes, inserts full buffers, and puts all of that back in Close.      *)
(*                                                                         *)
(* Its statements go through the database/sql pool, which is external: a   *)
(* statement runs on the connection given back last, or on a new one when  *)
(* none is idle.  PRAGMA synchronous belongs to a connection, journal_mode *)
(* and the indexes to the file.                                            *)
(***************************************************************************)
EXTENDS Partitions, Naturals, Sequences, SequencesExt, FiniteSets

CONSTANTS
  Loaded,     \* the partitions that are loaded
  Conn,       \* connections a pool may open
  AddChoice,  \* the quads callers add
  BatchRows,  \* bulkBatchRows: rows per INSERT
  Failures,   \* the kinds of statement that may fail: an I/O error, the busy
              \* timeout, the loader's context cancelled (then all that follow)
  MaxLoads,   \* bound of the model: loaders opened
  MaxAdds     \* bound of the model: quads buffered by one loader

\* The kinds of statement a loader makes.
Kind == {"readSync", "readJournal", "insert", "drop", "create", "setSync", "setJournal"}

ASSUME BulkAssumption ==
  /\ Loaded \subseteq Part
  /\ IsFiniteSet(Conn) /\ Cardinality(Conn) > 1
  /\ AddChoice \subseteq Quad
  /\ BatchRows \in Nat \ {0}
  /\ Failures \subseteq Kind
  /\ MaxLoads \in Nat /\ MaxAdds \in Nat

VARIABLES
  db,        \* db[p]: the file of partition p
  pool,      \* pool[p]: its open connections and, in order of return, the idle ones
  loader,    \* loader[p]: the BulkLoader that has p's slot, or NoLoader
  loads,     \* loaders opened so far
  given,     \* history: what the loader of p has buffered, in order
  promised,  \* history: what loaders of p buffered whose Close returned nil
  told       \* history: the last loader of p ended with an error for its caller

vars == <<db, pool, loader, loads, given, promised, told>>

Secondary == {"pos", "osp", "lsp"}
None      == "none"   \* a setting that was not captured
NoLoader  == [mode |-> "none"]
NewFile   == [quads |-> {}, indexes |-> Secondary, journal |-> "wal"]

\* Open has created the schema on a first connection.
NewPool ==
  LET c == CHOOSE x \in Conn : TRUE
  IN [sync |-> [x \in {c} |-> "normal"], idle |-> <<c>>]

Insert        == [do |-> "insert", to |-> None]
Drop(i)       == [do |-> "drop", to |-> i]
Create(i)     == [do |-> "create", to |-> i]
SetSync(v)    == [do |-> "setSync", to |-> v]
SetJournal(v) == [do |-> "setJournal", to |-> v]

\* enterBulkMode.  (cache_size and temp_store are set too, and never set back.)
EnterBulkMode ==
  <<[do |-> "readSync", to |-> None], [do |-> "readJournal", to |-> None],
    SetSync("off"), SetJournal("memory"), Drop("pos"), Drop("osp"), Drop("lsp")>>

\* exitBulkMode.
ExitBulkMode(l) ==
  (IF l.indexDropped THEN <<Create("pos"), Create("osp"), Create("lsp")>> ELSE <<>>)
  \o (IF l.origJournal # None THEN <<SetJournal(l.origJournal)>> ELSE <<>>)
  \o (IF l.origSync # None THEN <<SetSync(l.origSync)>> ELSE <<>>)

\* Close: what is buffered goes to the file first, sticky error or not.
CloseStatements(l) == (IF l.buf = <<>> THEN <<>> ELSE <<Insert>>) \o ExitBulkMode(l)

Closing(l) == [l EXCEPT !.mode = "close", !.todo = CloseStatements(l)]

----------------------------------------------------------------------------
(* The pool *)

Opened(p) == DOMAIN pool[p].sync
Busy(p)   == Opened(p) \ Range(pool[p].idle)

\* The connection the next statement may get.
Available(p) == IF pool[p].idle # <<>> THEN {Last(pool[p].idle)} ELSE Conn \ Opened(p)

\* The pool while c is out; a new connection has the settings of the DSN.
Taken(p, c) ==
  [sync |-> [x \in Opened(p) \cup {c} |-> IF x \in Opened(p) THEN pool[p].sync[x] ELSE "normal"],
   idle |-> SelectSeq(pool[p].idle, LAMBDA x : x # c)]

\* The file with c open: the DSN of a new connection asks for WAL and gets it
\* unless the file is in use.
FileWith(p, c) ==
  {db[p]} \cup (IF c \in Opened(p) THEN {} ELSE {[db[p] EXCEPT !.journal = "wal"]})

\* Given back; database/sql keeps two idle connections.
Returned(pl, c) ==
  IF Len(pl.idle) < 2 THEN [pl EXCEPT !.idle = Append(@, c)]
  ELSE [pl EXCEPT !.sync = [x \in DOMAIN @ \ {c} |-> @[x]]]

\* Another use of the store (a read, a traversal, an older write) has a
\* connection for a while.  One is left for the loader.
Borrow(p, c) ==
  /\ c \in Available(p)
  /\ Cardinality(Busy(p)) + 1 < Cardinality(Conn)
  /\ \E f \in FileWith(p, c) : db' = [db EXCEPT ![p] = f]
  /\ pool' = [pool EXCEPT ![p] = Taken(p, c)]
  /\ UNCHANGED <<loader, loads, given, promised, told>>

GiveBack(p, c) ==
  /\ c \in Busy(p)
  /\ pool' = [pool EXCEPT ![p] = Returned(@, c)]
  /\ UNCHANGED <<db, loader, loads, given, promised, told>>

----------------------------------------------------------------------------
Init ==
  /\ db = [p \in Part |-> NewFile]
  /\ pool = [p \in Part |-> NewPool]
  /\ loader = [p \in Part |-> NoLoader]
  /\ loads = 0
  /\ given = [p \in Part |-> <<>>]
  /\ promised = [p \in Part |-> {}]
  /\ told = [p \in Part |-> FALSE]

\* BulkLoaderFor(p), or BulkLoaderWithLabel(l): the free slot is taken.
BulkLoader(p, l) ==
  /\ loads < MaxLoads
  /\ loader[p] = NoLoader
  /\ l = NoLabel \/ (l \in ValidLabel /\ partFor(l) = p)
  /\ loads' = loads + 1
  /\ loader' = [loader EXCEPT ![p] =
       [mode |-> "enter", todo |-> EnterBulkMode,
        origSync |-> None, origJournal |-> None, indexDropped |-> FALSE,
        buf |-> <<>>, labelDefault |-> l, stickyErr |-> FALSE, err |-> FALSE]]
  /\ given' = [given EXCEPT ![p] = <<>>]
  /\ UNCHANGED <<db, pool, promised, told>>

Flushing(l) == [l EXCEPT !.mode = "flush", !.todo = <<Insert>>]

\* Add.  A full buffer is flushed at once.
Add(p, q) ==
  LET l == loader[p]
      e == Effective(q, l.labelDefault)
      m == [l EXCEPT !.buf = Append(@, e)]
  IN /\ l.mode = "open"
     /\ Len(given[p]) < MaxAdds
     /\ ~l.stickyErr
     /\ q.stmt # EmptyStmt
     /\ Cardinality(Part) > 1 => partFor(e.label) = p
     /\ loader' = [loader EXCEPT ![p] = IF Len(m.buf) >= BatchRows THEN Flushing(m) ELSE m]
     /\ given' = [given EXCEPT ![p] = Append(@, e)]
     /\ UNCHANGED <<db, pool, loads, promised, told>>

\* Flush, called by the owner.
Flush(p) ==
  LET l == loader[p]
  IN /\ l.mode = "open" /\ ~l.stickyErr /\ l.buf # <<>>
     /\ loader' = [loader EXCEPT ![p] = Flushing(l)]
     /\ UNCHANGED <<db, pool, loads, given, promised, told>>

\* Close.
Close(p) ==
  /\ loader[p].mode = "open"
  /\ loader' = [loader EXCEPT ![p] = Closing(@)]
  /\ UNCHANGED <<db, pool, loads, given, promised, told>>

(* The statements of a loader, one by one. *)

\* What s does to a file f, a pool pl (on connection c) and the loader l.
OnFile(f, s, l) ==
  CASE s.do = "insert"     -> [f EXCEPT !.quads = @ \cup Range(l.buf)]
    [] s.do = "drop"       -> [f EXCEPT !.indexes = @ \ {s.to}]
    [] s.do = "create"     -> [f EXCEPT !.indexes = @ \cup {s.to}]
    [] s.do = "setJournal" -> [f EXCEPT !.journal = s.to]
    [] OTHER               -> f

OnPool(pl, s, c) == IF s.do = "setSync" THEN [pl EXCEPT !.sync[c] = s.to] ELSE pl

OnLoader(l, s, f, pl, c) ==
  CASE s.do = "insert"      -> [l EXCEPT !.buf = <<>>]
    [] s.do = "readSync"    -> [l EXCEPT !.origSync = pl.sync[c]]
    [] s.do = "readJournal" -> [l EXCEPT !.origJournal = f.journal]
    [] OTHER                -> l

\* After the last statement of enterBulkMode or flushBuf the loader is open.
Proceed(l) ==
  LET m == [l EXCEPT !.todo = Tail(@)]
  IN CASE m.todo # <<>> \/ l.mode = "close" -> m
       [] m.todo = <<>> /\ l.mode = "enter" -> [m EXCEPT !.mode = "open", !.indexDropped = TRUE]
       [] m.todo = <<>> /\ l.mode = "flush" -> [m EXCEPT !.mode = "open"]

\* SQLite leaves WAL mode only for the sole connection.
Allowed(p, s, c) ==
  s = SetJournal("memory") /\ db[p].journal = "wal" => Opened(p) \subseteq {c}

Succeed(p, c) ==
  LET l == loader[p]
      s == Head(l.todo)
      taken == Taken(p, c)
  IN /\ l # NoLoader /\ l.todo # <<>>
     /\ c \in Available(p)
     /\ Allowed(p, s, c)
     /\ \E f \in FileWith(p, c) :
          /\ db' = [db EXCEPT ![p] = OnFile(f, s, l)]
          /\ loader' = [loader EXCEPT ![p] = Proceed(OnLoader(l, s, f, taken, c))]
     /\ pool' = [pool EXCEPT ![p] = Returned(OnPool(taken, s, c), c)]
     /\ UNCHANGED <<loads, given, promised, told>>

\* Mutated Failed: the buffer is emptied before the INSERT is known to work.
FailedForgets(l) ==
  LET s == Head(l.todo)
      m == [l EXCEPT !.buf = IF s.do = "insert" THEN <<>> ELSE @]
  IN CASE l.mode = "enter" -> Closing([m EXCEPT !.err = TRUE])
       [] l.mode = "flush" -> [m EXCEPT !.mode = "open", !.todo = <<>>, !.stickyErr = TRUE]
       [] l.mode = "close" -> [m EXCEPT !.todo = Tail(@), !.stickyErr = @ \/ s.do = "insert",
                                        !.err = @ \/ s.do \in {"insert", "create"}]

\* Mutated Failed: the indexes are recreated at best effort, like the PRAGMAs.
FailedBestEffort(l) ==
  LET s == Head(l.todo)
  IN CASE l.mode = "enter" -> Closing([l EXCEPT !.err = TRUE])
       [] l.mode = "flush" -> [l EXCEPT !.mode = "open", !.todo = <<>>, !.stickyErr = TRUE]
       [] l.mode = "close" -> [l EXCEPT !.todo = Tail(@), !.stickyErr = @ \/ s.do = "insert",
                                        !.err = @ \/ s.do = "insert"]

\* Mutated Failed: a loader that cannot enter bulk mode is just dropped.
FailedKeepsSlot(l) ==
  LET s == Head(l.todo)
  IN CASE l.mode = "enter" -> [l EXCEPT !.todo = <<>>]
       [] l.mode = "flush" -> [l EXCEPT !.mode = "open", !.todo = <<>>, !.stickyErr = TRUE]
       [] l.mode = "close" -> [l EXCEPT !.todo = Tail(@), !.stickyErr = @ \/ s.do = "insert",
                                        !.err = @ \/ s.do \in {"insert", "create"}]

\* A statement fails: enterBulkMode gives up and closes; a flush is remembered;
\* Close goes on, reports its first error, and ignores those of the PRAGMAs.
Failed(l) ==
  LET s == Head(l.todo)
  IN CASE l.mode = "enter" -> Closing([l EXCEPT !.err = TRUE])
       [] l.mode = "flush" -> [l EXCEPT !.mode = "open", !.todo = <<>>, !.stickyErr = TRUE]
       [] l.mode = "close" -> [l EXCEPT !.todo = Tail(@), !.stickyErr = @ \/ s.do = "insert",
                                        !.err = @ \/ s.do \in {"insert", "create"}]

Fail(p) ==
  LET l == loader[p]
  IN /\ l # NoLoader /\ l.todo # <<>>
     /\ Head(l.todo).do \in Failures \/ \E c \in Available(p) : ~Allowed(p, Head(l.todo), c)
     /\ loader' = [loader EXCEPT ![p] = Failed(l)]
     /\ UNCHANGED <<db, pool, loads, given, promised, told>>

\* The deferred end of Close: the slot is free again.
Release(p) ==
  LET l == loader[p]
  IN /\ l.mode = "close" /\ l.todo = <<>>
     /\ loader' = [loader EXCEPT ![p] = NoLoader]
     /\ told' = [told EXCEPT ![p] = l.err]
     /\ promised' = [promised EXCEPT ![p] = IF l.err THEN @ ELSE @ \cup Range(given[p])]
     /\ given' = [given EXCEPT ![p] = <<>>]
     /\ UNCHANGED <<db, pool, loads>>

\* The process dies between two statements, and the store is opened again:
\* new connections with the DSN's settings, and migrate() creates what index
\* is missing.
Reopen ==
  /\ db' = [p \in Part |-> [db[p] EXCEPT !.indexes = Secondary, !.journal = "wal"]]
  /\ pool' = [p \in Part |-> NewPool]
  /\ loader' = [p \in Part |-> NoLoader]
  /\ given' = [p \in Part |-> <<>>]
  /\ told' = [p \in Part |-> FALSE]
  /\ UNCHANGED <<loads, promised>>

Run(p) == (\E c \in Conn : Succeed(p, c)) \/ Fail(p) \/ Release(p)

Step(p) ==
  \/ \E l \in AnyLabel : BulkLoader(p, l)
  \/ \E q \in AddChoice : Add(p, q)
  \/ Flush(p)
  \/ Close(p)
  \/ Run(p)
  \/ \E c \in Conn : Borrow(p, c) \/ GiveBack(p, c)

Next == (\E p \in Loaded : Step(p)) \/ Reopen

\* A statement ends, and an owner closes its loader if it gets the chance again
\* and again, which the comment on BulkLoader asks for.
Fairness == \A p \in Loaded : WF_vars(Run(p)) /\ SF_vars(Close(p))

Spec == Init /\ [][Next]_vars /\ Fairness

----------------------------------------------------------------------------
(* Properties *)

\* What a loader buffered is, in order, a part that is in the file and the
\* rest that is still buffered, through failed flushes and the retry in Close,
\* and never more than its INSERT has room for; and once Close returned nil
\* all of it is in the file.
NothingLost ==
  \A p \in Part :
    /\ promised[p] \subseteq db[p].quads
    /\ loader[p] # NoLoader =>
         /\ Len(loader[p].buf) <= BatchRows
         /\ \E n \in 0..Len(given[p]) :
              /\ Range(SubSeq(given[p], 1, n)) \subseteq db[p].quads
              /\ loader[p].buf = SubSeq(given[p], n + 1, Len(given[p]))

\* Whatever fails, is cancelled or dies in between: an index is missing only
\* while a loader is open or after one that ended with an error.
IndexesBack ==
  \A p \in Part : loader[p] = NoLoader /\ ~told[p] => db[p].indexes = Secondary

\* Every loader gives the slot back, one that could not be opened too.
SlotComesBack == \A p \in Part : loader[p] # NoLoader ~> loader[p] = NoLoader

(* A statement of a comment the code does not keep, checked to fail. *)

\* bulk.go:11: "on Close the file returns to the library's defaults".
CloseRestoresDefaults ==
  \A p \in Part : loader[p] = NoLoader /\ ~told[p] =>
    db[p].journal = "wal" /\ \A c \in Opened(p) : pool[p].sync[c] = "normal"

=============================================================================
