----------------------------- MODULE PebbleReads -----------------------------
(***************************************************************************)
(* The read side of the Pebble backend (internal/pebbleq/store.go): the    *)
(* key encoding, Find, Count, LabelCounts, Stats, CommitStatsAt and        *)
(* Checkpoint, one reader next to the writers of PebbleStore.              *)
(*                                                                         *)
(* Strings are sequences of bytes here: a scan is a range of keys in byte  *)
(* order, and what the range holds depends on the encoding.  A statement   *)
(* is <<subject, predicate, object>>.  An iterator (external) reads the    *)
(* contents of the moment it was opened; a call that opens several reads   *)
(* several moments.                                                        *)
(***************************************************************************)
EXTENDS PebbleStore, SequencesExt

CONSTANTS
  PatternChoice,  \* the patterns of Find and Count
  CutoffChoice,   \* the cutoffs of CommitStatsAt; 0 is the zero time
  VarintBase      \* 128 in the code: where a uvarint takes a second byte

Wild     == <<>>
Pattern == [s : Seq(Nat), p : Seq(Nat), o : Seq(Nat), l : Seq(Nat)]

ASSUME ReadsAssumption ==
  /\ PatternChoice \subseteq Pattern
  /\ CutoffChoice \subseteq Nat
  /\ VarintBase \in Nat \ {0, 1}

VARIABLE rd  \* the call the reader is in, and what it has found

\* snap: what the open iterator reads; history: since, the contents of the
\* store from the beginning of the call to its end, and cut, the labels whose
\* scan ended in an error nobody looked at.
NoRead == [op |-> "none", done |-> FALSE, arg |-> 0, snap |-> EmptyContents,
           from |-> <<>>, found |-> <<>>, since |-> {}, cut |-> {}]

----------------------------------------------------------------------------
(* Keys *)

sep == 0
prefSPO == 113
prefPOS == 112
prefOSP == 111
prefLSP == 108
prefC   == 99
prefCO  == 67

\* bytes.Compare
Less(k, n) ==
  \E i \in 0..Len(k) :
    /\ i < Len(n)
    /\ \A j \in 1..i : k[j] = n[j]
    /\ i = Len(k) \/ k[i + 1] < n[i + 1]

encodeKey(prefix, fields) ==
  <<prefix>> \o fields[1]
    \o FlattenSeq([i \in 1..(Len(fields) - 1) |-> <<sep>> \o fields[i + 1]])

\* The smallest key above all keys with this prefix.
upperBoundForPrefix(prefix) == [prefix EXCEPT ![Len(prefix)] = @ + 1]

\* Fields in the order in which a keyspace holds them.
Fields(ks, q) ==
  LET s == q.stmt[1] p == q.stmt[2] o == q.stmt[3] l == q.label
  IN CASE ks = "SPO" -> <<s, p, o, l>>
       [] ks = "POS" -> <<p, o, s, l>>
       [] ks = "OSP" -> <<o, s, p, l>>
       [] ks = "LSP" -> <<l, s, p, o>>

PrefixOf == [ks \in Keyspace |-> CASE ks = "SPO" -> prefSPO [] ks = "POS" -> prefPOS
                                   [] ks = "OSP" -> prefOSP [] ks = "LSP" -> prefLSP]

KeyBytes(ks, q) == encodeKey(PrefixOf[ks], Fields(ks, q))

\* bytes.IndexByte(b, sep), counted from 1; 0 if there is none.
IndexByte(b) == SelectInSeq(b, LAMBDA byte : byte = sep)

\* bytes.SplitN(b, sep, n): cuts at the first n - 1 separators.
SplitN[n \in Nat \ {0}] ==
  [b \in Seq(Nat) |->
     LET i == IndexByte(b)
     IN IF n = 1 \/ i = 0
        THEN <<b>>
        ELSE <<SubSeq(b, 1, i - 1)>> \o SplitN[n - 1][SubSeq(b, i + 1, Len(b))]]

\* The quad a key stands for; the keys of other keyspaces stand for none.
decodeQuadKey(key) ==
  LET f == SplitN[4][Tail(key)]
      quad(s, p, o, l) == {[stmt |-> <<f[s], f[p], f[o]>>, label |-> f[l]]}
  IN IF Len(f) # 4 THEN {}
     ELSE CASE Head(key) = prefSPO -> quad(1, 2, 3, 4)
            [] Head(key) = prefPOS -> quad(3, 1, 2, 4)
            [] Head(key) = prefOSP -> quad(2, 3, 1, 4)
            [] Head(key) = prefLSP -> quad(2, 3, 4, 1)
            [] OTHER -> {}

\* binary.PutUvarint: the low digit first, each but the last marked.
uvarint[n \in Nat] ==
  IF n < VarintBase THEN <<n>>
  ELSE <<VarintBase + (n % VarintBase)>> \o uvarint[n \div VarintBase]

\* A commit id is a UUIDv7; here one byte, in the order of the ids.
commitOpKey(id, seq) == <<prefCO, id, sep>> \o uvarint[seq]

\* The keys of the store in byte form.  (seq counts from 1 in PebbleStore.)
ByteKeys(kv) ==
  {KeyBytes(k[1], k[2]) : k \in kv.keys}
    \cup {<<prefC, id>> : id \in kv.commits}
    \cup {commitOpKey(o.id, o.seq - 1) : o \in kv.ops}

\* What an iterator with these bounds finds.
KeyRange(kv, lower, upper) == {k \in ByteKeys(kv) : ~Less(k, lower) /\ Less(k, upper)}

Scan(kv, prefix) == KeyRange(kv, prefix, upperBoundForPrefix(prefix))

FirstOf(keys) == CHOOSE k \in keys : \A n \in keys : n = k \/ Less(k, n)

\* Mutated FirstField: the separator is left out.
FirstFieldOpen(key) == SubSeq(key, 1, IndexByte(Tail(key)))

\* The key up to and with its first separator: of LSP, the label's prefix.
FirstField(key) ==
  SubSeq(key, 1, 1 + IndexByte(Tail(key)))

----------------------------------------------------------------------------
(* Find and Count *)

\* A bound field, and the next one if it is bound too.
Bound(f, next) == IF next = Wild THEN <<f>> ELSE <<f, next>>

\* The keyspace of the first bound field, and the longest prefix the bound
\* fields give in it.
ScanPrefix(pat) ==
  CASE pat.s # Wild ->
         encodeKey(prefSPO, <<pat.s>> \o IF pat.p = Wild THEN <<>> ELSE Bound(pat.p, pat.o))
           \o <<sep>>
    [] pat.s = Wild /\ pat.p # Wild -> encodeKey(prefPOS, Bound(pat.p, pat.o)) \o <<sep>>
    [] pat.s = Wild /\ pat.p = Wild /\ pat.o # Wild -> encodeKey(prefOSP, <<pat.o>>) \o <<sep>>
    [] pat.s = Wild /\ pat.p = Wild /\ pat.o = Wild /\ pat.l # Wild ->
         encodeKey(prefLSP, <<pat.l>>) \o <<sep>>
    [] OTHER -> <<prefSPO>>

Accepts(f, v) == f # Wild => v = f

\* The in-row filter.
Matches(pat, q) ==
  /\ Accepts(pat.s, q.stmt[1]) /\ Accepts(pat.p, q.stmt[2]) /\ Accepts(pat.o, q.stmt[3])
  /\ Accepts(pat.l, q.label)

FindIn(kv, pat) ==
  {q \in UNION {decodeQuadKey(k) : k \in Scan(kv, ScanPrefix(pat))} : Matches(pat, q)}

LabelOnly(pat) == pat.l # Wild /\ pat.s = Wild /\ pat.p = Wild /\ pat.o = Wild

\* Count: the counter of a label, or what Find would yield.
CountIn(kv, pat) ==
  IF LabelOnly(pat) THEN kv.count[pat.l] ELSE Cardinality(FindIn(kv, pat))

----------------------------------------------------------------------------
(* The reader *)

RInit == Init /\ rd = NoRead

\* A call begins: it opens its (first) iterator.
Begin(op, arg) ==
  /\ rd = NoRead
  /\ rd' = [NoRead EXCEPT !.op = op, !.arg = arg, !.snap = db, !.since = {db}]

\* A later step of the call; its last one gives the answer.
Step(op, new) == rd.op = op /\ ~rd.done /\ rd' = new
Answer(op, found) ==
  Step(op, [rd EXCEPT !.done = TRUE, !.found = found, !.snap = EmptyContents, !.from = <<>>])

\* The iterator of Find is drained while others write.
Find  == \E pat \in PatternChoice : Begin("find", pat)
Drain == Answer("find", FindIn(rd.snap, rd.arg))

Count   == \E pat \in PatternChoice : Begin("count", pat)
Counted == Answer("count", CountIn(rd.snap, rd.arg))

LabelCounts ==
  /\ rd = NoRead
  /\ rd' = [NoRead EXCEPT !.op = "labels", !.snap = db, !.from = <<prefLSP>>, !.since = {db}]

\* What the outer iterator has yet to reach.
Ahead == KeyRange(rd.snap, rd.from, <<prefLSP + 1>>)

LabelIn(prefix) == SubSeq(prefix, 2, Len(prefix) - 1)

\* The next label of the outer iterator is counted by an iterator of its own.
CountLabel ==
  /\ rd.op = "labels" /\ Ahead # {}
  /\ LET prefix == FirstField(FirstOf(Ahead))
     IN Step("labels", [rd EXCEPT !.from = upperBoundForPrefix(prefix),
                                  !.found = Append(@, <<LabelIn(prefix), Cardinality(Scan(db, prefix))>>)])

\* That iterator fails after n keys, before its last.  Its Error and Close are
\* not looked at: n is taken for the label's number, and the walk goes on.
CountLabelCut ==
  /\ rd.op = "labels" /\ Ahead # {}
  /\ LET prefix == FirstField(FirstOf(Ahead))
     IN \E n \in 0..(Cardinality(Scan(db, prefix)) - 1) :
          Step("labels", [rd EXCEPT !.from = upperBoundForPrefix(prefix),
                                    !.found = Append(@, <<LabelIn(prefix), n>>),
                                    !.cut = @ \cup {LabelIn(prefix)}])

LabelsDone == rd.op = "labels" /\ Ahead = {} /\ Answer("labels", rd.found)

\* SPO for the quads, then POS, with a later iterator, for the predicates.
Stats == Begin("stats", 0)

StatsQuads ==
  Step("stats", [rd EXCEPT !.op = "predicates", !.found = <<Cardinality(Scan(rd.snap, <<prefSPO>>))>>])

StatsPredicates ==
  LET prefixes == {FirstField(k) : k \in Scan(db, <<prefPOS>>)}
  IN Answer("predicates", Append(rd.found, Cardinality(prefixes)))

\* Walks commits, noting the old ones, then commit_ops with a later iterator.
CommitStatsAt == \E cutoff \in CutoffChoice : Begin("commits", cutoff)

StatsCommits ==
  LET ids == {Tail(k) : k \in Scan(rd.snap, <<prefC>>)}
  IN Step("commits", [rd EXCEPT !.op = "ops",
                                !.found = <<Cardinality(ids), {id \in ids : id[1] < rd.arg}>>])

\* Mutated OfCommit: cuts at the last separator.
OfCommitLast(key, ids) ==
  LET end == SelectLastInSeq(Tail(key), LAMBDA byte : byte = sep)
  IN end # 0 /\ SubSeq(key, 2, end) \in ids

\* The id in the key of an operation ends before the first separator.
OfCommit(key, ids) ==
  LET end == IndexByte(Tail(key))
  IN end # 0 /\ SubSeq(key, 2, end) \in ids

StatsOps ==
  LET ops == Scan(db, <<prefCO>>)
  IN Answer("ops", [commits |-> rd.found[1], oldCommits |-> Cardinality(rd.found[2]),
                    ops |-> Cardinality(ops),
                    oldOps |-> Cardinality({k \in ops : OfCommit(k, rd.found[2])})])

\* Mutated TakeCheckpoint: the files are copied one after another.
CopyFileByFile == \E w, v \in worlds : Answer("checkpoint", [w EXCEPT !.ops = v.ops])

\* Checkpoint copies the log as it is on the disk, synced or not: the copy,
\* opened with OpenReadOnly, is what a crash at this moment might leave.
Checkpoint     == Begin("checkpoint", promised)
TakeCheckpoint == \E w \in worlds : Answer("checkpoint", w)

\* Any other iterator, or the copying, fails: the caller gets an error.
ReadFails == rd.op # "none" /\ ~rd.done /\ rd' = NoRead

Return == rd.done /\ rd' = NoRead

Reader ==
  \/ Find \/ Drain
  \/ Count \/ Counted
  \/ LabelCounts \/ CountLabel \/ CountLabelCut \/ LabelsDone
  \/ Stats \/ StatsQuads \/ StatsPredicates
  \/ CommitStatsAt \/ StatsCommits \/ StatsOps
  \/ Checkpoint \/ TakeCheckpoint
  \/ ReadFails
  \/ Return

\* Others write before, during and after the reader's call (an answer stands
\* until the reader returns, so nothing is lost in between by waiting for it).
Meanwhile ==
  /\ ~rd.done
  /\ rd' = IF rd.op = "none" THEN rd ELSE [rd EXCEPT !.since = @ \cup {db'}]

RNext ==
  \/ Reader /\ UNCHANGED vars
  \/ (\E p \in Proc : Writer(p) \/ Loader(p) \/ Importer(p)) /\ Meanwhile
  \/ Crash /\ rd' = NoRead
  \/ Reopen /\ rd = NoRead /\ UNCHANGED rd

RSpec == RInit /\ [][RNext]_<<vars, rd>>

----------------------------------------------------------------------------
(* Properties *)

Answered(op) == rd.op = op /\ rd.done

Matching(kv, pat) == {q \in Quad : FourKeys(q) \subseteq kv.keys /\ Matches(pat, q)}

FindExact ==
  Answered("find") => \E kv \in rd.since : rd.found = Matching(kv, rd.arg)

CountExact ==
  Answered("count") => \E kv \in rd.since : rd.found = Cardinality(Matching(kv, rd.arg))

\* A number a cut scan may yield: no more than there were.
Reached(n, held, whole) == IF whole THEN n = held ELSE n <= held

LabelCountsExact ==
  Answered("labels") =>
    /\ \A i, j \in DOMAIN rd.found : rd.found[i][1] = rd.found[j][1] => i = j
    /\ \A i \in DOMAIN rd.found : \E kv \in rd.since :
         Reached(rd.found[i][2], LabelScan(kv)[rd.found[i][1]], rd.found[i][1] \notin rd.cut)
    /\ \A l \in AnyLabel : (\A i \in DOMAIN rd.found : rd.found[i][1] # l) =>
                            \E kv \in rd.since : LabelScan(kv)[l] = 0

StatsExact ==
  Answered("predicates") =>
    /\ \E kv \in rd.since : rd.found[1] = Cardinality(Held(kv, "SPO"))
    /\ \E kv \in rd.since : rd.found[2] = Cardinality({q.stmt[2] : q \in Held(kv, "POS")})

\* Whatever is written meanwhile, each number and each result set a read
\* returns is that of one moment during the call: Find yields the matching
\* quads and no others whichever keyspace it scans and whatever fields begin
\* alike; a label LabelCounts leaves out had no quads.  (The numbers of one
\* LabelCounts or Stats call may be of different moments.  A label whose own
\* scan fails is reported with a number no greater than what it had at a moment of
\* the call, and without an error: the code does not look.)
ReadsOfAMoment == FindExact /\ CountExact /\ LabelCountsExact /\ StatsExact

\* The commits, the old commits and the operations of the old commits that
\* CommitStatsAt reports belong to one moment during the call, though the two
\* keyspaces are walked at different ones and an operation is told to be of
\* a commit by cutting its key, where a digit of its number may look like the
\* separator; the operations of commits it had not seen only show in the
\* total.
JournalOfAMoment ==
  Answered("ops") =>
    \E kv \in rd.since :
      /\ rd.found.commits = Cardinality(kv.commits)
      /\ rd.found.oldCommits = Cardinality({i \in kv.commits : i < rd.arg})
      /\ rd.found.oldOps = Cardinality({o \in kv.ops : o.id < rd.arg})
      /\ rd.found.ops >= Cardinality(kv.ops)

\* A checkpoint taken while others write holds every write that was promised
\* to be on disk when it began, and every write it holds it holds whole.
\* This is less than the comment of pebble_store.go:81-83 promises (the store
\* at the moment Checkpoint returns): the log is copied without being
\* flushed, so writes acknowledged without a sync may be missing.
BackupWhole ==
  Answered("checkpoint") =>
    /\ rd.arg \subseteq rd.found.applied
    /\ \A ks \in Keyspace : Held(rd.found, ks) = Held(rd.found, "SPO")
    /\ \A o \in rd.found.ops : o.id \in rd.found.commits

=============================================================================
