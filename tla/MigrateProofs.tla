---------------------------- MODULE MigrateProofs ----------------------------
(* Theorems about SqliteBulk and Migrate: a BulkLoader, whatever fails under *)
(* it, and the migration that is made with one of them for each partition.   *)
EXTENDS Migrate, SequenceTheorems, FiniteSetTheorems, TLAPS

----------------------------------------------------------------------------
(* SqliteBulk *)

Sync    == {"normal", "off"}
Journal == {"wal", "memory"}

\* The statements of enterBulkMode; those of Close and of a flush.
Entering ==
  [do : {"readSync", "readJournal"}, to : {None}] \cup [do : {"drop"}, to : Secondary]
    \cup [do : {"setSync"}, to : Sync] \cup [do : {"setJournal"}, to : Journal]
Leaving ==
  {Insert} \cup [do : {"create"}, to : Secondary]
    \cup [do : {"setSync"}, to : Sync] \cup [do : {"setJournal"}, to : Journal]

FileInv(f) ==
  DOMAIN f = {"quads", "indexes", "journal"} /\ f.indexes \subseteq Secondary /\ f.journal \in Journal

PoolInv(pl) ==
  DOMAIN pl = {"sync", "idle"} /\ \A c \in DOMAIN pl.sync : pl.sync[c] \in Sync

\* The first n quads of g are in the file f, and buf has the others.
Split(f, g, n, buf) ==
  /\ \A i \in 1..n : g[i] \in f.quads
  /\ n + Len(buf) = Len(g) /\ \A i \in DOMAIN buf : buf[i] = g[n + i]

LoaderInv(f, l, g) ==
  /\ DOMAIN l = {"mode", "todo", "origSync", "origJournal", "indexDropped", "buf", "labelDefault",
                 "stickyErr", "err"}
  /\ l.mode \in {"enter", "open", "flush", "close"}
  /\ l.origSync \in Sync \cup {None} /\ l.origJournal \in Journal \cup {None}
  /\ l.indexDropped \in BOOLEAN /\ l.stickyErr \in BOOLEAN /\ l.err \in BOOLEAN
  /\ l.labelDefault \in AnyLabel
  /\ l.buf \in Seq(Quad) /\ Len(l.buf) <= BatchRows
  /\ \E n \in 0..Len(g) : Split(f, g, n, l.buf)
  /\ l.mode = "enter" => l.todo \in Seq(Entering) /\ l.todo # <<>> /\ l.buf = <<>>
  /\ l.mode = "open"  => l.todo = <<>> /\ (~l.stickyErr => Len(l.buf) < BatchRows)
  /\ l.mode = "flush" => l.todo = <<Insert>>
  /\ l.mode \in {"open", "flush"} => l.indexDropped
  /\ l.mode # "close" => ~l.err
  /\ l.mode = "close" => l.todo \in Seq(Leaving)
  /\ l.mode = "close" /\ ~l.err =>
       /\ l.buf # <<>> => l.todo # <<>> /\ Head(l.todo) = Insert
       /\ \A i \in Secondary : i \in f.indexes \/ Create(i) \in Range(l.todo)

\* A partition with the file f, the loader l, which was given g, and what was
\* promised of earlier loaders and told of the last one.
PartInv(f, l, g, promise, error) ==
  /\ FileInv(f) /\ g \in Seq(Quad) /\ promise \subseteq f.quads
  /\ l = NoLoader => error \/ f.indexes = Secondary
  /\ l # NoLoader => LoaderInv(f, l, g)

Domains ==
  /\ DOMAIN db = Part /\ DOMAIN pool = Part /\ DOMAIN loader = Part
  /\ DOMAIN given = Part /\ DOMAIN promised = Part /\ DOMAIN told = Part

BulkInv ==
  /\ Domains
  /\ \A p \in Part : PoolInv(pool[p]) /\ PartInv(db[p], loader[p], given[p], promised[p], told[p])

----------------------------------------------------------------------------
(* Sequences *)

\* What a concatenation holds, and begins with.
LEMMA ConcatRange ==
  ASSUME NEW S, NEW s \in Seq(S), NEW t \in Seq(S)
  PROVE  /\ s \o t \in Seq(S) /\ Range(s) \subseteq Range(s \o t) /\ Range(t) \subseteq Range(s \o t)
         /\ s # <<>> => s \o t # <<>> /\ Head(s \o t) = Head(s)
<1> DEFINE c == s \o t
           m == Len(s)
           n == Len(t)
<1>1. /\ c \in Seq(S) /\ Len(c) = m + n /\ m \in Nat /\ n \in Nat
      /\ \A i \in 1..(m + n) : c[i] = IF i <= m THEN s[i] ELSE t[i - m]
  BY ConcatProperties
<1>2. DOMAIN c = 1..(m + n) /\ DOMAIN s = 1..m /\ DOMAIN t = 1..n
  BY <1>1
<1>3. s # <<>> => m > 0 /\ Head(s) = s[1]
  OBVIOUS
<1>4. c # <<>> => Head(c) = c[1]
  BY <1>1
<1>5. s # <<>> => c # <<>> /\ c[1] = s[1]
  <2> SUFFICES ASSUME s # <<>>
               PROVE  c # <<>> /\ c[1] = s[1]
    OBVIOUS
  <2>1. 1 \in DOMAIN c
    BY <1>1, <1>2, <1>3
  <2> QED
    BY <1>1, <1>2, <1>3, <2>1
<1> HIDE DEF c, m, n
<1>6. ASSUME NEW i \in DOMAIN s
      PROVE  i \in DOMAIN c /\ c[i] = s[i]
  BY <1>1, <1>2
<1>7. ASSUME NEW i \in DOMAIN t
      PROVE  m + i \in DOMAIN c /\ c[m + i] = t[i]
  BY <1>1, <1>2
<1>8. Range(s) \subseteq Range(c)
  BY <1>6 DEF Range
<1>9. Range(t) \subseteq Range(c)
  BY <1>7 DEF Range
<1> QED
  BY <1>1, <1>3, <1>4, <1>5, <1>8, <1>9 DEF c

\* What is left of a sequence.
LEMMA TailRange ==
  ASSUME NEW S, NEW s \in Seq(S), s # <<>>
  PROVE  /\ Head(s) \in S /\ Head(s) \in Range(s)
         /\ Tail(s) \in Seq(S) /\ Range(s) \subseteq {Head(s)} \cup Range(Tail(s))
<1>1. /\ Len(s) \in Nat \ {0} /\ DOMAIN s = 1..Len(s) /\ Head(s) = s[1] /\ Tail(s) \in Seq(S)
      /\ DOMAIN Tail(s) = 1..(Len(s) - 1) /\ \A i \in 1..(Len(s) - 1) : Tail(s)[i] = s[i + 1]
  OBVIOUS
<1>2. ASSUME NEW i \in DOMAIN s
      PROVE  s[i] \in {Head(s)} \cup Range(Tail(s))
  <2>1. CASE i = 1
    BY <1>1, <2>1
  <2>2. CASE i # 1
    <3>1. i - 1 \in DOMAIN Tail(s) /\ Tail(s)[i - 1] = s[i]
      BY <1>1, <2>2
    <3> QED
      BY <3>1 DEF Range
  <2> QED
    BY <2>1, <2>2
<1>3. Head(s) \in Range(s) /\ Head(s) \in S
  BY <1>1 DEF Range
<1> QED
  BY <1>1, <1>2, <1>3 DEF Range

\* The statements that Close makes.
LEMMA CloseTodo ==
  ASSUME NEW l, l.origSync \in Sync \cup {None}, l.origJournal \in Journal \cup {None}
  PROVE  /\ CloseStatements(l) \in Seq(Leaving)
         /\ l.buf # <<>> => CloseStatements(l) # <<>> /\ Head(CloseStatements(l)) = Insert
         /\ l.indexDropped => \A i \in Secondary : Create(i) \in Range(CloseStatements(l))
<1> DEFINE A == IF l.buf = <<>> THEN <<>> ELSE <<Insert>>
           B == IF l.indexDropped THEN <<Create("pos"), Create("osp"), Create("lsp")>> ELSE <<>>
           C == IF l.origJournal # None THEN <<SetJournal(l.origJournal)>> ELSE <<>>
           D == IF l.origSync # None THEN <<SetSync(l.origSync)>> ELSE <<>>
<1>1. CloseStatements(l) = A \o ((B \o C) \o D)
  BY DEF CloseStatements, ExitBulkMode
<1>2. A \in Seq(Leaving) /\ B \in Seq(Leaving) /\ C \in Seq(Leaving) /\ D \in Seq(Leaving)
  <2>1. \A i \in Secondary : Create(i) \in Leaving
    BY DEF Leaving, Create
  <2>2. Insert \in Leaving
    BY DEF Leaving
  <2>3. l.origJournal # None => SetJournal(l.origJournal) \in Leaving
    BY DEF Leaving, SetJournal
  <2>4. l.origSync # None => SetSync(l.origSync) \in Leaving
    BY DEF Leaving, SetSync
  <2>5. "pos" \in Secondary /\ "osp" \in Secondary /\ "lsp" \in Secondary
    BY DEF Secondary
  <2>6. Create("pos") \in Leaving /\ Create("osp") \in Leaving /\ Create("lsp") \in Leaving
    BY <2>1, <2>5
  <2>7. \A s1, s2, s3 \in Leaving : <<s1>> \in Seq(Leaving) /\ <<s1, s2, s3>> \in Seq(Leaving)
    OBVIOUS
  <2>8. <<>> \in Seq(Leaving)
    OBVIOUS
  <2>9. B \in Seq(Leaving)
    BY <2>6, <2>7, <2>8
  <2>10. A \in Seq(Leaving) /\ C \in Seq(Leaving) /\ D \in Seq(Leaving)
    BY <2>2, <2>3, <2>4, <2>7, <2>8
  <2> QED
    BY <2>9, <2>10
<1>3. l.buf # <<>> => A # <<>> /\ Head(A) = Insert
  OBVIOUS
<1>4. l.indexDropped => \A i \in Secondary : Create(i) \in Range(B)
  <2> SUFFICES ASSUME l.indexDropped
               PROVE  \A i \in Secondary : Create(i) \in Range(B)
    OBVIOUS
  <2>1. DOMAIN B = 1..3 /\ B[1] = Create("pos") /\ B[2] = Create("osp") /\ B[3] = Create("lsp")
    OBVIOUS
  <2> HIDE DEF B
  <2>2. B[1] \in Range(B) /\ B[2] \in Range(B) /\ B[3] \in Range(B)
    BY <2>1 DEF Range
  <2> QED
    BY <2>1, <2>2 DEF Secondary
<1> HIDE DEF A, B, C, D
<1>5. B \o C \in Seq(Leaving) /\ Range(B) \subseteq Range(B \o C)
  BY <1>2, ConcatRange
<1>6. (B \o C) \o D \in Seq(Leaving) /\ Range(B \o C) \subseteq Range((B \o C) \o D)
  BY <1>2, <1>5, ConcatRange
<1> DEFINE R == (B \o C) \o D
<1>7. Range(B) \subseteq Range(R) /\ R \in Seq(Leaving)
  BY <1>5, <1>6
<1> HIDE DEF R
<1>8. A \o R \in Seq(Leaving) /\ Range(R) \subseteq Range(A \o R) /\ (A # <<>> => A \o R # <<>> /\ Head(A \o R) = Head(A))
  BY <1>2, <1>7, ConcatRange
<1> QED
  BY <1>1, <1>3, <1>4, <1>7, <1>8 DEF R

----------------------------------------------------------------------------
(* Loaders *)

\* An error never makes a loader lose what it was given: it closes, or stays.
LEMMA FailedKeeps ==
  ASSUME NEW f, FileInv(f), NEW g \in Seq(Quad), NEW l, LoaderInv(f, l, g), l.todo # <<>>
  PROVE  LoaderInv(f, Failed(l), g) /\ Failed(l) # NoLoader
<1> USE DEF NoLoader
<1>1. CASE l.mode = "enter"
  <2> DEFINE m == [l EXCEPT !.err = TRUE]
  <2>1. /\ DOMAIN m = DOMAIN l /\ m.err = TRUE
        /\ m.mode = l.mode /\ m.buf = l.buf /\ m.indexDropped = l.indexDropped /\ m.todo = l.todo
        /\ m.origSync = l.origSync /\ m.origJournal = l.origJournal /\ m.stickyErr = l.stickyErr
        /\ m.labelDefault = l.labelDefault
    BY DEF LoaderInv
  <2> HIDE DEF m
  <2> DEFINE todo == CloseStatements(m)
  <2>2. todo \in Seq(Leaving)
    BY <2>1, CloseTodo DEF LoaderInv
  <2> HIDE DEF todo
  <2>3. Failed(l) = [m EXCEPT !.mode = "close", !.todo = todo]
    BY <1>1 DEF Failed, Closing, m, todo
  <2> QED
    BY <2>1, <2>2, <2>3, ZenonT(30) DEF LoaderInv
<1>2. CASE l.mode = "flush"
  <2>1. Failed(l) = [l EXCEPT !.mode = "open", !.todo = <<>>, !.stickyErr = TRUE]
    BY <1>2 DEF Failed
  <2> QED
    BY <1>2, <2>1 DEF LoaderInv
<1>3. CASE l.mode = "close"
  <2> DEFINE s == Head(l.todo)
             sticky == l.stickyErr \/ s.do = "insert"
             err == l.err \/ s.do \in {"insert", "create"}
             rest == Tail(l.todo)
  <2>1. Failed(l) = [l EXCEPT !.todo = rest, !.stickyErr = sticky, !.err = err]
    BY <1>3 DEF Failed
  <2>2. /\ l.todo \in Seq(Leaving) /\ rest \in Seq(Leaving) /\ s \in Leaving
        /\ Range(l.todo) \subseteq {s} \cup Range(rest)
    BY <1>3, TailRange DEF LoaderInv
  <2>3. ~err => l.buf = <<>> /\ ~l.err
    BY <1>3, <2>2 DEF LoaderInv, Insert
  <2>4. ~err => \A i \in Secondary : i \in f.indexes \/ Create(i) \in Range(rest)
    <3> SUFFICES ASSUME ~err, NEW i \in Secondary, i \notin f.indexes
                 PROVE  Create(i) \in Range(rest)
      OBVIOUS
    <3>1. Create(i) \in Range(l.todo) /\ Create(i) # s
      BY <1>3, <2>3 DEF LoaderInv, Create
    <3> QED
      BY <2>2, <3>1
  <2>5. sticky \in BOOLEAN /\ err \in BOOLEAN
    OBVIOUS
  <2> HIDE DEF sticky, err, rest
  <2> QED
    BY <1>3, <2>1, <2>2, <2>3, <2>4, <2>5 DEF LoaderInv
<1> QED
  BY <1>1, <1>2, <1>3 DEF LoaderInv

\* The INSERT takes all that is buffered, to the end of what was given.
LEMMA Inserted ==
  ASSUME NEW f, NEW f2, NEW g \in Seq(Quad), NEW buf \in Seq(Quad), NEW n \in 0..Len(g), Split(f, g, n, buf),
         f2.quads = f.quads \cup Range(buf)
  PROVE  Split(f2, g, Len(g), <<>>) /\ Len(g) \in 0..Len(g)
<1>1. Len(g) \in Nat /\ Len(buf) \in Nat /\ n \in Nat /\ n + Len(buf) = Len(g) /\ DOMAIN buf = 1..Len(buf)
  BY DEF Split
<1>2. ASSUME NEW i \in 1..Len(g)
      PROVE  g[i] \in f2.quads
  <2>1. CASE i \in 1..n
    BY <2>1 DEF Split
  <2>2. CASE i \notin 1..n
    <3>1. i - n \in DOMAIN buf /\ n + (i - n) = i
      BY <1>1, <2>2
    <3>2. buf[i - n] = g[i]
      BY <3>1 DEF Split
    <3> QED
      BY <3>1, <3>2 DEF Range
  <2> QED
    BY <2>1, <2>2
<1>3. Len(<<>>) = 0 /\ DOMAIN <<>> = {}
  OBVIOUS
<1> QED
  BY <1>1, <1>2, <1>3 DEF Split

\* What a statement does to the file: an INSERT adds the buffer, nothing takes
\* a quad away.
LEMMA FileAfter ==
  ASSUME NEW f, FileInv(f), NEW l, NEW s \in Entering \cup Leaving
  PROVE  /\ FileInv(OnFile(f, s, l))
         /\ s.do = "insert" => OnFile(f, s, l).quads = f.quads \cup Range(l.buf)
         /\ s.do # "insert" => OnFile(f, s, l).quads = f.quads
         /\ s.do = "create" => OnFile(f, s, l).indexes = f.indexes \cup {s.to}
         /\ s.do \notin {"create", "drop"} => OnFile(f, s, l).indexes = f.indexes
BY DEF FileInv, OnFile, Entering, Leaving, Insert, Secondary

\* A loader after the next of its statements, on the file f and connection c.
LEMMA StatementKeeps ==
  ASSUME NEW f0, FileInv(f0), NEW pl, PoolInv(pl), NEW c \in DOMAIN pl.sync,
         NEW g \in Seq(Quad), NEW l, LoaderInv(f0, l, g), l.todo # <<>>,
         NEW f \in {f0, [f0 EXCEPT !.journal = "wal"]}
  PROVE  LET s  == Head(l.todo)
             f2 == OnFile(f, s, l)
         IN /\ FileInv(f2) /\ f0.quads \subseteq f2.quads
            /\ LoaderInv(f2, Proceed(OnLoader(l, s, f, pl, c)), g)
            /\ Proceed(OnLoader(l, s, f, pl, c)) # NoLoader
<1> USE DEF NoLoader
<1> DEFINE s    == Head(l.todo)
           f2   == OnFile(f, s, l)
           m    == OnLoader(l, s, f, pl, c)
           rest == Tail(l.todo)
<1>1. FileInv(f) /\ f.quads = f0.quads /\ f.indexes = f0.indexes
  BY DEF FileInv, Journal
<1>2. s \in Entering \cup Leaving /\ rest \in Seq(Entering \cup Leaving)
  <2>1. CASE l.mode = "enter"
    <3>1. l.todo \in Seq(Entering) /\ Entering \subseteq Entering \cup Leaving
      BY <2>1 DEF LoaderInv
    <3> HIDE DEF s, rest
    <3>2. l.todo \in Seq(Entering \cup Leaving)
      BY <3>1, SeqMonotonic
    <3> QED
      BY <3>2, TailRange DEF s, rest
  <2>2. CASE l.mode # "enter"
    <3> HIDE DEF s, rest
    <3>0. \A x \in Leaving : <<x>> \in Seq(Leaving)
      OBVIOUS
    <3>1. l.todo \in Seq(Leaving) /\ Leaving \subseteq Entering \cup Leaving
      <4>1. l.mode = "flush" => l.todo \in Seq(Leaving)
        <5>1. Insert \in Leaving
          BY DEF Leaving
        <5>2. l.mode = "flush" => l.todo = <<Insert>>
          BY DEF LoaderInv
        <5> QED
          BY <3>0, <5>1, <5>2
      <4> QED
        BY <2>2, <4>1 DEF LoaderInv
    <3> HIDE DEF s, rest
    <3>2. l.todo \in Seq(Entering \cup Leaving)
      BY <3>1, SeqMonotonic
    <3> QED
      BY <3>2, TailRange DEF s, rest
  <2> QED
    BY <2>1, <2>2
<1>3. /\ FileInv(f2)
      /\ s.do = "insert" => f2.quads = f0.quads \cup Range(l.buf)
      /\ s.do # "insert" => f2.quads = f0.quads
      /\ s.do = "create" => f2.indexes = f0.indexes \cup {s.to}
      /\ s.do \notin {"create", "drop"} => f2.indexes = f0.indexes
  <2> HIDE DEF s
  <2> QED
    BY <1>1, <1>2, FileAfter
<1>4. f0.quads \subseteq f2.quads
  BY <1>3
<1>5. /\ DOMAIN m = DOMAIN l
      /\ m.mode = l.mode /\ m.todo = l.todo /\ m.indexDropped = l.indexDropped /\ m.labelDefault = l.labelDefault
      /\ m.stickyErr = l.stickyErr /\ m.err = l.err
      /\ m.origSync \in Sync \cup {None} /\ m.origJournal \in Journal \cup {None}
      /\ m.buf = IF s.do = "insert" THEN <<>> ELSE l.buf
  <2> HIDE DEF s
  <2>1. pl.sync[c] \in Sync /\ f.journal \in Journal
    BY <1>1 DEF PoolInv, FileInv
  <2> QED
    BY <2>1 DEF OnLoader, LoaderInv
<1>6. m.buf \in Seq(Quad) /\ Len(m.buf) <= BatchRows /\ \E n \in 0..Len(g) : Split(f2, g, n, m.buf)
  <2>1. PICK n \in 0..Len(g) : Split(f0, g, n, l.buf)
    BY DEF LoaderInv
  <2>2. l.buf \in Seq(Quad) /\ Len(l.buf) <= BatchRows /\ 0 <= BatchRows
    BY BulkAssumption DEF LoaderInv
  <2>3. CASE s.do = "insert"
    <3> HIDE DEF f2, s
    <3>1. Split(f2, g, Len(g), <<>>) /\ Len(g) \in 0..Len(g)
      BY <1>3, <2>1, <2>2, <2>3, Inserted
    <3> QED
      BY <1>5, <2>2, <2>3, <3>1
  <2>4. CASE s.do # "insert"
    <3> HIDE DEF f2, s
    <3>1. Split(f2, g, n, l.buf)
      BY <1>3, <2>1, <2>4 DEF Split
    <3> QED
      BY <1>5, <2>2, <2>4, <3>1
  <2> QED
    BY <2>3, <2>4
<1> HIDE DEF f2, m
<1>7. CASE l.mode = "enter"
  <2>1. rest \in Seq(Entering) /\ s \in Entering /\ s.do # "insert"
    BY <1>7, TailRange DEF LoaderInv, Entering
  <2>2. m.buf = <<>> /\ Len(m.buf) = 0 /\ 0 < BatchRows
    BY <1>5, <1>7, <2>1, BulkAssumption DEF LoaderInv
  <2> HIDE DEF rest
  <2>3. Proceed(m) = IF rest # <<>> THEN [m EXCEPT !.todo = rest]
                     ELSE [[m EXCEPT !.todo = rest] EXCEPT !.mode = "open", !.indexDropped = TRUE]
    BY <1>5, <1>7 DEF Proceed, rest, LoaderInv
  <2> DEFINE r == Proceed(m)
  <2>4. /\ DOMAIN r = DOMAIN l
        /\ r.labelDefault = l.labelDefault /\ r.stickyErr = l.stickyErr /\ r.err = l.err
        /\ r.origSync = m.origSync /\ r.origJournal = m.origJournal /\ r.buf = m.buf /\ r.todo = rest
        /\ IF rest # <<>> THEN r.mode = "enter" /\ r.indexDropped = l.indexDropped
           ELSE r.mode = "open" /\ r.indexDropped = TRUE
    <3>1. m.mode = "enter" /\ DOMAIN m = DOMAIN l
      BY <1>5, <1>7
    <3> HIDE DEF r
    <3>2. CASE rest # <<>>
      <4>1. r = [m EXCEPT !.todo = rest]
        BY <2>3, <3>2 DEF r
      <4> QED
        BY <1>5, <3>1, <3>2, <4>1 DEF LoaderInv
    <3>3. CASE rest = <<>>
      <4>1. r = [[m EXCEPT !.todo = rest] EXCEPT !.mode = "open", !.indexDropped = TRUE]
        BY <2>3, <3>3 DEF r
      <4> QED
        BY <1>5, <3>1, <3>3, <4>1 DEF LoaderInv
    <3> QED
      BY <3>2, <3>3
  <2> HIDE DEF r
  <2>5. ~r.err /\ r # NoLoader
    BY <1>7, <2>4 DEF LoaderInv
  <2>6. /\ DOMAIN r = {"mode", "todo", "origSync", "origJournal", "indexDropped", "buf", "labelDefault",
                         "stickyErr", "err"}
        /\ r.labelDefault \in AnyLabel /\ r.stickyErr \in BOOLEAN /\ r.err \in BOOLEAN /\ l.indexDropped \in BOOLEAN
        /\ r.origSync \in Sync \cup {None} /\ r.origJournal \in Journal \cup {None}
    BY <1>5, <2>4 DEF LoaderInv
  <2>7. /\ r.buf \in Seq(Quad) /\ Len(r.buf) <= BatchRows /\ \E n \in 0..Len(g) : Split(f2, g, n, r.buf)
        /\ r.buf = <<>> /\ Len(r.buf) < BatchRows
    BY <1>6, <2>2, <2>4
  <2>8. r.mode \in {"enter", "open"} /\ r.indexDropped \in BOOLEAN
    BY <2>4, <2>6
  <2>9. r.mode = "enter" => r.todo \in Seq(Entering) /\ r.todo # <<>>
    BY <2>1, <2>4
  <2>10. r.mode = "open" => r.todo = <<>> /\ r.indexDropped
    BY <2>4
  <2>11. LoaderInv(f2, r, g)
    BY <2>5, <2>6, <2>7, <2>8, <2>9, <2>10 DEF LoaderInv
  <2> QED
    BY <1>3, <1>4, <2>5, <2>11 DEF f2, m, r
<1>8. CASE l.mode = "flush"
  <2>0. \A x : Head(<<x>>) = x /\ Tail(<<x>>) = <<>>
    OBVIOUS
  <2>1. rest = <<>> /\ s = Insert /\ s.do = "insert"
    <3>1. l.todo = <<Insert>>
      BY <1>8 DEF LoaderInv
    <3> QED
      BY <2>0, <3>1 DEF Insert
  <2>2. m.buf = <<>> /\ Len(m.buf) = 0 /\ 0 < BatchRows
    BY <1>5, <2>1, BulkAssumption
  <2> HIDE DEF rest
  <2>3. Proceed(m) = [[m EXCEPT !.todo = rest] EXCEPT !.mode = "open"]
    BY <1>5, <1>8, <2>1 DEF Proceed, rest, LoaderInv
  <2>4. LoaderInv(f2, Proceed(m), g) /\ Proceed(m) # NoLoader
    BY <1>5, <1>6, <1>8, <2>1, <2>2, <2>3 DEF LoaderInv
  <2> QED
    BY <1>3, <1>4, <2>4 DEF f2, m
<1>9. CASE l.mode = "close"
  <2>1. /\ rest \in Seq(Leaving) /\ s \in Leaving /\ Range(l.todo) \subseteq {s} \cup Range(rest)
    BY <1>9, TailRange DEF LoaderInv
  <2> HIDE DEF rest, s
  <2>2. Proceed(m) = [m EXCEPT !.todo = rest]
    BY <1>5, <1>9 DEF Proceed, rest
  <2>3. ~l.err => m.buf = <<>>
    BY <1>5, <1>9 DEF LoaderInv, Insert, s
  <2>4. ASSUME ~l.err, NEW i \in Secondary
        PROVE  i \in f2.indexes \/ Create(i) \in Range(rest)
    <3>1. CASE i \in f0.indexes
      <4>1. f0.indexes \subseteq f2.indexes
        BY <1>3, <2>1 DEF Leaving, Insert
      <4> QED
        BY <3>1, <4>1
    <3>2. CASE i \notin f0.indexes /\ Create(i) = s
      BY <1>3, <3>2 DEF Create
    <3>3. CASE i \notin f0.indexes /\ Create(i) # s
      BY <1>9, <2>1, <2>4, <3>3 DEF LoaderInv
    <3> QED
      BY <3>1, <3>2, <3>3
  <2>5. LoaderInv(f2, Proceed(m), g) /\ Proceed(m) # NoLoader
    BY <1>5, <1>6, <1>9, <2>1, <2>2, <2>3, <2>4 DEF LoaderInv
  <2> QED
    BY <1>3, <1>4, <2>5 DEF f2, m, s
<1> QED
  BY <1>7, <1>8, <1>9 DEF LoaderInv

----------------------------------------------------------------------------
(* The steps of SqliteBulk *)

\* A step changes one partition.
LEMMA OnePartition ==
  ASSUME BulkInv, NEW p \in Part, Domains',
         \A o \in Part \ {p} : /\ db'[o] = db[o] /\ pool'[o] = pool[o] /\ loader'[o] = loader[o]
                               /\ given'[o] = given[o] /\ promised'[o] = promised[o] /\ told'[o] = told[o],
         PoolInv(pool'[p]), PartInv(db'[p], loader'[p], given'[p], promised'[p], told'[p])
  PROVE  BulkInv'
<1>1. ASSUME NEW o \in Part
      PROVE  PoolInv(pool'[o]) /\ PartInv(db'[o], loader'[o], given'[o], promised'[o], told'[o])
  <2>1. CASE o = p
    BY <2>1
  <2>2. CASE o # p
    BY <2>2 DEF BulkInv
  <2> QED
    BY <2>1, <2>2
<1> QED
  BY <1>1 DEF BulkInv

\* The quad as it is stored is a quad.
LEMMA EffectiveQuad ==
  ASSUME NEW q \in Quad, NEW d \in AnyLabel
  PROVE  Effective(q, d) \in Quad
BY DEF Effective, Quad

\* enterBulkMode begins.
LEMMA BulkLoaderStep ==
  ASSUME BulkInv, NEW p \in Part, NEW d \in AnyLabel, BulkLoader(p, d)
  PROVE  BulkInv'
<1> DEFINE n == [mode |-> "enter", todo |-> EnterBulkMode,
                 origSync |-> None, origJournal |-> None, indexDropped |-> FALSE,
                 buf |-> <<>>, labelDefault |-> d, stickyErr |-> FALSE, err |-> FALSE]
<1>1. /\ loader' = [loader EXCEPT ![p] = n] /\ given' = [given EXCEPT ![p] = <<>>]
      /\ UNCHANGED <<db, pool, promised, told>>
  BY DEF BulkLoader
<1>2. EnterBulkMode \in Seq(Entering) /\ EnterBulkMode # <<>>
  <2>1. /\ [do |-> "readSync", to |-> None] \in Entering /\ [do |-> "readJournal", to |-> None] \in Entering
        /\ SetSync("off") \in Entering /\ SetJournal("memory") \in Entering
        /\ Drop("pos") \in Entering /\ Drop("osp") \in Entering /\ Drop("lsp") \in Entering
    BY DEF Entering, SetSync, SetJournal, Drop, Sync, Journal, Secondary
  <2>2. \A t1, t2, t3, t4, t5, t6, t7 \in Entering :
          <<t1, t2, t3, t4, t5, t6, t7>> \in Seq(Entering) /\ <<t1, t2, t3, t4, t5, t6, t7>> # <<>>
    OBVIOUS
  <2> QED
    BY <2>1, <2>2 DEF EnterBulkMode
<1>3. FileInv(db[p]) /\ PoolInv(pool[p]) /\ promised[p] \subseteq db[p].quads /\ Domains
  BY DEF BulkInv, PartInv
<1>4. Split(db[p], <<>>, 0, <<>>) /\ Len(<<>>) = 0 /\ <<>> \in Seq(Quad)
  <2>1. Len(<<>>) = 0 /\ DOMAIN <<>> = {} /\ 1..0 = {}
    OBVIOUS
  <2> QED
    BY <2>1 DEF Split
<1>5. LoaderInv(db[p], n, <<>>) /\ n # NoLoader
  <2>1. n # NoLoader
    BY DEF NoLoader
  <2>2. 0 \in 0..Len(<<>>) /\ 0 <= BatchRows
    BY <1>4, BulkAssumption
  <2> QED
    BY <1>2, <1>4, <2>1, <2>2 DEF LoaderInv
<1> HIDE DEF n
<1>6. PartInv(db[p], n, <<>>, promised[p], told[p])
  BY <1>3, <1>4, <1>5 DEF PartInv
<1> QED
  BY <1>1, <1>3, <1>6, OnePartition DEF Domains

\* A loader that is open gets a quad more; a full buffer is flushed.
LEMMA AddStep ==
  ASSUME BulkInv, NEW p \in Part, NEW q \in Quad, Add(p, q)
  PROVE  BulkInv'
<1> DEFINE l == loader[p]
           e == Effective(q, l.labelDefault)
           g == given[p]
           buf == Append(l.buf, e)
           m == [l EXCEPT !.buf = Append(@, e)]
           k == IF Len(m.buf) >= BatchRows THEN Flushing(m) ELSE m
           g2 == Append(g, e)
<1>1. /\ l.mode = "open" /\ ~l.stickyErr
      /\ loader' = [loader EXCEPT ![p] = k] /\ given' = [given EXCEPT ![p] = g2]
      /\ UNCHANGED <<db, pool, promised, told>>
  BY DEF Add
<1>2. /\ FileInv(db[p]) /\ PoolInv(pool[p]) /\ promised[p] \subseteq db[p].quads /\ Domains
      /\ g \in Seq(Quad) /\ l # NoLoader /\ LoaderInv(db[p], l, g)
  BY <1>1 DEF BulkInv, PartInv, NoLoader
<1> HIDE DEF l
<1>3. e \in Quad
  BY <1>2, EffectiveQuad DEF LoaderInv
<1> HIDE DEF e
<1>4. /\ buf \in Seq(Quad) /\ Len(buf) = Len(l.buf) + 1 /\ Len(l.buf) \in Nat /\ Len(buf) <= BatchRows
      /\ BatchRows \in Nat
  BY <1>1, <1>2, <1>3, AppendProperties, BulkAssumption DEF LoaderInv
<1>5. g2 \in Seq(Quad) /\ \E n \in 0..Len(g2) : Split(db[p], g2, n, buf)
  <2>1. PICK n \in 0..Len(g) : Split(db[p], g, n, l.buf)
    BY <1>2 DEF LoaderInv
  <2>2. /\ g2 \in Seq(Quad) /\ Len(g2) = Len(g) + 1 /\ Len(g) \in Nat /\ g2[Len(g) + 1] = e
        /\ \A i \in 1..Len(g) : g2[i] = g[i]
    BY <1>2, <1>3, AppendProperties
  <2>3. /\ buf[Len(l.buf) + 1] = e /\ \A i \in 1..Len(l.buf) : buf[i] = l.buf[i]
        /\ DOMAIN buf = 1..(Len(l.buf) + 1) /\ DOMAIN l.buf = 1..Len(l.buf)
    BY <1>2, <1>3, <1>4, AppendProperties DEF LoaderInv
  <2> HIDE DEF g, g2, buf
  <2>4. n + Len(buf) = Len(g2) /\ n + Len(l.buf) = Len(g) /\ n \in 0..Len(g2)
    BY <1>4, <2>1, <2>2 DEF Split
  <2>5. \A i \in 1..n : g2[i] \in db[p].quads
    <3>1. \A i \in 1..n : i \in 1..Len(g) /\ g[i] \in db[p].quads
      BY <1>4, <2>1, <2>2, <2>4 DEF Split
    <3> QED
      BY <2>2, <3>1
  <2>6. ASSUME NEW i \in DOMAIN buf
        PROVE  buf[i] = g2[n + i]
    <3>1. CASE i = Len(l.buf) + 1
      BY <1>4, <2>2, <2>3, <2>4, <3>1
    <3>2. CASE i # Len(l.buf) + 1
      <4>1. i \in DOMAIN l.buf /\ n + i \in 1..Len(g)
        BY <1>4, <2>2, <2>3, <2>4, <3>2
      <4> QED
        BY <2>1, <2>2, <2>3, <4>1 DEF Split
    <3> QED
      BY <3>1, <3>2
  <2> QED
    BY <2>2, <2>4, <2>5, <2>6 DEF Split
<1>6. /\ DOMAIN m = DOMAIN l
      /\ m.buf = buf /\ m.mode = "open" /\ m.todo = <<>> /\ m.indexDropped = l.indexDropped
      /\ m.labelDefault = l.labelDefault /\ m.stickyErr = l.stickyErr /\ m.err = l.err
      /\ m.origSync = l.origSync /\ m.origJournal = l.origJournal
  BY <1>1, <1>2 DEF LoaderInv
<1> HIDE DEF m, buf, g2
<1>7. LoaderInv(db[p], k, g2) /\ k # NoLoader
  <2>1. CASE Len(m.buf) >= BatchRows
    <3>1. k = [m EXCEPT !.mode = "flush", !.todo = <<Insert>>]
      BY <2>1 DEF Flushing
    <3> HIDE DEF k
    <3> QED
      BY <1>1, <1>2, <1>4, <1>5, <1>6, <3>1 DEF LoaderInv, NoLoader
  <2>2. CASE ~(Len(m.buf) >= BatchRows)
    <3>1. k = m
      BY <2>2
    <3> HIDE DEF k
    <3> QED
      BY <1>1, <1>2, <1>4, <1>5, <1>6, <2>2, <3>1 DEF LoaderInv, NoLoader
  <2> QED
    BY <2>1, <2>2
<1> HIDE DEF k
<1>8. PartInv(db[p], k, g2, promised[p], told[p])
  BY <1>2, <1>5, <1>7 DEF PartInv
<1> QED
  BY <1>1, <1>2, <1>8, OnePartition DEF Domains

\* The owner flushes, or closes.
LEMMA OwnerStep ==
  ASSUME BulkInv, NEW p \in Part, Flush(p) \/ Close(p)
  PROVE  BulkInv'
<1> DEFINE l == loader[p]
<1>1. /\ l.mode = "open" /\ UNCHANGED <<db, pool, given, promised, told>>
      /\ loader' = [loader EXCEPT ![p] = Flushing(l)] \/ loader' = [loader EXCEPT ![p] = Closing(l)]
  BY DEF Flush, Close
<1>2. /\ FileInv(db[p]) /\ PoolInv(pool[p]) /\ promised[p] \subseteq db[p].quads /\ Domains
      /\ given[p] \in Seq(Quad) /\ l # NoLoader /\ LoaderInv(db[p], l, given[p])
  BY <1>1 DEF BulkInv, PartInv, NoLoader
<1> HIDE DEF l
<1>3. LoaderInv(db[p], Flushing(l), given[p]) /\ Flushing(l) # NoLoader
  BY <1>1, <1>2 DEF LoaderInv, Flushing, NoLoader
<1>4. LoaderInv(db[p], Closing(l), given[p]) /\ Closing(l) # NoLoader
  <2> DEFINE todo == CloseStatements(l)
  <2>1. /\ todo \in Seq(Leaving)
        /\ l.buf # <<>> => todo # <<>> /\ Head(todo) = Insert
        /\ \A i \in Secondary : Create(i) \in Range(todo)
    BY <1>1, <1>2, CloseTodo DEF LoaderInv
  <2> HIDE DEF todo
  <2>2. Closing(l) = [l EXCEPT !.mode = "close", !.todo = todo]
    BY DEF Closing, todo
  <2> DEFINE r == Closing(l)
  <2>3. /\ DOMAIN r = DOMAIN l /\ r.mode = "close" /\ r.todo = todo
        /\ r.buf = l.buf /\ r.indexDropped = l.indexDropped /\ r.labelDefault = l.labelDefault
        /\ r.stickyErr = l.stickyErr /\ r.err = l.err
        /\ r.origSync = l.origSync /\ r.origJournal = l.origJournal
    BY <1>2, <2>2 DEF LoaderInv
  <2> HIDE DEF r
  <2>4. r # NoLoader
    BY <2>3 DEF NoLoader
  <2>5. LoaderInv(db[p], r, given[p])
    BY <1>2, <2>1, <2>3 DEF LoaderInv
  <2> QED
    BY <2>4, <2>5 DEF r
<1>5. PartInv(db[p], loader'[p], given[p], promised[p], told[p])
  BY <1>1, <1>2, <1>3, <1>4 DEF PartInv, Domains
<1> QED
  BY <1>1, <1>2, <1>5, OnePartition DEF Domains

\* A connection taken from the pool, used and given back.
LEMMA PoolKeeps ==
  ASSUME NEW p \in Part, PoolInv(pool[p]), NEW c
  PROVE  /\ PoolInv(Taken(p, c)) /\ c \in DOMAIN Taken(p, c).sync
         /\ \A pl : PoolInv(pl) => PoolInv(Returned(pl, c))
         /\ \A pl : \A s \in Entering \cup Leaving :
              PoolInv(pl) /\ c \in DOMAIN pl.sync => PoolInv(OnPool(pl, s, c))
<1>1. PoolInv(Taken(p, c)) /\ c \in DOMAIN Taken(p, c).sync
  <2> DEFINE sync == [x \in Opened(p) \cup {c} |-> IF x \in Opened(p) THEN pool[p].sync[x] ELSE "normal"]
             idle == SelectSeq(pool[p].idle, LAMBDA x : x # c)
  <2>1. Taken(p, c) = [sync |-> sync, idle |-> idle]
    BY DEF Taken
  <2>2. \A x \in DOMAIN sync : sync[x] \in Sync
    BY DEF PoolInv, Opened, Sync
  <2>3. c \in DOMAIN sync
    OBVIOUS
  <2> HIDE DEF sync, idle
  <2> QED
    BY <2>1, <2>2, <2>3 DEF PoolInv
<1>2. ASSUME NEW pl, PoolInv(pl)
      PROVE  PoolInv(Returned(pl, c))
  <2> DEFINE sync == [x \in DOMAIN pl.sync \ {c} |-> pl.sync[x]]
  <2>1. \A x \in DOMAIN sync : sync[x] \in Sync
    BY <1>2 DEF PoolInv
  <2>2. Returned(pl, c) = IF Len(pl.idle) < 2 THEN [pl EXCEPT !.idle = Append(@, c)] ELSE [pl EXCEPT !.sync = sync]
    BY DEF Returned
  <2> HIDE DEF sync
  <2> QED
    BY <1>2, <2>1, <2>2 DEF PoolInv
<1>3. ASSUME NEW s \in Entering \cup Leaving, NEW pl, PoolInv(pl), c \in DOMAIN pl.sync
      PROVE  PoolInv(OnPool(pl, s, c))
  <2> DEFINE sync == [pl.sync EXCEPT ![c] = s.to]
  <2>1. OnPool(pl, s, c) = IF s.do = "setSync" THEN [pl EXCEPT !.sync = sync] ELSE pl
    BY DEF OnPool
  <2>2. s.do = "setSync" => s.to \in Sync
    BY DEF Entering, Leaving, Insert
  <2>3. s.do = "setSync" => \A x \in DOMAIN sync : sync[x] \in Sync
    BY <1>3, <2>2 DEF PoolInv
  <2> HIDE DEF sync
  <2> QED
    BY <1>3, <2>1, <2>3 DEF PoolInv
<1> QED
  BY <1>1, <1>2, <1>3

\* A loader that has statements left, and the first of them.
LEMMA NextStatement ==
  ASSUME NEW f, NEW g, NEW l, LoaderInv(f, l, g), l.todo # <<>>
  PROVE  Head(l.todo) \in Entering \cup Leaving
<1>1. CASE l.mode = "enter"
  BY <1>1 DEF LoaderInv
<1>2. CASE l.mode = "flush"
  <2>1. \A x : Head(<<x>>) = x
    OBVIOUS
  <2>2. l.todo = <<Insert>> /\ Insert \in Leaving
    BY <1>2 DEF LoaderInv, Leaving
  <2>3. Head(l.todo) = Insert
    BY <2>1, <2>2
  <2> QED
    BY <2>2, <2>3
<1>3. CASE l.mode = "close"
  BY <1>3 DEF LoaderInv
<1> QED
  BY <1>1, <1>2, <1>3 DEF LoaderInv

\* A statement succeeds.
LEMMA SucceedStep ==
  ASSUME BulkInv, NEW p \in Part, NEW c \in Conn, Succeed(p, c)
  PROVE  BulkInv'
<1> DEFINE l == loader[p]
           s == Head(l.todo)
           taken == Taken(p, c)
<1>1. /\ l # NoLoader /\ l.todo # <<>> /\ UNCHANGED <<given, promised, told>>
      /\ pool' = [pool EXCEPT ![p] = Returned(OnPool(taken, s, c), c)]
  BY DEF Succeed
<1>2. PICK f \in FileWith(p, c) :
        /\ db' = [db EXCEPT ![p] = OnFile(f, s, l)]
        /\ loader' = [loader EXCEPT ![p] = Proceed(OnLoader(l, s, f, taken, c))]
  BY DEF Succeed
<1>3. /\ FileInv(db[p]) /\ PoolInv(pool[p]) /\ promised[p] \subseteq db[p].quads /\ Domains
      /\ given[p] \in Seq(Quad) /\ LoaderInv(db[p], l, given[p])
  BY <1>1 DEF BulkInv, PartInv
<1>4. PoolInv(taken) /\ c \in DOMAIN taken.sync /\ s \in Entering \cup Leaving
  BY <1>1, <1>3, PoolKeeps, NextStatement
<1>5. f \in {db[p], [db[p] EXCEPT !.journal = "wal"]}
  BY DEF FileWith
<1> HIDE DEF l, taken
<1>6. /\ FileInv(OnFile(f, s, l)) /\ db[p].quads \subseteq OnFile(f, s, l).quads
      /\ LoaderInv(OnFile(f, s, l), Proceed(OnLoader(l, s, f, taken, c)), given[p])
      /\ Proceed(OnLoader(l, s, f, taken, c)) # NoLoader
  BY <1>1, <1>3, <1>4, <1>5, StatementKeeps
<1> HIDE DEF s
<1>7. PoolInv(pool'[p])
  <2>1. PoolInv(OnPool(taken, s, c))
    BY <1>3, <1>4, PoolKeeps
  <2>2. PoolInv(Returned(OnPool(taken, s, c), c))
    BY <1>3, <2>1, PoolKeeps
  <2> QED
    BY <1>1, <1>3, <2>2 DEF Domains
<1>8. PartInv(db'[p], loader'[p], given'[p], promised'[p], told'[p])
  <2>1. /\ db'[p] = OnFile(f, s, l) /\ loader'[p] = Proceed(OnLoader(l, s, f, taken, c))
        /\ given'[p] = given[p] /\ promised'[p] = promised[p]
    BY <1>1, <1>2, <1>3 DEF Domains
  <2> QED
    BY <1>3, <1>6, <2>1 DEF PartInv
<1> QED
  BY <1>1, <1>2, <1>3, <1>7, <1>8, OnePartition DEF Domains

\* A statement fails.
LEMMA FailStep ==
  ASSUME BulkInv, NEW p \in Part, Fail(p)
  PROVE  BulkInv'
<1>1. /\ loader[p] # NoLoader /\ loader[p].todo # <<>> /\ loader' = [loader EXCEPT ![p] = Failed(loader[p])]
      /\ UNCHANGED <<db, pool, given, promised, told>>
  BY DEF Fail
<1>2. /\ FileInv(db[p]) /\ PoolInv(pool[p]) /\ promised[p] \subseteq db[p].quads /\ Domains
      /\ given[p] \in Seq(Quad) /\ LoaderInv(db[p], loader[p], given[p])
  BY <1>1 DEF BulkInv, PartInv
<1>3. LoaderInv(db[p], Failed(loader[p]), given[p]) /\ Failed(loader[p]) # NoLoader
  BY <1>1, <1>2, FailedKeeps
<1>4. PartInv(db[p], loader'[p], given[p], promised[p], told[p])
  BY <1>1, <1>2, <1>3 DEF PartInv, Domains
<1> QED
  BY <1>1, <1>2, <1>4, OnePartition DEF Domains

\* Close returns; what was buffered is in the file unless it says otherwise.
LEMMA ReleaseStep ==
  ASSUME BulkInv, NEW p \in Part, Release(p)
  PROVE  BulkInv'
<1> DEFINE l == loader[p]
<1>1. /\ l.mode = "close" /\ l.todo = <<>> /\ UNCHANGED <<db, pool>>
      /\ loader' = [loader EXCEPT ![p] = NoLoader] /\ told' = [told EXCEPT ![p] = l.err]
      /\ promised' = [promised EXCEPT ![p] = IF l.err THEN @ ELSE @ \cup Range(given[p])]
      /\ given' = [given EXCEPT ![p] = <<>>]
  BY DEF Release
<1>2. /\ FileInv(db[p]) /\ PoolInv(pool[p]) /\ promised[p] \subseteq db[p].quads /\ Domains
      /\ given[p] \in Seq(Quad) /\ LoaderInv(db[p], l, given[p])
  BY <1>1 DEF BulkInv, PartInv, NoLoader
<1> HIDE DEF l
<1>3. ASSUME ~l.err
      PROVE  Range(given[p]) \subseteq db[p].quads /\ db[p].indexes = Secondary
  <2>1. l.buf = <<>> /\ Range(l.todo) = {}
    BY <1>1, <1>2, <1>3 DEF LoaderInv, Range
  <2>2. PICK n \in 0..Len(given[p]) : Split(db[p], given[p], n, l.buf)
    BY <1>2 DEF LoaderInv
  <2>3. n = Len(given[p]) /\ DOMAIN given[p] = 1..Len(given[p])
    BY <1>2, <2>1, <2>2 DEF Split
  <2> QED
    BY <1>1, <1>2, <1>3, <2>1, <2>2, <2>3 DEF Split, Range, LoaderInv, FileInv
<1>4. PartInv(db[p], NoLoader, <<>>, promised'[p], l.err)
  <2>1. promised'[p] \subseteq db[p].quads /\ <<>> \in Seq(Quad)
    BY <1>1, <1>2, <1>3 DEF Domains
  <2> QED
    BY <1>2, <1>3, <2>1 DEF PartInv
<1>5. told'[p] = l.err /\ loader'[p] = NoLoader /\ given'[p] = <<>> /\ db'[p] = db[p]
  BY <1>1, <1>2 DEF Domains
<1>6. PartInv(db'[p], loader'[p], given'[p], promised'[p], told'[p])
  BY <1>4, <1>5
<1> QED
  BY <1>1, <1>2, <1>6, OnePartition DEF Domains

\* Another use of the pool; a new connection may bring back WAL.
LEMMA PoolStep ==
  ASSUME BulkInv, NEW p \in Part, NEW c \in Conn, Borrow(p, c) \/ GiveBack(p, c)
  PROVE  BulkInv'
<1>1. /\ UNCHANGED <<loader, given, promised, told>>
      /\ \/ pool' = [pool EXCEPT ![p] = Taken(p, c)]
         \/ pool' = [pool EXCEPT ![p] = Returned(pool[p], c)]
  BY DEF Borrow, GiveBack
<1>2. PICK f \in FileWith(p, c) :
        DOMAIN db' = Part /\ db'[p] = f /\ \A o \in Part \ {p} : db'[o] = db[o]
  <2>1. CASE Borrow(p, c)
    <3>1. PICK f \in FileWith(p, c) : db' = [db EXCEPT ![p] = f]
      BY <2>1 DEF Borrow
    <3> QED
      BY <3>1 DEF BulkInv, Domains
  <2>2. CASE GiveBack(p, c)
    <3>1. db' = db /\ db[p] \in FileWith(p, c) /\ DOMAIN db = Part
      BY <2>2 DEF GiveBack, FileWith, BulkInv, Domains
    <3> QED
      BY <3>1
  <2> QED
    BY <2>1, <2>2
<1>3. /\ FileInv(db[p]) /\ PoolInv(pool[p]) /\ Domains
      /\ PartInv(db[p], loader[p], given[p], promised[p], told[p])
  BY DEF BulkInv, PartInv
<1>4. FileInv(f) /\ f.quads = db[p].quads /\ f.indexes = db[p].indexes
  BY <1>3 DEF FileWith, FileInv, Journal
<1>5. PartInv(f, loader[p], given[p], promised[p], told[p])
  BY <1>3, <1>4 DEF PartInv, LoaderInv, Split
<1>6. PoolInv(pool'[p])
  BY <1>1, <1>3, PoolKeeps DEF Domains
<1> QED
  BY <1>1, <1>2, <1>3, <1>5, <1>6, OnePartition DEF Domains

\* The process dies, and the store is opened again.
LEMMA ReopenStep ==
  ASSUME BulkInv, Reopen
  PROVE  BulkInv'
<1>1. ASSUME NEW p \in Part
      PROVE  PoolInv(NewPool) /\ PartInv(db'[p], NoLoader, <<>>, promised[p], FALSE)
  <2>1. db'[p] = [db[p] EXCEPT !.indexes = Secondary, !.journal = "wal"]
    BY DEF Reopen
  <2>2. FileInv(db[p]) /\ promised[p] \subseteq db[p].quads /\ <<>> \in Seq(Quad)
    BY DEF BulkInv, PartInv
  <2>3. PoolInv(NewPool)
    BY DEF NewPool, PoolInv, Sync
  <2> QED
    BY <2>1, <2>2, <2>3 DEF PartInv, FileInv, Journal
<1> QED
  BY <1>1 DEF Reopen, BulkInv, Domains

\* Every step of a loader, on any partition.
LEMMA LoaderStep ==
  ASSUME BulkInv, NEW p \in Part, Run(p)
  PROVE  BulkInv'
BY SucceedStep, FailStep, ReleaseStep DEF Run

\* Nothing is stored, and every partition has its indexes and no loader.
LEMMA BulkInitially ==
  ASSUME Init
  PROVE  BulkInv
<1>1. PoolInv(NewPool) /\ FileInv(NewFile) /\ NewFile.indexes = Secondary /\ <<>> \in Seq(Quad)
  BY DEF NewPool, NewFile, PoolInv, FileInv, Sync, Journal
<1> QED
  BY <1>1 DEF Init, BulkInv, Domains, PartInv

\* The loaders do not move.
LEMMA BulkSame ==
  ASSUME BulkInv, UNCHANGED bulk
  PROVE  BulkInv'
<1>1. UNCHANGED <<db, pool, loader, given, promised, told>>
  BY DEF bulk, vars
<1>2. \A p \in Part : /\ pool'[p] = pool[p] /\ db'[p] = db[p] /\ loader'[p] = loader[p]
                      /\ given'[p] = given[p] /\ promised'[p] = promised[p] /\ told'[p] = told[p]
  BY <1>1
<1>3. Domains'
  BY <1>1 DEF BulkInv, Domains
<1> QED
  BY <1>2, <1>3 DEF BulkInv

\* The inductive invariant.
LEMMA BulkInvariant == Spec => []BulkInv
<1>1. ASSUME BulkInv, [Next]_vars
      PROVE  BulkInv'
  <2>1. CASE UNCHANGED vars
    BY <1>1, <2>1, BulkSame DEF bulk
  <2>2. ASSUME NEW p \in Loaded, Step(p)
        PROVE  BulkInv'
    <3>1. p \in Part /\ AddChoice \subseteq Quad
      BY BulkAssumption
    <3>2. CASE \E l \in AnyLabel : BulkLoader(p, l)
      BY <1>1, <3>1, <3>2, BulkLoaderStep
    <3>3. CASE \E q \in AddChoice : Add(p, q)
      BY <1>1, <3>1, <3>3, AddStep
    <3>4. CASE Flush(p) \/ Close(p)
      BY <1>1, <3>1, <3>4, OwnerStep
    <3>5. CASE Run(p)
      BY <1>1, <3>1, <3>5, LoaderStep
    <3>6. CASE \E c \in Conn : Borrow(p, c) \/ GiveBack(p, c)
      BY <1>1, <3>1, <3>6, PoolStep
    <3> QED
      BY <2>2, <3>2, <3>3, <3>4, <3>5, <3>6 DEF Step
  <2> QED
    BY <1>1, <2>1, <2>2, ReopenStep DEF Next
<1> QED
  BY <1>1, BulkInitially, PTL DEF Spec

\* What a loader buffered is in the file or still in its buffer, in order,
\* through failed flushes and a retry in Close; and when Close returned without
\* an error, in the file.
THEOREM LoadersLoseNothing == Spec => []NothingLost
<1>1. ASSUME BulkInv
      PROVE  NothingLost
  <2> SUFFICES ASSUME NEW p \in Part
               PROVE  /\ promised[p] \subseteq db[p].quads
                      /\ loader[p] # NoLoader =>
                           /\ Len(loader[p].buf) <= BatchRows
                           /\ \E n \in 0..Len(given[p]) :
                                /\ Range(SubSeq(given[p], 1, n)) \subseteq db[p].quads
                                /\ loader[p].buf = SubSeq(given[p], n + 1, Len(given[p]))
    BY DEF NothingLost
  <2> DEFINE g == given[p]
             l == loader[p]
  <2>1. promised[p] \subseteq db[p].quads /\ g \in Seq(Quad) /\ (l # NoLoader => LoaderInv(db[p], l, g))
    BY <1>1 DEF BulkInv, PartInv
  <2>2. ASSUME l # NoLoader
        PROVE  /\ Len(l.buf) <= BatchRows
               /\ \E n \in 0..Len(g) : Range(SubSeq(g, 1, n)) \subseteq db[p].quads
                                      /\ l.buf = SubSeq(g, n + 1, Len(g))
    <3>1. PICK n \in 0..Len(g) : Split(db[p], g, n, l.buf)
      BY <2>1, <2>2 DEF LoaderInv
    <3>2. l.buf \in Seq(Quad) /\ Len(l.buf) <= BatchRows /\ Len(l.buf) = Len(g) - n /\ DOMAIN l.buf = 1..Len(l.buf)
      BY <2>1, <2>2, <3>1 DEF LoaderInv, Split
    <3> HIDE DEF g, l
    <3>3. \A i \in n + 1 .. Len(g) : g[i] \in Quad
      BY <2>1
    <3> DEFINE t == SubSeq(g, n + 1, Len(g))
    <3>4. /\ t \in Seq(Quad) /\ Len(t) = Len(g) - n
          /\ \A i \in 1..(Len(g) - n) : t[i] = g[n + i]
      <4>1. /\ t \in Seq(Quad) /\ Len(t) = IF n + 1 <= Len(g) THEN Len(g) - (n + 1) + 1 ELSE 0
            /\ \A i \in 1..(Len(g) - (n + 1) + 1) : t[i] = g[(n + 1) + i - 1]
        BY <2>1, <3>3, SubSeqProperties
      <4> HIDE DEF t
      <4>2. Len(g) \in Nat /\ \A i \in Nat : (n + 1) + i - 1 = n + i
        BY <2>1
      <4> QED
        BY <4>1, <4>2
    <3> HIDE DEF t
    <3>5. l.buf = t
      <4>1. \A i \in 1..Len(l.buf) : l.buf[i] = t[i]
        BY <3>1, <3>2, <3>4 DEF Split
      <4> QED
        BY <3>2, <3>4, <4>1, SeqEqual
    <3> DEFINE u == SubSeq(g, 1, n)
    <3>6. DOMAIN u = 1..n /\ \A i \in 1..n : u[i] = g[i]
      <4>1. \A i \in 1..n : g[i] \in Quad
        BY <2>1
      <4>2. /\ u \in Seq(Quad) /\ Len(u) = (IF 1 <= n THEN n - 1 + 1 ELSE 0)
            /\ \A i \in 1..(n - 1 + 1) : u[i] = g[1 + i - 1]
        BY <4>1, SubSeqProperties
      <4> HIDE DEF u
      <4> QED
        BY <4>2
    <3> HIDE DEF u
    <3>7. Range(u) \subseteq db[p].quads
      BY <3>1, <3>6 DEF Range, Split
    <3> QED
      BY <3>2, <3>5, <3>7 DEF t, u
  <2> QED
    BY <2>1, <2>2
<1> QED
  BY <1>1, BulkInvariant, PTL

\* Whatever fails or dies in between, a partition without a loader has all its
\* indexes, unless its last loader ended with an error.
THEOREM IndexesAlwaysBack == Spec => []IndexesBack
<1>1. BulkInv => IndexesBack
  BY DEF BulkInv, PartInv, IndexesBack
<1> QED
  BY <1>1, BulkInvariant, PTL

----------------------------------------------------------------------------
(* Migrate *)

Phases == {"open", "quads", "stream", "flush", "audit", "commits", "ops"}

JobInv ==
  /\ DOMAIN job = {"pc", "since", "copyCommits", "snapshot", "base", "quiet", "toOpen", "left", "reading",
                   "rows", "known", "result"}
  /\ job.pc \in Phases \cup {"idle", "close"} /\ job.result \in {"none", "ok", "err"}
  /\ job.copyCommits \in BOOLEAN /\ job.snapshot \in BOOLEAN /\ job.quiet \in BOOLEAN
  /\ job.left \subseteq SrcPart /\ job.reading \subseteq SrcPart
  /\ DOMAIN src = SrcPart /\ DOMAIN job.base = SrcPart
  /\ DOMAIN audit = Part /\ \A p \in Part : DOMAIN audit[p] = {"commits", "ops"}
  /\ job.result = "ok" => job.pc \in {"idle", "close"}
  /\ job.pc # "idle" /\ job.quiet => src = job.base

\* A partition of the source: an operation has its commit beside it.
SourceOk(f) ==
  /\ DOMAIN f = {"quads", "commits", "ops"} /\ f.quads \subseteq Quad
  /\ \A o \in f.ops : \E c \in f.commits : c.id = o.id

\* No two commits of the source have one id.
SourceInv ==
  /\ lastId \in Nat
  /\ \A x \in SrcPart : /\ SourceOk(src[x]) /\ SourceOk(job.base[x])
                        /\ job.base[x].commits \subseteq src[x].commits
                        /\ \A c \in src[x].commits : c.id \in 1..lastId
  /\ \A x, y \in SrcPart : \A c \in src[x].commits, d \in src[y].commits : c.id = d.id => x = y /\ c = d

\* While it copies, the job has an open loader in every partition.
LoadersInv ==
  /\ job.pc = "idle" => \A p \in Part : loader[p] = NoLoader
  /\ job.pc \in Phases => \A p \in job.toOpen \cap Part : loader[p] = NoLoader
  /\ job.pc \in Phases \ {"open"} => job.toOpen = {} /\ \A p \in Part : loader[p].mode \in {"open", "flush"}
  /\ job.pc \in {"audit", "commits", "ops"} \/ job.result = "ok" =>
       \A p \in Part : loader[p] # NoLoader => loader[p].buf = <<>>

\* The quads of a loader: those in the file and those still in its buffer.
Loading(p) == loader[p] # NoLoader /\ loader[p].mode \in {"enter", "open", "flush"}

Content(f, l) == f.quads \cup Range(l.buf)

ContentInv ==
  job.pc \in Phases => \A p \in Part :
    /\ p \in job.toOpen => db[p].quads = before.quads[p]
    /\ Loading(p) => /\ loader[p].labelDefault = NoLabel
                     /\ Content(db[p], loader[p]) = before.quads[p] \cup Range(given[p])
                     /\ job.pc = "open" => given[p] = <<>>

\* The selected quads of the source partitions X, which hold what base says.
Copied(base, since, X) == UNION {Selected(base[x], since) : x \in X}

\* The quads that the job has read, if the source does not change.
Read == Copied(job.base, job.since, SrcPart \ job.left)

\* The quads read so far are in the loaders of their partitions.
StreamInv ==
  /\ job.pc \in {"open", "quads", "flush"} => job.rows = {}
  /\ job.pc \in {"open", "quads", "stream"} => job.rows \subseteq Quad
  /\ job.pc = "open" => job.left = SrcPart
  /\ job.pc = "flush" => job.left = {}
  /\ job.pc \in {"quads", "stream", "flush"} /\ Frozen =>
       /\ job.rows \subseteq Read
       /\ \A p \in Part : \A q \in Range(given[p]) : q \in Read /\ Target(q.label) = p
       /\ \A q \in Read \ job.rows : \E p \in Part : Target(q.label) = p /\ q \in Range(given[p])

\* Afterwards they are in the files.
DoneInv ==
  (job.pc \in {"audit", "commits", "ops"} \/ job.result = "ok") /\ Frozen =>
    \A p \in Part : db[p].quads =
      before.quads[p] \cup {q \in Copied(job.base, job.since, SrcPart) : partFor(q.label) = p}

\* A commit is copied where its label goes, before its operations.
AuditInv ==
  /\ \A p \in Part :
       /\ \A c \in audit[p].commits : Target(c.label) = p /\ \E x \in SrcPart : c \in src[x].commits
       /\ \A o \in BagToSet(audit[p].ops) : \E c \in audit[p].commits : c.id = o.id
  /\ job.pc \in {"commits", "ops"} => \E x \in SrcPart : job.known \subseteq src[x].commits
  /\ job.pc = "commits" =>
       /\ job.rows \subseteq job.known
       /\ \A c \in job.known \ job.rows : Target(c.label) \in Part /\ c \in audit[Target(c.label)].commits
  /\ job.pc = "ops" =>
       /\ \A c \in job.known : Target(c.label) \in Part /\ c \in audit[Target(c.label)].commits
       /\ \A o \in job.rows : \E c \in job.known : c.id = o.id

\* The commits of the source partitions X in the window, and their operations,
\* that go to partition p.
CommitsOf(base, since, X, p) == {c \in UNION {InWindow(base[x].commits, since) : x \in X} : partFor(c.label) = p}
OpsAt(f, since, p) ==
  {o \in f.ops : \E c \in InWindow(f.commits, since) : c.id = o.id /\ partFor(c.label) = p}
OpsOf(base, since, X, p) == UNION {OpsAt(base[x], since, p) : x \in X}

\* The trail t of partition p has the commits of the source partitions X and
\* those of C, and the operations of X and those of O, each once.
TrailIs(t, p, base, since, X, C, O) ==
  /\ t.commits = CommitsOf(base, since, X, p) \cup {c \in C : partFor(c.label) = p}
  /\ t.ops = SetToBag(OpsOf(base, since, X, p) \cup O)

\* A first migration of a source that does not change.
First == Frozen /\ before.audit = [p \in Part |-> EmptyAudit]

\* The trail of the source partitions read so far is copied, each operation
\* once.
TrailInv ==
  /\ job.pc \in {"open", "quads", "stream", "flush"} => audit = before.audit
  /\ job.pc = "audit" /\ First => \A p \in Part : TrailIs(audit[p], p, job.base, job.since, SrcPart \ job.left, {}, {})
  /\ job.pc \in {"commits", "ops"} /\ First =>
       \E x \in SrcPart \ job.left :
         /\ job.reading = {x} /\ job.known = InWindow(job.base[x].commits, job.since)
         /\ job.pc = "commits" =>
              \A p \in Part : TrailIs(audit[p], p, job.base, job.since, (SrcPart \ job.left) \ {x}, job.known \ job.rows, {})
         /\ job.pc = "ops" =>
              \A p \in Part : TrailIs(audit[p], p, job.base, job.since, (SrcPart \ job.left) \ {x}, job.known,
                                      OpsAt(job.base[x], job.since, p) \ job.rows)
         /\ job.pc = "ops" => job.rows \subseteq job.base[x].ops
  /\ job.result = "ok" /\ job.copyCommits /\ First => \A p \in Part : TrailIs(audit[p], p, job.base, job.since, SrcPart, {}, {})

\* The inductive invariant.
MigrateInv ==
  /\ BulkInv /\ JobInv /\ SourceInv /\ LoadersInv /\ ContentInv /\ StreamInv /\ DoneInv /\ AuditInv /\ TrailInv

----------------------------------------------------------------------------
(* Loaders of a migration *)

\* A loader l of a file f is l2, and the file f2, after a step: no quad goes,
\* none comes that was not buffered.
Progress(f, l, f2, l2) ==
  /\ l2.labelDefault = l.labelDefault /\ l2.buf \in {l.buf, <<>>} /\ Content(f2, l2) = Content(f, l)
  /\ \/ l.mode = "enter" /\ l2.mode \in {"enter", "open", "close"}
     \/ l.mode = "flush" /\ l2.mode = "open"
     \/ l.mode = "close" /\ l2.mode = "close"

\* What a step of the loader of p does.
Moved(p) ==
  /\ loader[p] # NoLoader
  /\ \A o \in Part \ {p} : db'[o] = db[o] /\ loader'[o] = loader[o] /\ given'[o] = given[o]
  /\ \/ loader[p].mode = "close" /\ loader'[p] = NoLoader /\ db'[p].quads = db[p].quads
     \/ /\ loader'[p] # NoLoader /\ given'[p] = given[p]
        /\ Progress(db[p], loader[p], db'[p], loader'[p])

\* A loader after an error.
LEMMA FailedMoves ==
  ASSUME NEW f, NEW g, NEW l, LoaderInv(f, l, g), l.todo # <<>>
  PROVE  Progress(f, l, f, Failed(l))
<1>1. CASE l.mode = "enter"
  <2> DEFINE m == [l EXCEPT !.err = TRUE]
             todo == CloseStatements(m)
  <2>1. DOMAIN m = DOMAIN l /\ m.buf = l.buf /\ m.labelDefault = l.labelDefault
    BY DEF LoaderInv
  <2> HIDE DEF m, todo
  <2>2. Failed(l) = [m EXCEPT !.mode = "close", !.todo = todo]
    BY <1>1 DEF Failed, Closing, m, todo
  <2> QED
    BY <1>1, <2>1, <2>2 DEF LoaderInv, Progress, Content
<1>2. CASE l.mode = "flush"
  <2>1. Failed(l) = [l EXCEPT !.mode = "open", !.todo = <<>>, !.stickyErr = TRUE]
    BY <1>2 DEF Failed
  <2> QED
    BY <1>2, <2>1 DEF LoaderInv, Progress, Content
<1>3. CASE l.mode = "close"
  <2> DEFINE sticky == l.stickyErr \/ Head(l.todo).do = "insert"
             err == l.err \/ Head(l.todo).do \in {"insert", "create"}
  <2>1. Failed(l) = [l EXCEPT !.todo = Tail(l.todo), !.stickyErr = sticky, !.err = err]
    BY <1>3 DEF Failed
  <2> HIDE DEF sticky, err
  <2> QED
    BY <1>3, <2>1 DEF LoaderInv, Progress, Content
<1> QED
  BY <1>1, <1>2, <1>3 DEF LoaderInv

\* A loader after a statement.
LEMMA StatementMoves ==
  ASSUME NEW f0, FileInv(f0), NEW pl, NEW c, NEW g, NEW l, LoaderInv(f0, l, g), l.todo # <<>>,
         NEW f \in {f0, [f0 EXCEPT !.journal = "wal"]}
  PROVE  LET s == Head(l.todo)
         IN Progress(f0, l, OnFile(f, s, l), Proceed(OnLoader(l, s, f, pl, c)))
<1> DEFINE s    == Head(l.todo)
           f2   == OnFile(f, s, l)
           m    == OnLoader(l, s, f, pl, c)
           rest == Tail(l.todo)
           r    == Proceed(m)
<1>1. FileInv(f) /\ f.quads = f0.quads
  BY DEF FileInv, Journal
<1>2. s \in Entering \cup Leaving
  BY NextStatement
<1>3. /\ s.do = "insert" => f2.quads = f0.quads \cup Range(l.buf)
      /\ s.do # "insert" => f2.quads = f0.quads
  <2> HIDE DEF s
  <2> QED
    BY <1>1, <1>2, FileAfter
<1>4. /\ DOMAIN m = DOMAIN l /\ m.mode = l.mode /\ m.todo = l.todo /\ m.labelDefault = l.labelDefault
      /\ m.buf = IF s.do = "insert" THEN <<>> ELSE l.buf
  <2> HIDE DEF s
  <2> QED
    BY DEF OnLoader, LoaderInv
<1> HIDE DEF f2, m
<1>5. l.mode = "flush" => rest = <<>>
  <2>1. \A x : Tail(<<x>>) = <<>>
    OBVIOUS
  <2> QED
    BY <2>1, ZenonT(30) DEF LoaderInv
<1> HIDE DEF s, rest
<1>6. /\ r.labelDefault = l.labelDefault /\ r.buf = m.buf
      /\ \/ l.mode = "enter" /\ r.mode \in {"enter", "open"}
         \/ l.mode = "flush" /\ r.mode = "open"
         \/ l.mode = "close" /\ r.mode = "close"
  <2> DEFINE n == [m EXCEPT !.todo = rest]
  <2>1. DOMAIN n = DOMAIN m /\ n.mode = l.mode /\ n.buf = m.buf /\ n.labelDefault = l.labelDefault /\ n.todo = rest
    BY <1>4 DEF LoaderInv
  <2> HIDE DEF n
  <2>2. r = IF rest # <<>> \/ l.mode = "close" THEN n
            ELSE IF l.mode = "enter" THEN [n EXCEPT !.mode = "open", !.indexDropped = TRUE]
            ELSE [n EXCEPT !.mode = "open"]
    <3>1. Tail(m.todo) = rest
      BY <1>4 DEF rest
    <3> QED
      BY <1>4, <2>1, <3>1 DEF Proceed, n, LoaderInv
  <2> HIDE DEF r
  <2> QED
    BY <1>4, <1>5, <2>1, <2>2 DEF LoaderInv
<1> HIDE DEF r
<1>7. Range(<<>>) = {}
  BY DEF Range
<1>8. Content(f2, r) = Content(f0, l)
  BY <1>3, <1>4, <1>6, <1>7 DEF Content
<1>9. r.buf \in {l.buf, <<>>}
  BY <1>4, <1>6
<1>10. Progress(f0, l, f2, r)
  BY <1>6, <1>8, <1>9 DEF Progress
<1> QED
  BY <1>10 DEF f2, r, m, s

\* A step of a loader.
LEMMA RunMoves ==
  ASSUME BulkInv, NEW p \in Part, Run(p)
  PROVE  Moved(p)
<1> DEFINE l == loader[p]
<1>1. FileInv(db[p]) /\ Domains /\ (l # NoLoader => LoaderInv(db[p], l, given[p]))
  BY DEF BulkInv, PartInv
<1>2. BulkInv'
  BY LoaderStep
<1>3. ASSUME NEW c \in Conn, Succeed(p, c)
      PROVE  Moved(p)
  <2> DEFINE s == Head(l.todo)
             taken == Taken(p, c)
  <2>1. l # NoLoader /\ l.todo # <<>> /\ given' = given
    BY <1>3 DEF Succeed
  <2>2. PICK f \in FileWith(p, c) :
          /\ db' = [db EXCEPT ![p] = OnFile(f, s, l)]
          /\ loader' = [loader EXCEPT ![p] = Proceed(OnLoader(l, s, f, taken, c))]
    BY <1>3 DEF Succeed
  <2>3. f \in {db[p], [db[p] EXCEPT !.journal = "wal"]}
    BY DEF FileWith
  <2> DEFINE r == Proceed(OnLoader(l, s, f, taken, c))
             f2 == OnFile(f, s, l)
  <2> HIDE DEF taken, l
  <2>0. LoaderInv(db[p], l, given[p]) /\ FileInv(db[p])
    BY <1>1, <2>1
  <2>4. Progress(db[p], l, f2, r)
    BY <2>0, <2>1, <2>3, StatementMoves
  <2> HIDE DEF r, f2
  <2>5. r # NoLoader
    BY <2>4 DEF NoLoader, Progress
  <2>6. /\ loader'[p] = r /\ db'[p] = f2
        /\ \A o \in Part \ {p} : db'[o] = db[o] /\ loader'[o] = loader[o] /\ given'[o] = given[o]
    BY <1>1, <2>1, <2>2 DEF Domains, r, f2
  <2> QED
    BY <2>1, <2>4, <2>5, <2>6 DEF Moved, l
<1>4. CASE Fail(p)
  <2>1. l # NoLoader /\ l.todo # <<>> /\ loader' = [loader EXCEPT ![p] = Failed(l)] /\ db' = db /\ given' = given
    BY <1>4 DEF Fail
  <2> HIDE DEF l
  <2>2. Progress(db[p], l, db[p], Failed(l))
    BY <1>1, <2>1, FailedMoves
  <2>3. Failed(l) # NoLoader
    BY <2>2 DEF NoLoader, Progress
  <2>4. /\ loader'[p] = Failed(l) /\ db'[p] = db[p] /\ given'[p] = given[p]
        /\ \A o \in Part \ {p} : db'[o] = db[o] /\ loader'[o] = loader[o] /\ given'[o] = given[o]
    BY <1>1, <2>1 DEF Domains
  <2> QED
    BY <2>1, <2>2, <2>3, <2>4 DEF Moved, l
<1>5. CASE Release(p)
  <2>1. /\ l.mode = "close" /\ loader' = [loader EXCEPT ![p] = NoLoader] /\ db' = db
        /\ given' = [given EXCEPT ![p] = <<>>]
    BY <1>5 DEF Release
  <2>2. l # NoLoader
    BY <2>1 DEF NoLoader
  <2> QED
    BY <1>1, <2>1, <2>2 DEF Moved, Domains
<1> QED
  BY <1>3, <1>4, <1>5 DEF Run

----------------------------------------------------------------------------
(* What a migration reads *)

\* The partition a label is sent to is the one that reads for it go to.
LEMMA KnownTarget ==
  ASSUME NEW l, Target(l) \in Part
  PROVE  partFor(l) = Target(l)
BY MigrateAssumption DEF Target, partFor

\* One more source partition is read.
LEMMA CopiedGrows ==
  ASSUME NEW base, NEW since, NEW x, NEW X
  PROVE  /\ Copied(base, since, X \cup {x}) = Copied(base, since, X) \cup Selected(base[x], since)
         /\ Copied(base, since, {}) = {}
BY DEF Copied

LEMMA CommitsGrow ==
  ASSUME NEW base, NEW since, NEW x, NEW X, NEW p
  PROVE  /\ CommitsOf(base, since, X \cup {x}, p)
              = CommitsOf(base, since, X, p) \cup {c \in InWindow(base[x].commits, since) : partFor(c.label) = p}
         /\ CommitsOf(base, since, {}, p) = {}
<1> DEFINE A(Y) == UNION {InWindow(base[y].commits, since) : y \in Y}
<1>1. A(X \cup {x}) = A(X) \cup InWindow(base[x].commits, since) /\ A({}) = {}
  OBVIOUS
<1>2. \A Y : CommitsOf(base, since, Y, p) = {c \in A(Y) : partFor(c.label) = p}
  BY DEF CommitsOf
<1> HIDE DEF A
<1> QED
  BY <1>1, <1>2

LEMMA OpsGrow ==
  ASSUME NEW base, NEW since, NEW x, NEW X, NEW p
  PROVE  /\ OpsOf(base, since, X \cup {x}, p) = OpsOf(base, since, X, p) \cup OpsAt(base[x], since, p)
         /\ OpsOf(base, since, {}, p) = {}
BY DEF OpsOf

\* A selected quad is one.
LEMMA SelectedQuads ==
  ASSUME NEW f, SourceOk(f), NEW since
  PROVE  Selected(f, since) \subseteq Quad
BY DEF Selected, SourceOk

\* What a SELECT sees of a source that does not change; and in any case.
LEMMA Sees ==
  ASSUME JobInv, SourceInv, job.pc # "idle", NEW x \in SrcPart
  PROVE  /\ Frozen => Seen(x) = job.base[x]
         /\ SourceOk(Seen(x)) /\ Seen(x).commits \subseteq src[x].commits
BY DEF JobInv, SourceInv, Frozen, Seen

----------------------------------------------------------------------------
(* Bags *)

\* The bag of two sets that have nothing in common.
LEMMA BagOfUnion ==
  ASSUME NEW A, NEW B, A \cap B = {}
  PROVE  SetToBag(A) (+) SetToBag(B) = SetToBag(A \cup B)
<1>1. \A e \in A \cup B : (IF e \in A THEN 1 ELSE 0) + (IF e \in B THEN 1 ELSE 0) = 1
  OBVIOUS
<1>2. DOMAIN SetToBag(A) = A /\ DOMAIN SetToBag(B) = B
  BY DEF SetToBag
<1>3. /\ \A e \in A : SetToBag(A)[e] = 1
      /\ \A e \in B : SetToBag(B)[e] = 1
  BY DEF SetToBag
<1> DEFINE U == SetToBag(A)
           V == SetToBag(B)
<1>4. U (+) V = [e \in DOMAIN U \cup DOMAIN V |->
                  (IF e \in DOMAIN U THEN U[e] ELSE 0) + (IF e \in DOMAIN V THEN V[e] ELSE 0)]
  BY DEF (+)
<1> HIDE DEF U, V
<1>5. U (+) V = [e \in A \cup B |-> 1]
  BY <1>1, <1>2, <1>3, <1>4 DEF U, V
<1> QED
  BY <1>5 DEF U, V, SetToBag

\* What is in a bag after more is put into it.
LEMMA BagPut ==
  ASSUME NEW U, NEW A
  PROVE  BagToSet(U (+) SetToBag(A)) = BagToSet(U) \cup A
BY DEF BagToSet, (+), SetToBag

----------------------------------------------------------------------------
(* The steps of Migrate *)

\* No source, no trail, no job.
LEMMA MigrateInitially ==
  ASSUME MInit
  PROVE  MigrateInv
<1>1. /\ src = [x \in SrcPart |-> EmptySource] /\ lastId = 0 /\ audit = [p \in Part |-> EmptyAudit]
      /\ job = NoJob /\ loader = [p \in Part |-> NoLoader]
  BY DEF MInit, Init
<1>2. /\ DOMAIN job = {"pc", "since", "copyCommits", "snapshot", "base", "quiet", "toOpen", "left", "reading",
                       "rows", "known", "result"}
      /\ job.pc = "idle" /\ job.copyCommits = FALSE /\ job.snapshot = FALSE /\ job.quiet = TRUE
      /\ job.base = [x \in SrcPart |-> EmptySource] /\ job.left = {} /\ job.reading = {} /\ job.result = "none"
  BY <1>1 DEF NoJob
<1>3. BulkInv
  BY BulkInitially DEF MInit
<1>4. JobInv
  BY <1>1, <1>2 DEF JobInv, EmptyAudit
<1>5. SourceInv
  BY <1>1, <1>2 DEF SourceInv, SourceOk, EmptySource
<1>6. LoadersInv /\ ContentInv /\ StreamInv /\ DoneInv
  BY <1>1, <1>2 DEF LoadersInv, ContentInv, StreamInv, DoneInv, Phases
<1>7. AuditInv
  <2>1. BagToSet(EmptyBag) = {}
    BY DEF BagToSet, EmptyBag, SetToBag
  <2> QED
    BY <1>1, <1>2, <2>1 DEF AuditInv, EmptyAudit
<1>8. TrailInv
  BY <1>1, <1>2 DEF TrailInv
<1> QED
  BY <1>3, <1>4, <1>5, <1>6, <1>7, <1>8 DEF MigrateInv

\* Somebody writes to the source: a commit has an id of its own, and its
\* operations come with it.
LEMMA SourceWriteStep ==
  ASSUME MigrateInv, NEW x \in SrcPart, NEW b \in SourceChoice, SourceWrite(x, b)
  PROVE  MigrateInv'
<1> DEFINE w == Written(src[x], lastId + 1, b)
           n == [id |-> lastId + 1, label |-> b.label]
<1>1. /\ lastId' = lastId + 1 /\ src' = [src EXCEPT ![x] = w]
      /\ job' = [job EXCEPT !.quiet = @ /\ job.pc = "idle"]
      /\ UNCHANGED <<bulk, audit, before>>
  BY DEF SourceWrite
<1>2. JobInv /\ SourceInv /\ BulkInv /\ LoadersInv /\ ContentInv /\ StreamInv /\ DoneInv /\ AuditInv /\ TrailInv
  BY DEF MigrateInv
<1> DEFINE quiet == job.quiet /\ job.pc = "idle"
<1>3. /\ DOMAIN job' = DOMAIN job /\ job'.pc = job.pc /\ job'.since = job.since
      /\ job'.copyCommits = job.copyCommits /\ job'.snapshot = job.snapshot /\ job'.base = job.base
      /\ job'.toOpen = job.toOpen /\ job'.left = job.left /\ job'.reading = job.reading
      /\ job'.rows = job.rows /\ job'.known = job.known /\ job'.result = job.result
      /\ job'.quiet = quiet
  <2>1. job' = [job EXCEPT !.quiet = quiet]
    BY <1>1
  <2> HIDE DEF quiet
  <2> QED
    BY <1>2, <2>1 DEF JobInv
<1>4. /\ DOMAIN w = {"quads", "commits", "ops"} /\ w.quads \subseteq Quad /\ src[x].commits \subseteq w.commits
      /\ \A c \in w.commits : c \in src[x].commits \/ c = n
      /\ \A o \in w.ops : \E c \in w.commits : c.id = o.id
  <2>1. SourceOk(src[x]) /\ b.adds \subseteq Quad
    BY <1>2, MigrateAssumption DEF SourceInv, Change
  <2> DEFINE C == IF b.audit THEN {n} ELSE {}
             O == IF b.audit THEN {[id |-> lastId + 1, kind |-> "add", quad |-> q] : q \in b.adds}
                                    \cup {[id |-> lastId + 1, kind |-> "remove", quad |-> q] : q \in b.removes}
                  ELSE {}
  <2>2. w = [quads |-> (src[x].quads \cup b.adds) \ b.removes, commits |-> src[x].commits \cup C,
             ops |-> src[x].ops \cup O]
    BY DEF Written
  <2>3. \A o \in O : n \in C /\ n.id = o.id
    OBVIOUS
  <2>4. \A c \in C : c = n
    OBVIOUS
  <2> HIDE DEF C, O, w, n
  <2> QED
    BY <2>1, <2>2, <2>3, <2>4 DEF SourceOk
<1>5. n.id = lastId + 1
  OBVIOUS
<1>6. /\ DOMAIN src' = SrcPart /\ src'[x] = w /\ \A y \in SrcPart \ {x} : src'[y] = src[y]
      /\ \A y \in SrcPart : src[y].commits \subseteq src'[y].commits
  BY <1>1, <1>2, <1>4 DEF JobInv
<1> HIDE DEF w, n
<1>7. JobInv'
  BY <1>1, <1>2, <1>3, <1>6 DEF JobInv
<1>8. SourceInv'
  <2>1. \A y \in SrcPart : SourceOk(src'[y]) /\ SourceOk(job'.base[y])
    BY <1>2, <1>3, <1>4, <1>6 DEF SourceInv, SourceOk
  <2>2. \A y \in SrcPart : job'.base[y].commits \subseteq src'[y].commits
    BY <1>2, <1>3, <1>6 DEF SourceInv
  <2>3. lastId \in Nat /\ lastId' \in Nat
    BY <1>1, <1>2 DEF SourceInv
  <2>4. \A y \in SrcPart : \A c \in src'[y].commits : c \in src[y].commits \/ (y = x /\ c = n)
    BY <1>4, <1>6
  <2>5. \A y \in SrcPart : \A c \in src'[y].commits : c.id \in 1..lastId'
    BY <1>1, <1>2, <1>5, <2>3, <2>4 DEF SourceInv
  <2>6. \A y \in SrcPart : \A c \in src[y].commits : c.id # n.id
    BY <1>2, <1>5, <2>3 DEF SourceInv
  <2>7. \A y, z \in SrcPart : \A c \in src'[y].commits, d \in src'[z].commits : c.id = d.id => y = z /\ c = d
    BY <1>2, <2>4, <2>6 DEF SourceInv
  <2> QED
    BY <2>1, <2>2, <2>3, <2>5, <2>7 DEF SourceInv
<1>9. UNCHANGED <<db, loader, given>> /\ BulkInv'
  BY <1>1, <1>2, BulkSame DEF bulk, vars
<1>10. Frozen' => Frozen
  BY <1>3 DEF Frozen
<1>11. LoadersInv' /\ ContentInv' /\ StreamInv' /\ DoneInv'
  BY <1>1, <1>2, <1>3, <1>9, <1>10 DEF LoadersInv, ContentInv, StreamInv, DoneInv, Loading, Read
<1>12. AuditInv'
  BY <1>1, <1>2, <1>3, <1>6 DEF AuditInv
<1>13. TrailInv'
  BY <1>1, <1>2, <1>3, <1>10 DEF TrailInv, First
<1> QED
  BY <1>7, <1>8, <1>9, <1>11, <1>12, <1>13 DEF MigrateInv

\* A job starts.
LEMMA StartStep ==
  ASSUME MigrateInv, NEW s \in Since, NEW a \in BOOLEAN, NEW n \in BOOLEAN, Start(s, a, n)
  PROVE  MigrateInv'
<1>1. /\ job.pc = "idle"
      /\ job' = [NoJob EXCEPT !.pc = "open", !.toOpen = Part, !.left = SrcPart, !.since = s,
                              !.copyCommits = a, !.snapshot = n, !.base = src]
      /\ before' = [quads |-> [p \in Part |-> db[p].quads], audit |-> audit]
      /\ UNCHANGED <<bulk, src, lastId, audit>>
  BY DEF Start
<1>2. JobInv /\ SourceInv /\ BulkInv /\ LoadersInv /\ AuditInv
  BY DEF MigrateInv
<1>3. /\ DOMAIN job' = {"pc", "since", "copyCommits", "snapshot", "base", "quiet", "toOpen", "left", "reading",
                        "rows", "known", "result"}
      /\ job'.pc = "open" /\ job'.copyCommits = a /\ job'.snapshot = n /\ job'.quiet = TRUE /\ job'.base = src
      /\ job'.toOpen = Part /\ job'.left = SrcPart /\ job'.reading = {} /\ job'.rows = {} /\ job'.result = "none"
  BY <1>1 DEF NoJob
<1>4. UNCHANGED <<db, loader, given>> /\ BulkInv'
  BY <1>1, <1>2, BulkSame DEF bulk, vars
<1>5. JobInv'
  BY <1>1, <1>2, <1>3, ZenonT(30) DEF JobInv, Phases
<1>6. SourceInv'
  BY <1>1, <1>2, <1>3 DEF SourceInv
<1>7. LoadersInv' /\ StreamInv' /\ DoneInv'
  BY <1>1, <1>2, <1>3, <1>4 DEF LoadersInv, StreamInv, DoneInv, Phases
<1>8. ContentInv'
  BY <1>1, <1>2, <1>3, <1>4 DEF LoadersInv, ContentInv, Loading
<1>9. AuditInv'
  BY <1>1, <1>2, <1>3 DEF AuditInv
<1>10. TrailInv'
  BY <1>1, <1>3 DEF TrailInv
<1> QED
  BY <1>4, <1>5, <1>6, <1>7, <1>8, <1>9, <1>10 DEF MigrateInv

\* A step of the job that touches neither the loaders, the source nor the trail.
LEMMA JobSame ==
  ASSUME MigrateInv, UNCHANGED <<bulk, src, lastId, audit, before>>,
         job'.base = job.base, job'.quiet = job.quiet, job'.snapshot = job.snapshot
  PROVE  BulkInv' /\ SourceInv' /\ UNCHANGED <<db, loader, given>> /\ (Frozen' <=> Frozen)
<1>1. BulkInv /\ SourceInv
  BY DEF MigrateInv
<1>2. UNCHANGED <<db, loader, given>>
  BY DEF bulk, vars
<1>3. BulkInv'
  BY <1>1, BulkSame
<1>4. SourceInv'
  BY <1>1 DEF SourceInv
<1> QED
  BY <1>2, <1>3, <1>4 DEF Frozen

\* A loader is opened in the next partition.
LEMMA OpenLoaderStep ==
  ASSUME MigrateInv, NEW p \in Part, OpenLoader(p)
  PROVE  MigrateInv'
<1>1. /\ job.pc = "open" /\ p \in job.toOpen /\ BulkLoader(p, NoLabel)
      /\ job' = [job EXCEPT !.toOpen = @ \ {p}]
      /\ UNCHANGED <<src, lastId, audit, before>>
  BY DEF OpenLoader, Ready
<1>2. JobInv /\ SourceInv /\ BulkInv /\ LoadersInv /\ ContentInv /\ StreamInv /\ DoneInv /\ AuditInv /\ TrailInv
  BY DEF MigrateInv
<1>3. /\ DOMAIN job' = DOMAIN job /\ job'.pc = job.pc /\ job'.since = job.since
      /\ job'.copyCommits = job.copyCommits /\ job'.snapshot = job.snapshot /\ job'.base = job.base
      /\ job'.quiet = job.quiet /\ job'.left = job.left /\ job'.reading = job.reading
      /\ job'.rows = job.rows /\ job'.known = job.known /\ job'.result = job.result
      /\ job'.toOpen = job.toOpen \ {p}
  BY <1>1, <1>2 DEF JobInv
<1>4. BulkInv'
  BY <1>1, <1>2, BulkLoaderStep DEF AnyLabel
<1>5. /\ loader'[p] # NoLoader /\ loader'[p].mode = "enter" /\ loader'[p].buf = <<>>
      /\ loader'[p].labelDefault = NoLabel /\ given'[p] = <<>> /\ db' = db
      /\ \A o \in Part \ {p} : loader'[o] = loader[o] /\ given'[o] = given[o]
  <2> DEFINE n == [mode |-> "enter", todo |-> EnterBulkMode,
                   origSync |-> None, origJournal |-> None, indexDropped |-> FALSE,
                   buf |-> <<>>, labelDefault |-> NoLabel, stickyErr |-> FALSE, err |-> FALSE]
  <2>1. loader' = [loader EXCEPT ![p] = n] /\ given' = [given EXCEPT ![p] = <<>>] /\ db' = db
    BY <1>1 DEF BulkLoader
  <2>2. n.mode = "enter" /\ n.buf = <<>> /\ n.labelDefault = NoLabel /\ n # NoLoader
    BY DEF NoLoader
  <2> HIDE DEF n
  <2> QED
    BY <1>2, <2>1, <2>2 DEF BulkInv, Domains
<1>6. JobInv'
  BY <1>1, <1>2, <1>3 DEF JobInv
<1>7. SourceInv'
  BY <1>1, <1>2, <1>3 DEF SourceInv
<1>8. LoadersInv'
  BY <1>1, <1>2, <1>3, <1>5 DEF LoadersInv, JobInv
<1>9. ContentInv'
  <2>1. Range(<<>>) = {}
    BY DEF Range
  <2>2. ASSUME NEW o \in Part
        PROVE  /\ o \in job'.toOpen => db'[o].quads = before'.quads[o]
               /\ Loading(o)' => /\ loader'[o].labelDefault = NoLabel
                                 /\ Content(db'[o], loader'[o]) = before'.quads[o] \cup Range(given'[o])
                                 /\ given'[o] = <<>>
    <3>1. CASE o = p
      BY <1>1, <1>2, <1>3, <1>5, <2>1, <3>1 DEF ContentInv, Content, Phases
    <3>2. CASE o # p
      BY <1>1, <1>2, <1>3, <1>5, <3>2 DEF ContentInv, Loading, Phases
    <3> QED
      BY <3>1, <3>2
  <2> QED
    BY <2>2 DEF ContentInv
<1>10. StreamInv' /\ DoneInv' /\ AuditInv' /\ TrailInv'
  BY <1>1, <1>2, <1>3, <1>5 DEF StreamInv, DoneInv, AuditInv, TrailInv, First, Frozen, JobInv
<1> QED
  BY <1>4, <1>6, <1>7, <1>8, <1>9, <1>10 DEF MigrateInv

\* All loaders are open and empty.
LEMMA AllOpenStep ==
  ASSUME MigrateInv, AllOpen
  PROVE  MigrateInv'
<1>1. /\ job.pc = "open" /\ job.toOpen = {} /\ \A p \in Part : loader[p].mode = "open"
      /\ job' = [job EXCEPT !.pc = "quads"]
      /\ UNCHANGED <<bulk, src, lastId, audit, before>>
  BY DEF AllOpen, Ready, NoErrors, Goto
<1>2. JobInv /\ LoadersInv /\ ContentInv /\ StreamInv /\ AuditInv /\ TrailInv
  BY DEF MigrateInv
<1>3. /\ DOMAIN job' = DOMAIN job /\ job'.pc = "quads" /\ job'.since = job.since
      /\ job'.copyCommits = job.copyCommits /\ job'.snapshot = job.snapshot /\ job'.base = job.base
      /\ job'.quiet = job.quiet /\ job'.left = job.left /\ job'.reading = job.reading
      /\ job'.rows = job.rows /\ job'.known = job.known /\ job'.result = job.result
      /\ job'.toOpen = job.toOpen
  BY <1>1, <1>2 DEF JobInv
<1>4. BulkInv' /\ SourceInv' /\ UNCHANGED <<db, loader, given>> /\ (Frozen' <=> Frozen)
  BY <1>1, <1>3, JobSame
<1>5. JobInv'
  BY <1>1, <1>2, <1>3 DEF JobInv, Phases
<1>6. LoadersInv'
  BY <1>1, <1>2, <1>3, <1>4 DEF LoadersInv, JobInv
<1>7. ContentInv'
  BY <1>1, <1>2, <1>3, <1>4 DEF ContentInv, Loading, Phases
<1>8. StreamInv'
  <2>1. Read' = {}
    <3>1. SrcPart \ job'.left = {}
      BY <1>1, <1>2, <1>3 DEF StreamInv
    <3>2. Copied(job'.base, job'.since, SrcPart \ job'.left) = {}
      BY <3>1, CopiedGrows
    <3> QED
      BY <3>2 DEF Read
  <2>2. \A p \in Part : given'[p] = <<>>
    BY <1>1, <1>2, <1>4 DEF ContentInv, Loading, Phases, NoLoader
  <2>3. Range(<<>>) = {}
    BY DEF Range
  <2>4. job'.rows = {}
    BY <1>1, <1>2, <1>3 DEF StreamInv
  <2> QED
    BY <1>3, <2>1, <2>2, <2>3, <2>4 DEF StreamInv
<1>9. DoneInv' /\ AuditInv' /\ TrailInv'
  BY <1>1, <1>2, <1>3, <1>4 DEF DoneInv, AuditInv, TrailInv, First, JobInv
<1> QED
  BY <1>4, <1>5, <1>6, <1>7, <1>8, <1>9 DEF MigrateInv

\* The quads of a source partition are read.
LEMMA ScanQuadsStep ==
  ASSUME MigrateInv, NEW x \in SrcPart, ScanQuads(x)
  PROVE  MigrateInv'
<1> DEFINE rows == Selected(Seen(x), job.since)
<1>1. /\ job.pc = "quads" /\ x \in job.left
      /\ job' = [job EXCEPT !.pc = "stream", !.left = @ \ {x}, !.rows = rows]
      /\ UNCHANGED <<bulk, src, lastId, audit, before>>
  BY DEF ScanQuads, Ready
<1>2. JobInv /\ SourceInv /\ LoadersInv /\ ContentInv /\ StreamInv /\ AuditInv /\ TrailInv
  BY DEF MigrateInv
<1>3. rows \subseteq Quad /\ (Frozen => rows = Selected(job.base[x], job.since))
  <2>1. SourceOk(Seen(x)) /\ (Frozen => Seen(x) = job.base[x])
    BY <1>1, <1>2, Sees
  <2> QED
    BY <2>1, SelectedQuads
<1> HIDE DEF rows
<1>4. /\ DOMAIN job' = DOMAIN job /\ job'.pc = "stream" /\ job'.since = job.since
      /\ job'.copyCommits = job.copyCommits /\ job'.snapshot = job.snapshot /\ job'.base = job.base
      /\ job'.quiet = job.quiet /\ job'.left = job.left \ {x} /\ job'.reading = job.reading
      /\ job'.rows = rows /\ job'.known = job.known /\ job'.result = job.result
      /\ job'.toOpen = job.toOpen
  BY <1>1, <1>2 DEF JobInv
<1>5. BulkInv' /\ SourceInv' /\ UNCHANGED <<db, loader, given>> /\ (Frozen' <=> Frozen)
  BY <1>1, <1>4, JobSame
<1>6. JobInv'
  BY <1>1, <1>2, <1>4 DEF JobInv, Phases
<1>7. LoadersInv'
  BY <1>1, <1>2, <1>4, <1>5 DEF LoadersInv, JobInv, Phases
<1>8. ContentInv'
  BY <1>1, <1>2, <1>4, <1>5 DEF ContentInv, Loading, Phases
<1>9. StreamInv'
  <2>1. Frozen => Read' = Read \cup rows
    <3>1. SrcPart \ job'.left = (SrcPart \ job.left) \cup {x}
      BY <1>1, <1>2, <1>4 DEF JobInv
    <3>2. Copied(job.base, job.since, (SrcPart \ job.left) \cup {x})
            = Copied(job.base, job.since, SrcPart \ job.left) \cup Selected(job.base[x], job.since)
      BY CopiedGrows
    <3> QED
      BY <1>3, <1>4, <3>1, <3>2 DEF Read
  <2> QED
    BY <1>1, <1>2, <1>3, <1>4, <1>5, <2>1 DEF StreamInv
<1>10. DoneInv' /\ AuditInv' /\ TrailInv'
  BY <1>1, <1>2, <1>4, <1>5 DEF DoneInv, AuditInv, TrailInv, First, JobInv
<1> QED
  BY <1>5, <1>6, <1>7, <1>8, <1>9, <1>10 DEF MigrateInv

\* A loader without a default label takes a quad as it is.
LEMMA Added ==
  ASSUME NEW p \in Part, NEW q \in Quad, Add(p, q), Domains,
         LoaderInv(db[p], loader[p], given[p]), loader[p].labelDefault = NoLabel, given[p] \in Seq(Quad)
  PROVE  /\ db' = db /\ loader'[p].mode \in {"open", "flush"} /\ loader'[p].labelDefault = NoLabel
         /\ Content(db[p], loader'[p]) = Content(db[p], loader[p]) \cup {q}
         /\ Range(given'[p]) = Range(given[p]) \cup {q}
         /\ \A o \in Part \ {p} : loader'[o] = loader[o] /\ given'[o] = given[o]
<1> DEFINE l == loader[p]
           m == [l EXCEPT !.buf = Append(@, q)]
           k == IF Len(m.buf) >= BatchRows THEN Flushing(m) ELSE m
<1>1. Effective(q, NoLabel) = q
  BY DEF Effective, Quad
<1>2. /\ db' = db /\ l.mode = "open" /\ loader' = [loader EXCEPT ![p] = k]
      /\ given' = [given EXCEPT ![p] = Append(given[p], q)]
  BY <1>1 DEF Add
<1>3. \A t \in Seq(Quad) : Range(Append(t, q)) = Range(t) \cup {q}
  <2> SUFFICES ASSUME NEW t \in Seq(Quad)
               PROVE  Range(Append(t, q)) = Range(t) \cup {q}
    OBVIOUS
  <2> DEFINE u == Append(t, q)
             n == Len(t)
  <2>1. n \in Nat /\ DOMAIN t = 1..n /\ DOMAIN u = 1..(n + 1) /\ u[n + 1] = q /\ \A i \in 1..n : u[i] = t[i]
    BY AppendProperties
  <2> HIDE DEF u, n
  <2>2. \A i \in 1..(n + 1) : i = n + 1 \/ i \in 1..n
    BY <2>1
  <2>3. n + 1 \in 1..(n + 1) /\ 1..n \subseteq 1..(n + 1)
    BY <2>1
  <2> QED
    BY <2>1, <2>2, <2>3 DEF Range, u
<1>4. /\ DOMAIN m = DOMAIN l /\ m.buf = Append(l.buf, q) /\ m.mode = "open"
      /\ m.labelDefault = NoLabel
  BY <1>2 DEF LoaderInv
<1>5. k.mode \in {"open", "flush"} /\ k.labelDefault = NoLabel /\ k.buf = Append(l.buf, q)
  <2> HIDE DEF m
  <2>1. Flushing(m).mode = "flush" /\ Flushing(m).labelDefault = NoLabel /\ Flushing(m).buf = Append(l.buf, q)
    BY <1>4 DEF Flushing, LoaderInv
  <2> QED
    BY <1>4, <2>1
<1> HIDE DEF k
<1>6. Range(Append(l.buf, q)) = Range(l.buf) \cup {q} /\ Range(Append(given[p], q)) = Range(given[p]) \cup {q}
  BY <1>3 DEF LoaderInv
<1>7. loader'[p] = k /\ given'[p] = Append(given[p], q)
  BY <1>2 DEF Domains
<1>8. \A o \in Part \ {p} : loader'[o] = loader[o] /\ given'[o] = given[o]
  BY <1>2 DEF Domains
<1>9. Content(db[p], loader'[p]) = Content(db[p], l) \cup {q}
  BY <1>5, <1>6, <1>7 DEF Content
<1> QED
  BY <1>2, <1>5, <1>6, <1>7, <1>8, <1>9

\* A quad goes to the loader of its partition.
LEMMA StreamQuadStep ==
  ASSUME MigrateInv, NEW q \in job.rows, job.pc = "stream", StreamQuad(q)
  PROVE  MigrateInv'
<1> DEFINE p == Target(q.label)
<1>1. /\ p \in Part /\ Add(p, q) /\ job' = [job EXCEPT !.rows = @ \ {q}]
      /\ UNCHANGED <<src, lastId, audit, before>>
  BY DEF StreamQuad
<1>2. JobInv /\ SourceInv /\ BulkInv /\ LoadersInv /\ ContentInv /\ StreamInv /\ AuditInv /\ TrailInv
  BY DEF MigrateInv
<1>3. q \in Quad
  BY <1>2 DEF StreamInv
<1>4. BulkInv'
  BY <1>1, <1>2, <1>3, AddStep
<1>5. /\ DOMAIN job' = DOMAIN job /\ job'.pc = "stream" /\ job'.since = job.since
      /\ job'.copyCommits = job.copyCommits /\ job'.snapshot = job.snapshot /\ job'.base = job.base
      /\ job'.quiet = job.quiet /\ job'.left = job.left /\ job'.reading = job.reading
      /\ job'.rows = job.rows \ {q} /\ job'.known = job.known /\ job'.result = job.result
      /\ job'.toOpen = job.toOpen
  BY <1>1, <1>2 DEF JobInv
<1> HIDE DEF p
<1>6. loader[p] # NoLoader /\ loader[p].mode \in {"open", "flush"}
  BY <1>1, <1>2 DEF LoadersInv, Phases, NoLoader
<1>7. /\ loader[p].labelDefault = NoLabel
      /\ Content(db[p], loader[p]) = before.quads[p] \cup Range(given[p])
  BY <1>1, <1>2, <1>6 DEF ContentInv, Loading, Phases
<1>8. /\ db' = db /\ loader'[p].mode \in {"open", "flush"} /\ loader'[p].labelDefault = NoLabel
      /\ Content(db[p], loader'[p]) = Content(db[p], loader[p]) \cup {q}
      /\ Range(given'[p]) = Range(given[p]) \cup {q}
      /\ \A o \in Part \ {p} : loader'[o] = loader[o] /\ given'[o] = given[o]
  <2>1. Domains /\ LoaderInv(db[p], loader[p], given[p]) /\ given[p] \in Seq(Quad)
    BY <1>1, <1>2, <1>6 DEF BulkInv, PartInv
  <2> QED
    BY <1>1, <1>3, <1>7, <2>1, Added
<1>9. JobInv'
  BY <1>1, <1>2, <1>5 DEF JobInv, Phases
<1>10. SourceInv'
  BY <1>1, <1>2, <1>5 DEF SourceInv
<1>11. LoadersInv'
  <2>1. \A o \in Part : loader'[o].mode \in {"open", "flush"}
    BY <1>2, <1>8 DEF LoadersInv, Phases
  <2> QED
    BY <1>2, <1>5, <2>1 DEF LoadersInv, JobInv, Phases
<1>12. ContentInv'
  <2>1. job.toOpen = {}
    BY <1>2 DEF LoadersInv, Phases
  <2>2. ASSUME NEW o \in Part, Loading(o)'
        PROVE  loader'[o].labelDefault = NoLabel /\ Content(db'[o], loader'[o]) = before'.quads[o] \cup Range(given'[o])
    <3>1. CASE o = p
      BY <1>1, <1>7, <1>8, <3>1
    <3>2. CASE o # p
      BY <1>1, <1>2, <1>8, <2>2, <3>2 DEF ContentInv, Loading, Phases
    <3> QED
      BY <3>1, <3>2
  <2> QED
    BY <1>5, <2>1, <2>2 DEF ContentInv
<1>13. StreamInv'
  <2> SUFFICES ASSUME Frozen'
               PROVE  /\ job'.rows \subseteq Read'
                      /\ \A o \in Part : \A r \in Range(given'[o]) : r \in Read' /\ Target(r.label) = o
                      /\ \A r \in Read' \ job'.rows : \E o \in Part : Target(r.label) = o /\ r \in Range(given'[o])
    BY <1>2, <1>5 DEF StreamInv
  <2>1. Frozen /\ Read' = Read
    BY <1>5 DEF Frozen, Read
  <2>2. /\ job.rows \subseteq Read
        /\ \A o \in Part : \A r \in Range(given[o]) : r \in Read /\ Target(r.label) = o
        /\ \A r \in Read \ job.rows : \E o \in Part : Target(r.label) = o /\ r \in Range(given[o])
    BY <1>2, <2>1 DEF StreamInv
  <2>3. ASSUME NEW o \in Part, NEW r \in Range(given'[o])
        PROVE  r \in Read' /\ Target(r.label) = o
    BY <1>8, <2>1, <2>2 DEF p
  <2>4. ASSUME NEW r \in Read' \ job'.rows
        PROVE  \E o \in Part : Target(r.label) = o /\ r \in Range(given'[o])
    <3>1. CASE r = q
      BY <1>1, <1>8, <3>1 DEF p
    <3>2. CASE r # q
      <4>1. PICK o \in Part : Target(r.label) = o /\ r \in Range(given[o])
        BY <1>5, <2>1, <2>2, <3>2
      <4> QED
        BY <1>8, <4>1
    <3> QED
      BY <3>1, <3>2
  <2> QED
    BY <1>5, <2>1, <2>2, <2>3, <2>4
<1>14. DoneInv' /\ AuditInv' /\ TrailInv'
  BY <1>1, <1>2, <1>5 DEF DoneInv, AuditInv, TrailInv, First, JobInv
<1> QED
  BY <1>4, <1>9, <1>10, <1>11, <1>12, <1>13, <1>14 DEF MigrateInv

\* All quads of a source partition have gone to the loaders.
LEMMA StreamEndStep ==
  ASSUME MigrateInv, StreamEnd
  PROVE  MigrateInv'
<1> DEFINE pc == IF job.left = {} THEN "flush" ELSE "quads"
<1>1. /\ job.pc = "stream" /\ job.rows = {} /\ job' = [job EXCEPT !.pc = pc]
      /\ UNCHANGED <<bulk, src, lastId, audit, before>>
  BY DEF StreamEnd, Ready, Goto
<1>2. JobInv /\ LoadersInv /\ ContentInv /\ StreamInv /\ AuditInv /\ TrailInv
  BY DEF MigrateInv
<1>3. pc \in {"flush", "quads"} /\ (pc = "flush" => job.left = {})
  OBVIOUS
<1> HIDE DEF pc
<1>4. /\ DOMAIN job' = DOMAIN job /\ job'.pc = pc /\ job'.since = job.since
      /\ job'.copyCommits = job.copyCommits /\ job'.snapshot = job.snapshot /\ job'.base = job.base
      /\ job'.quiet = job.quiet /\ job'.left = job.left /\ job'.reading = job.reading
      /\ job'.rows = job.rows /\ job'.known = job.known /\ job'.result = job.result
      /\ job'.toOpen = job.toOpen
  BY <1>1, <1>2 DEF JobInv
<1>5. BulkInv' /\ SourceInv' /\ UNCHANGED <<db, loader, given>> /\ (Frozen' <=> Frozen)
  BY <1>1, <1>4, JobSame
<1>6. JobInv'
  BY <1>1, <1>2, <1>3, <1>4 DEF JobInv, Phases
<1>7. LoadersInv' /\ ContentInv'
  BY <1>1, <1>2, <1>3, <1>4, <1>5 DEF LoadersInv, JobInv, ContentInv, Loading, Phases
<1>8. StreamInv'
  BY <1>1, <1>2, <1>3, <1>4, <1>5 DEF StreamInv, Read
<1>9. DoneInv' /\ AuditInv' /\ TrailInv'
  BY <1>1, <1>2, <1>3, <1>4, <1>5 DEF DoneInv, AuditInv, TrailInv, First, JobInv
<1> QED
  BY <1>5, <1>6, <1>7, <1>8, <1>9 DEF MigrateInv

\* Every buffer is empty: the quads of the source are in the files.
LEMMA FlushedStep ==
  ASSUME MigrateInv, Flushed
  PROVE  MigrateInv'
<1> DEFINE pc     == IF job.copyCommits THEN "audit" ELSE "close"
           left   == IF job.copyCommits THEN SrcPart ELSE job.left
           result == IF job.copyCommits THEN job.result ELSE "ok"
<1>1. /\ job.pc = "flush" /\ \A p \in Part : loader[p].buf = <<>>
      /\ UNCHANGED <<bulk, src, lastId, audit, before>>
  BY DEF Flushed, Ready
<1>2. JobInv /\ BulkInv /\ LoadersInv /\ ContentInv /\ StreamInv /\ AuditInv /\ TrailInv
  BY DEF MigrateInv
<1>3. /\ DOMAIN job' = DOMAIN job /\ job'.pc = pc /\ job'.since = job.since
      /\ job'.copyCommits = job.copyCommits /\ job'.snapshot = job.snapshot /\ job'.base = job.base
      /\ job'.quiet = job.quiet /\ job'.left = left /\ job'.reading = job.reading
      /\ job'.rows = job.rows /\ job'.known = job.known /\ job'.result = result
      /\ job'.toOpen = job.toOpen
  <2>1. job' = IF job.copyCommits THEN [job EXCEPT !.pc = "audit", !.left = SrcPart]
               ELSE [job EXCEPT !.pc = "close", !.result = "ok"]
    BY DEF Flushed, Return
  <2>2. CASE job.copyCommits
    BY <1>2, <2>1, <2>2 DEF JobInv
  <2>3. CASE ~job.copyCommits
    BY <1>2, <2>1, <2>3 DEF JobInv
  <2> QED
    BY <2>2, <2>3
<1>4. /\ \/ pc = "audit" /\ left = SrcPart /\ result = job.result /\ job.copyCommits
         \/ pc = "close" /\ left = job.left /\ result = "ok" /\ ~job.copyCommits
      /\ left \subseteq SrcPart
  <2>1. job.left \subseteq SrcPart
    BY <1>2 DEF JobInv
  <2>2. CASE job.copyCommits
    BY <2>2
  <2>3. CASE ~job.copyCommits
    BY <2>1, <2>3
  <2> QED
    BY <2>2, <2>3
<1> HIDE DEF pc, left, result
<1>5. BulkInv' /\ SourceInv' /\ UNCHANGED <<db, loader, given>> /\ (Frozen' <=> Frozen)
  BY <1>1, <1>3, JobSame
<1>6. JobInv'
  BY <1>1, <1>2, <1>3, <1>4 DEF JobInv, Phases
<1>7. LoadersInv' /\ ContentInv'
  BY <1>1, <1>2, <1>3, <1>4, <1>5 DEF LoadersInv, JobInv, ContentInv, Loading, Phases
<1>8. StreamInv'
  BY <1>3, <1>4 DEF StreamInv
<1>9. DoneInv'
  <2> SUFFICES ASSUME Frozen, NEW p \in Part
               PROVE  db[p].quads = before.quads[p]
                        \cup {q \in Copied(job.base, job.since, SrcPart) : partFor(q.label) = p}
    BY <1>1, <1>3, <1>5 DEF DoneInv
  <2> DEFINE C == Copied(job.base, job.since, SrcPart)
  <2>1. Read = C /\ job.rows = {}
    <3>1. job.left = {} /\ SrcPart \ {} = SrcPart /\ job.rows = {}
      BY <1>1, <1>2 DEF StreamInv
    <3> QED
      BY <3>1 DEF Read
  <2> HIDE DEF C
  <2>2. db[p].quads = before.quads[p] \cup Range(given[p])
    <3>1. loader[p] # NoLoader /\ loader[p].mode \in {"open", "flush"}
      BY <1>1, <1>2 DEF LoadersInv, Phases, NoLoader
    <3>2. Content(db[p], loader[p]) = before.quads[p] \cup Range(given[p])
      BY <1>1, <1>2, <3>1 DEF ContentInv, Loading, Phases
    <3>3. Range(<<>>) = {}
      BY DEF Range
    <3> QED
      BY <1>1, <3>2, <3>3 DEF Content
  <2>3. /\ \A o \in Part : \A q \in Range(given[o]) : q \in C /\ Target(q.label) = o
        /\ \A q \in C : \E o \in Part : Target(q.label) = o /\ q \in Range(given[o])
    BY <1>1, <1>2, <2>1 DEF StreamInv
  <2>4. \A q \in C : partFor(q.label) = Target(q.label)
    BY <2>3, KnownTarget
  <2>5. Range(given[p]) = {q \in C : partFor(q.label) = p}
    BY <2>3, <2>4
  <2> QED
    BY <2>2, <2>5 DEF C
<1>10. AuditInv'
  BY <1>1, <1>2, <1>3, <1>4 DEF AuditInv
<1>11. TrailInv'
  <2>1. ASSUME job'.pc = "audit", First', NEW p \in Part
        PROVE  TrailIs(audit'[p], p, job'.base, job'.since, SrcPart \ job'.left, {}, {})
    <3>1. audit'[p] = EmptyAudit
      BY <1>1, <1>2, <2>1 DEF TrailInv, First
    <3>2. SrcPart \ job'.left = {}
      BY <1>3, <1>4, <2>1
    <3>3. CommitsOf(job'.base, job'.since, {}, p) = {} /\ OpsOf(job'.base, job'.since, {}, p) = {}
      BY CommitsGrow, OpsGrow
    <3>4. \A X, Y : X = {} /\ Y = {} => X \cup {c \in {} : partFor(c.label) = p} = {} /\ Y \cup {} = {}
      OBVIOUS
    <3> QED
      BY <3>1, <3>2, <3>3, <3>4 DEF TrailIs, EmptyAudit, EmptyBag
  <2>2. job'.pc \in {"audit", "close"} /\ ~(job'.result = "ok" /\ job'.copyCommits)
    BY <1>1, <1>2, <1>3, <1>4 DEF JobInv
  <2> QED
    BY <2>1, <2>2 DEF TrailInv
<1> QED
  BY <1>5, <1>6, <1>7, <1>8, <1>9, <1>10, <1>11 DEF MigrateInv

\* The job gives up.
LEMMA AbortStep ==
  ASSUME MigrateInv, Abort
  PROVE  MigrateInv'
<1>1. /\ job.pc \notin {"idle", "close"} /\ job' = [job EXCEPT !.pc = "close", !.result = "err"]
      /\ UNCHANGED <<bulk, src, lastId, audit, before>>
  BY DEF Abort
<1>2. JobInv /\ AuditInv
  BY DEF MigrateInv
<1>3. /\ DOMAIN job' = DOMAIN job /\ job'.pc = "close" /\ job'.since = job.since
      /\ job'.copyCommits = job.copyCommits /\ job'.snapshot = job.snapshot /\ job'.base = job.base
      /\ job'.quiet = job.quiet /\ job'.left = job.left /\ job'.reading = job.reading
      /\ job'.rows = job.rows /\ job'.known = job.known /\ job'.result = "err"
      /\ job'.toOpen = job.toOpen
  BY <1>1, <1>2 DEF JobInv
<1>4. BulkInv' /\ SourceInv' /\ UNCHANGED <<db, loader, given>> /\ (Frozen' <=> Frozen)
  BY <1>1, <1>3, JobSame
<1>5. JobInv'
  BY <1>1, <1>2, <1>3 DEF JobInv
<1>6. LoadersInv' /\ ContentInv' /\ StreamInv' /\ DoneInv' /\ TrailInv'
  BY <1>3 DEF LoadersInv, ContentInv, StreamInv, DoneInv, TrailInv, Phases
<1>7. AuditInv'
  BY <1>1, <1>2, <1>3 DEF AuditInv
<1> QED
  BY <1>4, <1>5, <1>6, <1>7 DEF MigrateInv

\* The job returns what it has to say.
LEMMA EndStep ==
  ASSUME MigrateInv, End
  PROVE  MigrateInv'
<1>1. /\ job.pc = "close" /\ job' = [job EXCEPT !.pc = "idle"] /\ \A p \in Part : loader[p] = NoLoader
      /\ UNCHANGED <<bulk, src, lastId, audit, before>>
  BY DEF End, Goto
<1>2. JobInv /\ LoadersInv /\ DoneInv /\ AuditInv /\ TrailInv
  BY DEF MigrateInv
<1>3. /\ DOMAIN job' = DOMAIN job /\ job'.pc = "idle" /\ job'.since = job.since
      /\ job'.copyCommits = job.copyCommits /\ job'.snapshot = job.snapshot /\ job'.base = job.base
      /\ job'.quiet = job.quiet /\ job'.left = job.left /\ job'.reading = job.reading
      /\ job'.rows = job.rows /\ job'.known = job.known /\ job'.result = job.result
      /\ job'.toOpen = job.toOpen
  BY <1>1, <1>2 DEF JobInv
<1>4. BulkInv' /\ SourceInv' /\ UNCHANGED <<db, loader, given>> /\ (Frozen' <=> Frozen)
  BY <1>1, <1>3, JobSame
<1>5. JobInv'
  BY <1>1, <1>2, <1>3 DEF JobInv
<1>6. LoadersInv' /\ ContentInv' /\ StreamInv' /\ DoneInv' /\ TrailInv'
  BY <1>1, <1>2, <1>3, <1>4 DEF LoadersInv, ContentInv, StreamInv, DoneInv, TrailInv, First, Phases
<1>7. AuditInv'
  BY <1>1, <1>2, <1>3 DEF AuditInv
<1> QED
  BY <1>4, <1>5, <1>6, <1>7 DEF MigrateInv

\* The process dies.
LEMMA DieStep ==
  ASSUME MigrateInv, Die
  PROVE  MigrateInv'
<1>1. /\ Reopen /\ job' = NoJob /\ loader' = [p \in Part |-> NoLoader]
      /\ UNCHANGED <<src, lastId, audit, before>>
  BY DEF Die, Reopen
<1>2. JobInv /\ SourceInv /\ BulkInv /\ AuditInv
  BY DEF MigrateInv
<1>3. /\ DOMAIN job' = {"pc", "since", "copyCommits", "snapshot", "base", "quiet", "toOpen", "left", "reading",
                        "rows", "known", "result"}
      /\ job'.pc = "idle" /\ job'.copyCommits = FALSE /\ job'.snapshot = FALSE /\ job'.quiet = TRUE
      /\ job'.base = [x \in SrcPart |-> EmptySource] /\ job'.left = {} /\ job'.reading = {} /\ job'.result = "none"
  BY <1>1 DEF NoJob
<1>4. BulkInv'
  BY <1>1, <1>2, ReopenStep
<1>5. JobInv'
  BY <1>1, <1>2, <1>3 DEF JobInv
<1>6. SourceInv'
  BY <1>1, <1>2, <1>3 DEF SourceInv, SourceOk, EmptySource
<1>7. LoadersInv' /\ ContentInv' /\ StreamInv' /\ DoneInv' /\ TrailInv'
  BY <1>1, <1>3 DEF LoadersInv, ContentInv, StreamInv, DoneInv, TrailInv, Phases
<1>8. AuditInv'
  BY <1>1, <1>2, <1>3 DEF AuditInv
<1> QED
  BY <1>4, <1>5, <1>6, <1>7, <1>8 DEF MigrateInv

\* Only loaders move, and only in their partitions.
LEMMA LoadersMove ==
  ASSUME MigrateInv, UNCHANGED mvars, BulkInv', LoadersInv', ContentInv',
         \A p \in Part :
           /\ job.pc \in {"quads", "stream", "flush"} => given'[p] = given[p]
           /\ job.pc \in {"audit", "commits", "ops"} \/ job.result = "ok" => db'[p].quads = db[p].quads
  PROVE  MigrateInv'
<1>1. JobInv /\ SourceInv /\ StreamInv /\ DoneInv /\ AuditInv /\ TrailInv
  BY DEF MigrateInv
<1>2. UNCHANGED <<src, lastId, audit, job, before>>
  BY DEF mvars
<1>3. JobInv' /\ SourceInv'
  BY <1>1, <1>2 DEF JobInv, SourceInv
<1>4. StreamInv'
  BY <1>1, <1>2 DEF StreamInv, Read, Frozen
<1>5. DoneInv'
  BY <1>1, <1>2 DEF DoneInv, Frozen
<1>6. AuditInv' /\ TrailInv'
  BY <1>1, <1>2 DEF AuditInv, TrailInv, First, Frozen
<1> QED
  BY <1>3, <1>4, <1>5, <1>6 DEF MigrateInv

\* The job flushes a loader, or closes one.
LEMMA FlushLoaderStep ==
  ASSUME MigrateInv, NEW p \in Part, FlushLoader(p) \/ CloseLoader(p)
  PROVE  MigrateInv'
<1>1. /\ (job.pc = "flush" /\ Flush(p)) \/ (job.pc = "close" /\ Close(p))
      /\ UNCHANGED mvars /\ loader[p].mode = "open" /\ UNCHANGED <<db, given>>
  BY DEF FlushLoader, CloseLoader, Ready, Flush, Close
<1>2. BulkInv /\ JobInv /\ LoadersInv /\ ContentInv
  BY DEF MigrateInv
<1>3. BulkInv'
  BY <1>1, <1>2, OwnerStep
<1>4. loader[p] # NoLoader /\ LoaderInv(db[p], loader[p], given[p]) /\ Domains
  BY <1>1, <1>2 DEF BulkInv, PartInv, NoLoader
<1>5. UNCHANGED <<job, before>>
  BY <1>1 DEF mvars
<1>6. /\ loader'[p].buf = loader[p].buf /\ loader'[p].labelDefault = loader[p].labelDefault
      /\ \A o \in Part \ {p} : loader'[o] = loader[o]
      /\ job.pc = "flush" => loader'[p].mode = "flush"
  <2> DEFINE l == loader[p]
             todo == CloseStatements(l)
  <2>1. CASE job.pc = "flush" /\ Flush(p)
    <3>1. loader' = [loader EXCEPT ![p] = [l EXCEPT !.mode = "flush", !.todo = <<Insert>>]]
      BY <2>1 DEF Flush, Flushing
    <3> HIDE DEF l
    <3> QED
      BY <1>4, <3>1 DEF Domains, LoaderInv, l
  <2>2. CASE job.pc = "close" /\ Close(p)
    <3>1. loader' = [loader EXCEPT ![p] = [l EXCEPT !.mode = "close", !.todo = todo]]
      BY <2>2 DEF Close, Closing
    <3> HIDE DEF l, todo
    <3> QED
      BY <1>4, <2>2, <3>1 DEF Domains, LoaderInv, l
  <2> QED
    BY <1>1, <2>1, <2>2
<1>7. LoadersInv'
  <2>1. \A o \in Part : loader[o].buf = <<>> => loader'[o].buf = <<>>
    BY <1>6
  <2>2. job.pc = "flush" => \A o \in Part : loader'[o].mode \in {"open", "flush"}
    BY <1>2, <1>6 DEF LoadersInv, Phases
  <2>3. \A o \in Part : loader[o] = NoLoader => o # p /\ loader'[o] = NoLoader
    BY <1>4, <1>6
  <2>4. job.pc \in {"flush", "close"}
    BY <1>1
  <2>5. job'.pc = "flush" => job'.toOpen = {}
    BY <1>2, <1>5 DEF LoadersInv, Phases
  <2>6. job'.result = "ok" => \A o \in Part : loader'[o] # NoLoader => loader'[o].buf = <<>>
    BY <1>2, <1>5, <2>1, <2>3 DEF LoadersInv
  <2> QED
    BY <1>5, <2>2, <2>4, <2>5, <2>6 DEF LoadersInv, Phases
<1>8. ContentInv'
  <2> SUFFICES ASSUME job.pc = "flush", NEW o \in Part
               PROVE  /\ o \in job.toOpen => db[o].quads = before.quads[o]
                      /\ Loading(o)' => /\ loader'[o].labelDefault = NoLabel
                                        /\ Content(db[o], loader'[o]) = before.quads[o] \cup Range(given[o])
    BY <1>1, <1>5 DEF ContentInv, Phases
  <2>1. job.toOpen = {} /\ Loading(o)
    BY <1>2, <1>4 DEF LoadersInv, Phases, Loading, NoLoader
  <2>2. Content(db[o], loader'[o]) = Content(db[o], loader[o]) /\ loader'[o].labelDefault = loader[o].labelDefault
    BY <1>6 DEF Content
  <2> QED
    BY <1>2, <2>1, <2>2 DEF ContentInv, Phases
<1> QED
  BY <1>1, <1>3, <1>7, <1>8, LoadersMove

\* A loader makes a statement.
LEMMA LoaderRunsStep ==
  ASSUME MigrateInv, LoaderRuns
  PROVE  MigrateInv'
<1>1. PICK p \in Part : Run(p) /\ UNCHANGED mvars
  BY DEF LoaderRuns
<1>2. BulkInv /\ JobInv /\ LoadersInv /\ ContentInv
  BY DEF MigrateInv
<1>3. BulkInv' /\ Moved(p)
  BY <1>1, <1>2, LoaderStep, RunMoves
<1>4. UNCHANGED <<job, before>>
  BY <1>1 DEF mvars
<1>5. /\ loader[p] # NoLoader
      /\ \A o \in Part \ {p} : db'[o] = db[o] /\ loader'[o] = loader[o] /\ given'[o] = given[o]
      /\ \/ loader[p].mode = "close" /\ loader'[p] = NoLoader /\ db'[p].quads = db[p].quads
         \/ loader'[p] # NoLoader /\ given'[p] = given[p] /\ Progress(db[p], loader[p], db'[p], loader'[p])
  BY <1>3 DEF Moved
<1>6. LoadersInv'
  <2>1. \A o \in Part : loader[o] = NoLoader => loader'[o] = NoLoader
    BY <1>5
  <2>2. \A o \in Part : loader[o].mode \in {"open", "flush"} => loader'[o].mode \in {"open", "flush"}
    BY <1>5 DEF Progress
  <2>3. \A o \in Part : (loader[o] # NoLoader => loader[o].buf = <<>>) => (loader'[o] # NoLoader => loader'[o].buf = <<>>)
    BY <1>5 DEF Progress
  <2> QED
    BY <1>2, <1>4, <2>1, <2>2, <2>3 DEF LoadersInv
<1>7. ContentInv'
  <2> SUFFICES ASSUME job.pc \in Phases, NEW o \in Part
               PROVE  /\ o \in job.toOpen => db'[o].quads = before.quads[o]
                      /\ Loading(o)' => /\ loader'[o].labelDefault = NoLabel
                                        /\ Content(db'[o], loader'[o]) = before.quads[o] \cup Range(given'[o])
                                        /\ job.pc = "open" => given'[o] = <<>>
    BY <1>4 DEF ContentInv
  <2>1. CASE o = p
    <3>1. o \notin job.toOpen
      BY <1>2, <1>5, <2>1 DEF LoadersInv
    <3>2. Loading(o)' => Loading(o) /\ given'[o] = given[o] /\ Progress(db[o], loader[o], db'[o], loader'[o])
      BY <1>5, <2>1 DEF Loading, Progress, NoLoader
    <3> QED
      BY <1>2, <3>1, <3>2 DEF ContentInv, Progress
  <2>2. CASE o # p
    BY <1>2, <1>5, <2>2 DEF ContentInv, Loading
  <2> QED
    BY <2>1, <2>2
<1>8. job.pc \in {"quads", "stream", "flush"} => given'[p] = given[p]
  BY <1>2, <1>5 DEF LoadersInv, Phases
<1>9. job.pc \in {"audit", "commits", "ops"} \/ job.result = "ok" => db'[p].quads = db[p].quads
  <2> SUFFICES ASSUME job.pc \in {"audit", "commits", "ops"} \/ job.result = "ok", loader'[p] # NoLoader
               PROVE  db'[p].quads = db[p].quads
    BY <1>5
  <2>1. loader[p].buf = <<>> /\ loader'[p].buf = <<>>
    BY <1>2, <1>5 DEF LoadersInv, Progress
  <2>2. Range(<<>>) = {}
    BY DEF Range
  <2> QED
    BY <1>5, <2>1, <2>2 DEF Progress, Content
<1>10. \A o \in Part :
         /\ job.pc \in {"quads", "stream", "flush"} => given'[o] = given[o]
         /\ job.pc \in {"audit", "commits", "ops"} \/ job.result = "ok" => db'[o].quads = db[o].quads
  BY <1>5, <1>8, <1>9
<1> QED
  BY <1>1, <1>3, <1>6, <1>7, <1>10, LoadersMove

\* The commits of a source partition are read.
LEMMA ScanCommitsStep ==
  ASSUME MigrateInv, NEW x \in SrcPart, ScanCommits(x)
  PROVE  MigrateInv'
<1> DEFINE rows == InWindow(Seen(x).commits, job.since)
<1>1. /\ job.pc = "audit" /\ x \in job.left
      /\ job' = [job EXCEPT !.pc = "commits", !.left = @ \ {x}, !.reading = {x}, !.rows = rows, !.known = rows]
      /\ UNCHANGED <<bulk, src, lastId, audit, before>>
  BY DEF ScanCommits, Ready
<1>2. JobInv /\ SourceInv /\ LoadersInv /\ DoneInv /\ AuditInv /\ TrailInv
  BY DEF MigrateInv
<1>3. rows \subseteq src[x].commits /\ (Frozen => rows = InWindow(job.base[x].commits, job.since))
  <2>1. Seen(x).commits \subseteq src[x].commits /\ (Frozen => Seen(x) = job.base[x])
    BY <1>1, <1>2, Sees
  <2> QED
    BY <2>1 DEF InWindow
<1> HIDE DEF rows
<1>4. /\ DOMAIN job' = DOMAIN job /\ job'.pc = "commits" /\ job'.since = job.since
      /\ job'.copyCommits = job.copyCommits /\ job'.snapshot = job.snapshot /\ job'.base = job.base
      /\ job'.quiet = job.quiet /\ job'.left = job.left \ {x} /\ job'.reading = {x}
      /\ job'.rows = rows /\ job'.known = rows /\ job'.result = job.result
      /\ job'.toOpen = job.toOpen
  BY <1>1, <1>2 DEF JobInv
<1>5. BulkInv' /\ SourceInv' /\ UNCHANGED <<db, loader, given>> /\ (Frozen' <=> Frozen)
  BY <1>1, <1>4, JobSame
<1>6. JobInv'
  BY <1>1, <1>2, <1>4 DEF JobInv, Phases
<1>7. LoadersInv'
  BY <1>1, <1>2, <1>4, <1>5 DEF LoadersInv, Phases
<1>8. ContentInv'
  <2>1. /\ job.toOpen = {}
        /\ ContentInv
    BY <1>1, <1>2 DEF LoadersInv, MigrateInv, Phases
  <2> QED
    BY <1>1, <1>4, <1>5, <2>1 DEF ContentInv, Loading, Phases
<1>9. StreamInv' /\ DoneInv'
  BY <1>1, <1>2, <1>4, <1>5 DEF StreamInv, DoneInv, JobInv
<1>10. AuditInv'
  BY <1>1, <1>2, <1>3, <1>4 DEF AuditInv
<1>11. TrailInv'
  <2> SUFFICES ASSUME First'
               PROVE  \A p \in Part : TrailIs(audit[p], p, job.base, job.since,
                                              (SrcPart \ job'.left) \ {x}, rows \ rows, {})
    <3>1. x \in SrcPart \ job'.left /\ job'.result # "ok"
      BY <1>1, <1>2, <1>4 DEF JobInv
    <3>2. First' => rows = InWindow(job.base[x].commits, job.since)
      BY <1>3, <1>5 DEF First
    <3> QED
      BY <1>1, <1>4, <3>1, <3>2 DEF TrailInv
  <2>1. \A p \in Part : TrailIs(audit[p], p, job.base, job.since, SrcPart \ job.left, {}, {})
    BY <1>1, <1>2, <1>5 DEF TrailInv, First
  <2>2. (SrcPart \ job'.left) \ {x} = SrcPart \ job.left /\ rows \ rows = {}
    BY <1>1, <1>4
  <2> QED
    BY <2>1, <2>2
<1> QED
  BY <1>5, <1>6, <1>7, <1>8, <1>9, <1>10, <1>11 DEF MigrateInv

\* The commits of a destination partition are put there.
LEMMA PutCommitsStep ==
  ASSUME MigrateInv, NEW p \in Part, PutCommits(p)
  PROVE  MigrateInv'
<1> DEFINE group == {c \in job.rows : Target(c.label) = p}
<1>1. /\ job.pc = "commits" /\ audit' = [audit EXCEPT ![p].commits = @ \cup group]
      /\ job' = [job EXCEPT !.rows = @ \ group]
      /\ UNCHANGED <<bulk, src, lastId, before>>
  BY DEF PutCommits, Ready
<1>2. JobInv /\ SourceInv /\ BulkInv /\ LoadersInv /\ ContentInv /\ DoneInv /\ AuditInv /\ TrailInv
  BY DEF MigrateInv
<1>3. group \subseteq job.rows /\ \A c \in job.rows : c \in group <=> Target(c.label) = p
  OBVIOUS
<1> HIDE DEF group
<1>4. /\ DOMAIN job' = DOMAIN job /\ job'.pc = "commits" /\ job'.since = job.since
      /\ job'.copyCommits = job.copyCommits /\ job'.snapshot = job.snapshot /\ job'.base = job.base
      /\ job'.quiet = job.quiet /\ job'.left = job.left /\ job'.reading = job.reading
      /\ job'.rows = job.rows \ group /\ job'.known = job.known /\ job'.result = job.result
      /\ job'.toOpen = job.toOpen
  BY <1>1, <1>2 DEF JobInv
<1>5. /\ DOMAIN audit' = Part /\ \A o \in Part : DOMAIN audit'[o] = {"commits", "ops"}
      /\ audit'[p].commits = audit[p].commits \cup group /\ audit'[p].ops = audit[p].ops
      /\ \A o \in Part \ {p} : audit'[o] = audit[o]
  BY <1>1, <1>2 DEF JobInv
<1>6. UNCHANGED <<db, loader, given>> /\ BulkInv' /\ (Frozen' <=> Frozen)
  BY <1>1, <1>2, <1>4, BulkSame DEF bulk, vars, Frozen
<1>7. JobInv' /\ SourceInv'
  BY <1>1, <1>2, <1>4, <1>5 DEF JobInv, SourceInv
<1>8. LoadersInv' /\ ContentInv' /\ StreamInv' /\ DoneInv'
  BY <1>1, <1>2, <1>4, <1>6 DEF LoadersInv, ContentInv, Loading, StreamInv, DoneInv, JobInv, Phases
<1>9. AuditInv'
  <2>1. \A o \in Part : audit[o].commits \subseteq audit'[o].commits /\ audit'[o].ops = audit[o].ops
    BY <1>5
  <2>2. PICK x \in SrcPart : job.known \subseteq src[x].commits
    BY <1>1, <1>2 DEF AuditInv
  <2>3. job.rows \subseteq job.known
    BY <1>1, <1>2 DEF AuditInv
  <2>4. ASSUME NEW o \in Part, NEW c \in audit'[o].commits
        PROVE  Target(c.label) = o /\ \E y \in SrcPart : c \in src'[y].commits
    <3>1. CASE c \in audit[o].commits
      BY <1>1, <1>2, <3>1 DEF AuditInv
    <3>2. CASE c \notin audit[o].commits
      BY <1>1, <1>3, <1>5, <2>2, <2>3, <3>2
    <3> QED
      BY <3>1, <3>2
  <2>5. \A o \in Part : \A e \in BagToSet(audit'[o].ops) : \E c \in audit'[o].commits : c.id = e.id
    BY <1>2, <2>1 DEF AuditInv
  <2>6. ASSUME NEW c \in job'.known \ job'.rows
        PROVE  Target(c.label) \in Part /\ c \in audit'[Target(c.label)].commits
    <3>1. CASE c \in group
      BY <1>3, <1>5, <3>1
    <3>2. CASE c \notin group
      BY <1>1, <1>2, <1>4, <2>1, <2>6, <3>2 DEF AuditInv
    <3> QED
      BY <3>1, <3>2
  <2> QED
    BY <1>1, <1>4, <2>2, <2>3, <2>4, <2>5, <2>6 DEF AuditInv
<1>10. TrailInv'
  <2> SUFFICES ASSUME First'
               PROVE  \E x \in SrcPart \ job'.left :
                        /\ job'.reading = {x} /\ job'.known = InWindow(job'.base[x].commits, job'.since)
                        /\ \A o \in Part : TrailIs(audit'[o], o, job'.base, job'.since,
                                                  (SrcPart \ job'.left) \ {x}, job'.known \ job'.rows, {})
    <3>1. job'.result # "ok"
      BY <1>1, <1>2, <1>4 DEF JobInv
    <3> QED
      BY <1>4, <3>1 DEF TrailInv
  <2>1. First
    BY <1>1, <1>6 DEF First
  <2>2. PICK x \in SrcPart \ job.left :
          /\ job.reading = {x} /\ job.known = InWindow(job.base[x].commits, job.since)
          /\ \A o \in Part : TrailIs(audit[o], o, job.base, job.since,
                                    (SrcPart \ job.left) \ {x}, job.known \ job.rows, {})
    BY <1>1, <1>2, <2>1 DEF TrailInv
  <2> DEFINE new(o) == {c \in job'.known \ job'.rows : partFor(c.label) = o}
             old(o) == {c \in job.known \ job.rows : partFor(c.label) = o}
  <2>3. job'.known \ job'.rows = (job.known \ job.rows) \cup group
    <3>1. job.rows \subseteq job.known
      BY <1>1, <1>2 DEF AuditInv
    <3> QED
      BY <1>3, <1>4, <3>1
  <2>4. \A c \in group : partFor(c.label) = p
    BY <1>3, KnownTarget
  <2>5. new(p) = old(p) \cup group
    BY <2>3, <2>4
  <2>6. \A o \in Part \ {p} : new(o) = old(o)
    BY <2>3, <2>4
  <2> HIDE DEF new, old
  <2>7. ASSUME NEW o \in Part
        PROVE  /\ audit'[o].commits = CommitsOf(job.base, job.since, (SrcPart \ job.left) \ {x}, o) \cup new(o)
               /\ audit'[o].ops = audit[o].ops
    <3>1. audit[o].commits = CommitsOf(job.base, job.since, (SrcPart \ job.left) \ {x}, o) \cup old(o)
      BY <2>2 DEF TrailIs, old
    <3> QED
      BY <1>5, <2>5, <2>6, <3>1
  <2>8. \A o \in Part : TrailIs(audit'[o], o, job.base, job.since,
                                (SrcPart \ job.left) \ {x}, job'.known \ job'.rows, {})
    BY <2>2, <2>7 DEF TrailIs, new
  <2> QED
    BY <1>4, <2>2, <2>8
<1> QED
  BY <1>6, <1>7, <1>8, <1>9, <1>10 DEF MigrateInv

\* An operation of the source has one commit, in the same source partition.
LEMMA OneCommit ==
  ASSUME SourceInv, NEW x \in SrcPart, NEW y \in SrcPart, NEW since, NEW p,
         NEW o \in OpsAt(job.base[x], since, p), NEW c \in job.base[y].commits, c.id = o.id
  PROVE  x = y /\ partFor(c.label) = p
<1>1. PICK d \in InWindow(job.base[x].commits, since) : d.id = o.id /\ partFor(d.label) = p
  BY DEF OpsAt
<1>2. d \in src[x].commits /\ c \in src[y].commits
  BY <1>1 DEF InWindow, SourceInv
<1>3. x = y /\ c = d
  BY <1>1, <1>2 DEF SourceInv
<1> QED
  BY <1>1, <1>3

\* The operations of the commits are read.
LEMMA ScanOpsStep ==
  ASSUME MigrateInv, ScanOps
  PROVE  MigrateInv'
<1>1. /\ job.pc = "commits" /\ job.rows = {}
      /\ UNCHANGED <<bulk, src, lastId, audit, before>>
  BY DEF ScanOps, Ready
<1>2. JobInv /\ SourceInv /\ LoadersInv /\ ContentInv /\ DoneInv /\ AuditInv /\ TrailInv
  BY DEF MigrateInv
<1>3. PICK x \in job.reading :
        job' = [job EXCEPT !.pc = "ops", !.rows = {o \in Seen(x).ops : \E c \in job.known : c.id = o.id}]
  BY DEF ScanOps
<1> DEFINE rows == {o \in Seen(x).ops : \E c \in job.known : c.id = o.id}
<1>4. \A o : o \in rows <=> o \in Seen(x).ops /\ \E c \in job.known : c.id = o.id
  OBVIOUS
<1>5. job' = [job EXCEPT !.pc = "ops", !.rows = rows] /\ x \in SrcPart
  BY <1>2, <1>3 DEF JobInv
<1> HIDE DEF rows
<1>6. /\ DOMAIN job' = DOMAIN job /\ job'.pc = "ops" /\ job'.since = job.since
      /\ job'.copyCommits = job.copyCommits /\ job'.snapshot = job.snapshot /\ job'.base = job.base
      /\ job'.quiet = job.quiet /\ job'.left = job.left /\ job'.reading = job.reading
      /\ job'.rows = rows /\ job'.known = job.known /\ job'.result = job.result
      /\ job'.toOpen = job.toOpen
  BY <1>2, <1>5 DEF JobInv
<1>7. BulkInv' /\ SourceInv' /\ UNCHANGED <<db, loader, given>> /\ (Frozen' <=> Frozen)
  BY <1>1, <1>6, JobSame
<1>8. JobInv'
  BY <1>1, <1>2, <1>6 DEF JobInv, Phases
<1>9. LoadersInv' /\ ContentInv' /\ StreamInv' /\ DoneInv'
  BY <1>1, <1>2, <1>6, <1>7 DEF LoadersInv, ContentInv, Loading, StreamInv, DoneInv, JobInv, Phases
<1>10. AuditInv'
  BY <1>1, <1>2, <1>4, <1>6 DEF AuditInv
<1>11. TrailInv'
  <2> SUFFICES ASSUME First'
               PROVE  \E y \in SrcPart \ job.left :
                        /\ job.reading = {y} /\ job.known = InWindow(job.base[y].commits, job.since)
                        /\ \A p \in Part : TrailIs(audit[p], p, job.base, job.since,
                                                  (SrcPart \ job.left) \ {y}, job.known,
                                                  OpsAt(job.base[y], job.since, p) \ rows)
                        /\ rows \subseteq job.base[y].ops
    <3>1. job'.result # "ok"
      BY <1>1, <1>2, <1>6 DEF JobInv
    <3> QED
      BY <1>1, <1>6, <3>1 DEF TrailInv
  <2>1. First
    BY <1>1, <1>7 DEF First
  <2>2. PICK y \in SrcPart \ job.left :
          /\ job.reading = {y} /\ job.known = InWindow(job.base[y].commits, job.since)
          /\ \A p \in Part : TrailIs(audit[p], p, job.base, job.since,
                                    (SrcPart \ job.left) \ {y}, job.known \ job.rows, {})
    BY <1>1, <1>2, <2>1 DEF TrailInv
  <2>3. x = y /\ job.known \ job.rows = job.known
    BY <1>1, <1>3, <2>2
  <2>4. Seen(y) = job.base[y]
    BY <1>1, <1>2, <2>1, Sees DEF First
  <2>5. \A p \in Part : OpsAt(job.base[y], job.since, p) \ rows = {}
    BY <1>4, <2>2, <2>3, <2>4 DEF OpsAt
  <2>6. rows \subseteq job.base[y].ops
    BY <1>4, <2>3, <2>4
  <2> QED
    BY <2>2, <2>3, <2>5, <2>6
<1> QED
  BY <1>7, <1>8, <1>9, <1>10, <1>11 DEF MigrateInv

\* The operations of a destination partition are committed.
LEMMA PutOpsStep ==
  ASSUME MigrateInv, NEW p \in Part, PutOps(p)
  PROVE  MigrateInv'
<1> DEFINE group == {o \in job.rows : \E c \in job.known : c.id = o.id /\ Target(c.label) = p}
<1>1. /\ job.pc = "ops" /\ audit' = [audit EXCEPT ![p].ops = @ (+) SetToBag(group)]
      /\ job' = [job EXCEPT !.rows = @ \ group]
      /\ UNCHANGED <<bulk, src, lastId, before>>
  BY DEF PutOps, Ready
<1>2. JobInv /\ SourceInv /\ BulkInv /\ LoadersInv /\ ContentInv /\ DoneInv /\ AuditInv /\ TrailInv
  BY DEF MigrateInv
<1>3. /\ group \subseteq job.rows
      /\ \A o \in group : \E c \in job.known : c.id = o.id /\ Target(c.label) = p
  OBVIOUS
<1> HIDE DEF group
<1>4. /\ DOMAIN job' = DOMAIN job /\ job'.pc = "ops" /\ job'.since = job.since
      /\ job'.copyCommits = job.copyCommits /\ job'.snapshot = job.snapshot /\ job'.base = job.base
      /\ job'.quiet = job.quiet /\ job'.left = job.left /\ job'.reading = job.reading
      /\ job'.rows = job.rows \ group /\ job'.known = job.known /\ job'.result = job.result
      /\ job'.toOpen = job.toOpen
  BY <1>1, <1>2 DEF JobInv
<1>5. /\ DOMAIN audit' = Part /\ \A o \in Part : DOMAIN audit'[o] = {"commits", "ops"}
      /\ audit'[p].ops = audit[p].ops (+) SetToBag(group)
      /\ \A o \in Part : audit'[o].commits = audit[o].commits
      /\ \A o \in Part \ {p} : audit'[o] = audit[o]
  BY <1>1, <1>2 DEF JobInv
<1>6. UNCHANGED <<db, loader, given>> /\ BulkInv' /\ (Frozen' <=> Frozen)
  BY <1>1, <1>2, <1>4, BulkSame DEF bulk, vars, Frozen
<1>7. JobInv' /\ SourceInv'
  BY <1>1, <1>2, <1>4, <1>5 DEF JobInv, SourceInv
<1>8. LoadersInv' /\ ContentInv' /\ StreamInv' /\ DoneInv'
  BY <1>1, <1>2, <1>4, <1>6 DEF LoadersInv, ContentInv, Loading, StreamInv, DoneInv, JobInv, Phases
<1>9. AuditInv'
  <2>1. ASSUME NEW o \in Part, NEW e \in BagToSet(audit'[o].ops)
        PROVE  \E c \in audit'[o].commits : c.id = e.id
    <3>1. CASE o = p
      <4>1. BagToSet(audit'[o].ops) = BagToSet(audit[p].ops) \cup group
        BY <1>5, <3>1, BagPut
      <4>2. CASE e \in group
        BY <1>1, <1>2, <1>3, <1>5, <3>1, <4>2 DEF AuditInv
      <4>3. CASE e \notin group
        BY <1>2, <1>5, <2>1, <3>1, <4>1, <4>3 DEF AuditInv
      <4> QED
        BY <4>2, <4>3
    <3>2. CASE o # p
      BY <1>2, <1>5, <2>1, <3>2 DEF AuditInv
    <3> QED
      BY <3>1, <3>2
  <2>2. \A o \in Part : \A c \in audit'[o].commits : Target(c.label) = o /\ \E x \in SrcPart : c \in src'[x].commits
    BY <1>1, <1>2, <1>5 DEF AuditInv
  <2>3. \E x \in SrcPart : job'.known \subseteq src'[x].commits
    BY <1>1, <1>2, <1>4 DEF AuditInv
  <2>4. \A c \in job'.known : Target(c.label) \in Part /\ c \in audit'[Target(c.label)].commits
    BY <1>1, <1>2, <1>4, <1>5 DEF AuditInv
  <2>5. \A o \in job'.rows : \E c \in job'.known : c.id = o.id
    BY <1>1, <1>2, <1>4 DEF AuditInv
  <2> QED
    BY <1>4, <2>1, <2>2, <2>3, <2>4, <2>5 DEF AuditInv
<1>10. TrailInv'
  <2> SUFFICES ASSUME First'
               PROVE  \E x \in SrcPart \ job'.left :
                        /\ job'.reading = {x} /\ job'.known = InWindow(job'.base[x].commits, job'.since)
                        /\ \A o \in Part : TrailIs(audit'[o], o, job'.base, job'.since,
                                                  (SrcPart \ job'.left) \ {x}, job'.known,
                                                  OpsAt(job'.base[x], job'.since, o) \ job'.rows)
                        /\ job'.rows \subseteq job'.base[x].ops
    <3>1. job'.result # "ok"
      BY <1>1, <1>2, <1>4 DEF JobInv
    <3> QED
      BY <1>4, <3>1 DEF TrailInv
  <2>1. First
    BY <1>1, <1>6 DEF First
  <2>2. PICK x \in SrcPart \ job.left :
          /\ job.reading = {x} /\ job.known = InWindow(job.base[x].commits, job.since)
          /\ \A o \in Part : TrailIs(audit[o], o, job.base, job.since,
                                    (SrcPart \ job.left) \ {x}, job.known,
                                    OpsAt(job.base[x], job.since, o) \ job.rows)
          /\ job.rows \subseteq job.base[x].ops
    BY <1>1, <1>2, <2>1 DEF TrailInv
  <2> DEFINE old   == (SrcPart \ job.left) \ {x}
             At(o) == OpsAt(job.base[x], job.since, o)
  <2>3. ASSUME NEW e \in group
        PROVE  e \in At(p) /\ \A y \in SrcPart : \A o : e \in OpsAt(job.base[y], job.since, o) => y = x /\ o = p
    <3>1. PICK c \in job.known : c.id = e.id /\ Target(c.label) = p
      BY <1>3
    <3>2. partFor(c.label) = p /\ c \in job.base[x].commits /\ e \in job.base[x].ops
      BY <1>3, <2>2, <3>1, KnownTarget DEF InWindow
    <3>3. e \in At(p)
      BY <2>2, <3>1, <3>2 DEF OpsAt
    <3>4. ASSUME NEW y \in SrcPart, NEW o, e \in OpsAt(job.base[y], job.since, o)
          PROVE  y = x /\ o = p
      BY <1>2, <3>1, <3>2, <3>4, OneCommit
    <3> QED
      BY <3>3, <3>4
  <2>4. OpsOf(job.base, job.since, old, p) \cap group = {}
    BY <2>3 DEF OpsOf
  <2>5. At(p) \ job'.rows = (At(p) \ job.rows) \cup group
    BY <1>3, <1>4, <2>3
  <2>6. \A o \in Part \ {p} : At(o) \ job'.rows = At(o) \ job.rows
    BY <1>3, <1>4, <2>3
  <2> DEFINE had == OpsOf(job.base, job.since, old, p) \cup (At(p) \ job.rows)
  <2>7. /\ had \cap group = {}
        /\ OpsOf(job.base, job.since, old, p) \cup (At(p) \ job'.rows) = had \cup group
    BY <1>3, <2>4, <2>5
  <2>8. audit[p].ops = SetToBag(had)
    BY <2>2 DEF TrailIs
  <2> HIDE DEF had
  <2>9. audit'[p].ops = SetToBag(had \cup group)
    BY <1>5, <2>7, <2>8, BagOfUnion
  <2>10. audit'[p].ops = SetToBag(OpsOf(job.base, job.since, old, p) \cup (At(p) \ job'.rows))
    BY <2>7, <2>9
  <2> HIDE DEF old, At
  <2>11. \A o \in Part : TrailIs(audit[o], o, job.base, job.since, old, job.known, At(o) \ job.rows)
    BY <2>2 DEF old, At
  <2>12. ASSUME NEW o \in Part
         PROVE  TrailIs(audit'[o], o, job.base, job.since, old, job.known, At(o) \ job'.rows)
    <3>1. CASE o = p
      BY <1>5, <2>10, <2>11, <3>1 DEF TrailIs
    <3>2. CASE o # p
      BY <1>5, <2>6, <2>11, <3>2
    <3> QED
      BY <3>1, <3>2
  <2> QED
    BY <1>4, <2>2, <2>12 DEF old, At
<1> QED
  BY <1>6, <1>7, <1>8, <1>9, <1>10 DEF MigrateInv

\* All operations of a source partition are copied.
LEMMA OpsEndStep ==
  ASSUME MigrateInv, OpsEnd
  PROVE  MigrateInv'
<1> DEFINE pc     == IF job.left = {} THEN "close" ELSE "audit"
           result == IF job.left = {} THEN "ok" ELSE job.result
<1>1. /\ job.pc = "ops" /\ job.rows = {}
      /\ UNCHANGED <<bulk, src, lastId, audit, before>>
  BY DEF OpsEnd, Ready
<1>2. JobInv /\ LoadersInv /\ ContentInv /\ DoneInv /\ AuditInv /\ TrailInv
  BY DEF MigrateInv
<1>3. /\ DOMAIN job' = DOMAIN job /\ job'.pc = pc /\ job'.since = job.since
      /\ job'.copyCommits = job.copyCommits /\ job'.snapshot = job.snapshot /\ job'.base = job.base
      /\ job'.quiet = job.quiet /\ job'.left = job.left /\ job'.reading = job.reading
      /\ job'.rows = job.rows /\ job'.known = job.known /\ job'.result = result
      /\ job'.toOpen = job.toOpen
  <2>1. job' = IF job.left = {} THEN [job EXCEPT !.pc = "close", !.result = "ok"]
               ELSE [job EXCEPT !.pc = "audit"]
    BY DEF OpsEnd, Return
  <2>2. CASE job.left = {}
    BY <1>2, <2>1, <2>2 DEF JobInv
  <2>3. CASE job.left # {}
    BY <1>2, <2>1, <2>3 DEF JobInv
  <2> QED
    BY <2>2, <2>3
<1>4. \/ pc = "close" /\ result = "ok" /\ job.left = {}
      \/ pc = "audit" /\ result = job.result
  OBVIOUS
<1> HIDE DEF pc, result
<1>5. BulkInv' /\ SourceInv' /\ UNCHANGED <<db, loader, given>> /\ (Frozen' <=> Frozen)
  BY <1>1, <1>3, JobSame
<1>6. JobInv'
  BY <1>1, <1>2, <1>3, <1>4 DEF JobInv, Phases
<1>7. LoadersInv' /\ ContentInv' /\ StreamInv'
  BY <1>1, <1>2, <1>3, <1>4, <1>5 DEF LoadersInv, ContentInv, Loading, StreamInv, JobInv, Phases
<1>8. DoneInv'
  BY <1>1, <1>2, <1>3, <1>5 DEF DoneInv
<1>9. AuditInv'
  BY <1>1, <1>2, <1>3, <1>4 DEF AuditInv
<1>10. TrailInv'
  <2>1. ASSUME First'
        PROVE  \A p \in Part : TrailIs(audit[p], p, job.base, job.since, SrcPart \ job.left, {}, {})
    <3>1. First
      BY <1>1, <1>5, <2>1 DEF First
    <3>2. PICK x \in SrcPart \ job.left :
            /\ job.known = InWindow(job.base[x].commits, job.since)
            /\ \A p \in Part : TrailIs(audit[p], p, job.base, job.since,
                                      (SrcPart \ job.left) \ {x}, job.known,
                                      OpsAt(job.base[x], job.since, p) \ job.rows)
      BY <1>1, <1>2, <3>1 DEF TrailInv
    <3> DEFINE old == (SrcPart \ job.left) \ {x}
    <3>3. SrcPart \ job.left = old \cup {x}
      OBVIOUS
    <3> SUFFICES ASSUME NEW p \in Part
                 PROVE  TrailIs(audit[p], p, job.base, job.since, old \cup {x}, {}, {})
      BY <3>3
    <3>4. TrailIs(audit[p], p, job.base, job.since, old, job.known, OpsAt(job.base[x], job.since, p) \ job.rows)
      BY <3>2
    <3> HIDE DEF old
    <3> DEFINE C == CommitsOf(job.base, job.since, old, p)
               D == CommitsOf(job.base, job.since, old \cup {x}, p)
               O == OpsOf(job.base, job.since, old, p)
               Q == OpsOf(job.base, job.since, old \cup {x}, p)
               A == OpsAt(job.base[x], job.since, p)
    <3>5. D = C \cup {c \in job.known : partFor(c.label) = p} /\ Q = O \cup A
      BY <3>2, CommitsGrow, OpsGrow, SMTT(20)
    <3>6. audit[p].commits = C \cup {c \in job.known : partFor(c.label) = p} /\ audit[p].ops = SetToBag(O \cup (A \ job.rows))
      BY <3>4 DEF TrailIs
    <3> HIDE DEF C, D, O, Q, A
    <3>7. D \cup {c \in {} : partFor(c.label) = p} = D /\ Q \cup {} = O \cup (A \ job.rows)
      BY <1>1, <3>5
    <3>8. audit[p].commits = D \cup {c \in {} : partFor(c.label) = p} /\ audit[p].ops = SetToBag(Q \cup {})
      BY <3>5, <3>6, <3>7
    <3> QED
      BY <3>8 DEF TrailIs, D, Q
  <2>2. job.left = {} => SrcPart \ job.left = SrcPart
    OBVIOUS
  <2>3. job'.pc \in {"close", "audit"} /\ (job'.result = "ok" => job.left = {})
    BY <1>1, <1>2, <1>3, <1>4 DEF JobInv
  <2> QED
    BY <1>1, <1>3, <2>1, <2>2, <2>3 DEF TrailInv
<1> QED
  BY <1>5, <1>6, <1>7, <1>8, <1>9, <1>10 DEF MigrateInv

----------------------------------------------------------------------------
(* What a migration promises *)

\* The inductive invariant.
LEMMA MigrateInvariant == MSpec => []MigrateInv
<1>1. ASSUME MigrateInv, [MNext]_<<bulk, mvars>>
      PROVE  MigrateInv'
  <2>1. CASE UNCHANGED <<bulk, mvars>>
    <3>1. BulkInv' /\ UNCHANGED <<db, loader, given>> /\ UNCHANGED mvars
      BY <1>1, <2>1, BulkSame DEF MigrateInv, bulk, vars
    <3>2. UNCHANGED <<job, before>>
      BY <3>1 DEF mvars
    <3>3. LoadersInv' /\ ContentInv'
      BY <1>1, <3>1, <3>2 DEF MigrateInv, LoadersInv, ContentInv, Loading
    <3>4. \A p \in Part :
            /\ job.pc \in {"quads", "stream", "flush"} => given'[p] = given[p]
            /\ job.pc \in {"audit", "commits", "ops"} \/ job.result = "ok" => db'[p].quads = db[p].quads
      BY <3>1
    <3> QED
      BY <1>1, <3>1, <3>3, <3>4, LoadersMove
  <2>2. CASE \E x \in SrcPart, b \in SourceChoice : SourceWrite(x, b)
    BY <1>1, <2>2, SourceWriteStep
  <2>3. CASE \E s \in Since, a \in BOOLEAN, n \in BOOLEAN : Start(s, a, n)
    BY <1>1, <2>3, StartStep
  <2>4. CASE \E p \in Part : OpenLoader(p) \/ FlushLoader(p) \/ PutCommits(p) \/ PutOps(p) \/ CloseLoader(p)
    BY <1>1, <2>4, OpenLoaderStep, FlushLoaderStep, PutCommitsStep, PutOpsStep
  <2>5. CASE \E x \in SrcPart : ScanQuads(x) \/ ScanCommits(x)
    BY <1>1, <2>5, ScanQuadsStep, ScanCommitsStep
  <2>6. CASE \E q \in job.rows : job.pc = "stream" /\ StreamQuad(q)
    BY <1>1, <2>6, StreamQuadStep
  <2>7. CASE AllOpen \/ StreamEnd \/ Flushed \/ ScanOps \/ OpsEnd \/ Abort \/ End \/ Die
    BY <1>1, <2>7, AllOpenStep, StreamEndStep, FlushedStep, ScanOpsStep, OpsEndStep, AbortStep, EndStep, DieStep
  <2>8. CASE LoaderRuns
    BY <1>1, <2>8, LoaderRunsStep
  <2> QED
    BY <1>1, <2>1, <2>2, <2>3, <2>4, <2>5, <2>6, <2>7, <2>8 DEF MNext
<1> QED
  BY <1>1, MigrateInitially, PTL DEF MSpec

\* A migration that returned nil has put every selected quad into the file that
\* reads for its label go to, and nothing else anywhere, whatever failed or died
\* before it and however loaders and writers of the source were interleaved.
THEOREM CopyAlwaysComplete == MSpec => []CopyComplete
<1>1. ASSUME MigrateInv
      PROVE  CopyComplete
  <2> SUFFICES ASSUME Succeeded, NEW p \in Part
               PROVE  db[p].quads = before.quads[p]
                        \cup {q \in UNION {Selected(job.base[x], job.since) : x \in SrcPart} : partFor(q.label) = p}
    BY DEF CopyComplete
  <2>1. db[p].quads = before.quads[p] \cup {q \in Copied(job.base, job.since, SrcPart) : partFor(q.label) = p}
    BY <1>1 DEF MigrateInv, DoneInv, Succeeded
  <2> QED
    BY <2>1 DEF Copied
<1> QED
  BY <1>1, MigrateInvariant, PTL

\* A commit is in one partition, and its operations are beside it, through
\* failures, deaths, re-runs and a source that changes; and a first migration
\* that returned nil has copied every commit and every operation once.
THEOREM AuditTrailAlwaysWhole == MSpec => []AuditTrailWhole
<1>1. ASSUME MigrateInv
      PROVE  AuditTrailWhole
  <2>1. SourceInv /\ AuditInv /\ TrailInv
    BY <1>1 DEF MigrateInv
  <2>2. ASSUME NEW p \in Part
        PROVE  /\ \A o \in BagToSet(audit[p].ops) : \E c \in audit[p].commits : c.id = o.id
               /\ \A r \in Part \ {p} : \A c \in audit[p].commits : \A d \in audit[r].commits : c.id # d.id
    <3>1. \A o \in Part : \A c \in audit[o].commits : Target(c.label) = o /\ \E x \in SrcPart : c \in src[x].commits
      BY <2>1 DEF AuditInv
    <3>2. ASSUME NEW r \in Part \ {p}, NEW c \in audit[p].commits, NEW d \in audit[r].commits, c.id = d.id
          PROVE  FALSE
      <4>1. c = d
        BY <2>1, <3>1, <3>2 DEF SourceInv
      <4> QED
        BY <3>1, <4>1
    <3> QED
      BY <2>1, <3>2 DEF AuditInv
  <2> DEFINE commits == UNION {InWindow(job.base[x].commits, job.since) : x \in SrcPart}
             ops     == UNION {InWindow(job.base[x].ops, job.since) : x \in SrcPart}
             here(p) == {c \in commits : partFor(c.label) = p}
             trail(p) == {o \in ops : \E c \in here(p) : c.id = o.id}
  <2>3. ASSUME Succeeded, job.copyCommits, before.audit = [p \in Part |-> EmptyAudit], NEW p \in Part
        PROVE  audit[p].commits = here(p) /\ audit[p].ops = SetToBag(trail(p))
    <3>1. TrailIs(audit[p], p, job.base, job.since, SrcPart, {}, {})
      BY <2>1, <2>3 DEF TrailInv, Succeeded, First
    <3>2. CommitsOf(job.base, job.since, SrcPart, p) = here(p)
      BY DEF CommitsOf
    <3>3. \A o : o \in OpsOf(job.base, job.since, SrcPart, p) <=> o \in trail(p)
      <4>1. \A o : o \in OpsOf(job.base, job.since, SrcPart, p)
                     <=> \E x \in SrcPart : o \in OpsAt(job.base[x], job.since, p)
        BY DEF OpsOf
      <4>2. ASSUME NEW x \in SrcPart, NEW o \in OpsAt(job.base[x], job.since, p)
            PROVE  o \in trail(p)
        <5>1. PICK c \in InWindow(job.base[x].commits, job.since) : c.id = o.id /\ partFor(c.label) = p
          BY DEF OpsAt
        <5>2. o \in InWindow(job.base[x].ops, job.since) /\ c \in here(p)
          BY <5>1 DEF OpsAt, InWindow
        <5> QED
          BY <5>1, <5>2
      <4>3. ASSUME NEW o \in trail(p)
            PROVE  \E x \in SrcPart : o \in OpsAt(job.base[x], job.since, p)
        <5>1. PICK x \in SrcPart : o \in InWindow(job.base[x].ops, job.since)
          OBVIOUS
        <5>2. PICK c \in here(p) : c.id = o.id
          OBVIOUS
        <5>3. PICK y \in SrcPart : c \in InWindow(job.base[y].commits, job.since)
          OBVIOUS
        <5>4. PICK d \in job.base[x].commits : d.id = o.id
          BY <2>1, <5>1 DEF InWindow, SourceInv, SourceOk
        <5>5. c \in src[y].commits /\ d \in src[x].commits
          BY <2>1, <5>3, <5>4 DEF InWindow, SourceInv
        <5>6. x = y /\ c = d
          BY <2>1, <5>2, <5>4, <5>5 DEF SourceInv
        <5>7. c \in InWindow(job.base[x].commits, job.since) /\ partFor(c.label) = p /\ o \in job.base[x].ops
          BY <5>1, <5>3, <5>6 DEF InWindow
        <5> QED
          BY <5>2, <5>7 DEF OpsAt
      <4> QED
        BY <4>1, <4>2, <4>3
    <3> HIDE DEF here, trail
    <3>4. OpsOf(job.base, job.since, SrcPart, p) = trail(p)
      BY <3>3
    <3>5. here(p) \cup {c \in {} : partFor(c.label) = p} = here(p) /\ trail(p) \cup {} = trail(p)
      OBVIOUS
    <3> QED
      BY <3>1, <3>2, <3>4, <3>5 DEF TrailIs
  <2> HIDE DEF commits, ops
  <2>4. Succeeded /\ job.copyCommits /\ before.audit = [p \in Part |-> EmptyAudit] =>
          \A p \in Part : /\ audit[p].commits = {c \in commits : partFor(c.label) = p}
                         /\ audit[p].ops = SetToBag({o \in ops : \E c \in {d \in commits : partFor(d.label) = p} : c.id = o.id})
    BY <2>3
  <2> QED
    BY <2>2, <2>4 DEF AuditTrailWhole, commits, ops
<1> QED
  BY <1>1, MigrateInvariant, PTL

===============================================================================
