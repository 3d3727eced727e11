--------------------------- MODULE SessionProofs ---------------------------
(* Theorems about five small models, for every value of their constants:    *)
(* Schema, PebbleCopy, IndexTool, Clusters and MergeRuns.                   *)
EXTENDS Schema, PebbleCopy, IndexTool, Clusters, MergeRuns, Induction, FiniteSetTheorems, SequenceTheorems, TLAPS

----------------------------------------------------------------------------
(* Schema *)

Content == [objects : SUBSET AllObjects, version : {Junk} \cup Nat]

\* What migrate may have left to run: the ends of its two scripts.
Ends(script) == {SubSeq(script, i, Len(script)) : i \in 1..Len(script)}
BaseRest    == Ends(BaseScript)
UpgradeRest == Ends(UpgradeScript)
Todo        == BaseRest \cup UpgradeRest \cup {<<>>}

Config  == UNION {ConfigChoice[p] : p \in Opener}
AnyPart == UNION {{cfg.parts[i] : i \in DOMAIN cfg.parts} : cfg \in Config}

OpenCall ==
  [state : {"closed", "opening", "open"}, cfg : Config \cup {<<>>}, parts : SUBSET AnyPart,
   todo : Todo, at : Nat \ {0}]

TypeInv ==
  /\ disk \in [DbFile -> Content]
  /\ lasting \in [DbFile -> SUBSET Content]
  /\ \A f \in DbFile : disk[f] \in lasting[f]
  /\ opener \in [Opener -> OpenCall]

\* No file that a power loss may leave is marked before it has what a marked
\* file has.
MarkedInv == \A f \in DbFile : \A w \in lasting[f] : Marked(w)

\* How many partitions of its list a call has opened, the one at work included.
Opened(o) == IF o.todo = <<>> THEN 1..(o.at - 1) ELSE 1..o.at

\* An Open has the partitions of its list up to the one at work, under
\* different names.
ListInv(o) ==
  o.state # "closed" =>
    LET list == o.cfg.parts IN
    /\ o.cfg \in Config
    /\ Opened(o) \subseteq DOMAIN list
    /\ o.parts = {list[i] : i \in Opened(o)}
    /\ ~o.cfg.single => \A i, j \in Opened(o) : list[i].name = list[j].name => i = j

\* The partitions done are whole; the one at work lacks at most what the rest
\* of its script creates.
DoneInv(o, files) ==
  o.state # "closed" =>
    /\ \A i \in 1..(o.at - 1) : Whole(files[o.cfg.parts[i].file])
    /\ o.todo # <<>> =>
         LET has == files[o.cfg.parts[o.at].file].objects IN
         /\ o.todo \in BaseRest => Objects(BaseSchema) \subseteq has \cup Objects(o.todo)
         /\ o.todo \in UpgradeRest => AllObjects \subseteq has \cup Objects(o.todo)

\* An open store has been through its whole list.
OpenInv(o) ==
  o.state = "open" =>
    /\ o.todo = <<>> /\ o.at = Len(o.cfg.parts) + 1
    /\ o.cfg.single \/ \E part \in o.parts : part.name = o.cfg.default

OpeningInv == \A p \in Opener :
  ListInv(opener[p]) /\ DoneInv(opener[p], disk) /\ OpenInv(opener[p])

----------------------------------------------------------------------------

\* The configurations and the files at hand.
LEMMA ConfigTypes ==
  /\ \A cfg \in Config :
       /\ cfg.parts \in Seq(AnyPart)
       /\ cfg.single => Len(cfg.parts) = 1
       /\ \A i \in DOMAIN cfg.parts : cfg.parts[i].file \in DbFile
  /\ \A p \in Opener : ConfigChoice[p] \subseteq Config
<1>1. ASSUME NEW cfg \in Config
      PROVE  /\ cfg.parts \in Seq(AnyPart)
             /\ cfg.single => Len(cfg.parts) = 1
             /\ \A i \in DOMAIN cfg.parts : cfg.parts[i].file \in DbFile
  <2> DEFINE Name == {cfg.parts[i].name : i \in DOMAIN cfg.parts}
  <2>1. cfg.parts \in Seq([name : Name, file : DbFile]) /\ (cfg.single => Len(cfg.parts) = 1)
    BY SchemaAssumption DEF Config
  <2>2. \A i \in DOMAIN cfg.parts : cfg.parts[i] \in AnyPart
    BY DEF AnyPart
  <2> HIDE DEF Name
  <2>3. DOMAIN cfg.parts = 1..Len(cfg.parts) /\ Len(cfg.parts) \in Nat
    BY <2>1
  <2>4. cfg.parts \in [1..Len(cfg.parts) -> AnyPart]
    BY <2>1, <2>2, <2>3
  <2>5. cfg.parts \in Seq(AnyPart)
    BY <2>3, <2>4
  <2>6. \A i \in DOMAIN cfg.parts : cfg.parts[i].file \in DbFile
    <3> DEFINE Named == [name : Name, file : DbFile]
    <3>1. \A part \in Named : part.file \in DbFile
      OBVIOUS
    <3>2. cfg.parts \in Seq(Named)
      BY <2>1
    <3> HIDE DEF Named
    <3> QED
      BY <3>1, <3>2
  <2> QED
    BY <2>1, <2>5, <2>6
<1> QED
  BY <1>1 DEF Config

\* One statement after another.
LEMMA Longer ==
  ASSUME NEW S, NEW s \in Seq(S), NEW x \in S
  PROVE  /\ s \o <<x>> \in Seq(S) /\ Len(s \o <<x>>) = Len(s) + 1
         /\ \A i \in 1..Len(s) : (s \o <<x>>)[i] = s[i]
         /\ (s \o <<x>>)[Len(s) + 1] = x
<1> DEFINE t == <<x>>
<1>1. t \in Seq(S) /\ Len(t) = 1 /\ t[1] = x
  OBVIOUS
<1> HIDE DEF t
<1> DEFINE st == s \o t
<1>2. /\ st \in Seq(S) /\ Len(st) = Len(s) + Len(t)
      /\ \A i \in 1 .. Len(s) + Len(t) : st[i] = IF i <= Len(s) THEN s[i] ELSE t[i - Len(s)]
  BY <1>1, ConcatProperties
<1> HIDE DEF st
<1>3. /\ st \in Seq(S) /\ Len(st) = Len(s) + 1
      /\ \A i \in 1..Len(s) : st[i] = s[i]
      /\ st[Len(s) + 1] = x
  BY <1>1, <1>2
<1> QED
  BY <1>3 DEF st, t

\* An end of a script: its first statement, and what is left after that one.
LEMMA EndOfScript ==
  ASSUME NEW S, NEW s \in Seq(S), NEW i \in 1..Len(s)
  PROVE  LET e == SubSeq(s, i, Len(s)) IN
         /\ e \in Seq(S) /\ e # <<>> /\ Head(e) = s[i] /\ e[Len(e)] = s[Len(s)]
         /\ Objects(e) = {s[j] : j \in i..Len(s)}
         /\ i = Len(s) => e = <<s[i]>> /\ Tail(e) = <<>>
         /\ i < Len(s) => Tail(e) = SubSeq(s, i + 1, Len(s))
<1> DEFINE n == Len(s)
           e == SubSeq(s, i, n)
<1>1. n \in Nat /\ i \in 1..n /\ i \in Nat \ {0} /\ DOMAIN s = 1..n
  OBVIOUS
<1> HIDE DEF n
<1>2. /\ e \in Seq(S) /\ Len(e) = n - i + 1 /\ DOMAIN e = 1..(n - i + 1)
      /\ \A j \in 1..(n - i + 1) : e[j] = s[i + j - 1]
  BY <1>1, SubSeqProperties
<1> HIDE DEF e
<1>3. Len(e) \in Nat \ {0}
  BY <1>1, <1>2
<1>4. e # <<>> /\ Head(e) = s[i] /\ e[Len(e)] = s[n]
  BY <1>1, <1>2, <1>3
<1>5. Objects(e) = {s[j] : j \in i..n}
  <2>1. ASSUME NEW j \in i..n
        PROVE  j - i + 1 \in 1..(n - i + 1) /\ e[j - i + 1] = s[j]
    BY <1>1, <1>2
  <2>2. ASSUME NEW k \in 1..(n - i + 1)
        PROVE  i + k - 1 \in i..n /\ e[k] = s[i + k - 1]
    BY <1>1, <1>2
  <2>3. Objects(e) = {e[k] : k \in 1..(n - i + 1)}
    BY <1>2 DEF Objects
  <2> DEFINE all  == i..n
             here == 1..(n - i + 1)
  <2>4. /\ \A j \in all : \E k \in here : e[k] = s[j]
        /\ \A k \in here : \E j \in all : e[k] = s[j]
    BY <2>1, <2>2
  <2>5. Objects(e) = {e[k] : k \in here}
    BY <2>3
  <2> HIDE DEF all, here, e
  <2>6. Objects(e) = {s[j] : j \in all}
    BY <2>4, <2>5
  <2> QED
    BY <2>6 DEF all
<1>6. ASSUME i = n
      PROVE  e = <<s[i]>> /\ Tail(e) = <<>>
  <2>1. Len(e) = 1 /\ e[1] = s[i] /\ e \in Seq(S) /\ e # <<>> /\ s[i] \in S
    BY <1>1, <1>2, <1>4, <1>6
  <2> DEFINE x == s[i]
             one == <<x>>
             t == Tail(e)
  <2>2. t \in Seq(S) /\ Len(t) = 0
    BY <2>1, HeadTailProperties
  <2>3. one \in Seq(S) /\ Len(one) = 1 /\ one[1] = x
    BY <2>1
  <2> HIDE DEF t, one, x
  <2>4. e = one
    BY <2>1, <2>3, SeqEqual DEF x
  <2>5. t = <<>>
    BY <2>2, EmptySeq
  <2> QED
    BY <2>4, <2>5 DEF t, one, x
<1>7. ASSUME i < n
      PROVE  Tail(e) = SubSeq(s, i + 1, n)
  <2> DEFINE t == Tail(e)
             u == SubSeq(s, i + 1, n)
             k == i + 1
  <2>1. t \in Seq(S) /\ Len(t) = n - i /\ \A j \in 1..(n - i) : t[j] = s[i + j]
    <3>1. t \in Seq(S) /\ Len(t) = Len(e) - 1 /\ \A j \in 1..(Len(e) - 1) : t[j] = e[j + 1]
      BY <1>2, <1>3, <1>4, HeadTailProperties
    <3> HIDE DEF t
    <3> QED
      BY <1>1, <1>2, <3>1
  <2>2. k \in 1..n /\ k = i + 1
    BY <1>1, <1>7
  <2> HIDE DEF t, k
  <2> DEFINE w == SubSeq(s, k, n)
  <2>3. /\ w \in Seq(S) /\ Len(w) = n - k + 1
        /\ \A j \in 1..(n - k + 1) : w[j] = s[k + j - 1]
    BY <1>1, <2>2, SubSeqProperties
  <2> HIDE DEF w
  <2>4. Len(w) = Len(t) /\ \A j \in 1..Len(t) : t[j] = w[j]
    BY <1>1, <2>1, <2>2, <2>3
  <2>5. t = w
    BY <2>1, <2>3, <2>4, SeqEqual
  <2> QED
    BY <2>2, <2>5 DEF t, w
<1> QED
  BY <1>2, <1>4, <1>5, <1>6, <1>7 DEF e, n

\* The two scripts, statement by statement.
Statement == AllObjects \cup {"readSchemaVersion", "writeSchemaVersion"}

LEMMA TheScripts ==
  /\ AllObjects = Objects(BaseSchema) \cup Objects(JournalSchema)
  /\ "readSchemaVersion" \notin AllObjects /\ "writeSchemaVersion" \notin AllObjects
  /\ BulkIndexes \subseteq Objects(BaseSchema)
  /\ BaseScript \in Seq(Statement) /\ UpgradeScript \in Seq(Statement)
  /\ Len(BaseScript) \in Nat \ {0} /\ Len(UpgradeScript) \in Nat \ {0}
  /\ \A i \in 1..Len(BaseScript) :
       IF i = Len(BaseScript) THEN BaseScript[i] = "readSchemaVersion" ELSE BaseScript[i] \in AllObjects
  /\ \A i \in 1..Len(UpgradeScript) :
       IF i = Len(UpgradeScript) THEN UpgradeScript[i] = "writeSchemaVersion" ELSE UpgradeScript[i] \in AllObjects
  /\ Objects(BaseSchema) \subseteq {BaseScript[i] : i \in 1..Len(BaseScript)}
  /\ Objects(JournalSchema) \subseteq {UpgradeScript[i] : i \in 1..Len(UpgradeScript)}
<1> DEFINE B == BaseSchema
           J == JournalSchema
<1>1. AllObjects = Objects(B) \cup Objects(J)
  BY DEF AllObjects
<1>2. "readSchemaVersion" \notin AllObjects /\ "writeSchemaVersion" \notin AllObjects
  BY DEF AllObjects, Objects, BaseSchema, JournalSchema
<1>3. BulkIndexes \subseteq Objects(B)
  <2>1. 3 \in DOMAIN B /\ 4 \in DOMAIN B /\ 5 \in DOMAIN B
    BY DEF BaseSchema
  <2>2. B[3] = "idx_pos" /\ B[4] = "idx_osp" /\ B[5] = "idx_lsp"
    BY DEF BaseSchema
  <2> QED
    BY <2>1, <2>2 DEF BulkIndexes, Objects
<1>4. B \in Seq(Objects(B)) /\ J \in Seq(Objects(J))
  BY DEF BaseSchema, JournalSchema, Objects
<1>5. B \in Seq(Statement) /\ J \in Seq(Statement)
  BY <1>1, <1>4 DEF Statement
<1>6. Len(B) \in Nat /\ Len(J) \in Nat /\ DOMAIN B = 1..Len(B) /\ DOMAIN J = 1..Len(J)
  BY <1>4
<1>7. \A i \in 1..Len(B) : B[i] \in AllObjects
  BY <1>1, <1>6 DEF Objects
<1>8. \A i \in 1..Len(J) : J[i] \in AllObjects
  BY <1>1, <1>6 DEF Objects
<1>9. "readSchemaVersion" \in Statement /\ "writeSchemaVersion" \in Statement
  BY DEF Statement
<1> HIDE DEF B, J
<1>10. /\ BaseScript = B \o <<"readSchemaVersion">>
       /\ UpgradeScript = J \o <<"writeSchemaVersion">>
  BY DEF BaseScript, UpgradeScript, B, J
<1>11. /\ BaseScript \in Seq(Statement) /\ Len(BaseScript) = Len(B) + 1
       /\ \A i \in 1..Len(B) : BaseScript[i] = B[i]
       /\ BaseScript[Len(B) + 1] = "readSchemaVersion"
  BY <1>5, <1>9, <1>10, Longer
<1>12. /\ UpgradeScript \in Seq(Statement) /\ Len(UpgradeScript) = Len(J) + 1
       /\ \A i \in 1..Len(J) : UpgradeScript[i] = J[i]
       /\ UpgradeScript[Len(J) + 1] = "writeSchemaVersion"
  BY <1>5, <1>9, <1>10, Longer
<1>13. /\ \A i \in 1..Len(BaseScript) :
            IF i = Len(BaseScript) THEN BaseScript[i] = "readSchemaVersion" ELSE BaseScript[i] \in AllObjects
       /\ Objects(B) \subseteq {BaseScript[i] : i \in 1..Len(BaseScript)}
       /\ Len(BaseScript) \in Nat \ {0}
  BY <1>6, <1>7, <1>11 DEF Objects
<1>14. /\ \A i \in 1..Len(UpgradeScript) :
            IF i = Len(UpgradeScript) THEN UpgradeScript[i] = "writeSchemaVersion" ELSE UpgradeScript[i] \in AllObjects
       /\ Objects(J) \subseteq {UpgradeScript[i] : i \in 1..Len(UpgradeScript)}
       /\ Len(UpgradeScript) \in Nat \ {0}
  BY <1>6, <1>8, <1>12 DEF Objects
<1> QED
  BY <1>1, <1>2, <1>3, <1>11, <1>12, <1>13, <1>14 DEF B, J

\* What is left after the first statement of what is left.
LEMMA Rest ==
  ASSUME NEW todo \in Todo, todo # <<>>
  PROVE  /\ Head(todo) = "readSchemaVersion" => todo = <<"readSchemaVersion">>
         /\ Head(todo) = "writeSchemaVersion" => todo = <<"writeSchemaVersion">> /\ Tail(todo) = <<>>
         /\ Head(todo) \in AllObjects =>
              /\ Tail(todo) \in Todo \ {<<>>}
              /\ todo \in BaseRest <=> Tail(todo) \in BaseRest
              /\ todo \in UpgradeRest <=> Tail(todo) \in UpgradeRest
              /\ Objects(todo) = {Head(todo)} \cup Objects(Tail(todo))
<1> DEFINE Follows(s, last, e) ==
             /\ Head(e) = last => e = <<last>> /\ Tail(e) = <<>>
             /\ Head(e) # last =>
                  Tail(e) \in Ends(s) /\ Objects(e) = {Head(e)} \cup Objects(Tail(e))
             /\ Head(e) \in AllObjects \cup {last} /\ e # <<>> /\ e[Len(e)] = last
<1>1. ASSUME NEW s \in Seq(Statement), NEW last, last \notin AllObjects, NEW e \in Ends(s),
             \A i \in 1..Len(s) : IF i = Len(s) THEN s[i] = last ELSE s[i] \in AllObjects
      PROVE  Follows(s, last, e)
  <2> DEFINE n == Len(s)
  <2>1. PICK i \in 1..n : e = SubSeq(s, i, n)
    BY DEF Ends
  <2>2. n \in Nat /\ i \in Nat /\ i <= n /\ i >= 1
    BY <2>1
  <2>3. /\ e # <<>> /\ Head(e) = s[i] /\ e[Len(e)] = s[n]
        /\ Objects(e) = {s[j] : j \in i..n}
        /\ i = n => e = <<s[i]>> /\ Tail(e) = <<>>
        /\ i < n => Tail(e) = SubSeq(s, i + 1, n)
    BY <2>1, EndOfScript
  <2>4. CASE i = n
    <3>1. s[i] = last /\ s[n] = last
      BY <1>1, <2>1, <2>4
    <3> QED
      BY <2>3, <2>4, <3>1
  <2>5. CASE i < n
    <3>1. s[i] \in AllObjects /\ s[n] = last
      BY <1>1, <2>1, <2>2, <2>5
    <3>2. i + 1 \in 1..n
      BY <2>2, <2>5
    <3>3. Tail(e) \in Ends(s)
      BY <2>3, <2>5, <3>2 DEF Ends
    <3>4. Objects(SubSeq(s, i + 1, n)) = {s[j] : j \in (i + 1)..n}
      BY <3>2, EndOfScript
    <3>5. i..n = {i} \cup ((i + 1)..n)
      BY <2>2
    <3>6. Objects(e) = {s[i]} \cup Objects(Tail(e))
      <4> DEFINE all  == i..n
                 rest == (i + 1)..n
      <4>1. Objects(e) = {s[j] : j \in all} /\ Objects(Tail(e)) = {s[j] : j \in rest} /\ all = {i} \cup rest
        BY <2>3, <2>5, <3>4, <3>5
      <4> HIDE DEF all, rest, n
      <4> QED
        BY <4>1
    <3> QED
      BY <1>1, <2>3, <3>1, <3>3, <3>6
  <2> QED
    BY <2>2, <2>4, <2>5
<1>2. ASSUME NEW e \in BaseRest
      PROVE  Follows(BaseScript, "readSchemaVersion", e)
  BY <1>1, <1>2, TheScripts DEF BaseRest
<1>3. ASSUME NEW e \in UpgradeRest
      PROVE  Follows(UpgradeScript, "writeSchemaVersion", e)
  BY <1>1, <1>3, TheScripts DEF UpgradeRest
<1>4. \A e \in BaseRest : e \notin UpgradeRest /\ e # <<>>
  BY <1>2, <1>3
<1>5. \A e \in UpgradeRest : e # <<>>
  BY <1>3
<1>6. CASE todo \in BaseRest
  BY <1>2, <1>4, <1>6, TheScripts DEF BaseRest, Todo
<1>7. CASE todo \in UpgradeRest
  BY <1>3, <1>4, <1>5, <1>7, TheScripts DEF UpgradeRest, Todo
<1> QED
  BY <1>6, <1>7 DEF Todo

\* The scripts begin with what their parts create, and end without creating.
LEMMA Scripts ==
  /\ BaseScript \in BaseRest /\ UpgradeScript \in UpgradeRest
  /\ BaseRest \cap UpgradeRest = {} /\ <<>> \notin BaseRest \cup UpgradeRest
  /\ Objects(BaseSchema) \subseteq Objects(BaseScript)
  /\ AllObjects \subseteq Objects(BaseSchema) \cup Objects(UpgradeScript)
  /\ AllObjects \cap Objects(<<"readSchemaVersion">>) = {}
  /\ AllObjects \cap Objects(<<"writeSchemaVersion">>) = {}
  /\ <<"readSchemaVersion">> \in BaseRest /\ <<"writeSchemaVersion">> \in UpgradeRest
  /\ BulkIndexes \subseteq Objects(BaseSchema)
<1>1. ASSUME NEW s \in Seq(Statement), Len(s) \in Nat \ {0}
      PROVE  /\ s \in Ends(s) /\ <<s[Len(s)]>> \in Ends(s) /\ <<>> \notin Ends(s)
             /\ \A e \in Ends(s) : e[Len(e)] = s[Len(s)]
             /\ Objects(s) = {s[i] : i \in 1..Len(s)}
  <2> DEFINE n == Len(s)
  <2>1. n \in Nat /\ 1 \in 1..n /\ n \in 1..n /\ DOMAIN s = 1..n
    BY <1>1
  <2>2. s = SubSeq(s, 1, n)
    <3> DEFINE e == SubSeq(s, 1, n)
    <3>1. e \in Seq(Statement) /\ Len(e) = n /\ \A j \in 1..n : e[j] = s[j]
      BY <2>1, SubSeqProperties
    <3> HIDE DEF e
    <3>2. s = e
      BY <3>1, SeqEqual
    <3> QED
      BY <3>2 DEF e
  <2>3. <<s[n]>> = SubSeq(s, n, n)
    BY <2>1, EndOfScript
  <2>4. \A i \in 1..n : SubSeq(s, i, n) # <<>> /\ SubSeq(s, i, n)[Len(SubSeq(s, i, n))] = s[n]
    BY EndOfScript
  <2>5. s \in Ends(s) /\ <<s[n]>> \in Ends(s)
    BY <2>1, <2>2, <2>3 DEF Ends
  <2>6. <<>> \notin Ends(s) /\ \A e \in Ends(s) : e[Len(e)] = s[n]
    BY <2>4 DEF Ends
  <2>7. Objects(s) = {s[i] : i \in 1..n}
    BY <2>1 DEF Objects
  <2> QED
    BY <2>5, <2>6, <2>7
<1>2. /\ BaseScript \in Ends(BaseScript) /\ <<BaseScript[Len(BaseScript)]>> \in Ends(BaseScript)
      /\ <<>> \notin Ends(BaseScript)
      /\ \A e \in Ends(BaseScript) : e[Len(e)] = BaseScript[Len(BaseScript)]
      /\ Objects(BaseScript) = {BaseScript[i] : i \in 1..Len(BaseScript)}
  BY <1>1, TheScripts
<1>3. /\ UpgradeScript \in Ends(UpgradeScript) /\ <<UpgradeScript[Len(UpgradeScript)]>> \in Ends(UpgradeScript)
      /\ <<>> \notin Ends(UpgradeScript)
      /\ \A e \in Ends(UpgradeScript) : e[Len(e)] = UpgradeScript[Len(UpgradeScript)]
      /\ Objects(UpgradeScript) = {UpgradeScript[i] : i \in 1..Len(UpgradeScript)}
  BY <1>1, TheScripts
<1>4. /\ BaseScript[Len(BaseScript)] = "readSchemaVersion"
      /\ UpgradeScript[Len(UpgradeScript)] = "writeSchemaVersion"
  BY TheScripts
<1>5. Objects(<<"readSchemaVersion">>) = {"readSchemaVersion"} /\ Objects(<<"writeSchemaVersion">>) = {"writeSchemaVersion"}
  BY DEF Objects
<1>6. BaseRest \cap UpgradeRest = {}
  BY <1>2, <1>3, <1>4 DEF BaseRest, UpgradeRest
<1> QED
  BY <1>2, <1>3, <1>4, <1>5, <1>6, TheScripts DEF BaseRest, UpgradeRest

\* A statement changes one file, and a file only gains objects.
LEMMA Changed ==
  ASSUME TypeInv, MarkedInv, NEW f \in DbFile, NEW new \in Content, Change(f, new),
         disk[f].objects \subseteq new.objects, Whole(disk[f]) => Whole(new),
         Marked(new)
  PROVE  /\ disk' \in [DbFile -> Content] /\ lasting' \in [DbFile -> SUBSET Content]
         /\ \A g \in DbFile : disk'[g] \in lasting'[g]
         /\ MarkedInv'
         /\ \A g \in DbFile : disk[g].objects \subseteq disk'[g].objects
         /\ \A g \in DbFile : Whole(disk[g]) => Whole(disk'[g])
<1> USE DEF TypeInv, Change
<1>1. \A g \in DbFile : disk'[g] = IF g = f THEN new ELSE disk[g]
  OBVIOUS
<1>2. \A g \in DbFile : lasting'[g] = IF g = f THEN lasting[f] \cup {new} ELSE lasting[g]
  OBVIOUS
<1>3. MarkedInv'
  BY <1>2 DEF MarkedInv
<1>4. \A g \in DbFile : disk'[g] \in lasting'[g]
  BY <1>1, <1>2
<1>5. disk' \in [DbFile -> Content] /\ lasting' \in [DbFile -> SUBSET Content]
  OBVIOUS
<1> QED
  BY <1>1, <1>3, <1>4, <1>5

\* A call keeps what is true of it while files only gain.
LEMMA OthersGain ==
  ASSUME NEW o \in OpenCall, NEW files \in [DbFile -> Content], NEW later \in [DbFile -> Content],
         ListInv(o), DoneInv(o, files),
         \A f \in DbFile : files[f].objects \subseteq later[f].objects,
         \A f \in DbFile : Whole(files[f]) => Whole(later[f])
  PROVE  DoneInv(o, later)
<1> SUFFICES ASSUME o.state # "closed"
             PROVE  DoneInv(o, later)
  BY DEF DoneInv
<1>1. o.at \in Nat \ {0} /\ o.cfg \in Config /\ Opened(o) \subseteq DOMAIN o.cfg.parts
  BY DEF OpenCall, ListInv
<1>2. \A i \in Opened(o) : o.cfg.parts[i].file \in DbFile
  BY <1>1, ConfigTypes
<1>3. \A i \in 1..(o.at - 1) : Whole(later[o.cfg.parts[i].file])
  BY <1>1, <1>2 DEF Opened, DoneInv
<1>4. ASSUME o.todo # <<>>
      PROVE  files[o.cfg.parts[o.at].file].objects \subseteq later[o.cfg.parts[o.at].file].objects
  BY <1>1, <1>2, <1>4 DEF Opened
<1> QED
  BY <1>3, <1>4 DEF DoneInv

Good(o, files) == ListInv(o) /\ DoneInv(o, files) /\ OpenInv(o)

\* What a step of process p has to show of its call.
Turns(p, o) ==
  /\ opener' \in [Opener -> OpenCall]
  /\ opener'[p] = o
  /\ \A q \in Opener \ {p} : opener'[q] = opener[q]

\* Giving up leaves a closed call, of which nothing is required.
LEMMA GivenUp ==
  ASSUME TypeInv, NEW p \in Opener, GiveUp(p)
  PROVE  Turns(p, Closed) /\ Good(Closed, disk')
<1>1. Closed \in OpenCall /\ Closed.state = "closed"
  BY DEF Closed, OpenCall, Todo
<1>2. Turns(p, Closed)
  BY <1>1 DEF Turns, GiveUp, TypeInv
<1> QED
  BY <1>1, <1>2 DEF Good, ListInv, DoneInv, OpenInv

\* A call that begins has opened nothing.
LEMMA Called ==
  ASSUME TypeInv, NEW p \in Opener, CallOpen(p)
  PROVE  \E o : Turns(p, o) /\ Good(o, disk')
<1>1. PICK cfg \in ConfigChoice[p] :
         opener' = [opener EXCEPT ![p] = [Closed EXCEPT !.state = "opening", !.cfg = cfg]]
  BY DEF CallOpen
<1> DEFINE o == [Closed EXCEPT !.state = "opening", !.cfg = cfg]
<1>2. cfg \in Config
  BY ConfigTypes
<1>9. Closed \in OpenCall /\ Closed.parts = {} /\ Closed.todo = <<>> /\ Closed.at = 1
  BY DEF Closed, OpenCall, Todo
<1>3. /\ o \in OpenCall /\ o.state = "opening" /\ o.cfg = cfg /\ o.parts = {}
      /\ o.todo = <<>> /\ o.at = 1
  BY <1>2, <1>9 DEF OpenCall
<1> HIDE DEF o
<1>4. opener' = [opener EXCEPT ![p] = o]
  BY <1>1 DEF o
<1>5. Turns(p, o)
  BY <1>3, <1>4 DEF Turns, TypeInv
<1>6. Opened(o) = {}
  BY <1>3 DEF Opened
<1>7. ListInv(o)
  BY <1>2, <1>3, <1>6 DEF ListInv
<1>8. DoneInv(o, disk') /\ OpenInv(o)
  BY <1>3 DEF DoneInv, OpenInv
<1> QED
  BY <1>5, <1>7, <1>8 DEF Good

\* The next partition has a name of its own, and all of the base script to run.
LEMMA NextPartition ==
  ASSUME TypeInv, OpeningInv, NEW p \in Opener, OpenPartition(p)
  PROVE  \E o : Turns(p, o) /\ Good(o, disk')
<1> DEFINE c == opener[p]
<1>1. c \in OpenCall /\ ListInv(c) /\ DoneInv(c, disk) /\ OpenInv(c)
  BY DEF TypeInv, OpeningInv
<1>2. CASE NameRefused(p)
  BY <1>2, GivenUp DEF OpenPartition
<1>3. CASE ~NameRefused(p)
  <2> DEFINE part == c.cfg.parts[c.at]
             o == [c EXCEPT !.parts = @ \cup {part}, !.todo = BaseScript]
  <2>1. /\ c.state = "opening" /\ c.todo = <<>> /\ c.at <= Len(c.cfg.parts)
        /\ c.cfg \in Config /\ c.at \in Nat \ {0} /\ c.parts \in SUBSET AnyPart
    BY <1>1 DEF OpenPartition, Opening, ListInv, OpenCall
  <2>2. c.cfg.parts \in Seq(AnyPart) /\ c.at \in DOMAIN c.cfg.parts /\ part \in AnyPart
    BY <2>1, ConfigTypes
  <2>3. /\ o \in OpenCall /\ o.state = "opening" /\ o.cfg = c.cfg /\ o.parts = c.parts \cup {part}
        /\ o.todo = BaseScript /\ o.at = c.at
    BY <1>1, <2>1, <2>2, Scripts DEF OpenCall, Todo
  <2>4. opener' = [opener EXCEPT ![p] = o]
    BY <1>3 DEF OpenPartition, PartSpec
  <2> HIDE DEF o
  <2>5. Turns(p, o)
    BY <2>3, <2>4 DEF Turns, TypeInv
  <2>6. Opened(o) = Opened(c) \cup {c.at} /\ Opened(c) = 1..(c.at - 1) /\ Opened(o) = 1..c.at
    BY <2>1, <2>3, Scripts DEF Opened
  <2>7. /\ Opened(o) \subseteq DOMAIN c.cfg.parts
        /\ o.parts = {c.cfg.parts[i] : i \in Opened(o)}
    BY <1>1, <2>1, <2>2, <2>3, <2>6 DEF ListInv
  <2>8. ASSUME ~c.cfg.single, NEW i \in Opened(o), NEW j \in Opened(o),
               c.cfg.parts[i].name = c.cfg.parts[j].name
        PROVE  i = j
    <3>1. \A k \in Opened(c) : c.cfg.parts[k].name # part.name
      BY <1>1, <1>3, <2>1, <2>8 DEF NameRefused, PartSpec, ListInv
    <3>2. \A k, l \in Opened(c) : c.cfg.parts[k].name = c.cfg.parts[l].name => k = l
      BY <1>1, <2>1, <2>8 DEF ListInv
    <3> QED
      BY <2>6, <2>8, <3>1, <3>2
  <2>9. ListInv(o)
    BY <2>1, <2>3, <2>7, <2>8 DEF ListInv
  <2>10. DoneInv(o, disk')
    BY <1>1, <2>1, <2>3, Scripts DEF DoneInv, OpenPartition, UnchangedDisk
  <2>11. OpenInv(o)
    BY <2>3 DEF OpenInv
  <2> QED
    BY <2>5, <2>9, <2>10, <2>11 DEF Good
<1> QED
  BY <1>2, <1>3

\* The call goes on with another script, or with the next partition when the
\* one at work is whole.
LEMMA Proceeded ==
  ASSUME TypeInv, OpeningInv, NEW p \in Opener, Opening(p, TRUE), NEW todo \in Todo, Proceed(p, todo),
         disk' \in [DbFile -> Content],
         \A g \in DbFile : disk[g].objects \subseteq disk'[g].objects,
         \A g \in DbFile : Whole(disk[g]) => Whole(disk'[g]),
         todo = <<>> => Whole(disk'[PartSpec(p).file]),
         todo \in BaseRest => Objects(BaseSchema) \subseteq disk'[PartSpec(p).file].objects \cup Objects(todo),
         todo \in UpgradeRest => AllObjects \subseteq disk'[PartSpec(p).file].objects \cup Objects(todo)
  PROVE  \E o : Turns(p, o) /\ Good(o, disk')
<1> DEFINE c == opener[p]
           n == IF todo = <<>> THEN c.at + 1 ELSE c.at
           o == [c EXCEPT !.todo = todo, !.at = n]
<1>1. /\ c \in OpenCall /\ ListInv(c) /\ DoneInv(c, disk) /\ OpenInv(c)
      /\ c.state = "opening" /\ c.todo # <<>> /\ c.at \in Nat \ {0} /\ c.cfg \in Config
  BY DEF TypeInv, OpeningInv, Opening, OpenCall, ListInv
<1>2. n \in Nat \ {0}
  BY <1>1
<1>3. opener' = [opener EXCEPT ![p] = o]
  BY DEF Proceed
<1> HIDE DEF n
<1>4. /\ o \in OpenCall /\ o.state = "opening" /\ o.cfg = c.cfg /\ o.parts = c.parts
      /\ o.todo = todo /\ o.at = n
  BY <1>1, <1>2 DEF OpenCall
<1> HIDE DEF o
<1>5. Turns(p, o)
  BY <1>3, <1>4 DEF Turns, TypeInv
<1>6. Opened(o) = Opened(c) /\ Opened(c) = 1..c.at
  BY <1>1, <1>4 DEF Opened, n
<1>7. ListInv(o)
  BY <1>1, <1>4, <1>6 DEF ListInv
<1>8. DoneInv(c, disk')
  BY <1>1, OthersGain DEF TypeInv
<1>9. \A i \in 1..(n - 1) : Whole(disk'[c.cfg.parts[i].file])
  <2>1. \A i \in 1..(c.at - 1) : Whole(disk'[c.cfg.parts[i].file])
    BY <1>1, <1>8 DEF DoneInv
  <2>2. todo = <<>> => Whole(disk'[c.cfg.parts[c.at].file])
    BY DEF PartSpec
  <2>3. CASE todo = <<>>
    <3>1. n = c.at + 1 /\ c.at \in Nat \ {0}
      BY <1>1, <2>3 DEF n
    <3> DEFINE W(i) == Whole(disk'[c.cfg.parts[i].file])
               k == c.at
    <3>2. (\A i \in 1..(k - 1) : W(i)) /\ W(k)
      BY <2>1, <2>2, <2>3
    <3> HIDE DEF W
    <3>3. k \in Nat \ {0} /\ n - 1 = k
      BY <3>1
    <3> HIDE DEF k
    <3>4. ASSUME NEW i \in 1..(n - 1) PROVE W(i)
      <4>1. i \in 1..(k - 1) \/ i = k
        BY <3>3
      <4> QED
        BY <3>2, <4>1
    <3> QED
      BY <3>4 DEF W
  <2>4. CASE todo # <<>>
    BY <1>1, <2>1, <2>4 DEF n
  <2> QED
    BY <2>3, <2>4
<1>10. DoneInv(o, disk')
  BY <1>4, <1>9 DEF DoneInv, PartSpec, n
<1>11. OpenInv(o)
  BY <1>4 DEF OpenInv
<1> QED
  BY <1>5, <1>7, <1>10, <1>11 DEF Good

\* The partition at work is on one of the files.
LEMMA AtWork ==
  ASSUME TypeInv, OpeningInv, NEW p \in Opener, Opening(p, TRUE)
  PROVE  /\ PartSpec(p).file \in DbFile /\ opener[p].todo \in Todo \ {<<>>}
         /\ LET has == disk[PartSpec(p).file].objects
                todo == opener[p].todo
            IN /\ todo \in BaseRest => Objects(BaseSchema) \subseteq has \cup Objects(todo)
               /\ todo \in UpgradeRest => AllObjects \subseteq has \cup Objects(todo)
<1> DEFINE c == opener[p]
<1>1. /\ c \in OpenCall /\ ListInv(c) /\ DoneInv(c, disk) /\ c.state = "opening" /\ c.todo # <<>>
      /\ c.at \in Nat \ {0} /\ c.todo \in Todo
  BY DEF TypeInv, OpeningInv, Opening, OpenCall
<1>2. c.at \in DOMAIN c.cfg.parts /\ c.cfg \in Config
  BY <1>1 DEF ListInv, Opened
<1>3. PartSpec(p).file \in DbFile
  BY <1>2, ConfigTypes DEF PartSpec
<1> QED
  BY <1>1, <1>3 DEF DoneInv, PartSpec

\* CREATE ... IF NOT EXISTS takes an object from the rest of the script to the file.
LEMMA Created ==
  ASSUME TypeInv, MarkedInv, OpeningInv, NEW p \in Opener, Create(p)
  PROVE  /\ disk' \in [DbFile -> Content] /\ lasting' \in [DbFile -> SUBSET Content]
         /\ \A g \in DbFile : disk'[g] \in lasting'[g]
         /\ MarkedInv'
         /\ \A g \in DbFile : disk[g].objects \subseteq disk'[g].objects
         /\ \A g \in DbFile : Whole(disk[g]) => Whole(disk'[g])
         /\ \E o : Turns(p, o) /\ Good(o, disk')
<1> DEFINE f == PartSpec(p).file
           todo == opener[p].todo
           object == Head(todo)
           new == [disk[f] EXCEPT !.objects = @ \cup {object}]
<1>1. Opening(p, TRUE) /\ object \in AllObjects /\ Change(f, new) /\ Proceed(p, Tail(todo))
  BY DEF Create
<1>2. f \in DbFile /\ todo \in Todo /\ todo # <<>> /\ disk[f] \in Content
  BY <1>1, AtWork DEF TypeInv
<1>3. /\ new \in Content /\ new.objects = disk[f].objects \cup {object}
      /\ new.version = disk[f].version
  BY <1>1, <1>2 DEF Content
<1>4. Whole(disk[f]) => Whole(new)
  BY <1>3 DEF Whole
<1>5. Marked(new)
  BY <1>2, <1>3 DEF Marked, MarkedInv, TypeInv
<1> HIDE DEF new
<1>6. disk'[f] = new
  BY <1>1, <1>2 DEF Change, TypeInv
<1>7. /\ disk' \in [DbFile -> Content] /\ lasting' \in [DbFile -> SUBSET Content]
      /\ \A g \in DbFile : disk'[g] \in lasting'[g]
      /\ MarkedInv'
      /\ \A g \in DbFile : disk[g].objects \subseteq disk'[g].objects
      /\ \A g \in DbFile : Whole(disk[g]) => Whole(disk'[g])
  BY <1>1, <1>2, <1>3, <1>4, <1>5, Changed
<1>8. /\ Tail(todo) \in Todo /\ Tail(todo) # <<>>
      /\ todo \in BaseRest <=> Tail(todo) \in BaseRest
      /\ todo \in UpgradeRest <=> Tail(todo) \in UpgradeRest
      /\ Objects(todo) = {object} \cup Objects(Tail(todo))
  BY <1>1, <1>2, Rest
<1>9. /\ Tail(todo) \in BaseRest => Objects(BaseSchema) \subseteq disk'[f].objects \cup Objects(Tail(todo))
      /\ Tail(todo) \in UpgradeRest => AllObjects \subseteq disk'[f].objects \cup Objects(Tail(todo))
  BY <1>1, <1>3, <1>6, <1>8, AtWork
<1>10. \E o : Turns(p, o) /\ Good(o, disk')
  BY <1>1, <1>7, <1>8, <1>9, Proceeded
<1> QED
  BY <1>7, <1>10

\* A file of version 2 is done, its dropped indexes are there again; an older
\* one has the base schema and is to be upgraded.
LEMMA ReadVersion ==
  ASSUME TypeInv, MarkedInv, OpeningInv, NEW p \in Opener, ReadSchemaVersion(p)
  PROVE  \E o : Turns(p, o) /\ Good(o, disk')
<1> DEFINE f == PartSpec(p).file
           todo == opener[p].todo
           version == disk[f].version
<1>1. Opening(p, TRUE) /\ disk' = disk /\ Head(todo) = "readSchemaVersion"
  BY DEF ReadSchemaVersion, UnchangedDisk
<1>2. f \in DbFile /\ todo = <<"readSchemaVersion">> /\ disk[f] \in Content
  BY <1>1, AtWork, Rest DEF TypeInv
<1>3. Objects(BaseSchema) \subseteq disk[f].objects
  BY <1>1, <1>2, AtWork, Scripts DEF AllObjects
<1>4. CASE GiveUp(p)
  BY <1>4, GivenUp
<1>5. CASE version < 2 /\ version \in Nat /\ Proceed(p, UpgradeScript)
  <2>1. AllObjects \subseteq disk'[f].objects \cup Objects(UpgradeScript)
    BY <1>1, <1>3, Scripts
  <2>2. UpgradeScript \in Todo /\ UpgradeScript # <<>> /\ UpgradeScript \notin BaseRest
    BY Scripts DEF Todo
  <2> QED
    BY <1>1, <1>5, <2>1, <2>2, Proceeded DEF TypeInv
<1>6. CASE version = 2 /\ Proceed(p, <<>>)
  <2>1. Whole(disk'[f])
    BY <1>1, <1>2, <1>3, <1>6, Scripts DEF MarkedInv, TypeInv, currentSchemaVersion, Marked, Whole
  <2> QED
    BY <1>1, <1>6, <2>1, Scripts, Proceeded DEF TypeInv, Todo
<1>7. \/ GiveUp(p)
      \/ version < 2 /\ version \in Nat /\ Proceed(p, UpgradeScript)
      \/ version = 2 /\ Proceed(p, <<>>)
  <2>1. version = Junk \/ version \in Nat
    BY <1>2 DEF Content
  <2> QED
    BY <2>1 DEF ReadSchemaVersion, currentSchemaVersion
<1> QED
  BY <1>4, <1>5, <1>6, <1>7

\* The version is written when the file has every table and index.
LEMMA VersionWritten ==
  ASSUME TypeInv, MarkedInv, OpeningInv, NEW p \in Opener, WriteSchemaVersion(p)
  PROVE  /\ disk' \in [DbFile -> Content] /\ lasting' \in [DbFile -> SUBSET Content]
         /\ \A g \in DbFile : disk'[g] \in lasting'[g]
         /\ MarkedInv'
         /\ \A g \in DbFile : disk[g].objects \subseteq disk'[g].objects
         /\ \A g \in DbFile : Whole(disk[g]) => Whole(disk'[g])
         /\ \E o : Turns(p, o) /\ Good(o, disk')
<1> DEFINE f == PartSpec(p).file
           todo == opener[p].todo
           new == [disk[f] EXCEPT !.version = 2]
<1>1. /\ Opening(p, TRUE) /\ Head(todo) = "writeSchemaVersion" /\ Change(f, new)
      /\ Proceed(p, Tail(todo))
  BY DEF WriteSchemaVersion
<1>2. f \in DbFile /\ todo = <<"writeSchemaVersion">> /\ Tail(todo) = <<>> /\ disk[f] \in Content
  BY <1>1, AtWork, Rest DEF TypeInv
<1>3. AllObjects \subseteq disk[f].objects
  BY <1>1, <1>2, AtWork, Scripts
<1>4. new \in Content /\ new.objects = disk[f].objects /\ new.version = 2
  BY <1>2 DEF Content
<1>5. Whole(new) /\ Marked(new)
  BY <1>3, <1>4 DEF Whole, Marked, currentSchemaVersion
<1> HIDE DEF new
<1>6. disk'[f] = new
  BY <1>1, <1>2 DEF Change, TypeInv
<1>7. /\ disk' \in [DbFile -> Content] /\ lasting' \in [DbFile -> SUBSET Content]
      /\ \A g \in DbFile : disk'[g] \in lasting'[g]
      /\ MarkedInv'
      /\ \A g \in DbFile : disk[g].objects \subseteq disk'[g].objects
      /\ \A g \in DbFile : Whole(disk[g]) => Whole(disk'[g])
  BY <1>1, <1>2, <1>4, <1>5, Changed
<1>8. \E o : Turns(p, o) /\ Good(o, disk')
  BY <1>1, <1>2, <1>5, <1>6, <1>7, Scripts, Proceeded DEF Todo
<1> QED
  BY <1>7, <1>8

\* A call that has been through its list opens its store.
LEMMA Finished ==
  ASSUME TypeInv, OpeningInv, NEW p \in Opener, FinishOpen(p)
  PROVE  \E o : Turns(p, o) /\ Good(o, disk')
<1> DEFINE c == opener[p]
           o == [c EXCEPT !.state = "open"]
<1>1. /\ c \in OpenCall /\ ListInv(c) /\ DoneInv(c, disk) /\ c.state = "opening" /\ c.todo = <<>>
      /\ c.at > Len(c.cfg.parts) /\ c.cfg \in Config /\ c.at \in Nat \ {0} /\ disk' = disk
  BY DEF TypeInv, OpeningInv, FinishOpen, Opening, OpenCall, ListInv, UnchangedDisk
<1>2. CASE GiveUp(p)
  BY <1>2, GivenUp
<1>3. CASE /\ c.cfg.single \/ \E part \in c.parts : part.name = c.cfg.default
           /\ opener' = [opener EXCEPT ![p].state = "open"]
  <2>1. /\ o \in OpenCall /\ o.state = "open" /\ o.cfg = c.cfg /\ o.parts = c.parts
        /\ o.todo = <<>> /\ o.at = c.at
    BY <1>1 DEF OpenCall
  <2>2. opener' = [opener EXCEPT ![p] = o]
    BY <1>3
  <2> HIDE DEF o
  <2>3. Turns(p, o)
    BY <2>1, <2>2 DEF Turns, TypeInv
  <2>4. ListInv(o)
    BY <1>1, <2>1 DEF ListInv, Opened
  <2>5. DoneInv(o, disk')
    BY <1>1, <2>1 DEF DoneInv
  <2>6. o.at = Len(o.cfg.parts) + 1
    <3>1. c.cfg.parts \in Seq(AnyPart) /\ 1..(c.at - 1) \subseteq DOMAIN c.cfg.parts
      BY <1>1, ConfigTypes DEF ListInv, Opened
    <3>2. c.at - 1 <= Len(c.cfg.parts) /\ Len(c.cfg.parts) \in Nat
      <4> DEFINE n == c.at - 1
      <4>1. n \in Nat /\ 1..n \subseteq 1..Len(c.cfg.parts) /\ Len(c.cfg.parts) \in Nat
        BY <1>1, <3>1
      <4> HIDE DEF n
      <4>2. n = 0 \/ n \in 1..n
        BY <4>1
      <4> QED
        BY <4>1, <4>2 DEF n
    <3> QED
      BY <1>1, <2>1, <3>2
  <2> QED
    BY <1>3, <2>1, <2>3, <2>4, <2>5, <2>6 DEF OpenInv, Good
<1> QED
  BY <1>2, <1>3 DEF FinishOpen

SchemaInv == TypeInv /\ MarkedInv /\ OpeningInv

\* Everything else keeps what is true of it when one call takes its turn.
LEMMA OneTurn ==
  ASSUME SchemaInv, NEW p \in Opener, NEW o, Turns(p, o), Good(o, disk'),
         disk' \in [DbFile -> Content], lasting' \in [DbFile -> SUBSET Content],
         \A g \in DbFile : disk'[g] \in lasting'[g],
         MarkedInv',
         \A g \in DbFile : disk[g].objects \subseteq disk'[g].objects,
         \A g \in DbFile : Whole(disk[g]) => Whole(disk'[g])
  PROVE  SchemaInv'
<1>1. TypeInv'
  BY DEF TypeInv, Turns
<1>2. ASSUME NEW q \in Opener
      PROVE  Good(opener'[q], disk')
  <2>1. CASE q = p
    BY <2>1 DEF Turns
  <2>2. CASE q # p
    BY <2>2, OthersGain DEF Turns, SchemaInv, TypeInv, OpeningInv, Good
  <2> QED
    BY <2>1, <2>2
<1>3. OpeningInv'
  BY <1>2 DEF OpeningInv, Good
<1> QED
  BY <1>1, <1>3 DEF SchemaInv

\* Every step of every process, and a power loss, keeps the invariant.
LEMMA StepKeepsSchema ==
  ASSUME SchemaInv, OpenNext
  PROVE  SchemaInv'
<1> USE DEF SchemaInv
<1>1. ASSUME UnchangedDisk, NEW p \in Opener, \E o : Turns(p, o) /\ Good(o, disk')
      PROVE  SchemaInv'
  <2>1. PICK o : Turns(p, o) /\ Good(o, disk')
    BY <1>1
  <2>2. disk' = disk /\ lasting' = lasting
    BY <1>1 DEF UnchangedDisk
  <2>3. MarkedInv'
    BY <2>2 DEF MarkedInv
  <2> QED
    BY <2>1, <2>2, <2>3, OneTurn DEF TypeInv
<1>2. ASSUME NEW p \in Opener, CallOpen(p)
      PROVE  SchemaInv'
  BY <1>1, <1>2, Called DEF CallOpen
<1>3. ASSUME NEW p \in Opener, OpenPartition(p)
      PROVE  SchemaInv'
  BY <1>1, <1>3, NextPartition DEF OpenPartition
<1>4. ASSUME NEW p \in Opener, Create(p)
      PROVE  SchemaInv'
  BY <1>4, Created, OneTurn
<1>5. ASSUME NEW p \in Opener, ReadSchemaVersion(p)
      PROVE  SchemaInv'
  BY <1>1, <1>5, ReadVersion DEF ReadSchemaVersion
<1>6. ASSUME NEW p \in Opener, WriteSchemaVersion(p)
      PROVE  SchemaInv'
  BY <1>6, VersionWritten, OneTurn
<1>7. ASSUME NEW p \in Opener, StatementFails(p) \/ CloseStore(p)
      PROVE  SchemaInv'
  BY <1>1, <1>7, GivenUp DEF StatementFails, CloseStore
<1>8. ASSUME NEW p \in Opener, FinishOpen(p)
      PROVE  SchemaInv'
  BY <1>1, <1>8, Finished DEF FinishOpen
<1>9. ASSUME PowerLoss
      PROVE  SchemaInv'
  <2>1. /\ \A f \in DbFile : disk'[f] \in lasting[f] /\ lasting'[f] = {disk'[f]}
        /\ DOMAIN disk' = DbFile /\ disk' \in [DbFile -> Content]
        /\ lasting' \in [DbFile -> SUBSET Content]
        /\ \A p \in Opener : opener'[p] = Closed
    BY <1>9 DEF PowerLoss, TypeInv
  <2>2. Closed \in OpenCall /\ Closed.state = "closed"
    BY DEF Closed, OpenCall, Todo
  <2>3. opener' \in [Opener -> OpenCall]
    BY <1>9, <2>2 DEF PowerLoss
  <2>4. TypeInv'
    BY <2>1, <2>3 DEF TypeInv
  <2>5. MarkedInv'
    BY <2>1 DEF MarkedInv
  <2>6. OpeningInv'
    BY <2>1, <2>2 DEF OpeningInv, ListInv, DoneInv, OpenInv
  <2> QED
    BY <2>4, <2>5, <2>6
<1> QED
  BY <1>2, <1>3, <1>4, <1>5, <1>6, <1>7, <1>8, <1>9 DEF OpenNext

\* The inductive invariant holds of every state.
LEMMA SchemaInvariant == OpenSpec => []SchemaInv
<1>1. OpenInit => SchemaInv
  <2> SUFFICES ASSUME OpenInit
               PROVE  SchemaInv
    OBVIOUS
  <2>1. Closed \in OpenCall /\ Closed.state = "closed"
    BY DEF Closed, OpenCall, Todo
  <2>2. \A f \in DbFile : disk[f] \in DiskChoice[f] /\ lasting[f] = {disk[f]}
    BY DEF OpenInit
  <2>3. \A f \in DbFile : disk[f] \in Content
    BY <2>2, SchemaAssumption DEF Content
  <2>4. disk \in [DbFile -> Content] /\ lasting \in [DbFile -> SUBSET Content]
    BY <2>2, <2>3 DEF OpenInit
  <2>5. TypeInv
    BY <2>1, <2>2, <2>4 DEF TypeInv, OpenInit
  <2>6. MarkedInv
    BY <2>2, SchemaAssumption DEF MarkedInv
  <2>7. OpeningInv
    BY <2>1 DEF OpeningInv, ListInv, DoneInv, OpenInv, OpenInit
  <2> QED
    BY <2>5, <2>6, <2>7 DEF SchemaInv
<1>2. SchemaInv /\ [OpenNext]_schemaVars => SchemaInv'
  <2>1. SchemaInv /\ UNCHANGED schemaVars => SchemaInv'
    BY DEF SchemaInv, schemaVars, TypeInv, MarkedInv, OpeningInv
  <2> QED
    BY <2>1, StepKeepsSchema
<1> QED
  BY <1>1, <1>2, PTL DEF OpenSpec

\* Different names for the partitions 1..n of a list are n names.
LEMMA NamesOfList ==
  ASSUME NEW list, NEW n \in Nat,
         \A i, j \in 1..n : list[i].name = list[j].name => i = j
  PROVE  Cardinality({list[i].name : i \in 1..n}) = n
<1> DEFINE N == {list[i].name : i \in 1..n}
           f == [i \in 1..n |-> list[i].name]
<1>1. f \in Bijection(1..n, N)
  <2>1. f \in [1..n -> N] /\ \A i \in 1..n : f[i] = list[i].name
    OBVIOUS
  <2>2. \A i, j \in 1..n : f[i] = f[j] => i = j
    BY <2>1
  <2>3. \A y \in N : \E i \in 1..n : f[i] = y
    BY <2>1
  <2> HIDE DEF f, N
  <2> QED
    BY <2>1, <2>2, <2>3 DEF Bijection, Injection, Surjection, IsInjective
<1>2. IsFiniteSet(1..n) /\ Cardinality(1..n) = n
  BY FS_Interval
<1>3. ExistsBijection(1..n, N)
  BY <1>1 DEF ExistsBijection
<1> QED
  BY <1>2, <1>3, FS_Bijection

\* A file marked with the current version has every table and index, and an
\* open store has each partition of its configuration once, on whole files,
\* whatever process dies where in a schema script and whoever opens meanwhile.
THEOREM OpenedAlwaysWhole == OpenSpec => []OpenedWhole
<1>1. SchemaInv => OpenedWhole
  <2> SUFFICES ASSUME SchemaInv
               PROVE  OpenedWhole
    OBVIOUS
  <2>1. ASSUME NEW p \in Opener, opener[p].state = "open"
        PROVE  LET cfg == opener[p].cfg
               IN /\ \A part \in opener[p].parts : Whole(disk[part.file])
                  /\ Cardinality({part.name : part \in opener[p].parts}) = Len(cfg.parts)
                  /\ cfg.single \/ \E part \in opener[p].parts : part.name = cfg.default
    <3> DEFINE o == opener[p]
               list == o.cfg.parts
    <3>1. o \in OpenCall /\ ListInv(o) /\ DoneInv(o, disk) /\ OpenInv(o) /\ o.state = "open"
      BY <2>1 DEF SchemaInv, TypeInv, OpeningInv
    <3>2. /\ o.todo = <<>> /\ o.at = Len(list) + 1 /\ o.cfg \in Config
          /\ list \in Seq(AnyPart)
          /\ o.cfg.single => Len(list) = 1
      BY <3>1, ConfigTypes DEF OpenInv, ListInv
    <3>3. Opened(o) = 1..Len(list) /\ Len(list) \in Nat
      BY <3>2 DEF Opened
    <3>4. o.parts = {list[i] : i \in 1..Len(list)}
      BY <3>1, <3>3 DEF ListInv
    <3>5. \A part \in o.parts : Whole(disk[part.file])
      BY <3>1, <3>2, <3>4 DEF DoneInv
    <3>6. \A i, j \in 1..Len(list) : list[i].name = list[j].name => i = j
      BY <3>1, <3>2, <3>3 DEF ListInv
    <3>7. Cardinality({list[i].name : i \in 1..Len(list)}) = Len(list)
      BY <3>3, <3>6, NamesOfList
    <3>8. {part.name : part \in o.parts} = {list[i].name : i \in 1..Len(list)}
      BY <3>4
    <3> QED
      BY <3>1, <3>5, <3>7, <3>8 DEF OpenInv
  <2> QED
    BY <2>1 DEF OpenedWhole, SchemaInv, MarkedInv
<1> QED
  BY <1>1, SchemaInvariant, PTL

----------------------------------------------------------------------------
(* PebbleCopy *)

\* What the stores and the loader hold while the copy goes on.
CopyInv ==
  /\ phase \in {"idle", "count", "scan", "migrate"} => dest = before /\ ~damaged /\ rows = {} /\ buffer = {}
  /\ phase = "copy" => before \subseteq dest /\ dest \cup buffer \cup rows = before \cup snapshot
  /\ phase = "stopped" => before \subseteq dest /\ dest \subseteq before \cup snapshot
  /\ phase = "compare" /\ ~damaged => dest = before \cup snapshot
  /\ phase \in {"copy", "stopped"} => ~damaged

\* What the comparisons so far say of the two stores.
ComparedInv ==
  /\ source \subseteq CopyQuad /\ mismatches \in Nat /\ writes \in Nat
  /\ phase \in {"idle", "count", "scan", "migrate", "copy", "stopped", "compare", "sample"} =>
       mismatches = 0 /\ checked = {}
  /\ phase \in {"migrate", "copy", "compare", "sample", "sampling", "passed"} /\ writes = 0 =>
       found.subjects = Subjects(source)
  /\ phase \in {"sample", "sampling", "passed"} => found.subjects = Subjects(dest)
  /\ phase \in {"sampling", "passed"} /\ writes = 0 /\ mismatches = 0 =>
       \A s \in checked : About(source, s) = About(dest, s)
  /\ phase = "passed" => mismatches = 0

VerifyInv == CopyInv /\ ComparedInv

\* The sample compares two finite sets: equal in number, one in the other.
LEMMA SameSets ==
  ASSUME NEW a, NEW b, IsFiniteSet(a), sameQuadSet(a, b)
  PROVE  a = b
BY FS_Subset DEF sameQuadSet

\* Both stores are empty and nothing is compared.
LEMMA VerifyInitially == CopyInit => VerifyInv
BY DEF CopyInit, VerifyInv, CopyInv, ComparedInv

\* Every step of the tool, and every write to the source, keeps it.
LEMMA VerifyStep ==
  ASSUME VerifyInv, [CopyNext]_copyVars
  PROVE  VerifyInv'
<1> USE DEF VerifyInv, CopyInv, ComparedInv, loader, sampling, stores
<1>1. CASE UNCHANGED copyVars
  BY <1>1 DEF copyVars, Subjects, About
<1>2. CASE OpenBoth
  BY <1>2 DEF OpenBoth
<1>3. CASE CountSource
  BY <1>3 DEF CountSource
<1>4. CASE ScanSource
  <2>1. phase = "scan" /\ phase' = "migrate" /\ UNCHANGED <<loader, sampling, stores>>
    BY <1>4 DEF ScanSource
  <2>2. found'.subjects = Subjects(source)
    BY <1>4 DEF ScanSource
  <2> QED
    BY <2>1, <2>2
<1>5. CASE BeginMigrate
  BY <1>5 DEF BeginMigrate
<1>6. CASE CopyRow
  BY <1>6 DEF CopyRow
<1>7. CASE MigrateFails
  BY <1>7 DEF MigrateFails
<1>8. CASE CloseLoader
  BY <1>8 DEF CloseLoader
<1>9. CASE Damage
  BY <1>9 DEF Damage
<1>10. CASE compareBaselines
  BY <1>10 DEF compareBaselines
<1>11. CASE ListSubjects
  BY <1>11 DEF ListSubjects
<1>12. CASE SampleSubject
  <2>1. phase = "sampling" /\ UNCHANGED <<phase, found, loader, subjects, stores>>
    BY <1>12 DEF SampleSubject
  <2>2. PICK s \in subjects :
          /\ checked' = checked \cup {s}
          /\ mismatches' = mismatches + IF sameQuadSet(About(source, s), About(dest, s)) THEN 0 ELSE 1
    BY <1>12 DEF SampleSubject
  <2>3. mismatches' \in Nat /\ (mismatches' = 0 => mismatches = 0 /\ sameQuadSet(About(source, s), About(dest, s)))
    BY <2>2
  <2>4. IsFiniteSet(About(source, s))
    BY CopyAssumption, FS_Subset DEF About
  <2>5. mismatches' = 0 => About(source, s) = About(dest, s)
    BY <2>3, <2>4, SameSets
  <2> QED
    BY <2>1, <2>2, <2>3, <2>5
<1>13. CASE SampleEnds
  BY <1>13 DEF SampleEnds
<1>14. CASE OtherWrites
  BY <1>14 DEF OtherWrites
<1> QED
  BY <1>1, <1>2, <1>3, <1>4, <1>5, <1>6, <1>7, <1>8, <1>9, <1>10, <1>11, <1>12, <1>13, <1>14 DEF CopyNext

\* A copy that returns without an error has added the source as its SELECT saw
\* it, and a comparison that passes, of stores nobody wrote to and with every
\* subject drawn, has found them equal.
THEOREM CopyAlwaysVerified == CopySpec => []CopyVerified
<1>1. ASSUME VerifyInv
      PROVE  CopyVerified
  <2>1. phase = "compare" /\ ~damaged => dest = before \cup snapshot
    BY <1>1 DEF VerifyInv, CopyInv
  <2>2. phase \in {"copy", "stopped"} => before \subseteq dest /\ dest \subseteq before \cup snapshot
    BY <1>1 DEF VerifyInv, CopyInv
  <2>3. ASSUME phase = "passed", writes = 0, Subjects(source) \subseteq checked
        PROVE  dest = source
    <3>1. Subjects(dest) = Subjects(source) /\ \A s \in checked : About(source, s) = About(dest, s)
      BY <1>1, <2>3 DEF VerifyInv, ComparedInv
    <3>2. \A q \in dest \cup source : SubjectOf[q] \in checked
      BY <2>3, <3>1 DEF Subjects
    <3> QED
      BY <3>1, <3>2 DEF About
  <2> QED
    BY <2>1, <2>2, <2>3 DEF CopyVerified
<1> QED
  BY <1>1, VerifyInitially, VerifyStep, PTL DEF CopySpec

----------------------------------------------------------------------------
(* IndexTool *)

\* Which labels are in the store, or were reported, when a stage begins.
SignalsInv ==
  /\ stage \in {"idle", "signals", "greedy", "weights", "weighted", "background", "foreground", "contention",
                "pages", "aboutness", "subtract", "done"}
  /\ stage \notin {"idle", "signals"} => "signals" \in stored \cup errors
  /\ stage \in {"pages", "aboutness", "subtract", "done"} => "contention" \in stored \cup errors
  /\ stage \notin {"subtract", "done"} => "aboutness" \notin stored \cup errors /\ "pages" \notin errors
  /\ stage \in {"subtract", "done"} =>
       \/ "pages" \in errors /\ "aboutness" \notin stored \cup errors
       \/ "pages" \notin errors /\ "aboutness" \in stored /\ "aboutness" \notin errors
       \/ "pages" \notin errors /\ "aboutness" \notin stored /\ "aboutness" \in errors

SurvivorsInv ==
  /\ pages \in [Entry -> SUBSET PageNo]
  /\ stage = "done" => survivors = {e \in Entry : ~Dropped(e, stored, about)}

IndexInv == SignalsInv /\ SurvivorsInv

\* The other entries on e's pages, when the entries are on the pages pgs.
OthersOn(pgs, e) == MapThenSumSet(LAMBDA p : Cardinality({o \in Entry : p \in pgs[o]}) - 1, pgs[e])

\* The definition, with the pages as a parameter.
LEMMA OthersIs == \A e : others(e) = OthersOn(pages, e)
BY DEF others, OthersOn

\* The tests depend on the pages of the entries only.
LEMMA SameTests ==
  ASSUME UNCHANGED pages
  PROVE  \A e, signals, aboutOf : Dropped(e, signals, aboutOf)' <=> Dropped(e, signals, aboutOf)
<1>1. (\A e : others(e) = OthersOn(pages, e))'
  BY OthersIs, PTL
<1>2. \A e : others(e)' = OthersOn(pages', e)
  BY <1>1
<1>3. \A e : others(e)' = others(e)
  BY <1>2, OthersIs
<1> QED
  BY <1>3 DEF Dropped

\* Nothing is stored, reported or selected.
LEMMA IndexInitially == IndexInit => IndexInv
BY DEF IndexInit, IndexInv, SignalsInv, SurvivorsInv

\* A reduction selects or ends, and touches no signal.
LEMMA ReductionStep ==
  ASSUME IndexInv, greedyReduce \/ weightedGreedyReduce \/ foregroundGreedy
  PROVE  IndexInv'
<1>1. /\ stage \in {"greedy", "weighted", "foreground"}
      /\ stage' \in {stage, "weights", "background", "contention"}
      /\ UNCHANGED <<pages, stored, errors, about, survivors>>
  BY DEF greedyReduce, weightedGreedyReduce, foregroundGreedy, Pick, Selected
<1> QED
  BY <1>1 DEF IndexInv, SignalsInv, SurvivorsInv

\* Every stage keeps it.
LEMMA IndexStep ==
  ASSUME IndexInv, [IndexNext]_indexVars
  PROVE  IndexInv'
<1> USE DEF IndexInv, SignalsInv, SurvivorsInv
<1>1. CASE UNCHANGED indexVars
  BY <1>1, SameTests DEF indexVars
<1>2. CASE LoadEntries
  BY <1>2 DEF LoadEntries
<1>3. CASE ComputeSignals
  BY <1>3 DEF ComputeSignals, StoreSignals
<1>4. CASE computeWeightedEdges
  BY <1>4 DEF computeWeightedEdges, StoreSignals
<1>5. CASE computeBackgroundRate
  BY <1>5 DEF computeBackgroundRate, StoreSignals
<1>6. CASE analyzeContentions
  BY <1>6 DEF analyzeContentions, StoreSignals
<1>7. CASE ingestPageContent
  BY <1>7 DEF ingestPageContent, StoreSignals
<1>8. CASE computeAboutness
  BY <1>8 DEF computeAboutness, StoreSignals
<1>9. CASE subtractToIndex
  BY <1>9, SameTests DEF subtractToIndex
<1> QED
  BY <1>1, <1>2, <1>3, <1>4, <1>5, <1>6, <1>7, <1>8, <1>9, ReductionStep DEF IndexNext

\* What survives all the signals survives without those of subsumption and
\* contention.
LEMMA FewerTests ==
  ASSUME NEW e \in Entry, NEW signals, NEW aboutOf, pages \in [Entry -> SUBSET PageNo],
         "aboutness" \in signals, ~Dropped(e, {"signals", "contention", "aboutness"}, aboutOf)
  PROVE  ~Dropped(e, signals, aboutOf)
<1>1. pages[e] # {} /\ Cardinality(pages[e]) \in Nat \ {0}
  <2>1. pages[e] # {} /\ IsFiniteSet(pages[e])
    BY IndexAssumption, FS_Subset DEF Dropped
  <2> QED
    BY <2>1, FS_EmptySet, FS_CardinalityType
<1>2. RedundantLimit * Cardinality(pages[e]) > 0 /\ AtomLimit > 0 /\ BroadLimit > 0
  BY <1>1, IndexAssumption
<1>3. ~(0 >= AtomLimit) /\ ~(0 >= BroadLimit) /\ ~(0 >= RedundantLimit * Cardinality(pages[e]))
  BY <1>1, <1>2, IndexAssumption
<1> QED
  BY <1>1, <1>3, Zenon DEF Dropped

\* Without an error the survivors are the entries that pass every test; without
\* the aboutness, or the page text it needs, there are none; other signals that
\* are missing only let more entries through.
THEOREM RemovedAlwaysWithCause == IndexSpec => []RemovedWithCause
<1>1. ASSUME IndexInv
      PROVE  RemovedWithCause
  <2> DEFINE passing == {e \in Entry : ~Dropped(e, {"signals", "contention", "aboutness"}, about)}
  <2> SUFFICES ASSUME stage = "done"
               PROVE  /\ errors \cap {"signals", "contention", "pages", "aboutness"} = {} =>
                           /\ {"signals", "contention", "aboutness"} \subseteq stored
                           /\ survivors = passing
                      /\ errors \cap {"pages", "aboutness"} = {} => passing \subseteq survivors
                      /\ errors \cap {"pages", "aboutness"} # {} => survivors = {}
    BY DEF RemovedWithCause
  <2>1. survivors = {e \in Entry : ~Dropped(e, stored, about)} /\ SignalsInv
    BY <1>1 DEF IndexInv, SurvivorsInv
  <2>2. ASSUME errors \cap {"signals", "contention", "pages", "aboutness"} = {}
        PROVE  {"signals", "contention", "aboutness"} \subseteq stored /\ survivors = passing
    <3>1. {"signals", "contention", "aboutness"} \subseteq stored
      BY <2>1, <2>2 DEF SignalsInv
    <3>2. \A e \in Entry : Dropped(e, stored, about) <=> Dropped(e, {"signals", "contention", "aboutness"}, about)
      BY <3>1 DEF Dropped
    <3> QED
      BY <2>1, <3>1, <3>2
  <2>3. ASSUME errors \cap {"pages", "aboutness"} = {}
        PROVE  passing \subseteq survivors
    <3>1. "aboutness" \in stored
      BY <2>1, <2>3 DEF SignalsInv
    <3> QED
      BY <1>1, <2>1, <3>1, FewerTests DEF IndexInv, SurvivorsInv
  <2>4. ASSUME errors \cap {"pages", "aboutness"} # {}
        PROVE  survivors = {}
    <3>1. "aboutness" \notin stored
      BY <2>1, <2>4 DEF SignalsInv
    <3> QED
      BY <2>1, <3>1 DEF Dropped
  <2> QED
    BY <2>2, <2>3, <2>4
<1> QED
  BY <1>1, IndexInitially, IndexStep, PTL DEF IndexSpec

\* What PagesOf and Gain are, with the variables they read as parameters.
PagesAt(st, pgs) == [e \in Entry |-> IF st = "foreground" THEN pgs[e] \ {0} ELSE pgs[e]]

GainAt(st, pgs, val, cov, e) ==
  CASE st = "greedy"     -> Cardinality(pgs[e] \ cov)
    [] st = "weighted"   -> Total(val[e], pgs[e] \ cov)
    [] st = "foreground" -> Cardinality((pgs[e] \ {0}) \ cov) * IF val[e] = 0 THEN 2 ELSE val[e]

GainsAt(st, pgs, val, cov) == [e \in Entry |-> GainAt(st, pgs, val, cov, e)]

\* The numbers of new pages.
NewOf(ps) == [i \in DOMAIN ps |-> ps[i].new]

\* A selection.
Picked == [entry : Entry, gain : Nat, new : Nat]

\* How far a reduction has come: an entry that is not left has its pages
\* covered, the gains fall, down to those that are left, and every page
\* covered was new once.
Curve(cov, rest, ps, on, gains) ==
  /\ rest \in SUBSET Entry /\ ps \in Seq(Picked)
  /\ cov \in SUBSET UNION {on[x] : x \in Entry}
  /\ \A x \in Entry : x \in rest \/ on[x] \subseteq cov
  /\ \A i, j \in DOMAIN ps : i < j => ps[i].gain >= ps[j].gain
  /\ \A i \in DOMAIN ps : \A x \in rest : ps[i].gain >= gains[x]
  /\ Total(NewOf(ps), DOMAIN ps) = Cardinality(cov)

\* A gain is a number, and 0 when the entry has nothing left to cover.
Ranked(on, cov, gains) ==
  /\ on \in [Entry -> SUBSET PageNo] /\ gains \in [Entry -> Nat]
  /\ \A x \in Entry : gains[x] = 0 => on[x] \subseteq cov

\* Before the first selection.
LEMMA CurveBegins ==
  ASSUME NEW rest \in SUBSET Entry, NEW on \in [Entry -> SUBSET PageNo], NEW gains,
         \A x \in Entry : x \in rest \/ on[x] = {}
  PROVE  Curve({}, rest, <<>>, on, gains)
<1>1. Total(NewOf(<<>>), {}) = 0 /\ Cardinality({}) = 0 /\ DOMAIN <<>> = {} /\ <<>> \in Seq(Picked)
  BY TotalOfNone, FS_EmptySet, EmptySeq
<1> HIDE DEF Picked
<1> QED
  BY <1>1 DEF Curve

\* A selection of the greatest gain.
LEMMA CurveGoesOn ==
  ASSUME NEW cov, NEW rest, NEW ps, NEW on, NEW gains,
         Curve(cov, rest, ps, on, gains), Ranked(on, cov, gains),
         NEW e \in rest, \A x \in rest : gains[x] <= gains[e],
         NEW after \in [Entry -> Nat], \A x \in Entry : after[x] <= gains[x]
  PROVE  Curve(cov \cup on[e], rest \ {e},
               Append(ps, [entry |-> e, gain |-> gains[e], new |-> Cardinality(on[e] \ cov)]), on, after)
<1> DEFINE n == Len(ps)
           new == Cardinality(on[e] \ cov)
           p == [entry |-> e, gain |-> gains[e], new |-> new]
           qs == Append(ps, p)
<1>1. e \in Entry /\ on[e] \in SUBSET PageNo /\ cov \in SUBSET PageNo /\ gains[e] \in Nat
  BY DEF Curve, Ranked
<1>2. IsFiniteSet(cov) /\ IsFiniteSet(on[e] \ cov) /\ new \in Nat /\ Cardinality(cov) \in Nat
  BY <1>1, IndexAssumption, FS_Subset, FS_CardinalityType
<1>3. Cardinality(cov \cup on[e]) = new + Cardinality(cov)
  <2> DEFINE T == on[e]
             a == Cardinality(T \ cov)
             b == Cardinality(cov)
  <2>1. IsFiniteSet(T) /\ IsFiniteSet(cov)
    BY <1>1, <1>2, IndexAssumption, FS_Subset
  <2> HIDE DEF T
  <2>2. a \in Nat /\ b \in Nat /\ Cardinality(cov \cup T) = b + a
    BY <2>1, UnionAdds
  <2> HIDE DEF a, b
  <2>3. Cardinality(cov \cup T) = a + b
    BY <2>2
  <2> QED
    BY <2>3 DEF a, b, T
<1>4. p \in Picked
  BY <1>1, <1>2 DEF Picked
<1>5. ps \in Seq(Picked) /\ n \in Nat /\ DOMAIN ps = 1..n
  BY LenProperties DEF Curve
<1>6. /\ qs \in Seq(Picked) /\ Len(qs) = n + 1 /\ DOMAIN qs = 1..(n + 1)
      /\ qs[n + 1] = p /\ \A i \in 1..n : qs[i] = ps[i]
  <2> DEFINE S == Picked
  <2>1. ps \in Seq(S) /\ p \in S
    BY <1>4, <1>5
  <2> HIDE DEF S, p
  <2>2. /\ qs \in Seq(S) /\ Len(qs) = n + 1
        /\ qs[n + 1] = p /\ \A i \in 1..n : qs[i] = ps[i]
    BY <2>1, AppendProperties
  <2>3. DOMAIN qs = 1..Len(qs)
    BY <2>2, LenProperties
  <2> QED
    BY <2>2, <2>3 DEF S
<1>7. p.gain = gains[e] /\ p.new = new
  OBVIOUS
<1>8. \A i \in 1..n : ps[i] \in Picked /\ ps[i].new \in Nat /\ ps[i].gain \in Nat
  <2>1. \A i \in 1..n : ps[i] \in Picked
    BY <1>5, ElementOfSeq
  <2> QED
    BY <2>1 DEF Picked
<1> HIDE DEF n, p, qs, Picked, new
<1>9. Total(NewOf(qs), DOMAIN qs) = Cardinality(cov \cup on[e])
  <2> DEFINE f == NewOf(ps)
             g == NewOf(qs)
             D == 1..n
             m == n + 1
  <2>1. IsFiniteSet(D) /\ m \notin D /\ DOMAIN qs = D \cup {m}
    <3>1. IsFiniteSet(1..n)
      <4> DEFINE a == 1
      <4>1. a \in Int /\ n \in Int
        BY <1>5
      <4> HIDE DEF a
      <4>2. IsFiniteSet(a..n)
        BY <4>1, FS_Interval
      <4> QED
        BY <4>2 DEF a
    <3>2. 1..(n + 1) = (1..n) \cup {n + 1} /\ n + 1 \notin 1..n
      BY <1>5
    <3> QED
      BY <1>6, <3>1, <3>2
  <2>2. g[m] = new /\ \A i \in D : g[i] = ps[i].new /\ f[i] = ps[i].new /\ g[i] \in Nat
    BY <1>5, <1>6, <1>7, <1>8 DEF NewOf
  <2> HIDE DEF f, g, D, m
  <2>3. Addable(g, D)
    BY <2>1, <2>2 DEF Addable
  <2>4. Total(f, D) = Total(g, D)
    BY <2>2, <2>3, TotalAlike
  <2>5. Total(g, D \cup {m}) = g[m] + Total(g, D)
    BY <1>2, <2>1, <2>2, <2>3, TotalGrows
  <2>6. Total(f, D) = Cardinality(cov)
    BY <1>5 DEF Curve, f, D
  <2> QED
    BY <1>3, <2>1, <2>2, <2>4, <2>5, <2>6 DEF g
<1>10. \A i, j \in DOMAIN qs : i < j => qs[i].gain >= qs[j].gain
  <2> SUFFICES ASSUME NEW i \in 1..(n + 1), NEW j \in 1..(n + 1), i < j
               PROVE  qs[i].gain >= qs[j].gain
    BY <1>6
  <2>1. i \in 1..n
    BY <1>5
  <2>2. CASE j = n + 1
    BY <1>5, <1>6, <1>7, <2>1, <2>2 DEF Curve
  <2>3. CASE j # n + 1
    <3>1. j \in 1..n
      BY <1>5, <2>3
    <3> QED
      BY <1>5, <1>6, <2>1, <3>1 DEF Curve
  <2> QED
    BY <2>2, <2>3
<1>11. \A i \in DOMAIN qs : \A x \in rest \ {e} : qs[i].gain >= after[x]
  <2> SUFFICES ASSUME NEW i \in 1..(n + 1), NEW x \in rest \ {e}
               PROVE  qs[i].gain >= after[x]
    BY <1>6
  <2>1. x \in Entry /\ after[x] \in Nat /\ gains[x] \in Nat /\ after[x] <= gains[x]
    BY DEF Curve, Ranked
  <2>2. CASE i = n + 1
    BY <1>1, <1>6, <1>7, <2>1, <2>2
  <2>3. CASE i # n + 1
    <3>1. i \in 1..n
      BY <1>5, <2>3
    <3>2. ps[i].gain >= gains[x]
      BY <1>5, <3>1 DEF Curve
    <3> QED
      BY <1>6, <1>8, <2>1, <3>1, <3>2
  <2> QED
    BY <2>2, <2>3
<1>12. /\ rest \ {e} \in SUBSET Entry
       /\ cov \cup on[e] \in SUBSET UNION {on[x] : x \in Entry}
       /\ \A x \in Entry : x \in rest \ {e} \/ on[x] \subseteq cov \cup on[e]
  BY <1>1 DEF Curve
<1>13. Curve(cov \cup on[e], rest \ {e}, qs, on, after)
  BY <1>6, <1>9, <1>10, <1>11, <1>12 DEF Curve
<1> QED
  BY <1>13 DEF qs, p, new

\* The weights are positive, and the foregroundness is a number.
Valued(st, val) ==
  /\ st = "weighted" => \A e \in Entry : \A p \in PageNo : val[e][p] \in Nat \ {0}
  /\ st = "foreground" => \A e \in Entry : val[e] \in Nat

\* A reduction under way is at some point of its curve.
CurveInv ==
  /\ pages \in [Entry -> SUBSET PageNo]
  /\ Reducing => /\ Valued(stage, value)
                 /\ Curve(covered, remaining, picks, PagesAt(stage, pages), GainsAt(stage, pages, value, covered))

\* The weights left are added up as by Total.
LEMMA WeightsAre == \A e : weightGain(e) = Total(value[e], pages[e] \ covered)
BY DEF weightGain, On, MapThenSumSet, MapThenFoldSet, Total, Sums

\* The functions stand for the operators of the model.
LEMMA ReductionIs ==
  Reducing => \A e \in Entry : /\ PagesOf(e) = PagesAt(stage, pages)[e]
                               /\ Gain(e) = GainsAt(stage, pages, value, covered)[e]
<1> SUFFICES ASSUME Reducing, NEW e \in Entry
             PROVE  /\ PagesOf(e) = PagesAt(stage, pages)[e]
                    /\ Gain(e) = GainsAt(stage, pages, value, covered)[e]
  OBVIOUS
<1>1. PagesOf(e) = PagesAt(stage, pages)[e]
  BY DEF PagesOf, On, Numbered, PagesAt
<1>2. CASE stage = "greedy"
  BY <1>1, <1>2 DEF Gain, GainsAt, GainAt, newPages, On
<1>3. CASE stage = "weighted"
  BY <1>1, <1>3, WeightsAre DEF Gain, GainsAt, GainAt
<1>4. CASE stage = "foreground"
  BY <1>1, <1>4 DEF Gain, GainsAt, GainAt, foregroundScore, Numbered
<1> QED
  BY <1>2, <1>3, <1>4 DEF Reducing

Reductions == {"greedy", "weighted", "foreground"}

\* A product by a positive number.
LEMMA Scaled ==
  ASSUME NEW a \in Nat, NEW b \in Nat, a <= b, NEW c \in Nat, c > 0
  PROVE  a * c \in Nat /\ b * c \in Nat /\ a * c <= b * c /\ (a * c = 0 => a = 0)
OBVIOUS

\* The gains are what is not covered, and fall as more is.
LEMMA GainsRank ==
  ASSUME NEW st \in Reductions, NEW pgs \in [Entry -> SUBSET PageNo], NEW val, Valued(st, val),
         NEW cov, NEW more, NEW e \in Entry
  PROVE  /\ GainsAt(st, pgs, val, cov)[e] \in Nat
         /\ GainsAt(st, pgs, val, cov)[e] = 0 => PagesAt(st, pgs)[e] \subseteq cov
         /\ GainsAt(st, pgs, val, cov \cup more)[e] <= GainsAt(st, pgs, val, cov)[e]
<1> DEFINE on    == PagesAt(st, pgs)[e]
           left  == on \ cov
           still == on \ (cov \cup more)
<1>1. on \in SUBSET PageNo /\ left \in SUBSET PageNo /\ still \in SUBSET left
  BY DEF PagesAt
<1> HIDE DEF on
<1>2. IsFiniteSet(left) /\ Cardinality(left) \in Nat /\ (Cardinality(left) = 0 => left = {})
  BY <1>1, IndexAssumption, FS_Subset, FS_CardinalityType, FS_EmptySet
<1>3. Cardinality(still) \in Nat /\ Cardinality(still) <= Cardinality(left)
  BY <1>1, <1>2, FS_Subset, FS_CardinalityType
<1>4. left = {} => on \subseteq cov
  OBVIOUS
<1>5. CASE st = "greedy"
  <2>1. GainsAt(st, pgs, val, cov)[e] = Cardinality(left) /\ GainsAt(st, pgs, val, cov \cup more)[e] = Cardinality(still)
    BY <1>5 DEF GainsAt, GainAt, PagesAt, on
  <2> HIDE DEF left, still
  <2> QED
    BY <1>2, <1>3, <1>4, <2>1 DEF on
<1>6. CASE st = "weighted"
  <2>1. GainsAt(st, pgs, val, cov)[e] = Total(val[e], left) /\ GainsAt(st, pgs, val, cov \cup more)[e] = Total(val[e], still)
    BY <1>6 DEF GainsAt, GainAt, PagesAt, on
  <2>2. \A p \in left : val[e][p] \in Nat /\ val[e][p] # 0
    BY <1>1, <1>6 DEF Valued
  <2> DEFINE fun == val[e]
  <2>3. Addable(fun, left)
    BY <1>2, <2>2 DEF Addable
  <2> HIDE DEF left, still, fun
  <2>4. /\ Total(fun, still) \in Nat /\ Total(fun, still) <= Total(fun, left)
        /\ Total(fun, left) = 0 => \A p \in left : fun[p] = 0
    BY <1>1, <2>3, TotalOfPart
  <2>5. Total(fun, left) \in Nat
    BY <2>3, TotalAlike
  <2>6. Total(fun, left) = 0 => left = {}
    BY <2>2, <2>4 DEF fun
  <2> QED
    BY <1>4, <2>1, <2>4, <2>5, <2>6 DEF fun, on
<1>7. CASE st = "foreground"
  <2> DEFINE c == IF val[e] = 0 THEN 2 ELSE val[e]
             a == Cardinality(still)
             b == Cardinality(left)
  <2>1. GainsAt(st, pgs, val, cov)[e] = b * c /\ GainsAt(st, pgs, val, cov \cup more)[e] = a * c
    BY <1>7 DEF GainsAt, GainAt, PagesAt, on
  <2>2. c \in Nat /\ c > 0
    BY <1>7 DEF Valued
  <2>3. a \in Nat /\ b \in Nat /\ a <= b /\ (b = 0 => left = {})
    BY <1>2, <1>3
  <2> HIDE DEF a, b, c, left, still
  <2>4. a * c \in Nat /\ b * c \in Nat /\ a * c <= b * c
    BY <2>2, <2>3, Scaled
  <2>5. b * c = 0 => b = 0
    BY <2>2, <2>3, Scaled
  <2> QED
    BY <1>4, <2>1, <2>3, <2>4, <2>5 DEF on
<1> QED
  BY <1>5, <1>6, <1>7 DEF Reductions

\* The gains and the pages are functions as the lemmas need them.
LEMMA NowRanked ==
  ASSUME CurveInv, Reducing
  PROVE  Ranked(PagesAt(stage, pages), covered, GainsAt(stage, pages, value, covered))
<1> DEFINE on    == PagesAt(stage, pages)
           gains == GainsAt(stage, pages, value, covered)
<1>1. stage \in Reductions /\ pages \in [Entry -> SUBSET PageNo] /\ Valued(stage, value)
  BY DEF CurveInv, Reducing, Reductions
<1>2. \A x \in Entry : gains[x] \in Nat /\ (gains[x] = 0 => on[x] \subseteq covered)
  <2> HIDE DEF on, gains
  <2> QED
    BY <1>1, GainsRank DEF on, gains
<1>3. on \in [Entry -> SUBSET PageNo]
  BY <1>1 DEF PagesAt
<1>4. gains = [x \in Entry |-> gains[x]]
  BY DEF GainsAt
<1> HIDE DEF on, gains
<1>5. Ranked(on, covered, gains)
  BY <1>2, <1>3, <1>4 DEF Ranked
<1> QED
  BY <1>5 DEF on, gains

\* A selection keeps the curve.
LEMMA PickKeepsCurve ==
  ASSUME CurveInv, Reducing, NEW e \in remaining, \A x \in remaining : Gain(x) <= Gain(e),
         covered' = covered \cup PagesOf(e), remaining' = remaining \ {e},
         picks' = Append(picks, [entry |-> e, gain |-> Gain(e), new |-> Cardinality(PagesOf(e) \ covered)]),
         UNCHANGED <<stage, pages, value>>
  PROVE  CurveInv'
<1> DEFINE on    == PagesAt(stage, pages)
           gains == GainsAt(stage, pages, value, covered)
           after == GainsAt(stage, pages, value, covered')
<1>1. /\ stage \in Reductions /\ pages \in [Entry -> SUBSET PageNo] /\ Valued(stage, value)
      /\ Curve(covered, remaining, picks, on, gains)
  BY DEF CurveInv, Reducing, Reductions
<1>2. e \in Entry /\ remaining \in SUBSET Entry
  BY <1>1 DEF Curve
<1>3. Ranked(on, covered, gains)
  BY NowRanked
<1>4. after \in [Entry -> Nat] /\ \A x \in Entry : after[x] <= gains[x]
  <2> DEFINE more == PagesOf(e)
  <2>1. after = GainsAt(stage, pages, value, covered \cup more) /\ after = [x \in Entry |-> after[x]]
    BY DEF GainsAt
  <2> HIDE DEF more, gains, after
  <2> SUFFICES ASSUME NEW x \in Entry
               PROVE  after[x] \in Nat /\ after[x] <= gains[x]
    BY <2>1
  <2>2. GainsAt(stage, pages, value, covered \cup more)[x] <= gains[x]
    BY <1>1, GainsRank DEF gains
  <2>3. GainsAt(stage, pages, value, covered \cup more)[x] \in Nat
    BY <1>1, GainsRank
  <2> QED
    BY <2>1, <2>2, <2>3
<1>5. \A x \in Entry : PagesOf(x) = on[x] /\ Gain(x) = gains[x]
  BY ReductionIs
<1>6. /\ covered' = covered \cup on[e] /\ \A x \in remaining : gains[x] <= gains[e]
      /\ picks' = Append(picks, [entry |-> e, gain |-> gains[e], new |-> Cardinality(on[e] \ covered)])
  BY <1>2, <1>5
<1>7. Curve(covered', remaining', picks', on, after)
  <2> HIDE DEF on, gains, after
  <2>1. Curve(covered \cup on[e], remaining \ {e},
              Append(picks, [entry |-> e, gain |-> gains[e], new |-> Cardinality(on[e] \ covered)]), on, after)
    BY <1>1, <1>3, <1>4, <1>6, CurveGoesOn
  <2> QED
    BY <1>6, <2>1
<1>8. stage' = stage /\ pages' = pages /\ value' = value
  OBVIOUS
<1>9. Curve(covered', remaining', picks', PagesAt(stage', pages'), GainsAt(stage', pages', value', covered'))
  BY <1>7, <1>8
<1> HIDE DEF on, gains, after
<1> QED
  BY <1>1, <1>8, <1>9 DEF CurveInv

\* Each of the three reductions selects so, or ends.
LEMMA ReductionKeepsCurve ==
  ASSUME CurveInv, greedyReduce \/ weightedGreedyReduce \/ foregroundGreedy
  PROVE  CurveInv'
<1>1. CASE stage = "greedy" /\ Pick(newPages, On)
  <2>1. \A x : Gain(x) = newPages(x) /\ PagesOf(x) = On(x)
    BY <1>1 DEF Gain, PagesOf
  <2>2. Reducing
    BY <1>1 DEF Reducing
  <2> QED
    BY <1>1, <2>1, <2>2, PickKeepsCurve DEF Pick, Best
<1>2. CASE stage = "weighted" /\ Pick(weightGain, On)
  <2>1. \A x : Gain(x) = weightGain(x) /\ PagesOf(x) = On(x)
    BY <1>2 DEF Gain, PagesOf
  <2>2. Reducing
    BY <1>2 DEF Reducing
  <2> QED
    BY <1>2, <2>1, <2>2, PickKeepsCurve DEF Pick, Best
<1>3. CASE stage = "foreground" /\ Pick(foregroundScore, Numbered)
  <2>1. \A x : Gain(x) = foregroundScore(x) /\ PagesOf(x) = Numbered(x)
    BY <1>3 DEF Gain, PagesOf
  <2>2. Reducing
    BY <1>3 DEF Reducing
  <2> QED
    BY <1>3, <2>1, <2>2, PickKeepsCurve DEF Pick, Best
<1>4. CASE stage' \in {"weights", "background", "contention"} /\ UNCHANGED pages
  BY <1>4 DEF CurveInv, Reducing
<1> QED
  BY <1>1, <1>2, <1>3, <1>4 DEF greedyReduce, weightedGreedyReduce, foregroundGreedy, Selected

\* The score of an entry is one of the foregroundnesses, or 0.
LEMMA LookupsAre ==
  ASSUME NEW fgScore \in Lookups
  PROVE  \A e \in Entry : fgScore[e] \in Nat
<1> DEFINE given(to, e) == {foregroundness(r) : r \in {s \in {x \in Entry : Numbered(x) # {}} : to[s] = e}}
<1>1. \A r \in Entry : foregroundness(r) \in Nat
  BY IndexAssumption DEF foregroundness
<1>2. PICK to : fgScore = [e \in Entry |-> IF given(to, e) = {} THEN 0 ELSE Min(given(to, e))]
  BY DEF Lookups
<1>3. \A e \in Entry : given(to, e) \in SUBSET Nat
  BY <1>1
<1> HIDE DEF given
<1>4. \A e \in Entry : given(to, e) # {} => Min(given(to, e)) \in Nat
  <2> SUFFICES ASSUME NEW S \in SUBSET Nat, S # {}
               PROVE  Min(S) \in Nat
    BY <1>3
  <2>1. PICK n \in S : \A m \in S : n <= m
    BY LeastNumber
  <2> QED
    BY <2>1, LeastIsMin
<1> QED
  BY <1>2, <1>4

\* A reduction begins with nothing covered.
LEMMA BeginKeepsCurve ==
  ASSUME CurveInv, UNCHANGED pages, Reducing',
         covered' = {}, picks' = <<>>, Valued(stage', value'),
         remaining' = {e \in Entry : PagesAt(stage', pages)[e] # {}}
  PROVE  CurveInv'
<1> DEFINE on    == PagesAt(stage', pages)
           gains == GainsAt(stage', pages, value', {})
<1>1. on \in [Entry -> SUBSET PageNo] /\ remaining' \in SUBSET Entry
  BY DEF CurveInv, PagesAt
<1>2. \A x \in Entry : x \in remaining' \/ on[x] = {}
  OBVIOUS
<1> HIDE DEF on, gains
<1>3. Curve({}, remaining', <<>>, on, gains)
  BY <1>1, <1>2, CurveBegins
<1>4. Curve(covered', remaining', picks', PagesAt(stage', pages'), GainsAt(stage', pages', value', covered'))
  BY <1>3 DEF on, gains
<1> QED
  BY <1>4 DEF CurveInv

\* Every stage keeps it.
LEMMA CurveStep ==
  ASSUME CurveInv, [IndexNext]_indexVars
  PROVE  CurveInv'
<1>0. CASE UNCHANGED indexVars
  BY <1>0 DEF CurveInv, Reducing, indexVars
<1>1. CASE LoadEntries
  BY <1>1 DEF LoadEntries, CurveInv, Reducing
<1>2. CASE ComputeSignals
  <2>1. /\ stage' = "greedy" /\ UNCHANGED pages /\ remaining' = WithPages
        /\ covered' = {} /\ picks' = <<>>
    BY <1>2 DEF ComputeSignals, StoreSignals, Gather
  <2>2. Reducing' /\ Valued(stage', value')
    BY <2>1 DEF Reducing, Valued
  <2>3. remaining' = {e \in Entry : PagesAt(stage', pages)[e] # {}}
    BY <2>1 DEF WithPages, PagesAt
  <2> QED
    BY <2>1, <2>2, <2>3, BeginKeepsCurve
<1>3. CASE computeWeightedEdges
  <2>1. CASE stage' = "background"
    BY <1>3, <2>1 DEF computeWeightedEdges, CurveInv, Reducing
  <2>2. CASE stage' = "weighted"
    <3>1. PICK weight \in WeightChoice : Gather(WithPages, weight)
      BY <1>3 DEF computeWeightedEdges
    <3>2. UNCHANGED pages /\ remaining' = WithPages /\ covered' = {} /\ picks' = <<>> /\ value' = weight
      BY <1>3, <3>1 DEF computeWeightedEdges, Gather
    <3>3. Reducing' /\ Valued(stage', value')
      BY <2>2, <3>2, IndexAssumption DEF Reducing, Valued
    <3>4. remaining' = {e \in Entry : PagesAt(stage', pages)[e] # {}}
      BY <2>2, <3>2 DEF WithPages, PagesAt
    <3> QED
      BY <3>2, <3>3, <3>4, BeginKeepsCurve
  <2> QED
    BY <1>3, <2>1, <2>2 DEF computeWeightedEdges, StoreSignals
<1>4. CASE computeBackgroundRate
  <2>1. CASE stage' = "contention"
    BY <1>4, <2>1 DEF computeBackgroundRate, CurveInv, Reducing
  <2>2. CASE stage' = "foreground"
    <3>1. PICK fgScore \in Lookups : Gather({e \in Entry : Numbered(e) # {}}, fgScore)
      BY <1>4, <2>2 DEF computeBackgroundRate
    <3>2. /\ UNCHANGED pages /\ remaining' = {e \in Entry : Numbered(e) # {}}
          /\ covered' = {} /\ picks' = <<>> /\ value' = fgScore
      BY <1>4, <3>1 DEF computeBackgroundRate, Gather
    <3>3. Reducing' /\ Valued(stage', value')
      BY <2>2, <3>2, LookupsAre DEF Reducing, Valued
    <3>4. remaining' = {e \in Entry : PagesAt(stage', pages)[e] # {}}
      BY <2>2, <3>2 DEF Numbered, PagesAt
    <3> QED
      BY <3>2, <3>3, <3>4, BeginKeepsCurve
  <2> QED
    BY <1>4, <2>1, <2>2 DEF computeBackgroundRate, StoreSignals
<1>5. CASE analyzeContentions
  BY <1>5 DEF analyzeContentions, StoreSignals, CurveInv, Reducing
<1>6. CASE ingestPageContent
  BY <1>6 DEF ingestPageContent, StoreSignals, CurveInv, Reducing
<1>7. CASE computeAboutness
  BY <1>7 DEF computeAboutness, StoreSignals, CurveInv, Reducing
<1>8. CASE subtractToIndex
  BY <1>8 DEF subtractToIndex, CurveInv, Reducing
<1> QED
  BY <1>0, <1>1, <1>2, <1>3, <1>4, <1>5, <1>6, <1>7, <1>8, ReductionKeepsCurve DEF IndexNext

\* What was new adds up, as the run states it.
LEMMA NewAre == SumFunction([i \in DOMAIN picks |-> picks[i].new]) = Total(NewOf(picks), DOMAIN picks)
<1> DEFINE fun == [i \in DOMAIN picks |-> picks[i].new]
<1>1. DOMAIN fun = DOMAIN picks /\ fun = NewOf(picks)
  BY DEF NewOf
<1> HIDE DEF fun
<1>2. SumFunction(fun) = Total(fun, DOMAIN fun)
  BY SumIsSums DEF Total
<1>3. SumFunction(fun) = Total(NewOf(picks), DOMAIN picks)
  BY <1>1, <1>2
<1> QED
  BY <1>3 DEF fun

\* Each of the three reductions ranks by falling gain, counts each page once
\* and ends with every page covered.
THEOREM CurveAlwaysReachesAll == IndexSpec => []CurveReachesAll
<1>1. IndexInit => CurveInv
  BY DEF IndexInit, CurveInv, Reducing
<1>2. CurveInv => CurveReachesAll
  <2> SUFFICES ASSUME CurveInv, Reducing
               PROVE  /\ \A i, j \in DOMAIN picks : i < j => picks[i].gain >= picks[j].gain
                      /\ SumFunction([i \in DOMAIN picks |-> picks[i].new]) = Cardinality(covered)
                      /\ (\A e \in remaining : Gain(e) <= 0) => covered = UNION {PagesOf(e) : e \in Entry}
    BY DEF CurveReachesAll
  <2> DEFINE on    == PagesAt(stage, pages)
             gains == GainsAt(stage, pages, value, covered)
  <2>1. /\ stage \in Reductions /\ pages \in [Entry -> SUBSET PageNo] /\ Valued(stage, value)
        /\ Curve(covered, remaining, picks, on, gains)
    BY DEF CurveInv, Reducing, Reductions
  <2>2. \A x \in Entry : PagesOf(x) = on[x] /\ Gain(x) = gains[x]
    BY ReductionIs
  <2>3. SumFunction([i \in DOMAIN picks |-> picks[i].new]) = Cardinality(covered)
    BY <2>1, NewAre DEF Curve
  <2>4. ASSUME \A e \in remaining : Gain(e) <= 0
        PROVE  covered = UNION {PagesOf(e) : e \in Entry}
    <3> HIDE DEF on, gains
    <3>1. \A x \in Entry : gains[x] \in Nat /\ (gains[x] = 0 => on[x] \subseteq covered)
      BY <2>1, GainsRank DEF on, gains
    <3>2. \A x \in Entry : on[x] \subseteq covered
      <4>1. \A x \in remaining : x \in Entry /\ gains[x] <= 0
        BY <2>1, <2>2, <2>4 DEF Curve
      <4> QED
        BY <2>1, <3>1, <4>1 DEF Curve
    <3>3. covered \subseteq UNION {on[x] : x \in Entry}
      BY <2>1 DEF Curve
    <3>4. covered = UNION {on[x] : x \in Entry}
      BY <3>2, <3>3
    <3>5. {PagesOf(e) : e \in Entry} = {on[x] : x \in Entry}
      BY <2>2
    <3> QED
      BY <3>4, <3>5
  <2> QED
    BY <2>1, <2>3, <2>4 DEF Curve
<1> QED
  BY <1>1, <1>2, CurveStep, PTL DEF IndexSpec

\* A power by one more is a product.
LEMMA PowerGrows ==
  ASSUME NEW b \in Nat
  PROVE  Power(b, 0) = 1 /\ \A n \in Nat : Power(b, n) \in Nat /\ Power(b, n + 1) = b * Power(b, n)
<1> DEFINE X    == Nat
           size == [x \in Nat |-> x]
           base == [x \in Nat |-> 1]
           next == [x \in Nat |-> IF x = 0 THEN 0 ELSE x - 1]
           times == [a \in Nat \X Nat |-> b * a[2]]
           Def(f) == [i \in Nat |-> IF i = 0 THEN 1 ELSE b * f[i - 1]]
           pow == CHOOSE f : f = Def(f)
<1>1. \E f \in [Nat -> Nat] : f = Def(f)
  <2>1. Terminates(Nat, Nat, {0}, size, base, next, times)
    <3>1. times \in [Nat \X Nat -> Nat]
      OBVIOUS
    <3>2. \A x \in Nat \ {0} : next[x] \in Nat /\ size[next[x]] < size[x]
      OBVIOUS
    <3>3. size \in [Nat -> Nat] /\ base \in [Nat -> Nat] /\ next \in [Nat -> Nat]
      OBVIOUS
    <3> HIDE DEF size, base, next, times
    <3> QED
      BY <3>1, <3>2, <3>3 DEF Terminates
  <2>2. PICK f \in [Nat -> Nat] : f = OneStep(Nat, {0}, base, next, times, f)
    <3> DEFINE N == Nat
               Z == {0}
    <3>1. Terminates(N, N, Z, size, base, next, times)
      BY <2>1
    <3> HIDE DEF N, Z, size, base, next, times
    <3>2. \E f \in [N -> N] : f = OneStep(N, Z, base, next, times, f)
      BY <3>1, RecursiveFunction
    <3> QED
      BY <3>2 DEF N, Z
  <2>3. ASSUME NEW i \in Nat
        PROVE  f[i] = IF i = 0 THEN 1 ELSE b * f[i - 1]
    <3>1. f[i] = IF i \in {0} THEN base[i] ELSE times[<<i, f[next[i]]>>]
      <4> HIDE DEF base, next, times
      <4> QED
        BY <2>2 DEF OneStep
    <3>2. CASE i = 0
      BY <3>1, <3>2
    <3>3. CASE i # 0
      <4>1. next[i] = i - 1 /\ i - 1 \in Nat /\ f[i - 1] \in Nat
        BY <3>3
      <4>2. times[<<i, f[i - 1]>>] = b * f[i - 1]
        BY <4>1
      <4> QED
        BY <3>1, <3>3, <4>1, <4>2
    <3> QED
      BY <3>2, <3>3
  <2>4. f = [i \in Nat |-> f[i]]
    OBVIOUS
  <2>5. f = Def(f)
    BY <2>3, <2>4
  <2> QED
    BY <2>5
<1>2. pow = Def(pow)
  BY <1>1
<1>3. \A n : Power(b, n) = pow[n]
  BY DEF Power
<1> HIDE DEF pow
<1>4. pow[0] = 1 /\ \A n \in Nat : pow[n + 1] = b * pow[n]
  <2>1. \A i \in Nat : pow[i] = IF i = 0 THEN 1 ELSE b * pow[i - 1]
    BY <1>2
  <2>2. \A n \in Nat : n + 1 \in Nat /\ n + 1 # 0 /\ (n + 1) - 1 = n
    OBVIOUS
  <2> QED
    BY <2>1, <2>2
<1>5. \A n \in Nat : pow[n] \in Nat
  <2> DEFINE T == {n \in Nat : pow[n] \in Nat}
  <2>1. 0 \in T /\ \A n \in T : n + 1 \in T
    BY <1>4
  <2>2. T \in SUBSET Nat
    OBVIOUS
  <2> HIDE DEF T
  <2>3. T = Nat
    BY <2>1, <2>2, NumbersInduct
  <2> QED
    BY <2>3 DEF T
<1> QED
  BY <1>3, <1>4, <1>5

\* One selection narrows the gap to what k entries cover by its kth part.
Near(k, i, c, o) == Power(k, i) * (o - c) <= Power(k - 1, i) * o

LEMMA NearerByOne ==
  ASSUME NEW k \in Nat \ {0}, NEW i \in Nat, NEW c \in Nat, NEW o \in Nat, NEW g \in Nat,
         Near(k, i, c, o), o - c <= k * g
  PROVE  Near(k, i + 1, c + g, o)
<1> DEFINE K == Power(k, i)
           L == Power(k - 1, i)
           d == o - c
           j == k - 1
<1>0. d \in Int /\ j \in Nat /\ k = j + 1 /\ k \in Nat
  OBVIOUS
<1>1. K \in Nat /\ L \in Nat /\ d \in Int /\ j \in Nat /\ k = j + 1 /\ k \in Nat
  <2>1. L = Power(j, i)
    OBVIOUS
  <2> HIDE DEF j
  <2>2. Power(k, i) \in Nat /\ Power(j, i) \in Nat
    BY <1>0, PowerGrows
  <2> HIDE DEF L
  <2> QED
    BY <1>0, <2>1, <2>2
<1>2. Power(k, i + 1) = k * K /\ Power(j, i + 1) = j * L
  <2>1. L = Power(j, i)
    OBVIOUS
  <2> HIDE DEF j, L
  <2> QED
    BY <1>1, <2>1, PowerGrows
<1>3. K * d <= L * o /\ d <= k * g
  BY DEF Near
<1>4. o - (c + g) = d - g
  OBVIOUS
<1> HIDE DEF K, L, d, j
<1>5. k * (d - g) <= j * d
  <2>1. k * (d - g) = k * d - k * g /\ k * d = j * d + d
    BY <1>1
  <2> QED
    BY <1>1, <1>3, <2>1
<1>6. K * (k * (d - g)) <= K * (j * d)
  <2> DEFINE a == k * (d - g)
             b == j * d
  <2>1. a \in Int /\ b \in Int /\ a <= b
    BY <1>1, <1>5
  <2> HIDE DEF a, b
  <2>2. K * a <= K * b
    BY <1>1, <2>1
  <2> QED
    BY <2>2 DEF a, b
<1>7. j * (K * d) <= j * (L * o)
  <2> DEFINE a == K * d
             b == L * o
  <2>1. a \in Int /\ b \in Int /\ a <= b
    BY <1>1, <1>3
  <2> HIDE DEF a, b
  <2>2. j * a <= j * b
    BY <1>1, <2>1
  <2> QED
    BY <2>2 DEF a, b
<1>8. (k * K) * (d - g) = K * (k * (d - g)) /\ K * (j * d) = j * (K * d) /\ (j * L) * o = j * (L * o)
  BY <1>1
<1>9. (k * K) * (d - g) <= (j * L) * o
  <2>1. K * (k * (d - g)) \in Int /\ K * (j * d) \in Int /\ j * (L * o) \in Int
    BY <1>1
  <2> QED
    BY <1>6, <1>7, <1>8, <2>1
<1> QED
  BY <1>2, <1>4, <1>9 DEF Near, j

\* After k selections.
LEMMA NearAtLast ==
  ASSUME NEW k \in Nat \ {0}, NEW c \in Nat, NEW o \in Nat, Near(k, k, c, o)
  PROVE  c * Power(k, k) >= o * (Power(k, k) - Power(k - 1, k))
<1> DEFINE K == Power(k, k)
           L == Power(k - 1, k)
<1>1. K \in Nat /\ L \in Nat
  <2> DEFINE j == k - 1
  <2>1. j \in Nat /\ k \in Nat /\ L = Power(j, k)
    OBVIOUS
  <2> HIDE DEF j, L
  <2> QED
    BY <2>1, PowerGrows
<1>2. K * (o - c) <= L * o
  BY DEF Near
<1> HIDE DEF K, L
<1>3. K * (o - c) = o * K - c * K /\ L * o = o * L /\ o * (K - L) = o * K - o * L
  BY <1>1
<1>4. c * K >= o * (K - L)
  BY <1>1, <1>2, <1>3
<1> QED
  BY <1>4 DEF K, L


\* For any k, and not only for the number of entries selected so far.
NearInv ==
  /\ pages \in [Entry -> SUBSET PageNo]
  /\ stage = "greedy" =>
       \A k \in Nat \ {0} : \A chosen \in kSubset(k, Entry) :
         Near(k, Len(picks), Cardinality(covered), Cardinality(UnionOf(pages, chosen)))

\* What is left of any k entries is at most k times the greatest gain.
LEMMA GapBound ==
  ASSUME NEW cov, NEW rest, NEW ps, NEW on, NEW gains, Curve(cov, rest, ps, on, gains), Ranked(on, cov, gains),
         NEW e \in rest, \A x \in rest : gains[x] <= gains[e],
         \A x \in Entry : gains[x] = Cardinality(on[x] \ cov),
         NEW k \in Nat, NEW chosen \in kSubset(k, Entry)
  PROVE  Cardinality(UnionOf(on, chosen)) - Cardinality(cov) <= k * gains[e]
<1> DEFINE left == [x \in Entry |-> on[x] \ cov]
           g == gains[e]
           u == UnionOf(left, chosen)
           w == UnionOf(on, chosen)
<1>1. /\ chosen \in SUBSET Entry /\ Cardinality(chosen) = k /\ IsFiniteSet(chosen)
      /\ cov \in SUBSET PageNo /\ g \in Nat
  <2>1. chosen \in SUBSET Entry /\ Cardinality(chosen) = k
    BY DEF kSubset
  <2> QED
    BY <2>1, IndexAssumption, FS_Subset DEF Curve, Ranked
<1>2. \A x \in chosen : left[x] \in SUBSET PageNo /\ Cardinality(left[x]) <= g
  <2> SUFFICES ASSUME NEW x \in chosen
               PROVE  left[x] \in SUBSET PageNo /\ Cardinality(left[x]) <= g
    OBVIOUS
  <2>1. x \in Entry /\ left[x] = on[x] \ cov /\ on[x] \in SUBSET PageNo
    BY <1>1 DEF Ranked
  <2>2. CASE x \in rest
    BY <2>1, <2>2
  <2>3. CASE x \notin rest
    <3>1. left[x] = {} /\ Cardinality({}) = 0
      BY <2>1, <2>3, FS_EmptySet DEF Curve
    <3> QED
      BY <1>1, <3>1
  <2> QED
    BY <2>2, <2>3
<1>3. w \subseteq cov \cup u /\ w \in SUBSET PageNo /\ u \in SUBSET PageNo
  <2>1. \A x \in chosen : on[x] \in SUBSET PageNo /\ left[x] = on[x] \ cov
    BY <1>1 DEF Ranked
  <2> HIDE DEF left
  <2> QED
    BY <1>1, <2>1 DEF UnionOf
<1> HIDE DEF left, g, u, w
<1>4. Cardinality(u) <= k * g
  BY <1>1, <1>2, IndexAssumption, UnionBound DEF u
<1>5. /\ IsFiniteSet(cov) /\ IsFiniteSet(u) /\ IsFiniteSet(w) /\ Cardinality(cov) \in Nat
      /\ Cardinality(u) \in Nat /\ Cardinality(w) \in Nat
  BY <1>1, <1>3, IndexAssumption, FS_Subset, FS_CardinalityType
<1>6. Cardinality(cov \cup u) <= Cardinality(cov) + Cardinality(u) /\ IsFiniteSet(cov \cup u)
      /\ Cardinality(cov \cup u) \in Nat
  BY <1>5, UnionAtMost
<1>7. Cardinality(w) <= Cardinality(cov \cup u)
  BY <1>3, <1>6, FS_Subset
<1> DEFINE a == Cardinality(cov)
           b == Cardinality(u)
           c == Cardinality(cov \cup u)
           d == Cardinality(w)
           h == k * g
<1>8. a \in Nat /\ b \in Nat /\ c \in Nat /\ d \in Nat /\ h \in Nat /\ d <= c /\ c <= a + b /\ b <= h
  BY <1>1, <1>4, <1>5, <1>6, <1>7
<1> HIDE DEF a, b, c, d, h
<1>9. d - a <= h
  BY <1>8
<1> QED
  BY <1>9 DEF d, a, h, w, g


\* A selection brings the pages covered nearer to those of any k entries.
LEMMA PickKeepsNear ==
  ASSUME CurveInv, NearInv, stage = "greedy", Pick(newPages, On)
  PROVE  NearInv'
<1> DEFINE on    == PagesAt(stage, pages)
           gains == GainsAt(stage, pages, value, covered)
           C == Cardinality(covered)
           n == Len(picks)
<1>1. Curve(covered, remaining, picks, on, gains) /\ Ranked(on, covered, gains) /\ pages \in [Entry -> SUBSET PageNo]
  BY NowRanked DEF CurveInv, Reducing
<1>2. /\ on = pages
      /\ \A x \in Entry : gains[x] = Cardinality(pages[x] \ covered) /\ newPages(x) = gains[x]
  <2>1. pages = [x \in Entry |-> pages[x]]
    BY <1>1
  <2> QED
    BY <2>1 DEF PagesAt, GainsAt, GainAt, newPages, On
<1>3. PICK e \in remaining :
        /\ \A x \in remaining : newPages(x) <= newPages(e)
        /\ covered' = covered \cup pages[e]
        /\ picks' = Append(picks, [entry |-> e, gain |-> newPages(e), new |-> Cardinality(pages[e] \ covered)])
        /\ UNCHANGED <<stage, pages>>
  BY DEF Pick, Best, On
<1>4. e \in Entry /\ remaining \in SUBSET Entry /\ covered \in SUBSET PageNo
  BY <1>1, <1>2 DEF Curve
<1>5. \A x \in remaining : gains[x] <= gains[e]
  BY <1>2, <1>3, <1>4
<1>6. Len(picks') = n + 1 /\ n \in Nat
  <2> DEFINE r == [entry |-> e, gain |-> newPages(e), new |-> Cardinality(pages[e] \ covered)]
             S == Picked \cup {r}
  <2>1. picks \in Seq(Picked)
    BY <1>1 DEF Curve
  <2>2. picks \in Seq(S) /\ r \in S
    <3> HIDE DEF r
    <3>1. Picked \subseteq S
      OBVIOUS
    <3> HIDE DEF S
    <3> QED
      BY <2>1, <3>1, SeqMonotonic DEF S
  <2>3. picks' = Append(picks, r)
    BY <1>3
  <2> HIDE DEF S, r
  <2>4. Len(Append(picks, r)) = Len(picks) + 1 /\ Len(picks) \in Nat
    BY <2>2, AppendProperties, LenProperties
  <2> QED
    BY <2>3, <2>4
<1>7. Cardinality(covered') = C + gains[e] /\ C \in Nat /\ gains[e] \in Nat
  <2> DEFINE T == pages[e]
  <2>1. covered' = covered \cup T /\ gains[e] = Cardinality(T \ covered) /\ T \in SUBSET PageNo
    BY <1>1, <1>2, <1>3, <1>4
  <2> HIDE DEF T, gains
  <2>2. IsFiniteSet(covered) /\ IsFiniteSet(T)
    BY <1>4, <2>1, IndexAssumption, FS_Subset
  <2>3. C \in Nat /\ Cardinality(T \ covered) \in Nat /\ Cardinality(covered \cup T) = C + Cardinality(T \ covered)
    BY <2>2, UnionAdds
  <2> QED
    BY <2>1, <2>3
<1>8. ASSUME NEW k \in Nat \ {0}, NEW chosen \in kSubset(k, Entry)
      PROVE  Near(k, Len(picks'), Cardinality(covered'), Cardinality(UnionOf(pages', chosen)))
  <2> DEFINE o == Cardinality(UnionOf(pages, chosen))
             g == gains[e]
  <2>1. Near(k, n, C, o)
    BY <1>8 DEF NearInv
  <2>2. o - C <= k * g
    <3> HIDE DEF on, gains
    <3>1. k \in Nat
      OBVIOUS
    <3> QED
      BY <1>1, <1>2, <1>5, <3>1, GapBound
  <2>3. o \in Nat
    <3>1. UnionOf(pages, chosen) \in SUBSET PageNo
      BY <1>1 DEF UnionOf, kSubset
    <3> QED
      BY <3>1, IndexAssumption, FS_Subset, FS_CardinalityType
  <2>4. g \in Nat /\ C \in Nat /\ n \in Nat
    BY <1>6, <1>7
  <2>5. Len(picks') = n + 1 /\ Cardinality(covered') = C + g /\ Cardinality(UnionOf(pages', chosen)) = o
    <3>1. pages' = pages
      BY <1>3
    <3> QED
      BY <1>6, <1>7, <3>1
  <2> HIDE DEF o, g, C, n
  <2>6. Near(k, n + 1, C + g, o)
    BY <2>1, <2>2, <2>3, <2>4, NearerByOne
  <2> QED
    BY <2>5, <2>6
<1>9. pages' \in [Entry -> SUBSET PageNo]
  BY <1>1, <1>3
<1> QED
  BY <1>8, <1>9 DEF NearInv

\* The reduction begins with a gap of all that they cover.
LEMMA NearBegins ==
  ASSUME pages \in [Entry -> SUBSET PageNo], UNCHANGED pages, covered' = {}, picks' = <<>>
  PROVE  NearInv'
<1> SUFFICES ASSUME NEW k \in Nat \ {0}, NEW chosen \in kSubset(k, Entry)
             PROVE  Near(k, Len(picks'), Cardinality(covered'), Cardinality(UnionOf(pages', chosen)))
  BY DEF NearInv
<1> DEFINE o == Cardinality(UnionOf(pages, chosen))
           j == k - 1
<1>1. o \in Nat
  <2>1. UnionOf(pages, chosen) \in SUBSET PageNo
    BY DEF UnionOf, kSubset
  <2> QED
    BY <2>1, IndexAssumption, FS_Subset, FS_CardinalityType
<1>2. Power(k, 0) = 1 /\ Power(k - 1, 0) = 1
  <2>1. j \in Nat /\ k \in Nat
    OBVIOUS
  <2> HIDE DEF j
  <2>2. Power(k, 0) = 1 /\ Power(j, 0) = 1
    BY <2>1, PowerGrows
  <2> QED
    BY <2>2 DEF j
<1>3. Len(picks') = 0 /\ Cardinality(covered') = 0 /\ Cardinality(UnionOf(pages', chosen)) = o
  BY FS_EmptySet, EmptySeq
<1> HIDE DEF o
<1>4. Near(k, 0, 0, o)
  BY <1>1, <1>2 DEF Near
<1> QED
  BY <1>3, <1>4

\* Every stage keeps it.
LEMMA NearStep ==
  ASSUME CurveInv, NearInv, [IndexNext]_indexVars
  PROVE  NearInv'
<1>0. CASE UNCHANGED indexVars
  BY <1>0 DEF NearInv, indexVars
<1>1. CASE stage = "greedy" /\ Pick(newPages, On)
  BY <1>1, PickKeepsNear
<1>2. CASE ComputeSignals
  <2>1. pages \in [Entry -> SUBSET PageNo] /\ UNCHANGED pages /\ covered' = {} /\ picks' = <<>>
    BY <1>2 DEF ComputeSignals, Gather, CurveInv
  <2> QED
    BY <2>1, NearBegins
<1>3. CASE stage' # "greedy" /\ pages' \in [Entry -> SUBSET PageNo]
  BY <1>3 DEF NearInv
<1>4. CASE IndexNext /\ ~ComputeSignals /\ ~(stage = "greedy" /\ Pick(newPages, On))
  <2>1. stage' # "greedy" /\ pages' \in [Entry -> SUBSET PageNo]
    BY <1>4 DEF IndexNext, CurveInv, LoadEntries, greedyReduce, Selected, computeWeightedEdges,
         weightedGreedyReduce, Pick, computeBackgroundRate, foregroundGreedy, analyzeContentions,
         ingestPageContent, computeAboutness, subtractToIndex, StoreSignals
  <2> QED
    BY <1>3, <2>1
<1> QED
  BY <1>0, <1>1, <1>2, <1>4

\* The greedy ranking keeps its promise: the first k entries cover at least
\* 1 - (1 - 1/k)^k of what any k entries could.
THEOREM GreedyAlwaysNearBest == IndexSpec => []GreedyNearBest
<1>1. IndexInit => CurveInv /\ NearInv
  BY DEF IndexInit, CurveInv, NearInv, Reducing
<1>2. CurveInv /\ NearInv /\ [IndexNext]_indexVars => CurveInv' /\ NearInv'
  BY CurveStep, NearStep
<1>3. ASSUME CurveInv, NearInv
      PROVE  GreedyNearBest
  <2> DEFINE k == Len(picks)
  <2> SUFFICES ASSUME stage = "greedy", picks # <<>>, NEW chosen \in kSubset(k, Entry)
               PROVE  Cardinality(covered) * Power(k, k) >=
                        Cardinality(UNION {pages[e] : e \in chosen}) * (Power(k, k) - Power(k - 1, k))
    BY DEF GreedyNearBest
  <2> DEFINE C == Cardinality(covered)
             o == Cardinality(UnionOf(pages, chosen))
  <2>1. /\ pages \in [Entry -> SUBSET PageNo] /\ covered \in SUBSET UNION {pages[x] : x \in Entry}
        /\ picks \in Seq(Picked)
    <3>1. pages \in [Entry -> SUBSET PageNo] /\ Curve(covered, remaining, picks, PagesAt(stage, pages), GainsAt(stage, pages, value, covered))
      BY <1>3 DEF CurveInv, Reducing
    <3>2. \A x \in Entry : PagesAt(stage, pages)[x] = pages[x]
      BY DEF PagesAt
    <3>3. {PagesAt(stage, pages)[x] : x \in Entry} = {pages[x] : x \in Entry}
      BY <3>2
    <3> QED
      BY <3>1, <3>3 DEF Curve
  <2>2. C \in Nat /\ o \in Nat
    <3>1. covered \in SUBSET PageNo /\ UnionOf(pages, chosen) \in SUBSET PageNo
      BY <2>1 DEF UnionOf, kSubset
    <3> QED
      BY <3>1, IndexAssumption, FS_Subset, FS_CardinalityType
  <2>3. k \in Nat \ {0}
    <3> DEFINE S == Picked
    <3>1. picks \in Seq(S)
      BY <2>1
    <3> HIDE DEF S
    <3> QED
      BY <3>1, LenProperties, EmptySeq
  <2>4. Near(k, k, C, o)
    BY <1>3, <2>3 DEF NearInv
  <2> HIDE DEF k, C, o
  <2>5. C * Power(k, k) >= o * (Power(k, k) - Power(k - 1, k))
    BY <2>2, <2>3, <2>4, NearAtLast
  <2> QED
    BY <2>5 DEF k, C, o, UnionOf
<1> QED
  BY <1>1, <1>2, <1>3, PTL DEF IndexSpec

----------------------------------------------------------------------------
(* Clusters *)

\* The parents lead, page by page of smaller rank, to roots.
Forest(par, rank) ==
  /\ DOMAIN par \in SUBSET PagesRead
  /\ rank \in [PagesRead -> Nat]
  /\ \A y \in DOMAIN par : par[y] \in PagesRead /\ rank[par[y]] < rank[y]

\* chain is the chain of each page.
Chains(par, chain) ==
  /\ chain \in [PagesRead -> Seq(PagesRead)]
  /\ \A x \in PagesRead : chain[x] = IF x \in DOMAIN par THEN <<x>> \o chain[par[x]] ELSE <<x>>

\* Then find comes to an end.
LEMMA ChainEnds ==
  ASSUME NEW par, NEW rank, Forest(par, rank)
  PROVE  \E chain : Chains(par, chain) /\ \A x : Chain(par, x) = chain[x]
<1> DEFINE X    == PagesRead
           V    == Seq(PagesRead)
           Stop == PagesRead \ DOMAIN par
           base == [x \in X |-> <<x>>]
           next == [x \in X |-> IF x \in DOMAIN par THEN par[x] ELSE x]
           grow == [a \in X \X V |-> <<a[1]>> \o a[2]]
           Def(f) == [y \in PagesRead |-> IF y \in DOMAIN par THEN <<y>> \o f[par[y]] ELSE <<y>>]
           chain == CHOOSE f : f = Def(f)
<1>1. \A x \in X : <<x>> \in V
  OBVIOUS
<1>2. \A x \in X, s \in V : <<x>> \o s \in V
  <2> SUFFICES ASSUME NEW x \in X, NEW s \in V PROVE <<x>> \o s \in V
    OBVIOUS
  <2> DEFINE e == <<x>>
  <2>1. e \in Seq(PagesRead)
    BY <1>1
  <2> HIDE DEF e
  <2> QED
    BY <2>1, ConcatProperties
<1>3. PICK f \in [X -> V] : f = OneStep(X, Stop, base, next, grow, f)
  <2>1. Stop \in SUBSET X /\ rank \in [X -> Nat] /\ next \in [X -> X]
        /\ \A x \in X \ Stop : rank[next[x]] < rank[x]
    BY DEF Forest
  <2>2. base \in [X -> V]
    <3> HIDE DEF V
    <3> QED
      BY <1>1
  <2>3. grow \in [X \X V -> V]
    <3> HIDE DEF V
    <3>1. \A a \in X \X V : a[1] \in X /\ a[2] \in V
      OBVIOUS
    <3> QED
      BY <1>2, <3>1
  <2> HIDE DEF X, V, Stop, base, next, grow
  <2>4. Terminates(X, V, Stop, rank, base, next, grow)
    BY <2>1, <2>2, <2>3 DEF Terminates
  <2> QED
    BY <2>4, RecursiveFunction
<1>4. \A x \in X : f[x] = IF x \in DOMAIN par THEN <<x>> \o f[par[x]] ELSE <<x>>
  <2> SUFFICES ASSUME NEW x \in X
               PROVE  f[x] = IF x \in DOMAIN par THEN <<x>> \o f[par[x]] ELSE <<x>>
    OBVIOUS
  <2>1. f[x] = IF x \in Stop THEN base[x] ELSE grow[<<x, f[next[x]]>>]
    <3> HIDE DEF X, V, Stop, base, next, grow
    <3> QED
      BY <1>3 DEF OneStep
  <2>2. CASE x \in DOMAIN par
    <3>1. next[x] = par[x] /\ par[x] \in X /\ f[par[x]] \in V
      BY <1>3, <2>2 DEF Forest
    <3>2. grow[<<x, f[par[x]]>>] = <<x>> \o f[par[x]]
      <4> HIDE DEF V
      <4> QED
        BY <3>1
    <3> QED
      BY <2>1, <2>2, <3>1, <3>2
  <2>3. CASE x \notin DOMAIN par
    BY <2>1, <2>3
  <2> QED
    BY <2>2, <2>3
<1>5. f = Def(f)
  <2> HIDE DEF V
  <2>1. f = [x \in X |-> f[x]]
    BY <1>3
  <2> QED
    BY <1>4, <2>1
<1>6. chain = Def(chain)
  BY <1>5
<1>7. \A x : Chain(par, x) = chain[x]
  BY DEF Chain
<1> HIDE DEF chain
<1>8. \A x \in PagesRead : chain[x] = IF x \in DOMAIN par THEN <<x>> \o chain[par[x]] ELSE <<x>>
  BY <1>6
<1>9. \A x \in PagesRead : chain[x] = f[x]
  <2> DEFINE Bad == {n \in Nat : \E x \in PagesRead : rank[x] = n /\ chain[x] # f[x]}
  <2>1. Bad = {}
    <3> SUFFICES ASSUME Bad # {} PROVE FALSE
      OBVIOUS
    <3>1. PICK n \in Bad : \A m \in Bad : n <= m
      BY LeastNumber
    <3>2. PICK x \in PagesRead : rank[x] = n /\ chain[x] # f[x]
      OBVIOUS
    <3>3. x \in DOMAIN par
      BY <1>4, <1>8, <3>2
    <3>4. par[x] \in PagesRead /\ rank[par[x]] \in Nat /\ rank[par[x]] < n /\ n \in Nat
      BY <3>2, <3>3 DEF Forest
    <3>5. chain[par[x]] = f[par[x]]
      <4> SUFFICES ASSUME chain[par[x]] # f[par[x]] PROVE FALSE
        OBVIOUS
      <4>1. rank[par[x]] \in Bad
        BY <3>4
      <4> QED
        BY <3>1, <3>4, <4>1
    <3> QED
      BY <1>4, <1>8, <3>2, <3>3, <3>5
  <2> QED
    BY <2>1 DEF Forest
<1>10. chain = [x \in PagesRead |-> chain[x]]
  BY <1>6
<1>11. Chains(par, chain)
  <2>1. chain \in [PagesRead -> Seq(PagesRead)]
    <3> HIDE DEF Def
    <3> QED
      BY <1>3, <1>9, <1>10
  <2> QED
    BY <1>8, <2>1 DEF Chains
<1> QED
  BY <1>7, <1>11

\* What find and its chain are, from one page to the next.
Finds(par, rank, x) ==
  /\ find(par, x) \in PagesRead \ DOMAIN par
  /\ x \notin DOMAIN par => find(par, x) = x
  /\ x \in DOMAIN par => find(par, x) = find(par, par[x]) /\ rank[find(par, x)] < rank[x]
  /\ \A z \in Range(Chain(par, x)) : z \in PagesRead /\ find(par, z) = find(par, x)

LEMMA FindFacts ==
  ASSUME NEW par, NEW rank, Forest(par, rank)
  PROVE  \A x \in PagesRead : Finds(par, rank, x)
<1> DEFINE Bad == {n \in Nat : \E x \in PagesRead : rank[x] = n /\ ~Finds(par, rank, x)}
<1>1. PICK chain : Chains(par, chain) /\ \A x : Chain(par, x) = chain[x]
  BY ChainEnds
<1>2. \A x \in PagesRead : chain[x] \in Seq(PagesRead) /\ find(par, x) = Last(chain[x])
  BY <1>1 DEF Chains, find
<1>3. Bad = {}
  <2> SUFFICES ASSUME Bad # {} PROVE FALSE
    OBVIOUS
  <2>1. PICK n \in Bad : \A m \in Bad : n <= m
    BY LeastNumber
  <2>2. PICK x \in PagesRead : rank[x] = n /\ ~Finds(par, rank, x)
    OBVIOUS
  <2>3. CASE x \notin DOMAIN par
    <3>1. chain[x] = <<x>>
      BY <1>1, <2>3 DEF Chains
    <3>2. Len(<<x>>) = 1 /\ DOMAIN <<x>> = {1} /\ <<x>>[1] = x
      OBVIOUS
    <3>3. find(par, x) = x
      BY <1>2, <3>1, <3>2 DEF Last
    <3>4. Range(Chain(par, x)) = {x}
      BY <1>1, <3>1, <3>2 DEF Range
    <3> QED
      BY <2>2, <2>3, <3>3, <3>4 DEF Finds
  <2>4. CASE x \in DOMAIN par
    <3> DEFINE y == par[x]
               s == chain[y]
               e == <<x>>
               l == Len(s)
    <3>1. y \in PagesRead /\ rank[y] \in Nat /\ rank[y] < n /\ n \in Nat /\ chain[x] = e \o s
      BY <1>1, <2>2, <2>4 DEF Forest, Chains
    <3>2. Finds(par, rank, y)
      <4> SUFFICES ASSUME ~Finds(par, rank, y) PROVE FALSE
        OBVIOUS
      <4>1. rank[y] \in Bad
        BY <3>1
      <4> QED
        BY <2>1, <3>1, <4>1
    <3>3. e \in Seq(PagesRead) /\ Len(e) = 1 /\ e[1] = x /\ s \in Seq(PagesRead)
      BY <1>2, <3>1
    <3>4. s # <<>>
      <4>1. s = <<y>> \/ \E z \in PagesRead : s = <<y>> \o chain[z] /\ chain[z] \in Seq(PagesRead)
        BY <1>1, <1>2, <3>1 DEF Chains, Forest
      <4> DEFINE d == <<y>>
      <4>2. d \in Seq(PagesRead) /\ Len(d) = 1
        BY <3>1
      <4>3. Len(s) # 0
        <5>1. CASE s = d
          BY <4>2, <5>1
        <5>2. CASE \E z \in PagesRead : s = d \o chain[z] /\ chain[z] \in Seq(PagesRead)
          <6> HIDE DEF d, s
          <6>1. PICK t \in Seq(PagesRead) : s = d \o t
            BY <5>2
          <6>2. Len(s) = 1 + Len(t) /\ Len(t) \in Nat
            BY <4>2, <6>1, ConcatProperties, LenProperties
          <6> QED
            BY <6>2
        <5> QED
          BY <4>1, <5>1, <5>2
      <4> QED
        BY <4>3
    <3>5. chain[x] \in Seq(PagesRead) /\ find(par, x) = Last(chain[x]) /\ find(par, y) = Last(s)
      BY <1>2, <3>1
    <3>6. Range(Chain(par, x)) = Range(e \o s) /\ Range(Chain(par, y)) = Range(s)
      BY <1>1, <3>1
    <3> HIDE DEF e, s, l, y
    <3>7. l \in Nat \ {0} /\ DOMAIN s = 1..l
      BY <3>3, <3>4, EmptySeq, LenProperties DEF l
    <3>8. Len(e \o s) = 1 + l /\ DOMAIN (e \o s) = 1..(1 + l)
          /\ \A i \in 1..(1 + l) : (e \o s)[i] = IF i <= 1 THEN e[i] ELSE s[i - 1]
      <4>1. e \o s \in Seq(PagesRead) /\ Len(e \o s) = 1 + l
            /\ \A i \in 1..(1 + l) : (e \o s)[i] = IF i <= 1 THEN e[i] ELSE s[i - 1]
        <5>1. /\ e \o s \in Seq(PagesRead) /\ Len(e \o s) = Len(e) + Len(s)
              /\ \A i \in 1..(Len(e) + Len(s)) : (e \o s)[i] = IF i <= Len(e) THEN e[i] ELSE s[i - Len(e)]
          BY <3>3, ConcatProperties
        <5>2. Len(e) = 1 /\ Len(s) = l
          BY <3>3 DEF l
        <5> QED
          BY <5>1, <5>2
      <4> QED
        BY <4>1, LenProperties
    <3>9. find(par, x) = find(par, y)
      <4>1. (e \o s)[1 + l] = s[l]
        BY <3>7, <3>8
      <4> QED
        BY <3>1, <3>5, <3>8, <4>1 DEF Last, l
    <3>10. \A z \in Range(e \o s) : z = x \/ z \in Range(s)
      <4> SUFFICES ASSUME NEW i \in 1..(1 + l)
                   PROVE  (e \o s)[i] = x \/ (e \o s)[i] \in Range(s)
        BY <3>8 DEF Range
      <4>1. CASE i = 1
        BY <3>3, <3>8, <4>1
      <4>2. CASE i # 1
        <5>1. i - 1 \in 1..l /\ (e \o s)[i] = s[i - 1]
          BY <3>7, <3>8, <4>2
        <5> QED
          BY <3>7, <5>1 DEF Range
      <4> QED
        BY <4>1, <4>2
    <3>11. rank[find(par, y)] < n
      <4>1. find(par, y) = y \/ rank[find(par, y)] < rank[y]
        BY <3>2 DEF Finds
      <4>2. find(par, y) \in PagesRead
        BY <3>2 DEF Finds
      <4>3. rank[find(par, y)] \in Nat
        BY <4>2 DEF Forest
      <4> QED
        BY <3>1, <4>1, <4>3
    <3>12. \A z \in Range(Chain(par, x)) : z \in PagesRead /\ find(par, z) = find(par, x)
      BY <3>2, <3>6, <3>9, <3>10 DEF Finds
    <3> QED
      BY <2>2, <2>4, <3>2, <3>9, <3>11, <3>12 DEF Finds, y
  <2> QED
    BY <2>3, <2>4
<1> QED
  BY <1>3 DEF Forest

\* Any function that says of a page what it says of its parent is find.
LEMMA FindIs ==
  ASSUME NEW par, NEW rank, Forest(par, rank), NEW r,
         \A x \in PagesRead : r[x] = IF x \in DOMAIN par THEN r[par[x]] ELSE x
  PROVE  \A x \in PagesRead : find(par, x) = r[x]
<1> DEFINE Bad == {n \in Nat : \E x \in PagesRead : rank[x] = n /\ find(par, x) # r[x]}
<1>1. Bad = {}
  <2> SUFFICES ASSUME Bad # {} PROVE FALSE
    OBVIOUS
  <2>1. PICK n \in Bad : \A m \in Bad : n <= m
    BY LeastNumber
  <2>2. PICK x \in PagesRead : rank[x] = n /\ find(par, x) # r[x]
    OBVIOUS
  <2>3. Finds(par, rank, x)
    BY FindFacts
  <2>4. x \in DOMAIN par
    BY <2>2, <2>3 DEF Finds
  <2>5. par[x] \in PagesRead /\ rank[par[x]] \in Nat /\ rank[par[x]] < n /\ n \in Nat
    BY <2>2, <2>4 DEF Forest
  <2>6. find(par, par[x]) = r[par[x]]
    <3> SUFFICES ASSUME find(par, par[x]) # r[par[x]] PROVE FALSE
      OBVIOUS
    <3>1. rank[par[x]] \in Bad
      BY <2>5
    <3> QED
      BY <2>1, <2>5, <3>1
  <2> QED
    BY <2>2, <2>3, <2>4, <2>6 DEF Finds
<1> QED
  BY <1>1 DEF Forest

\* Paths are compressed without a change of what find says.
LEMMA CompressedFinds ==
  ASSUME NEW par, NEW rank, Forest(par, rank), NEW x \in PagesRead
  PROVE  /\ Forest(Compressed(par, x), rank)
         /\ \A y \in PagesRead : find(Compressed(par, x), y) = find(par, y)
<1> DEFINE c == Compressed(par, x)
           r == [y \in PagesRead |-> find(par, y)]
           on == Range(Chain(par, x))
<1>1. \A y \in PagesRead : Finds(par, rank, y)
  BY FindFacts
<1>2. DOMAIN c = DOMAIN par /\ \A y \in DOMAIN par : c[y] = IF y \in on THEN find(par, x) ELSE par[y]
  BY DEF Compressed
<1> HIDE DEF c, on
<1>3. ASSUME NEW y \in DOMAIN par
      PROVE  c[y] \in PagesRead /\ rank[c[y]] < rank[y] /\ find(par, c[y]) = find(par, y)
  <2>1. y \in PagesRead
    BY DEF Forest
  <2>2. CASE y \in on
    <3>1. find(par, y) = find(par, x)
      BY <1>1, <2>2 DEF Finds, on
    <3>2. c[y] = find(par, y) /\ find(par, y) \in PagesRead \ DOMAIN par /\ rank[find(par, y)] < rank[y]
      BY <1>1, <1>2, <2>1, <2>2, <3>1 DEF Finds
    <3> QED
      BY <1>1, <3>2 DEF Finds
  <2>3. CASE y \notin on
    BY <1>1, <1>2, <2>1, <2>3 DEF Finds, Forest
  <2> QED
    BY <2>2, <2>3
<1>4. Forest(c, rank)
  BY <1>2, <1>3 DEF Forest
<1>5. \A y \in PagesRead : r[y] = IF y \in DOMAIN c THEN r[c[y]] ELSE y
  BY <1>1, <1>2, <1>3 DEF Finds
<1> HIDE DEF r
<1>6. \A y \in PagesRead : find(c, y) = r[y]
  BY <1>4, <1>5, FindIs
<1> QED
  BY <1>4, <1>6 DEF r, c

\* A root under another one: the pages of both have that one.
LEMMA HangFinds ==
  ASSUME NEW par, NEW rank, Forest(par, rank), NEW a \in PagesRead, NEW b \in PagesRead,
         a \notin DOMAIN par, b \notin DOMAIN par, a # b
  PROVE  /\ \E higher : Forest(Hang(par, a, b), higher)
         /\ \A y \in PagesRead : find(Hang(par, a, b), y) = IF find(par, y) = a THEN b ELSE find(par, y)
<1> DEFINE c == Hang(par, a, b)
           r == [y \in PagesRead |-> IF find(par, y) = a THEN b ELSE find(par, y)]
           higher == [y \in PagesRead |-> IF find(par, y) = a THEN rank[y] + rank[b] + 1 ELSE rank[y]]
<1>1. \A y \in PagesRead : Finds(par, rank, y) /\ rank[y] \in Nat
  BY FindFacts DEF Forest
<1>2. DOMAIN c = DOMAIN par \cup {a} /\ c[a] = b /\ \A y \in DOMAIN par : c[y] = par[y]
  BY DEF Hang
<1> HIDE DEF c
<1>3. find(par, a) = a /\ find(par, b) = b
  BY <1>1 DEF Finds
<1>4. ASSUME NEW y \in DOMAIN c
      PROVE  y \in PagesRead /\ c[y] \in PagesRead /\ higher[c[y]] < higher[y] /\ r[c[y]] = r[y]
  <2>1. CASE y = a
    <3>1. c[y] = b /\ rank[a] \in Nat /\ rank[b] \in Nat
      BY <1>1, <1>2, <2>1
    <3>2. higher[a] = rank[a] + rank[b] + 1 /\ higher[b] = rank[b] /\ r[a] = b /\ r[b] = b
      BY <1>3
    <3> QED
      BY <2>1, <3>1, <3>2
  <2>2. CASE y \in DOMAIN par
    <3>1. /\ y \in PagesRead /\ c[y] = par[y] /\ par[y] \in PagesRead /\ rank[par[y]] < rank[y]
          /\ find(par, par[y]) = find(par, y)
      BY <1>1, <1>2, <2>2 DEF Finds, Forest
    <3>2. rank[par[y]] \in Nat /\ rank[y] \in Nat /\ rank[b] \in Nat
      BY <1>1, <3>1
    <3> QED
      BY <3>1, <3>2
  <2> QED
    BY <1>2, <2>1, <2>2
<1>5. higher \in [PagesRead -> Nat]
  BY <1>1
<1>6. \A y \in PagesRead : r[y] = IF y \in DOMAIN c THEN r[c[y]] ELSE y
  <2> SUFFICES ASSUME NEW y \in PagesRead, y \notin DOMAIN c
               PROVE  r[y] = y
    BY <1>4
  <2> QED
    BY <1>1, <1>2 DEF Finds
<1> HIDE DEF r, higher
<1>7. Forest(c, higher)
  BY <1>4, <1>5 DEF Forest
<1>8. \A y \in PagesRead : find(c, y) = r[y]
  BY <1>6, <1>7, FindIs
<1> QED
  BY <1>7, <1>8 DEF r, c

\* union joins two trees, and no others.
LEMMA UnionFinds ==
  ASSUME NEW par, NEW rank, Forest(par, rank), NEW a \in PagesRead, NEW b \in PagesRead
  PROVE  /\ \E higher : Forest(union(par, a, b), higher)
         /\ \A y \in PagesRead :
              find(union(par, a, b), y) = IF find(par, y) = find(par, a) THEN find(par, b) ELSE find(par, y)
<1> DEFINE c == Compressed(par, a)
           d == Compressed(c, b)
           ra == find(par, a)
           rb == find(par, b)
<1>1. Forest(c, rank) /\ \A y \in PagesRead : find(c, y) = find(par, y)
  BY CompressedFinds
<1>2. Forest(d, rank) /\ \A y \in PagesRead : find(d, y) = find(c, y)
  <2> HIDE DEF c
  <2> QED
    BY <1>1, CompressedFinds
<1>3. \A y \in PagesRead : find(d, y) = find(par, y)
  BY <1>1, <1>2
<1>4. union(par, a, b) = IF ra = rb THEN d ELSE Hang(d, ra, rb)
  BY DEF union
<1> HIDE DEF c, d
<1>5. find(d, a) \in PagesRead \ DOMAIN d /\ find(d, b) \in PagesRead \ DOMAIN d
  BY <1>2, FindFacts DEF Finds
<1>6. ra \in PagesRead \ DOMAIN d /\ rb \in PagesRead \ DOMAIN d
  BY <1>3, <1>5
<1> HIDE DEF ra, rb
<1>7. CASE ra = rb
  <2>1. union(par, a, b) = d
    BY <1>4, <1>7
  <2> QED
    BY <1>2, <1>3, <1>7, <2>1 DEF ra, rb
<1>8. CASE ra # rb
  <2> DEFINE e == Hang(d, ra, rb)
  <2>1. union(par, a, b) = e
    BY <1>4, <1>8
  <2>2. /\ \E higher : Forest(e, higher)
        /\ \A y \in PagesRead : find(e, y) = IF find(d, y) = ra THEN rb ELSE find(d, y)
    BY <1>2, <1>6, <1>8, HangFinds
  <2> HIDE DEF e
  <2> QED
    BY <1>3, <2>1, <2>2 DEF ra, rb
<1> QED
  BY <1>7, <1>8

\* The pages of the pairs that some page among pgs is in.
Nearer(links, pgs) == pgs \cup UNION {s \in links : s \cap pgs # {}}

\* The turns of the fold of Linked.
Count == [n \in 1..Cardinality(PagesRead) |-> n]

\* The fold of Linked.
LinkSteps(p, links, h) ==
  [x \in SUBSET DOMAIN Count |-> IF x = {} THEN {p} ELSE Nearer(links, h[x \ {Max(x)}])]

\* Linked is the last value of its fold.
LEMMA LinkedIsSteps ==
  ASSUME NEW p, NEW links
  PROVE  Linked(p, links) = (CHOOSE h : h = LinkSteps(p, links, h))[DOMAIN Count]
BY DEF Linked, FoldLeft, MapThenFoldSet, LinkSteps, Nearer, Count

\* g is what it has after each of its turns.
Links(p, links, g) ==
  /\ g \in [0..Cardinality(PagesRead) -> SUBSET PagesRead]
  /\ g[0] = {p}
  /\ \A k \in 0..(Cardinality(PagesRead) - 1) : g[k + 1] = Nearer(links, g[k])

\* The fold grows the pages turn by turn.
LEMMA LinkedTurns ==
  ASSUME NEW p \in PagesRead, NEW links \in SUBSET SUBSET PagesRead
  PROVE  \E g : Links(p, links, g) /\ Linked(p, links) = g[Cardinality(PagesRead)]
<1> DEFINE n    == Cardinality(PagesRead)
           S    == 1..n
           V    == SUBSET PagesRead
           base == {p}
           grow == [a \in V \X S |-> Nearer(links, a[1])]
           h    == CHOOSE f : f = LinkSteps(p, links, f)
<1>1. n \in Nat
  BY ClustersAssumption, FS_CardinalityType
<1> HIDE DEF n
<1>2. Count \in Seq(S) /\ Len(Count) = n /\ DOMAIN Count = 1..n /\ \A i \in 1..n : Count[i] \in S
  <2>1. Count \in [1..n -> 1..n]
    BY DEF Count, n
  <2> QED
    BY <1>1, <2>1
<1>3. \A v \in V : Nearer(links, v) \in V
  BY DEF Nearer
<1>4. grow \in [V \X S -> V] /\ \A v \in V, i \in S : grow[<<v, i>>] = Nearer(links, v)
  <2> HIDE DEF V, S
  <2>1. \A a \in V \X S : a[1] \in V
    OBVIOUS
  <2> QED
    BY <1>3, <2>1
<1>5. base \in V
  OBVIOUS
<1>6. Steps(Count, S, V, base, grow)
  <2> HIDE DEF V, S, grow, base
  <2> QED
    BY <1>2, <1>4, <1>5 DEF Steps
<1>7. \A x \in SUBSET DOMAIN Count : x # {} => Max(x) \in DOMAIN Count
  BY <1>1, <1>2, MaxOfPositions
<1>8. h = LinkSteps(p, links, h)
  <2>1. PICK f : FoldsUp(Count, V, base, grow, f)
    <3> HIDE DEF S, V, grow, base, h
    <3> QED
      BY <1>6, FoldExists
  <2>2. f \in [SUBSET DOMAIN Count -> V]
    BY <2>1 DEF FoldsUp
  <2>3. ASSUME NEW x \in SUBSET DOMAIN Count
        PROVE  f[x] = LinkSteps(p, links, f)[x]
    <3>1. f[x] = IF x = {} THEN base ELSE grow[<<f[x \ {Max(x)}], Count[Max(x)]>>]
      <4> HIDE DEF V, S, grow, base
      <4> QED
        BY <2>1 DEF FoldsUp
    <3>2. CASE x # {}
      <4>1. f[x \ {Max(x)}] \in V /\ Count[Max(x)] \in S
        BY <1>2, <1>7, <2>2, <3>2, SMTT(30)
      <4>2. grow[<<f[x \ {Max(x)}], Count[Max(x)]>>] = Nearer(links, f[x \ {Max(x)}])
        <5> HIDE DEF V, S, grow
        <5> QED
          BY <1>4, <4>1
      <4> HIDE DEF V, grow
      <4> QED
        BY <3>1, <3>2, <4>2 DEF LinkSteps
    <3> QED
      BY <3>1, <3>2 DEF LinkSteps
  <2>4. f = LinkSteps(p, links, f)
    <3> HIDE DEF V
    <3> QED
      BY <2>2, <2>3 DEF LinkSteps
  <2> QED
    BY <2>4
<1>9. PICK g : Accumulates(Count, V, base, grow, g) /\ h[DOMAIN Count] = g[Len(Count)]
  <2> HIDE DEF h
  <2>1. ASSUME NEW x \in SUBSET DOMAIN Count
        PROVE  /\ x = {} => h[x] = base
               /\ x # {} /\ h[x \ {Max(x)}] \in V => h[x] = grow[<<h[x \ {Max(x)}], Count[Max(x)]>>]
    <3>1. h[x] = IF x = {} THEN {p} ELSE Nearer(links, h[x \ {Max(x)}])
      BY <1>8 DEF LinkSteps
    <3>2. CASE x # {} /\ h[x \ {Max(x)}] \in V
      <4>1. Count[Max(x)] \in S
        BY <1>2, <1>7, <3>2
      <4> HIDE DEF V, S, grow
      <4> QED
        BY <1>4, <3>1, <3>2, <4>1
    <3> QED
      BY <3>1, <3>2
  <2> HIDE DEF S, V, grow, base
  <2>2. FoldsIn(Count, V, base, grow, h)
    BY <2>1 DEF FoldsIn
  <2> QED
    BY <1>6, <2>2, FoldGrows
<1>10. Linked(p, links) = g[n]
  BY <1>2, <1>9, LinkedIsSteps
<1> HIDE DEF h
<1>11. g \in [0..n -> V] /\ g[0] = base /\ \A k \in 0..(n - 1) : g[k + 1] = grow[<<g[k], Count[k + 1]>>]
  <2> HIDE DEF V, base, grow
  <2> QED
    BY <1>2, <1>9 DEF Accumulates
<1>12. \A k \in 0..(n - 1) : g[k + 1] = Nearer(links, g[k])
  <2> SUFFICES ASSUME NEW k \in 0..(n - 1) PROVE g[k + 1] = Nearer(links, g[k])
    OBVIOUS
  <2>1. k \in 0..n /\ k + 1 \in 1..n
    BY <1>1
  <2>2. g[k] \in V /\ Count[k + 1] \in S
    BY <1>2, <1>11, <2>1
  <2> HIDE DEF V, S, grow
  <2> QED
    BY <1>4, <1>11, <2>2
<1>13. Links(p, links, g)
  BY <1>11, <1>12 DEF Links, n
<1> QED
  BY <1>10, <1>13 DEF n

\* No pair leads out of T.
Saturated(links, T) == \A s \in links : s \cap T # {} => s \subseteq T

\* Linked is the least set with p that no pair leaves.
LinksAll(p, links, L) ==
  /\ p \in L /\ L \in SUBSET PagesRead /\ Saturated(links, L)
  /\ \A T : p \in T /\ Saturated(links, T) => L \subseteq T

LEMMA LinkedLeast ==
  ASSUME NEW p \in PagesRead, NEW links \in SUBSET SUBSET PagesRead
  PROVE  LinksAll(p, links, Linked(p, links))
<1> DEFINE n == Cardinality(PagesRead)
<1>1. n \in Nat /\ IsFiniteSet(PagesRead)
  BY ClustersAssumption, FS_CardinalityType
<1>2. PICK g : Links(p, links, g) /\ Linked(p, links) = g[n]
  BY LinkedTurns
<1>3. /\ \A k \in 0..n : g[k] \in SUBSET PagesRead
      /\ g[0] = {p} /\ \A k \in 0..(n - 1) : g[k + 1] = Nearer(links, g[k])
  BY <1>2 DEF Links
<1> HIDE DEF n
<1> DEFINE Enough(k) == Saturated(links, g[k]) \/ Cardinality(g[k]) >= k + 1
           T1 == {k \in Nat : k <= n => p \in g[k] /\ Enough(k)}
<1>4. \A k \in 0..n : IsFiniteSet(g[k]) /\ Cardinality(g[k]) \in Nat
  BY <1>1, <1>3, FS_Subset, FS_CardinalityType
<1>5. 0 \in T1
  <2>1. Cardinality(g[0]) = 1 /\ p \in g[0]
    BY <1>3, FS_Singleton
  <2>2. Enough(0)
    BY <2>1
  <2> HIDE DEF Enough
  <2> QED
    BY <2>1, <2>2
<1>6. ASSUME NEW k \in T1 PROVE k + 1 \in T1
  <2> SUFFICES ASSUME k + 1 <= n PROVE p \in g[k + 1] /\ Enough(k + 1)
    OBVIOUS
  <2>1. k \in Nat /\ k \in 0..(n - 1) /\ k \in 0..n /\ k + 1 \in 0..n
    BY <1>1
  <2>2. g[k + 1] = Nearer(links, g[k]) /\ p \in g[k] /\ Enough(k)
    BY <1>1, <1>3, <2>1
  <2>3. g[k] \subseteq g[k + 1]
    BY <2>2 DEF Nearer
  <2>4. CASE Saturated(links, g[k])
    <3>1. g[k + 1] = g[k]
      BY <2>2, <2>4 DEF Nearer, Saturated
    <3> QED
      BY <2>2, <2>4, <3>1
  <2>5. CASE ~Saturated(links, g[k]) /\ Cardinality(g[k]) >= k + 1
    <3>1. g[k + 1] # g[k]
      BY <2>2, <2>5 DEF Nearer, Saturated
    <3>2. Cardinality(g[k]) < Cardinality(g[k + 1])
      <4> DEFINE A == g[k]
                 B == g[k + 1]
      <4>1. IsFiniteSet(B) /\ A \in SUBSET B /\ A # B /\ Cardinality(A) \in Nat /\ Cardinality(B) \in Nat
        BY <1>4, <2>1, <2>3, <3>1
      <4> HIDE DEF A, B
      <4>2. Cardinality(A) <= Cardinality(B) /\ (Cardinality(A) = Cardinality(B) => A = B)
        BY <4>1, FS_Subset
      <4>3. Cardinality(A) < Cardinality(B)
        BY <4>1, <4>2
      <4> QED
        BY <4>3 DEF A, B
    <3>3. Cardinality(g[k + 1]) \in Nat /\ Cardinality(g[k]) \in Nat
      BY <1>4, <2>1
    <3>4. Cardinality(g[k + 1]) >= (k + 1) + 1
      BY <2>1, <2>5, <3>2, <3>3
    <3> QED
      BY <2>2, <2>3, <3>4
  <2> QED
    BY <2>2, <2>4, <2>5
<1>7. p \in g[n] /\ Enough(n)
  <2>1. T1 \in SUBSET Nat
    OBVIOUS
  <2> HIDE DEF T1, Enough
  <2>2. T1 = Nat
    BY <1>5, <1>6, <2>1, NumbersInduct
  <2>3. n \in T1 /\ n <= n
    BY <1>1, <2>2
  <2> QED
    BY <2>3 DEF T1
<1>8. Saturated(links, g[n])
  <2> SUFFICES ASSUME Cardinality(g[n]) >= n + 1 PROVE FALSE
    BY <1>7
  <2>1. g[n] \in SUBSET PagesRead /\ Cardinality(g[n]) \in Nat
    BY <1>1, <1>3, <1>4
  <2>2. Cardinality(g[n]) <= n
    BY <1>1, <2>1, FS_Subset DEF n
  <2> QED
    BY <1>1, <2>1, <2>2
<1>9. ASSUME NEW T, p \in T, Saturated(links, T)
      PROVE  g[n] \subseteq T
  <2> DEFINE T2 == {k \in Nat : k <= n => g[k] \subseteq T}
  <2>1. 0 \in T2
    BY <1>3, <1>9
  <2>2. ASSUME NEW k \in T2 PROVE k + 1 \in T2
    <3> SUFFICES ASSUME k + 1 <= n PROVE g[k + 1] \subseteq T
      OBVIOUS
    <3>1. k \in 0..(n - 1) /\ g[k] \subseteq T
      BY <1>1
    <3>2. g[k + 1] = Nearer(links, g[k])
      BY <1>3, <3>1
    <3> QED
      BY <1>9, <3>1, <3>2 DEF Nearer, Saturated
  <2>3. T2 \in SUBSET Nat
    OBVIOUS
  <2> HIDE DEF T2
  <2>4. T2 = Nat
    BY <2>1, <2>2, <2>3, NumbersInduct
  <2>5. n \in T2 /\ n <= n
    BY <1>1, <2>4
  <2> QED
    BY <2>5 DEF T2
<1>10. g[n] \in SUBSET PagesRead
  BY <1>1, <1>3
<1> QED
  BY <1>2, <1>7, <1>8, <1>9, <1>10 DEF LinksAll

----------------------------------------------------------------------------

\* How many pages of the group come before or at p.
RankIn(group, p) == Cardinality({q \in group : q <= p})

\* sortInts lists the pages of the group.
LEMMA sortIntsLists ==
  ASSUME NEW group \in SUBSET Nat, IsFiniteSet(group)
  PROVE  /\ sortInts(group) \in Seq(group) /\ Len(sortInts(group)) = Cardinality(group)
         /\ Range(sortInts(group)) = group
<1> DEFINE n    == Cardinality(group)
           D    == 1..n
           place   == [p \in group |-> RankIn(group, p)]
           list == sortInts(group)
<1>1. n \in Nat /\ IsFiniteSet(D) /\ Cardinality(D) = n
  <2>1. n \in Nat
    BY FS_CardinalityType
  <2> DEFINE a == 1
  <2>2. a \in Int /\ n \in Int
    BY <2>1
  <2> HIDE DEF a, n
  <2>3. IsFiniteSet(a..n) /\ Cardinality(a..n) = IF a > n THEN 0 ELSE n - a + 1
    BY <2>2, FS_Interval
  <2> QED
    BY <2>1, <2>3 DEF a
<1> HIDE DEF n
<1>2. ASSUME NEW p \in group
      PROVE  RankIn(group, p) \in D
  <2> DEFINE s == {q \in group : q <= p}
  <2>1. s \in SUBSET group /\ p \in s
    OBVIOUS
  <2> HIDE DEF s
  <2>2. IsFiniteSet(s) /\ Cardinality(s) \in Nat /\ Cardinality(s) <= n /\ Cardinality(s) # 0
    BY <2>1, FS_Subset, FS_CardinalityType, FS_EmptySet DEF n
  <2> QED
    BY <1>1, <2>2 DEF RankIn, s
<1>3. ASSUME NEW p \in group, NEW q \in group, RankIn(group, p) = RankIn(group, q)
      PROVE  p = q
  <2>1. ASSUME NEW a \in group, NEW b \in group, a < b
        PROVE  RankIn(group, a) # RankIn(group, b)
    <3> DEFINE s == {x \in group : x <= a}
               t == {x \in group : x <= b}
    <3>0. a \in Nat /\ b \in Nat /\ \A x \in group : x \in Nat
      OBVIOUS
    <3>1. s \in SUBSET t /\ b \in t /\ b \notin s /\ t \in SUBSET group
      <4>1. \A x \in group : x <= a => x <= b
        BY <2>1, <3>0
      <4>2. ~(b <= a) /\ b <= b
        BY <2>1, <3>0
      <4> QED
        BY <4>1, <4>2
    <3> HIDE DEF s, t
    <3>2. IsFiniteSet(t) /\ (Cardinality(s) = Cardinality(t) => s = t)
      BY <3>1, FS_Subset
    <3>3. Cardinality(s) # Cardinality(t)
      BY <3>1, <3>2
    <3> QED
      BY <3>3 DEF RankIn, s, t
  <2>2. p \in Nat /\ q \in Nat
    OBVIOUS
  <2> QED
    BY <1>3, <2>1, <2>2
<1>4. place \in Surjection(group, D)
  <2>1. place \in Injection(group, D)
    BY <1>2, <1>3 DEF Injection, IsInjective
  <2> HIDE DEF place, D
  <2> QED
    BY <1>1, <2>1, FS_Injection DEF n
<1>5. \A i \in D : \E p \in group : RankIn(group, p) = i
  BY <1>4 DEF Surjection
<1>6. list = [i \in D |-> CHOOSE p \in group : RankIn(group, p) = i]
  BY DEF sortInts, RankIn, n
<1> HIDE DEF list
<1>7. \A i \in D : list[i] \in group /\ RankIn(group, list[i]) = i
  BY <1>5, <1>6
<1>8. list \in [D -> group]
  BY <1>6, <1>7
<1>9. list \in Seq(group) /\ DOMAIN list = D /\ Len(list) = n
  BY <1>1, <1>8
<1>10. \A p \in group : \E i \in D : list[i] = p
  BY <1>2, <1>3, <1>7
<1>11. Range(list) = group
  BY <1>7, <1>9, <1>10 DEF Range
<1> QED
  BY <1>9, <1>11 DEF list, n

\* Runs are not empty.
Runs == {r \in Nat \X Nat : r[1] <= r[2]}

\* The pages of some runs.
Covered(rs) == UNION {r[1]..r[2] : r \in Range(rs)}

\* One page more.
Extended(rs, p) ==
  IF rs # <<>> /\ p = Last(rs)[2] + 1 THEN Append(Front(rs), <<Last(rs)[1], p>>) ELSE Append(rs, <<p, p>>)

\* A new run adds its pages.
LEMMA AppendCovers ==
  ASSUME NEW rs \in Seq(Runs), NEW r \in Runs
  PROVE  Append(rs, r) \in Seq(Runs) /\ Covered(Append(rs, r)) = Covered(rs) \cup (r[1]..r[2])
<1> DEFINE n == Len(rs)
           S == Runs
           new == Append(rs, r)
<1>1. n \in Nat /\ DOMAIN rs = 1..n
  BY LenProperties
<1>2. new \in Seq(Runs) /\ Len(new) = n + 1 /\ new[n + 1] = r /\ \A i \in 1..n : new[i] = rs[i]
  <2> HIDE DEF S
  <2> QED
    BY AppendProperties
<1>3. DOMAIN new = 1..(n + 1)
  BY <1>2, LenProperties
<1> HIDE DEF n, new
<1>4. Range(new) = Range(rs) \cup {r}
  <2>1. \A i \in 1..(n + 1) : i \in 1..n \/ i = n + 1
    BY <1>1
  <2>2. n + 1 \in 1..(n + 1) /\ \A i \in 1..n : i \in 1..(n + 1)
    BY <1>1
  <2> QED
    BY <1>1, <1>2, <1>3, <2>1, <2>2 DEF Range
<1>5. Covered(new) = Covered(rs) \cup (r[1]..r[2])
  BY <1>4 DEF Covered
<1> QED
  BY <1>2, <1>5 DEF new

\* A run covers one page more, or there is one run more.
LEMMA ExtendedCovers ==
  ASSUME NEW rs \in Seq(Runs), NEW p \in Nat
  PROVE  Extended(rs, p) \in Seq(Runs) /\ Covered(Extended(rs, p)) = Covered(rs) \cup {p}
<1>1. CASE rs # <<>> /\ p = Last(rs)[2] + 1
  <2> DEFINE n == Len(rs)
             l == Last(rs)
             front == Front(rs)
             r == <<l[1], p>>
  <2>1. n \in Nat \ {0} /\ l = rs[n] /\ \A i \in 1..n : rs[i] \in Runs
    <3> DEFINE S == Runs
    <3>1. rs \in Seq(S)
      OBVIOUS
    <3> HIDE DEF S
    <3>2. n \in Nat \ {0} /\ \A i \in 1..n : rs[i] \in S
      BY <1>1, <3>1, EmptySeq, ElementOfSeq
    <3> QED
      BY <3>2 DEF Last, S
  <2>2. l \in Runs
    BY <2>1
  <2>3. l[1] \in Nat /\ l[2] \in Nat /\ l[1] <= l[2] /\ l = <<l[1], l[2]>>
    BY <2>2 DEF Runs
  <2>4. front \in Seq(Runs) /\ Len(front) = n - 1 /\ \A i \in 1..(n - 1) : front[i] = rs[i]
    <3> DEFINE S == Runs
               a == 1
               b == n - 1
    <3>1. a \in Int /\ b \in Int /\ \A i \in a..b : rs[i] \in S
      BY <2>1
    <3>2. front = SubSeq(rs, a, b)
      BY DEF Front
    <3> HIDE DEF a, b, S, front, n
    <3>3. /\ front \in Seq(S) /\ Len(front) = IF a <= b THEN b - a + 1 ELSE 0
          /\ \A i \in 1..(b - a + 1) : front[i] = rs[a + i - 1]
      BY <3>1, <3>2, SubSeqProperties
    <3>4. front \in Seq(S) /\ Len(front) = n - 1 /\ \A i \in 1..(n - 1) : front[i] = rs[i]
      BY <2>1, <3>3 DEF a, b
    <3> QED
      BY <3>4 DEF S
  <2> HIDE DEF front, l, n
  <2>5. rs = Append(front, l)
    <3> DEFINE S == Runs
               new == Append(front, l)
    <3>1. /\ new \in Seq(S) /\ Len(new) = Len(front) + 1
          /\ new[Len(front) + 1] = l /\ \A i \in 1..Len(front) : new[i] = front[i]
      <4>1. front \in Seq(S) /\ l \in S
        BY <2>2, <2>4
      <4> HIDE DEF S
      <4> QED
        BY <4>1, AppendProperties
    <3> HIDE DEF new
    <3>2. Len(new) = n /\ \A i \in 1..n : new[i] = rs[i]
      <4>1. Len(front) = n - 1 /\ n \in Nat /\ rs[n] = l
        BY <2>1, <2>4
      <4>2. Len(new) = n /\ new[n] = l
        BY <3>1, <4>1
      <4>3. ASSUME NEW i \in 1..n, i # n
            PROVE  new[i] = rs[i]
        <5>1. i \in 1..(n - 1)
          BY <4>1, <4>3
        <5>2. new[i] = front[i] /\ front[i] = rs[i]
          BY <2>4, <3>1, <5>1
        <5> QED
          BY <5>2
      <4> QED
        BY <4>1, <4>2, <4>3
    <3>3. rs \in [1..n -> Runs] /\ new \in [1..n -> Runs]
      <4>1. rs \in Seq(S)
        OBVIOUS
      <4> HIDE DEF S
      <4>2. rs \in [1..Len(rs) -> S] /\ new \in [1..Len(new) -> S]
        BY <3>1, <4>1, LenProperties
      <4> QED
        BY <3>2, <4>2 DEF S, n
    <3>4. rs = new
      BY <3>2, <3>3
    <3> QED
      BY <3>4 DEF new
  <2>6. r \in Runs
    BY <1>1, <2>3 DEF Runs, l
  <2>7. Extended(rs, p) = Append(front, r)
    BY <1>1 DEF Extended, front, l
  <2>8. /\ Covered(rs) = Covered(front) \cup (l[1]..l[2])
        /\ Append(front, r) \in Seq(Runs) /\ Covered(Append(front, r)) = Covered(front) \cup (r[1]..r[2])
    <3>1. Covered(Append(front, l)) = Covered(front) \cup (l[1]..l[2])
      BY <2>2, <2>4, AppendCovers
    <3> QED
      BY <2>4, <2>5, <2>6, <3>1, AppendCovers
  <2>9. r[1]..r[2] = (l[1]..l[2]) \cup {p}
    <3>1. p = l[2] + 1
      BY <1>1 DEF l
    <3>2. r[1] = l[1] /\ r[2] = p
      OBVIOUS
    <3> DEFINE a == l[1]
               b == l[2]
    <3>3. a \in Nat /\ b \in Nat /\ a <= b /\ p = b + 1
      BY <2>3, <3>1
    <3> HIDE DEF a, b
    <3>4. a..p = (a..b) \cup {p}
      BY <3>3
    <3> QED
      BY <3>2, <3>4 DEF a, b
  <2> QED
    BY <2>7, <2>8, <2>9
<1>2. CASE ~(rs # <<>> /\ p = Last(rs)[2] + 1)
  <2> DEFINE r == <<p, p>>
  <2>1. r \in Runs /\ r[1]..r[2] = {p}
    BY DEF Runs
  <2>2. Extended(rs, p) = Append(rs, r)
    BY <1>2 DEF Extended
  <2> HIDE DEF r
  <2> QED
    BY <2>1, <2>2, AppendCovers
<1> QED
  BY <1>1, <1>2

\* The fold of formatPageList.
RunSteps(list, h) ==
  [x \in SUBSET DOMAIN list |-> IF x = {} THEN <<>> ELSE Extended(h[x \ {Max(x)}], list[Max(x)])]

\* formatPageList is the last value of its fold.
LEMMA formatPageListIsSteps ==
  ASSUME NEW list
  PROVE  formatPageList(list) = (CHOOSE h : h = RunSteps(list, h))[DOMAIN list]
BY DEF formatPageList, FoldLeft, MapThenFoldSet, RunSteps, Extended

\* The runs hold the pages of the list, and no others.
LEMMA RunsCover ==
  ASSUME NEW list \in Seq(Nat)
  PROVE  Covered(formatPageList(list)) = Range(list)
<1> DEFINE n    == Len(list)
           D    == DOMAIN list
           S    == Nat
           V    == Seq(Runs)
           base == <<>>
           grow == [a \in V \X Nat |-> Extended(a[1], a[2])]
           h    == CHOOSE f : f = RunSteps(list, f)
<1>1. n \in Nat /\ D = 1..n /\ \A i \in D : list[i] \in Nat
  BY LenProperties, ElementOfSeq
<1>2. \A rs \in V, p \in Nat : Extended(rs, p) \in V /\ grow[<<rs, p>>] = Extended(rs, p)
  <2>1. \A rs \in V, p \in Nat : Extended(rs, p) \in V
    BY ExtendedCovers
  <2> HIDE DEF V
  <2> QED
    BY <2>1
<1>3. grow \in [V \X Nat -> V]
  <2> HIDE DEF V
  <2>1. \A a \in V \X Nat : a[1] \in V /\ a[2] \in Nat
    OBVIOUS
  <2> QED
    BY <1>2, <2>1
<1>4. list \in Seq(Nat) /\ base \in V
  OBVIOUS
<1>5. Steps(list, S, V, base, grow)
  <2> HIDE DEF V, grow, base
  <2> QED
    BY <1>3, <1>4 DEF Steps
<1>6. \A x \in SUBSET D : x # {} => Max(x) \in D
  BY <1>1, MaxOfPositions
<1>7. h = RunSteps(list, h)
  <2>1. PICK f : FoldsUp(list, V, base, grow, f)
    <3> HIDE DEF S, V, grow, base, h
    <3> QED
      BY <1>5, FoldExists
  <2>2. f \in [SUBSET DOMAIN list -> V]
    BY <2>1 DEF FoldsUp
  <2>3. ASSUME NEW x \in SUBSET DOMAIN list
        PROVE  f[x] = RunSteps(list, f)[x]
    <3>1. f[x] = IF x = {} THEN base ELSE grow[<<f[x \ {Max(x)}], list[Max(x)]>>]
      <4> HIDE DEF V, grow, base
      <4> QED
        BY <2>1 DEF FoldsUp
    <3>2. CASE x # {}
      <4>1. f[x \ {Max(x)}] \in V /\ list[Max(x)] \in Nat
        BY <1>1, <1>6, <2>2, <3>2
      <4>2. grow[<<f[x \ {Max(x)}], list[Max(x)]>>] = Extended(f[x \ {Max(x)}], list[Max(x)])
        <5> HIDE DEF V, grow
        <5> QED
          BY <1>2, <4>1
      <4> HIDE DEF V, grow
      <4> QED
        BY <3>1, <3>2, <4>2 DEF RunSteps
    <3> QED
      BY <3>1, <3>2 DEF RunSteps
  <2>4. f = RunSteps(list, f)
    <3> HIDE DEF V
    <3> QED
      BY <2>2, <2>3 DEF RunSteps
  <2> QED
    BY <2>4
<1>8. PICK g : Accumulates(list, V, base, grow, g) /\ h[DOMAIN list] = g[Len(list)]
  <2> HIDE DEF h
  <2>1. ASSUME NEW x \in SUBSET DOMAIN list
        PROVE  /\ x = {} => h[x] = base
               /\ x # {} /\ h[x \ {Max(x)}] \in V => h[x] = grow[<<h[x \ {Max(x)}], list[Max(x)]>>]
    <3>1. h[x] = IF x = {} THEN <<>> ELSE Extended(h[x \ {Max(x)}], list[Max(x)])
      BY <1>7 DEF RunSteps
    <3>2. CASE x # {} /\ h[x \ {Max(x)}] \in V
      <4>1. list[Max(x)] \in Nat
        BY <1>1, <1>6, <3>2
      <4> HIDE DEF V, grow
      <4> QED
        BY <1>2, <3>1, <3>2, <4>1
    <3> QED
      BY <3>1, <3>2
  <2> HIDE DEF S, V, grow, base
  <2>2. FoldsIn(list, V, base, grow, h)
    BY <2>1 DEF FoldsIn
  <2> QED
    BY <1>5, <2>2, FoldGrows
<1>9. formatPageList(list) = g[n]
  BY <1>8, formatPageListIsSteps
<1> HIDE DEF h, grow
<1>10. /\ \A k \in 0..n : g[k] \in V
       /\ g[0] = <<>> /\ \A k \in 0..(n - 1) : g[k + 1] = Extended(g[k], list[k + 1])
  <2>1. /\ \A k \in 0..n : g[k] \in V
        /\ g[0] = base /\ \A k \in 0..(n - 1) : g[k + 1] = grow[<<g[k], list[k + 1]>>]
    <3> HIDE DEF V, base
    <3> QED
      BY <1>8 DEF Accumulates
  <2>2. \A k \in 0..(n - 1) : k \in 0..n /\ k + 1 \in D
    BY <1>1
  <2>3. \A k \in 0..(n - 1) : grow[<<g[k], list[k + 1]>>] = Extended(g[k], list[k + 1])
    <3> HIDE DEF V
    <3> QED
      BY <1>1, <1>2, <2>1, <2>2
  <2> HIDE DEF V
  <2> QED
    BY <2>1, <2>3
<1> HIDE DEF n, D
<1> DEFINE First(k) == {list[i] : i \in 1..k}
           T == {k \in Nat : k <= n => Covered(g[k]) = First(k)}
<1>11. 0 \in T
  <2>1. First(0) = {} /\ Covered(<<>>) = {}
    BY DEF Covered, Range
  <2> QED
    BY <1>10, <2>1
<1>12. ASSUME NEW k \in T PROVE k + 1 \in T
  <2> SUFFICES ASSUME k + 1 <= n PROVE Covered(g[k + 1]) = First(k + 1)
    OBVIOUS
  <2>1. k \in 0..(n - 1) /\ k \in 0..n /\ k + 1 \in 1..n /\ Covered(g[k]) = First(k)
    BY <1>1
  <2>2. g[k] \in Seq(Runs) /\ list[k + 1] \in Nat /\ g[k + 1] = Extended(g[k], list[k + 1])
    BY <1>1, <1>10, <2>1
  <2>3. Covered(g[k + 1]) = Covered(g[k]) \cup {list[k + 1]}
    BY <2>2, ExtendedCovers
  <2>4. First(k + 1) = First(k) \cup {list[k + 1]}
    <3>1. 1..(k + 1) = (1..k) \cup {k + 1}
      BY <2>1
    <3> QED
      BY <3>1
  <2> QED
    BY <2>1, <2>3, <2>4
<1>13. Covered(g[n]) = First(n)
  <2>1. T \in SUBSET Nat
    OBVIOUS
  <2> HIDE DEF T, First
  <2>2. T = Nat
    BY <1>11, <1>12, <2>1, NumbersInduct
  <2>3. n \in T /\ n <= n
    BY <1>1, <2>2
  <2> QED
    BY <2>3 DEF T
<1>14. First(n) = Range(list)
  BY <1>1 DEF Range, D
<1> QED
  BY <1>9, <1>13, <1>14

\* The lesser and the greater page of a pair.
LEMMA PairIs ==
  ASSUME NEW s \in kSubset(2, PagesRead)
  PROVE  Min(s) \in PagesRead /\ Max(s) \in PagesRead /\ s = {Min(s), Max(s)}
<1>1. s \in SUBSET PagesRead /\ Cardinality(s) = 2 /\ IsFiniteSet(s)
  <2>1. s \in SUBSET PagesRead /\ Cardinality(s) = 2
    BY DEF kSubset
  <2> QED
    BY <2>1, ClustersAssumption, FS_Subset
<1>2. PICK a \in s : TRUE
  BY <1>1, FS_EmptySet
<1>3. Cardinality(s \ {a}) = 1 /\ IsFiniteSet(s \ {a})
  BY <1>1, FS_RemoveElement
<1>4. PICK b : s \ {a} = {b}
  BY <1>3, FS_Singleton
<1>5. s = {a, b} /\ a # b /\ a \in Nat /\ b \in Nat /\ a \in PagesRead /\ b \in PagesRead
  BY <1>1, <1>4, ClustersAssumption
<1>6. ASSUME NEW x \in Nat, NEW y \in Nat, x < y, s = {x, y}
      PROVE  Min(s) = x /\ Max(s) = y
  <2>1. \A z \in s : (\A w \in s : z <= w) => z = x
    BY <1>6
  <2>2. \A z \in s : (\A w \in s : z >= w) => z = y
    BY <1>6
  <2>3. x \in s /\ (\A w \in s : x <= w) /\ y \in s /\ \A w \in s : y >= w
    BY <1>6
  <2>4. Min(s) = x
    BY <2>1, <2>3 DEF Min
  <2>5. Max(s) = y
    BY <2>2, <2>3 DEF Max
  <2> QED
    BY <2>4, <2>5
<1>7. CASE a < b
  BY <1>5, <1>6, <1>7
<1>8. CASE b < a
  <2>1. s = {b, a}
    BY <1>5
  <2> QED
    BY <1>5, <1>6, <1>8, <2>1
<1> QED
  BY <1>5, <1>7, <1>8

\* The pages with the root of p.
ClassOf(par, p) == {q \in PagesRead : find(par, q) = find(par, p)}

\* The union of a pair joins the classes that it links, and no others.
LEMMA UnionLinks ==
  ASSUME NEW par, NEW rank, Forest(par, rank), NEW links \in SUBSET SUBSET PagesRead,
         \A p \in PagesRead : LinksAll(p, links, ClassOf(par, p)),
         NEW a \in PagesRead, NEW b \in PagesRead, NEW p \in PagesRead
  PROVE  LinksAll(p, links \cup {{a, b}}, ClassOf(union(par, a, b), p))
<1> DEFINE new == union(par, a, b)
           more == links \cup {{a, b}}
           C(x) == ClassOf(par, x)
           r(x) == find(par, x)
<1>1. \A y \in PagesRead : find(new, y) = IF r(y) = r(a) THEN r(b) ELSE r(y)
  BY UnionFinds
<1> HIDE DEF new, r
<1>2. \A x, y \in PagesRead : y \in C(x) <=> r(y) = r(x)
  BY DEF ClassOf, r
<1>3. \A x \in PagesRead : /\ x \in C(x) /\ Saturated(links, C(x))
                           /\ \A T : x \in T /\ Saturated(links, T) => C(x) \subseteq T
  BY DEF LinksAll
<1>4. \A x, y \in PagesRead : x \in ClassOf(new, y) <=> find(new, x) = find(new, y)
  BY DEF ClassOf
<1>5. ClassOf(new, p) \in SUBSET PagesRead /\ p \in ClassOf(new, p)
  BY DEF ClassOf
<1> HIDE DEF C
<1>6. Saturated(more, ClassOf(new, p))
  <2> SUFFICES ASSUME NEW s \in more, NEW x \in s, x \in ClassOf(new, p), NEW y \in s
               PROVE  y \in ClassOf(new, p)
    BY DEF Saturated
  <2>1. x \in PagesRead /\ y \in PagesRead
    OBVIOUS
  <2>2. CASE s \in links
    <3>1. y \in C(x)
      BY <1>3, <2>1, <2>2 DEF Saturated
    <3> QED
      BY <1>1, <1>2, <1>4, <2>1, <3>1
  <2>3. CASE s = {a, b}
    <3>1. find(new, a) = r(b) /\ find(new, b) = r(b)
      BY <1>1
    <3> QED
      BY <1>4, <2>1, <2>3, <3>1
  <2> QED
    BY <2>2, <2>3
<1>7. ASSUME NEW T, p \in T, Saturated(more, T)
      PROVE  ClassOf(new, p) \subseteq T
  <2> SUFFICES ASSUME NEW q \in PagesRead, find(new, q) = find(new, p)
               PROVE  q \in T
    BY DEF ClassOf
  <2>1. Saturated(links, T) /\ (a \in T <=> b \in T)
    <3>1. Saturated(links, T)
      BY <1>7 DEF Saturated
    <3> DEFINE e == {a, b}
    <3>2. e \in more /\ a \in e /\ b \in e
      OBVIOUS
    <3> HIDE DEF e, more
    <3>3. e \cap T # {} => e \subseteq T
      BY <1>7, <3>2 DEF Saturated
    <3> QED
      BY <3>1, <3>2, <3>3
  <2>2. \A x \in PagesRead : x \in T => C(x) \subseteq T
    BY <1>3, <2>1
  <2>3. CASE r(q) = r(p)
    BY <1>2, <1>7, <2>2, <2>3
  <2>4. CASE r(p) = r(a) /\ r(q) = r(b)
    <3>1. a \in T
      BY <1>2, <1>7, <2>2, <2>4
    <3> QED
      BY <1>2, <2>1, <2>2, <2>4, <3>1
  <2>5. CASE r(p) = r(b) /\ r(q) = r(a)
    <3>1. b \in T
      BY <1>2, <1>7, <2>2, <2>5
    <3> QED
      BY <1>2, <2>1, <2>2, <2>5, <3>1
  <2> QED
    BY <1>1, <2>3, <2>4, <2>5
<1> QED
  BY <1>5, <1>6, <1>7 DEF LinksAll, new

\* The pairs that ComparePages may find: two pages with a word of their vectors
\* in common.
Pairs == {s \in kSubset(2, PagesRead) : \E p, q \in s : p # q /\ Vector(p) \cap Vector(q) # {}}

\* A cluster as ClustersExact has it.
Listed(c, links) ==
  /\ Range(c.pages) = Linked(c.pages[1], links)
  /\ UNION {r[1]..r[2] : r \in Range(formatPageList(c.pages))} = Range(c.pages)
  /\ Len(c.pages) <= 5 => c.shared # {}

\* The parents form a forest whose trees are the classes of the pairs united so
\* far, and what is presented is listed as ClustersExact has it.
ClusterInv ==
  /\ step \in {"idle", "compare"} => similar = {} /\ pairs = {} /\ parent = <<>>
  /\ similar \in SUBSET Pairs /\ pairs \in SUBSET similar
  /\ \E rank : Forest(parent, rank)
  /\ \A p \in PagesRead : LinksAll(p, similar \ pairs, ClassOf(parent, p))
  /\ clusters # {} => step = "done"
  /\ \A c \in clusters : Listed(c, similar)

\* The pairs to find depend on the text alone.
LEMMA SamePairs == UNCHANGED text => Pairs' = Pairs
<1> SUFFICES ASSUME UNCHANGED text PROVE Pairs' = Pairs
  OBVIOUS
<1>1. \A p : Vector(p)' = Vector(p)
  BY DEF Vector, PagesWith
<1> QED
  BY <1>1 DEF Pairs

\* Two sets with what LinksAll says are one.
LEMMA LinksAllOne ==
  ASSUME NEW p, NEW links, NEW L, LinksAll(p, links, L), NEW M, LinksAll(p, links, M)
  PROVE  L = M
<1>1. L \subseteq M /\ M \subseteq L
  BY DEF LinksAll
<1> QED
  BY <1>1

\* Before the first union.
LEMMA NoneLinked ==
  (\E rank : Forest(<<>>, rank)) /\ \A p \in PagesRead : LinksAll(p, {}, ClassOf(<<>>, p))
<1> DEFINE par == <<>>
<1>0. DOMAIN par = {}
  OBVIOUS
<1> HIDE DEF par
<1>1. Forest(par, [x \in PagesRead |-> 0])
  BY <1>0 DEF Forest
<1>2. \A p \in PagesRead : find(par, p) = p
  BY <1>0, <1>1, FindFacts DEF Finds
<1>3. \A p \in PagesRead : ClassOf(par, p) = {p}
  BY <1>2 DEF ClassOf
<1>4. \A p \in PagesRead : LinksAll(p, {}, {p})
  BY DEF LinksAll, Saturated
<1>5. \A p \in PagesRead : LinksAll(p, {}, ClassOf(par, p))
  BY <1>3, <1>4
<1> QED
  BY <1>1, <1>5 DEF par

\* A union keeps it.
LEMMA UniteKeeps ==
  ASSUME ClusterInv, UnitePair
  PROVE  ClusterInv'
<1> DEFINE links == similar \ pairs
<1>1. PICK s \in pairs :
        /\ step = "pair" /\ parent' = union(parent, Min(s), Max(s)) /\ pairs' = pairs \ {s}
        /\ UNCHANGED <<step, text, similar, clusters>>
  BY DEF UnitePair
<1>2. PICK rank : Forest(parent, rank)
  BY DEF ClusterInv
<1>3. s \in similar /\ s \in kSubset(2, PagesRead) /\ similar \in SUBSET SUBSET PagesRead
  BY DEF ClusterInv, Pairs, kSubset
<1>4. Min(s) \in PagesRead /\ Max(s) \in PagesRead /\ s = {Min(s), Max(s)}
  BY <1>3, PairIs
<1>5. links \in SUBSET SUBSET PagesRead /\ similar' \ pairs' = links \cup {s}
  BY <1>1, <1>3 DEF ClusterInv
<1> HIDE DEF links
<1>6. \A p \in PagesRead : LinksAll(p, links, ClassOf(parent, p))
  BY DEF ClusterInv, links
<1>7. \E higher : Forest(parent', higher)
  BY <1>1, <1>2, <1>4, UnionFinds
<1>8. ASSUME NEW p \in PagesRead
      PROVE  LinksAll(p, similar' \ pairs', ClassOf(parent', p))
  <2> DEFINE a == Min(s)
             b == Max(s)
  <2>1. a \in PagesRead /\ b \in PagesRead /\ s = {a, b} /\ parent' = union(parent, a, b)
    BY <1>1, <1>4
  <2> HIDE DEF a, b
  <2>2. LinksAll(p, links \cup {{a, b}}, ClassOf(union(parent, a, b), p))
    BY <1>2, <1>5, <1>6, <2>1, UnionLinks
  <2> QED
    BY <1>5, <2>1, <2>2
<1>9. Pairs' = Pairs
  BY <1>1, SamePairs
<1>10. /\ step' = "pair" /\ similar' \in SUBSET Pairs' /\ pairs' \in SUBSET similar'
       /\ clusters' = {}
  BY <1>1, <1>9 DEF ClusterInv
<1> QED
  BY <1>7, <1>8, <1>10 DEF ClusterInv

\* A group of two pages or more has a pair in it.
LEMMA GroupHasPair ==
  ASSUME ClusterInv, pairs = {}, NEW p \in PagesRead, NEW g, g = ClassOf(parent, p), Cardinality(g) >= 2
  PROVE  \E s \in similar : s \subseteq g
<1>1. LinksAll(p, similar, g)
  <2>1. similar \ pairs = similar
    OBVIOUS
  <2> QED
    BY <2>1 DEF ClusterInv
<1>2. PICK q \in g : q # p
  <2> SUFFICES ASSUME \A q \in g : q = p PROVE FALSE
    OBVIOUS
  <2>1. g = {p}
    BY <1>1 DEF LinksAll
  <2>2. Cardinality(g) = 1
    BY <2>1, FS_Singleton
  <2> QED
    BY <2>2
<1>3. ~Saturated(similar, {p})
  <2> SUFFICES ASSUME Saturated(similar, {p}) PROVE FALSE
    OBVIOUS
  <2>1. g \subseteq {p}
    BY <1>1 DEF LinksAll
  <2> QED
    BY <1>2, <2>1
<1>4. PICK s \in similar : p \in s
  BY <1>3 DEF Saturated
<1>5. s \subseteq g
  BY <1>1, <1>4 DEF LinksAll, Saturated
<1> QED
  BY <1>5

\* The pages of a pair are enough for a word of a group of at most five.
LEMMA PairShares ==
  ASSUME NEW s \in Pairs, NEW g \in SUBSET PagesRead, s \subseteq g,
         Cardinality(g) \in 2..5
  PROVE  Shared(g) # {}
<1>1. PICK p \in s, q \in s : p # q /\ Vector(p) \cap Vector(q) # {}
  BY DEF Pairs
<1>2. PICK w : w \in Vector(p) /\ w \in Vector(q)
  BY <1>1
<1> DEFINE having == {x \in g : w \in Vector(x)}
<1>3. p \in having /\ q \in having /\ having \in SUBSET PagesRead
  BY <1>2
<1> HIDE DEF having
<1>4. IsFiniteSet(having) /\ Cardinality(having) \in Nat
  BY <1>3, ClustersAssumption, FS_Subset, FS_CardinalityType
<1>5. Cardinality(having) >= 2
  <2>1. Cardinality({p, q}) = 2
    <3> DEFINE one == {p}
    <3>1. IsFiniteSet(one) /\ Cardinality(one) = 1 /\ q \notin one /\ {p, q} = one \cup {q}
      BY <1>1, FS_Singleton
    <3> HIDE DEF one
    <3>2. Cardinality(one \cup {q}) = IF q \in one THEN Cardinality(one) ELSE Cardinality(one) + 1
      <4>1. IsFiniteSet(one)
        BY <3>1
      <4> QED
        BY <4>1, FS_AddElement
    <3> QED
      BY <3>1, <3>2
  <2>2. {p, q} \in SUBSET having
    BY <1>3
  <2>3. Cardinality({p, q}) <= Cardinality(having)
    BY <1>4, <2>2, FS_Subset
  <2> QED
    BY <1>4, <2>1, <2>3
<1>6. Max({Cardinality(g) \div 2, 2}) = 2
  <2> DEFINE m == Cardinality(g) \div 2
  <2>1. m \in Nat /\ m <= 2
    <3>1. Cardinality(g) = 2 \/ Cardinality(g) = 3 \/ Cardinality(g) = 4 \/ Cardinality(g) = 5
      OBVIOUS
    <3> DEFINE n == Cardinality(g)
    <3>2. n = 2 \/ n = 3 \/ n = 4 \/ n = 5
      BY <3>1
    <3> HIDE DEF n
    <3>3. n \div 2 \in Nat /\ n \div 2 <= 2
      BY <3>2
    <3> QED
      BY <3>3 DEF n
  <2> HIDE DEF m
  <2>2. \A z \in {m, 2} : (\A y \in {m, 2} : z >= y) => z = 2
    BY <2>1
  <2>3. 2 \in {m, 2} /\ \A y \in {m, 2} : 2 >= y
    BY <2>1
  <2>4. Max({m, 2}) = 2
    BY <2>2, <2>3 DEF Max
  <2> QED
    BY <2>4 DEF m
<1>7. w \in Shared(g)
  <2>1. w \in UNION {Vector(x) : x \in g}
    BY <1>2
  <2>2. Cardinality({x \in g : w \in Vector(x)}) >= 2
    BY <1>5 DEF having
  <2> QED
    BY <1>6, <2>1, <2>2 DEF Shared
<1> QED
  BY <1>7

\* What a group is listed as.
LEMMA GroupListed ==
  ASSUME ClusterInv, pairs = {}, NEW p \in PagesRead, NEW g, g = ClassOf(parent, p), Cardinality(g) >= 2
  PROVE  Listed([pages |-> sortInts(g), shared |-> Shared(g)], similar)
<1> DEFINE list == sortInts(g)
           n == Cardinality(g)
           first == list[1]
<1>1. g \in SUBSET PagesRead /\ g \in SUBSET Nat /\ IsFiniteSet(g) /\ n \in Nat
  BY ClustersAssumption, FS_Subset, FS_CardinalityType DEF ClassOf
<1>2. list \in Seq(g) /\ Len(list) = n /\ Range(list) = g
  BY <1>1, sortIntsLists
<1> HIDE DEF list, n
<1>3. first \in g
  <2>1. 1 \in 1..Len(list)
    BY <1>1, <1>2 DEF n
  <2> QED
    BY <1>2, <2>1, ElementOfSeq
<1> HIDE DEF first
<1>4. g = Linked(first, similar)
  <2>1. first \in PagesRead /\ find(parent, first) = find(parent, p)
    BY <1>3 DEF ClassOf
  <2>2. ClassOf(parent, first) = g
    BY <2>1 DEF ClassOf
  <2>3. LinksAll(first, similar, g)
    <3>1. similar \ pairs = similar
      OBVIOUS
    <3> QED
      BY <2>1, <2>2, <3>1 DEF ClusterInv
  <2>4. LinksAll(first, similar, Linked(first, similar))
    <3>1. similar \in SUBSET SUBSET PagesRead
      BY DEF ClusterInv, Pairs, kSubset
    <3> QED
      BY <2>1, <3>1, LinkedLeast
  <2> QED
    BY <2>3, <2>4, LinksAllOne
<1>5. Covered(formatPageList(list)) = Range(list)
  <2>1. list \in Seq(Nat)
    BY <1>1, <1>2, SeqMonotonic
  <2> QED
    BY <2>1, RunsCover
<1>6. n <= 5 => Shared(g) # {}
  <2> SUFFICES ASSUME n <= 5 PROVE Shared(g) # {}
    OBVIOUS
  <2>1. PICK s \in similar : s \subseteq g
    BY GroupHasPair
  <2>2. Cardinality(g) \in 2..5 /\ s \in Pairs
    BY <1>1 DEF n, ClusterInv
  <2> QED
    BY <1>1, <2>1, <2>2, PairShares
<1> DEFINE c == [pages |-> list, shared |-> Shared(g)]
<1>7. c.pages = list /\ c.shared = Shared(g)
  OBVIOUS
<1> HIDE DEF c
<1>8. Listed(c, similar)
  BY <1>2, <1>4, <1>5, <1>6, <1>7 DEF Listed, Covered, first
<1> QED
  BY <1>8 DEF c, list

\* The clusters are presented when no pair is left.
LEMMA CollectKeeps ==
  ASSUME ClusterInv, CollectClusters
  PROVE  ClusterInv'
<1>1. /\ step = "pair" /\ pairs = {} /\ step' = "done" /\ UNCHANGED <<text, similar, pairs, parent>>
      /\ clusters' = {[pages |-> sortInts(g), shared |-> Shared(g)] :
                        g \in {h \in {ClassOf(parent, p) : p \in PagesRead} : Cardinality(h) >= 2}}
  BY DEF CollectClusters, ClassOf
<1>2. \A c \in clusters' : Listed(c, similar)
  <2> SUFFICES ASSUME NEW p \in PagesRead, NEW g, g = ClassOf(parent, p), Cardinality(g) >= 2
               PROVE  Listed([pages |-> sortInts(g), shared |-> Shared(g)], similar)
    BY <1>1
  <2> QED
    BY <1>1, GroupListed
<1>3. Pairs' = Pairs
  BY <1>1, SamePairs
<1> QED
  BY <1>1, <1>2, <1>3 DEF ClusterInv

\* Every step of clusterPages keeps the invariant.
LEMMA ClusterStep ==
  ASSUME ClusterInv, [ClusterNext]_clusterVars
  PROVE  ClusterInv'
<1>1. CASE UNCHANGED clusterVars
  <2>1. Pairs' = Pairs
    BY <1>1, SamePairs DEF clusterVars
  <2> QED
    BY <1>1, <2>1 DEF ClusterInv, clusterVars
<1>2. CASE ReadPages
  <2>1. /\ step = "idle" /\ step' = "compare" /\ UNCHANGED <<similar, pairs, parent, clusters>>
        /\ similar = {} /\ pairs = {} /\ parent = <<>> /\ clusters = {}
    BY <1>2 DEF ReadPages, ClusterInv
  <2> QED
    BY <2>1 DEF ClusterInv
<1>3. CASE ComparePages
  <2>1. PICK some \in SUBSET Pairs : similar' = some /\ pairs' = some
    BY <1>3 DEF ComparePages, Pairs
  <2>2. /\ step' = "pair" /\ UNCHANGED <<text, parent, clusters>> /\ parent = <<>> /\ clusters = {}
    BY <1>3 DEF ComparePages, ClusterInv
  <2>3. Pairs' = Pairs
    BY <2>2, SamePairs
  <2>4. similar' \ pairs' = {}
    BY <2>1
  <2> QED
    BY <2>1, <2>2, <2>3, <2>4, NoneLinked DEF ClusterInv
<1>4. CASE UnitePair
  BY <1>4, UniteKeeps
<1>5. CASE CollectClusters
  BY <1>5, CollectKeeps
<1> QED
  BY <1>1, <1>2, <1>3, <1>4, <1>5 DEF ClusterNext

\* clusterPages (cluster.go), for any finite set of pages, any words on them and
\* any order of the pairs: two pages have one root when a chain of the pairs
\* united so far joins them and only then, whatever paths find has compressed;
\* the groups presented are those classes; the runs formatPageList writes hold
\* the pages of the group and no others; and a group of at most five pages has a
\* shared word to show.
THEOREM ClustersAlwaysExact == ClusterSpec => []ClustersExact
<1>1. ASSUME ClusterInit
      PROVE  ClusterInv
  <2>1. step = "idle" /\ similar = {} /\ pairs = {} /\ parent = <<>> /\ clusters = {} /\ similar \ pairs = {}
    BY <1>1 DEF ClusterInit
  <2> QED
    BY <2>1, NoneLinked DEF ClusterInv
<1>2. ASSUME ClusterInv
      PROVE  ClustersExact
  <2>1. ASSUME NEW p \in PagesRead
        PROVE  {q \in PagesRead : find(parent, q) = find(parent, p)} = Linked(p, similar \ pairs)
    <3> DEFINE links == similar \ pairs
    <3>1. links \in SUBSET SUBSET PagesRead
      BY <1>2 DEF ClusterInv, Pairs, kSubset
    <3>2. LinksAll(p, links, ClassOf(parent, p))
      BY <1>2 DEF ClusterInv
    <3> HIDE DEF links
    <3>3. LinksAll(p, links, Linked(p, links))
      BY <3>1, LinkedLeast
    <3>4. ClassOf(parent, p) = Linked(p, links)
      BY <3>2, <3>3, LinksAllOne
    <3> QED
      BY <3>4 DEF links, ClassOf
  <2> QED
    BY <1>2, <2>1 DEF ClusterInv, Listed, ClustersExact
<1> QED
  BY <1>1, <1>2, ClusterStep, PTL DEF ClusterSpec

----------------------------------------------------------------------------
(* MergeRuns *)

\* What a run file holds, and where its reader stands.
LEMMA RunFacts ==
  ASSUME TypeOK, NEW r \in DOMAIN runs
  PROVE  /\ runs[r] \in Seq(Key)
         /\ at[r] \in 1..(Len(runs[r]) + 1)
         /\ r \in heap => at[r] \in DOMAIN runs[r] /\ Cur(r) \in Key /\ Cur(r) \in Nat
<1>1. runs[r] \in Seq(Key) /\ at[r] \in 1..(Len(runs[r]) + 1)
  BY DEF TypeOK
<1>2. r \in heap => at[r] \in DOMAIN runs[r]
  BY <1>1 DEF TypeOK
<1>3. r \in heap => Cur(r) \in Key
  BY <1>1, <1>2 DEF Cur
<1> QED
  BY <1>1, <1>2, <1>3, MergeAssumption

----------------------------------------------------------------------------
(* Type correctness. *)

LEMMA MergeTypesAtFirst == Init => TypeOK
<1> SUFFICES ASSUME Init PROVE TypeOK
  OBVIOUS
<1>1. runs \in Seq(Seq(Key))
  BY MergeAssumption DEF Init
<1>2. \A r \in DOMAIN runs : runs[r] \in Seq(Key) /\ at[r] = 1
  BY <1>1 DEF Init
<1>3. \A r \in DOMAIN runs : Len(runs[r]) \in Nat /\ (runs[r] # <<>> <=> 1 <= Len(runs[r]))
  BY <1>2
<1>4. at \in [DOMAIN runs -> Nat] /\ \A r \in DOMAIN runs : at[r] \in 1..(Len(runs[r]) + 1)
  BY <1>3 DEF Init
<1>5. heap = {r \in DOMAIN runs : at[r] <= Len(runs[r])}
  BY <1>2, <1>3 DEF Init
<1>6. table \in Seq(Key) /\ deduped \in Nat /\ state \in {"merging", "closed", "failed"}
  BY DEF Init
<1> QED
  BY <1>1, <1>4, <1>5, <1>6 DEF TypeOK

\* Moving one reader on keeps the heap the readers with a key left.
LEMMA AdvanceType ==
  ASSUME TypeOK, NEW r \in heap, Advance(r), UNCHANGED runs
  PROVE  /\ at' \in [DOMAIN runs -> Nat]
         /\ \A o \in DOMAIN runs : at'[o] \in 1..(Len(runs[o]) + 1)
         /\ heap' = {o \in DOMAIN runs : at'[o] <= Len(runs[o])}
<1>1. r \in DOMAIN runs /\ at[r] \in Nat /\ Len(runs[r]) \in Nat /\ at[r] <= Len(runs[r])
  BY RunFacts DEF TypeOK
<1>2. at'[r] = at[r] + 1 /\ \A o \in DOMAIN runs \ {r} : at'[o] = at[o]
  BY <1>1 DEF Advance, TypeOK
<1>3. at' \in [DOMAIN runs -> Nat]
  BY <1>1 DEF Advance, TypeOK
<1>4. ASSUME NEW o \in DOMAIN runs PROVE at'[o] \in 1..(Len(runs[o]) + 1)
  <2>1. at[o] \in 1..(Len(runs[o]) + 1) /\ Len(runs[o]) \in Nat
    BY RunFacts
  <2> QED
    BY <1>1, <1>2, <2>1
<1>5. heap' = {o \in DOMAIN runs : at'[o] <= Len(runs[o])}
  <2>1. CASE at[r] + 1 > Len(runs[r])
    <3>1. heap' = heap \ {r}
      BY <2>1 DEF Advance, Eof
    <3>2. ~(at'[r] <= Len(runs[r]))
      BY <1>1, <1>2, <2>1
    <3> QED
      BY <1>2, <3>1, <3>2 DEF TypeOK
  <2>2. CASE ~(at[r] + 1 > Len(runs[r]))
    <3>1. heap' = heap
      BY <2>2 DEF Advance, Eof
    <3>2. at'[r] <= Len(runs[r])
      BY <1>1, <1>2, <2>2
    <3> QED
      BY <1>1, <1>2, <3>1, <3>2 DEF TypeOK
  <2> QED
    BY <2>1, <2>2
<1> QED
  BY <1>3, <1>4, <1>5

LEMMA MergeKeepsTypes == TypeOK /\ [Next]_vars => TypeOK'
<1> SUFFICES ASSUME TypeOK, [Next]_vars PROVE TypeOK'
  OBVIOUS
<1>1. ASSUME NEW r \in DOMAIN runs, Drop(r)
      PROVE  TypeOK'
  <2>1. r \in heap /\ Advance(r) /\ UNCHANGED <<runs, table, state>> /\ deduped' = deduped + 1
    BY <1>1 DEF Drop, Least
  <2> QED
    BY <2>1, AdvanceType DEF TypeOK
<1>2. ASSUME NEW r \in DOMAIN runs, Emit(r)
      PROVE  TypeOK'
  <2>1. r \in heap /\ Advance(r) /\ UNCHANGED <<runs, deduped, state>>
    BY <1>2 DEF Emit, Least
  <2>2. table' \in Seq(Key)
    <3>1. Cur(r) \in Key /\ table' = Append(table, Cur(r))
      BY <1>2, <2>1, RunFacts DEF Emit
    <3> QED
      BY <3>1 DEF TypeOK
  <2> QED
    BY <2>1, <2>2, AdvanceType DEF TypeOK
<1>3. CASE Fail \/ Finish \/ UNCHANGED vars
  BY <1>3 DEF Fail, Finish, vars, TypeOK
<1> QED
  BY <1>1, <1>2, <1>3 DEF Next, Work

\* The variables of the merge keep their types; the heap holds exactly the
\* readers that have a key left.
THEOREM MergeTypeCorrect == Spec => []TypeOK
BY MergeTypesAtFirst, MergeKeepsTypes, PTL DEF Spec

----------------------------------------------------------------------------
(***************************************************************************)
(* The order of the table.  No key still in a run is less than the last    *)
(* key written: the heap yields the least of the current keys, and every   *)
(* run is sorted.                                                          *)
(***************************************************************************)
RunsSorted == \A r \in DOMAIN runs : Sorted(runs[r])

NothingSmaller == table # <<>> => \A r \in heap : Last(table) <= Cur(r)

OrderInv == RunsSorted /\ NothingSmaller /\ TableIncreases

\* After the least reader moves on, no current key is less than the one it
\* leaves.
LEMMA LeastIsPassed ==
  ASSUME TypeOK, RunsSorted, NEW r, Least(r), Advance(r), UNCHANGED runs
  PROVE  \A o \in heap' : Cur(r) <= Cur(o)'
<1>1. r \in heap /\ r \in DOMAIN runs /\ heap \subseteq DOMAIN runs
  BY DEF Least, TypeOK
<1>2. at'[r] = at[r] + 1 /\ \A o \in DOMAIN runs \ {r} : at'[o] = at[o]
  BY <1>1 DEF Advance, TypeOK
<1>3. heap' \subseteq heap /\ (r \in heap' => at[r] + 1 <= Len(runs[r]))
  BY <1>1, RunFacts DEF Advance, Eof
<1>4. ASSUME NEW o \in heap', o # r
      PROVE  Cur(r) <= Cur(o)'
  BY <1>1, <1>2, <1>3, <1>4 DEF Least, Cur
<1>5. ASSUME r \in heap'
      PROVE  Cur(r) <= Cur(r)'
  <2>1. at[r] \in DOMAIN runs[r] /\ at[r] + 1 \in DOMAIN runs[r]
    BY <1>1, <1>3, <1>5, RunFacts
  <2>2. runs[r][at[r]] <= runs[r][at[r] + 1]
    BY <1>1, <2>1, RunFacts DEF RunsSorted, Sorted
  <2> QED
    BY <1>1, <1>2, <2>2 DEF Cur
<1> QED
  BY <1>4, <1>5

LEMMA StepKeepsOrder == TypeOK /\ OrderInv /\ [Next]_vars => OrderInv'
<1> SUFFICES ASSUME TypeOK, OrderInv, [Next]_vars PROVE OrderInv'
  OBVIOUS
<1> USE DEF OrderInv
<1>1. RunsSorted'
  BY DEF Next, Work, Drop, Emit, Fail, Finish, vars, RunsSorted
<1>2. ASSUME NEW r \in DOMAIN runs, Drop(r)
      PROVE  OrderInv'
  <2>1. table # <<>> /\ Cur(r) = Last(table) /\ UNCHANGED <<runs, table>>
    BY <1>2 DEF Drop, Repeated
  <2>2. \A o \in heap' : Cur(r) <= Cur(o)'
    BY <1>2, LeastIsPassed DEF Drop
  <2> QED
    BY <1>1, <2>1, <2>2 DEF NothingSmaller, TableIncreases
<1>3. ASSUME NEW r \in DOMAIN runs, Emit(r)
      PROVE  OrderInv'
  <2> DEFINE k == Cur(r)
  <2>1. r \in heap /\ k \in Nat /\ table' = Append(table, k) /\ UNCHANGED runs
    BY <1>3, RunFacts DEF Emit, Least
  <2>2. \A o \in heap' : k <= Cur(o)'
    BY <1>3, LeastIsPassed DEF Emit
  <2>3. table \in Seq(Key) /\ \A i \in DOMAIN table : table[i] \in Nat
    <3>1. table \in Seq(Key)
      BY DEF TypeOK
    <3>2. \A i \in DOMAIN table : table[i] \in Key
      BY <3>1
    <3>3. Key \subseteq Nat
      BY MergeAssumption
    <3> QED
      BY <3>1, <3>2, <3>3
  <2>4. table # <<>> => Last(table) < k
    BY <1>3, <2>1, <2>3 DEF Emit, Repeated, NothingSmaller, Last
  <2> HIDE DEF k
  <2>5. Last(table') = k /\ table' # <<>>
    BY <2>1, <2>3 DEF Last
  <2>6. NothingSmaller'
    BY <2>2, <2>5 DEF NothingSmaller
  <2>7. TableIncreases'
    <3> SUFFICES ASSUME NEW i \in DOMAIN table', NEW j \in DOMAIN table', i < j
                 PROVE  table'[i] < table'[j]
      BY DEF TableIncreases
    <3>1. CASE j \in DOMAIN table
      BY <2>1, <2>3, <3>1 DEF TableIncreases
    <3>2. CASE j \notin DOMAIN table
      <4>1. table'[j] = k /\ i \in DOMAIN table /\ table'[i] = table[i] /\ table # <<>>
        BY <2>1, <2>3, <3>2
      <4>2. table[i] <= Last(table)
        BY <2>3, <4>1 DEF TableIncreases, Last
      <4>3. table[i] \in Nat /\ Last(table) \in Nat
        BY <2>3, <4>1 DEF Last
      <4> QED
        BY <2>1, <2>4, <4>1, <4>2, <4>3
    <3> QED
      BY <3>1, <3>2
  <2> QED
    BY <1>1, <2>6, <2>7
<1>4. CASE Fail \/ Finish \/ UNCHANGED vars
  BY <1>4 DEF Fail, Finish, vars, RunsSorted, NothingSmaller, TableIncreases, Cur
<1> QED
  BY <1>2, <1>3, <1>4 DEF Next, Work

\* Whatever the runs, the keys written to the table increase strictly, so the
\* table writer never fails on the order of its keys.
THEOREM TableAlwaysIncreases == Spec => []TableIncreases
<1>1. Init => OrderInv
  BY MergeAssumption DEF Init, OrderInv, RunsSorted, NothingSmaller, TableIncreases
<1>2. OrderInv => TableIncreases
  BY DEF OrderInv
<1> QED
  BY <1>1, <1>2, StepKeepsOrder, MergeTypeCorrect, PTL DEF Spec

----------------------------------------------------------------------------
(***************************************************************************)
(* Nothing is lost.  Every key a reader has passed is in the table, and    *)
(* the merge ends when no reader has a key left.                           *)
(***************************************************************************)
AllKeys == UNION {Range(runs[r]) : r \in DOMAIN runs}

Passed == \A r \in DOMAIN runs : \A i \in DOMAIN runs[r] : i < at[r] => runs[r][i] \in Range(table)

CoverInv ==
  /\ Range(table) \subseteq AllKeys
  /\ Passed
  /\ state = "closed" => heap = {}

\* When the key of the reader that moves on is in the table, so is every key
\* passed.
LEMMA AdvanceKeepsPassed ==
  ASSUME TypeOK, Passed, NEW r \in heap, Advance(r), UNCHANGED runs,
         Range(table) \cup {Cur(r)} \subseteq Range(table')
  PROVE  Passed'
<1>1. r \in DOMAIN runs /\ at[r] \in DOMAIN runs[r] /\ at[r] \in Nat
  BY RunFacts DEF TypeOK
<1>2. at'[r] = at[r] + 1 /\ \A o \in DOMAIN runs \ {r} : at'[o] = at[o]
  BY <1>1 DEF Advance, TypeOK
<1> SUFFICES ASSUME NEW o \in DOMAIN runs, NEW i \in DOMAIN runs[o], i < at'[o]
             PROVE  runs[o][i] \in Range(table')
  BY DEF Passed
<1>3. CASE o = r /\ i = at[r]
  BY <1>3 DEF Cur
<1>4. CASE ~(o = r /\ i = at[r])
  <2>1. runs[o] \in Seq(Key) /\ i \in Nat
    BY RunFacts
  <2>2. i < at[o]
    BY <1>1, <1>2, <1>4, <2>1
  <2> QED
    BY <2>2 DEF Passed
<1> QED
  BY <1>3, <1>4

LEMMA StepKeepsCover == TypeOK /\ CoverInv /\ [Next]_vars => CoverInv'
<1> SUFFICES ASSUME TypeOK, CoverInv, [Next]_vars PROVE CoverInv'
  OBVIOUS
<1> USE DEF CoverInv
<1>1. ASSUME NEW r \in DOMAIN runs, Drop(r)
      PROVE  CoverInv'
  <2>1. /\ r \in heap /\ Advance(r) /\ UNCHANGED <<runs, table, state>>
        /\ state # "closed" /\ table # <<>> /\ Cur(r) = Last(table)
    BY <1>1 DEF Drop, Least, Repeated
  <2>2. Cur(r) \in Range(table)
    <3>1. table \in Seq(Key) /\ table # <<>>
      BY <2>1 DEF TypeOK
    <3>2. Len(table) \in DOMAIN table
      BY <3>1
    <3> QED
      BY <2>1, <3>2 DEF Last, Range
  <2>3. Passed'
    BY <2>1, <2>2, AdvanceKeepsPassed
  <2> QED
    BY <2>1, <2>3 DEF AllKeys
<1>2. ASSUME NEW r \in DOMAIN runs, Emit(r)
      PROVE  CoverInv'
  <2>1. /\ r \in heap /\ Advance(r) /\ UNCHANGED <<runs, state>>
        /\ state # "closed" /\ table' = Append(table, Cur(r))
    BY <1>2 DEF Emit, Least
  <2>2. Range(table') = Range(table) \cup {Cur(r)}
    <3>1. table \in Seq(Key)
      BY DEF TypeOK
    <3>2. /\ DOMAIN table' = DOMAIN table \cup {Len(table) + 1}
          /\ table'[Len(table) + 1] = Cur(r)
          /\ \A i \in DOMAIN table : table'[i] = table[i]
      BY <2>1, <3>1
    <3> QED
      BY <3>2 DEF Range
  <2>3. Cur(r) \in AllKeys
    BY <2>1, RunFacts DEF Cur, AllKeys, Range
  <2>4. Passed'
    BY <2>1, <2>2, AdvanceKeepsPassed
  <2> QED
    BY <2>1, <2>2, <2>3, <2>4 DEF AllKeys
<1>3. CASE Fail \/ Finish \/ UNCHANGED vars
  BY <1>3 DEF Fail, Finish, vars, AllKeys, Passed
<1> QED
  BY <1>1, <1>2, <1>3 DEF Next, Work

LEMMA CoverInit == Init => CoverInv
<1> SUFFICES ASSUME Init PROVE CoverInv
  OBVIOUS
<1>1. Range(table) = {} /\ state # "closed"
  BY DEF Init, Range
<1>2. runs \in Seq(Seq(Key))
  BY MergeAssumption DEF Init
<1>3. ASSUME NEW r \in DOMAIN runs, NEW i \in DOMAIN runs[r] PROVE ~(i < at[r])
  <2>1. runs[r] \in Seq(Key) /\ at[r] = 1
    BY <1>2 DEF Init
  <2> QED
    BY <2>1
<1> QED
  BY <1>1, <1>3 DEF CoverInv, Passed

\* A table that is closed without error holds exactly the keys of the runs,
\* whatever their number, their lengths and the duplicates among them.
THEOREM TableAlwaysComplete == Spec => []TableComplete
<1>1. TypeOK /\ CoverInv => TableComplete
  <2> SUFFICES ASSUME TypeOK, CoverInv, state = "closed"
               PROVE  Range(table) = AllKeys
    BY DEF TableComplete, AllKeys
  <2>1. ASSUME NEW r \in DOMAIN runs PROVE Range(runs[r]) \subseteq Range(table)
    <3>1. runs[r] \in Seq(Key) /\ at[r] \in Nat /\ ~(at[r] <= Len(runs[r]))
      BY RunFacts DEF TypeOK, CoverInv
    <3>2. \A i \in DOMAIN runs[r] : i < at[r]
      BY <3>1
    <3> QED
      BY <3>2 DEF CoverInv, Passed, Range
  <2> QED
    BY <2>1 DEF CoverInv, AllKeys
<1> QED
  BY <1>1, CoverInit, StepKeepsCover, MergeTypeCorrect, PTL DEF Spec

(* Sorting *)

\* The places of s with at most k, and with less than k.
AtMost(s, k)  == {j \in DOMAIN s : s[j] <= k}
Below(s, k) == {j \in DOMAIN s : s[j] < k}

LEMMA PositionsFinite ==
  ASSUME NEW n \in Nat
  PROVE  IsFiniteSet(1..n) /\ Cardinality(1..n) = n
<1>1. 1 \in Int /\ n \in Int
  OBVIOUS
<1>2. /\ IsFiniteSet(1..n)
      /\ Cardinality(1..n) = IF 1 > n THEN 0 ELSE n - 1 + 1
  BY <1>1, FS_Interval
<1> QED
  BY <1>2

LEMMA PlacesFinite ==
  ASSUME NEW s \in Seq(Nat), NEW k \in Nat
  PROVE  /\ IsFiniteSet(AtMost(s, k)) /\ Cardinality(AtMost(s, k)) \in 0..Len(s)
         /\ IsFiniteSet(Below(s, k)) /\ Cardinality(Below(s, k)) \in 0..Len(s)
<1> DEFINE n == Len(s)
<1>1. n \in Nat /\ DOMAIN s = 1..n
  BY LenProperties
<1>2. AtMost(s, k) \in SUBSET (1..n) /\ Below(s, k) \in SUBSET (1..n)
  BY <1>1 DEF AtMost, Below
<1> HIDE DEF n
<1>3. IsFiniteSet(1..n) /\ Cardinality(1..n) = n
  BY <1>1, PositionsFinite
<1>4. ASSUME NEW T \in SUBSET (1..n)
      PROVE  IsFiniteSet(T) /\ Cardinality(T) \in 0..n
  <2>1. IsFiniteSet(T) /\ Cardinality(T) <= n
    BY <1>3, FS_Subset
  <2>2. Cardinality(T) \in Nat
    BY <2>1, FS_CardinalityType
  <2> QED
    BY <1>1, <2>1, <2>2
<1>5. AtMost(s, k) \in SUBSET (1..n) => IsFiniteSet(AtMost(s, k)) /\ Cardinality(AtMost(s, k)) \in 0..n
  BY <1>4
<1>6. Below(s, k) \in SUBSET (1..n) => IsFiniteSet(Below(s, k)) /\ Cardinality(Below(s, k)) \in 0..n
  BY <1>4
<1> QED
  BY <1>2, <1>5, <1>6 DEF n

\* Every key is at most the greatest.
LEMMA KeysBounded ==
  ASSUME NEW s \in Seq(Nat)
  PROVE  \E k \in Nat : AtMost(s, k) = DOMAIN s
<1> DEFINE n == Len(s)
           T == {m \in 1..n : \E k \in Nat : \A j \in 1..m : s[j] <= k}
<1>1. n \in Nat /\ DOMAIN s = 1..n /\ \A j \in 1..n : s[j] \in Nat
  BY LenProperties, ElementOfSeq
<1> HIDE DEF n
<1>2. CASE n = 0
  BY <1>1, <1>2 DEF AtMost
<1>3. CASE n # 0
  <2>1. 1 \in T
    <3>1. 1 \in 1..n /\ s[1] \in Nat /\ \A j \in 1..1 : s[j] <= s[1]
      BY <1>1, <1>3
    <3> QED
      BY <3>1
  <2>2. ASSUME NEW i \in T, i # n
        PROVE  i + 1 \in T
    <3>1. PICK k \in Nat : \A j \in 1..i : s[j] <= k
      OBVIOUS
    <3>2. i + 1 \in 1..n /\ s[i + 1] \in Nat
      BY <1>1, <2>2
    <3> DEFINE m == IF s[i + 1] > k THEN s[i + 1] ELSE k
    <3>3. m \in Nat /\ \A j \in 1..(i + 1) : s[j] <= m
      BY <1>1, <3>1, <3>2
    <3> QED
      BY <3>2, <3>3
  <2> HIDE DEF T
  <2>3. T = 1..n
    <3>1. T \in SUBSET (1..n)
      BY DEF T
    <3> QED
      BY <1>1, <2>1, <2>2, <3>1, PositionsInduct
  <2>4. n \in T
    BY <1>1, <1>3, <2>3
  <2> QED
    BY <1>1, <2>4 DEF T, AtMost
<1> QED
  BY <1>2, <1>3

\* The i-th least key is what the sort puts at position i.
IsIth(s, k, i) == k \in Range(s) /\ Cardinality(Below(s, k)) < i /\ i <= Cardinality(AtMost(s, k))

LEMMA IthExists ==
  ASSUME NEW s \in Seq(Nat), NEW i \in 1..Len(s)
  PROVE  \E k \in Nat : IsIth(s, k, i)
<1> DEFINE T == {k \in Nat : i <= Cardinality(AtMost(s, k))}
<1>1. T # {}
  <2>1. PICK k \in Nat : AtMost(s, k) = 1..Len(s)
    BY KeysBounded, LenProperties
  <2>2. Len(s) \in Nat /\ Cardinality(1..Len(s)) = Len(s)
    BY LenProperties, PositionsFinite
  <2> QED
    BY <2>1, <2>2
<1>2. PICK k \in T : \A m \in T : k <= m
  BY <1>1, LeastNumber
<1>3. Cardinality(Below(s, k)) < i
  <2>1. CASE k = 0
    <3>1. Below(s, k) = {}
      BY <2>1 DEF Below
    <3> QED
      BY <3>1, FS_EmptySet
  <2>2. CASE k # 0
    <3>1. k - 1 \in Nat /\ k - 1 \notin T
      BY <1>2, <2>2
    <3>2. Below(s, k) = AtMost(s, k - 1)
      BY <3>1 DEF Below, AtMost
    <3>3. Cardinality(AtMost(s, k - 1)) \in Nat /\ ~(i <= Cardinality(AtMost(s, k - 1)))
      BY <3>1, PlacesFinite
    <3> QED
      BY <3>2, <3>3
  <2> QED
    BY <2>1, <2>2
<1>4. k \in Range(s)
  <2> SUFFICES ASSUME k \notin Range(s) PROVE FALSE
    OBVIOUS
  <2>1. AtMost(s, k) = Below(s, k)
    BY DEF AtMost, Below, Range
  <2>2. Cardinality(AtMost(s, k)) \in Nat
    BY PlacesFinite
  <2>3. i <= Cardinality(AtMost(s, k))
    OBVIOUS
  <2> QED
    BY <1>3, <2>1, <2>2, <2>3
<1> QED
  BY <1>3, <1>4 DEF IsIth

\* What is at or below one key is below every greater one.
LEMMA PlacesOrdered ==
  ASSUME NEW s \in Seq(Nat), NEW k \in Nat, NEW m \in Nat, k < m
  PROVE  Cardinality(AtMost(s, k)) <= Cardinality(Below(s, m))
<1>1. \A j \in DOMAIN s : s[j] \in Nat
  BY LenProperties, ElementOfSeq
<1>2. AtMost(s, k) \in SUBSET Below(s, m)
  BY <1>1 DEF AtMost, Below
<1>3. IsFiniteSet(Below(s, m))
  BY PlacesFinite
<1> QED
  BY <1>2, <1>3, FS_Subset

\* The sorted keys: in order, and the same ones.
LEMMA SortIsSorted ==
  ASSUME NEW s \in Seq(Nat)
  PROVE  LET t == sortByteSlices(s) IN
         /\ t \in Seq(Nat) /\ Len(t) = Len(s) /\ Range(t) = Range(s)
         /\ \A i, j \in 1..Len(s) : i <= j => t[i] <= t[j]
<1> DEFINE t == sortByteSlices(s)
           n == Len(s)
<1>1. n \in Nat /\ DOMAIN s = 1..n /\ Range(s) \subseteq Nat
  BY DEF Range
<1>2. t = [i \in 1..n |-> CHOOSE k \in Range(s) : Cardinality(Below(s, k)) < i /\ i <= Cardinality(AtMost(s, k))]
  BY <1>1 DEF sortByteSlices, Below, AtMost
<1>3. ASSUME NEW i \in 1..n
      PROVE  IsIth(s, t[i], i) /\ t[i] \in Nat
  <2>1. \E k \in Range(s) : Cardinality(Below(s, k)) < i /\ i <= Cardinality(AtMost(s, k))
    BY IthExists DEF IsIth
  <2>2. t[i] = CHOOSE k \in Range(s) : Cardinality(Below(s, k)) < i /\ i <= Cardinality(AtMost(s, k))
    BY <1>2
  <2> HIDE DEF t
  <2>3. t[i] \in Range(s) /\ Cardinality(Below(s, t[i])) < i /\ i <= Cardinality(AtMost(s, t[i]))
    BY <2>1, <2>2
  <2> QED
    BY <1>1, <2>3 DEF IsIth
<1>4. DOMAIN t = 1..n
  BY <1>2
<1> HIDE DEF t
<1>5. t \in Seq(Nat) /\ Len(t) = n
  <2>1. t = [i \in 1..n |-> t[i]]
    BY <1>2
  <2> HIDE DEF n
  <2>2. \A i \in 1..n : t[i] \in Nat
    BY <1>3
  <2>3. t \in [1..n -> Nat]
    BY <2>1, <2>2
  <2> QED
    BY <1>1, <2>3
<1>6. ASSUME NEW i \in 1..n, NEW k \in Nat, NEW m \in Nat, IsIth(s, k, i), NEW j \in 1..n, IsIth(s, m, j), i <= j
      PROVE  k <= m
  <2> SUFFICES ASSUME m < k PROVE FALSE
    OBVIOUS
  <2>1. Cardinality(AtMost(s, m)) <= Cardinality(Below(s, k))
    BY PlacesOrdered
  <2>2. Cardinality(AtMost(s, m)) \in Nat /\ Cardinality(Below(s, k)) \in Nat
    <3>1. Cardinality(AtMost(s, m)) \in 0..Len(s) /\ Cardinality(Below(s, k)) \in 0..Len(s)
      BY PlacesFinite
    <3> QED
      BY <1>1, <3>1
  <2>3. j <= Cardinality(AtMost(s, m)) /\ Cardinality(Below(s, k)) < i
    BY <1>6 DEF IsIth
  <2> QED
    BY <1>6, <2>1, <2>2, <2>3
<1>7. \A i, j \in 1..n : i <= j => t[i] <= t[j]
  BY <1>3, <1>6
<1>8. Range(t) \subseteq Range(s)
  BY <1>3, <1>4 DEF IsIth, Range
<1>9. ASSUME NEW k \in Range(s)
      PROVE  k \in Range(t)
  <2> DEFINE lo == Cardinality(Below(s, k))
             hi == Cardinality(AtMost(s, k))
             i == lo + 1
  <2>1. k \in Nat /\ lo \in Nat /\ hi \in Nat /\ hi <= n
    BY <1>1, PlacesFinite
  <2>2. lo < hi
    <3>1. PICK j \in DOMAIN s : s[j] = k
      BY DEF Range
    <3>2. j \in AtMost(s, k) /\ j \notin Below(s, k) /\ Below(s, k) \in SUBSET AtMost(s, k)
      BY <2>1, <3>1, <1>1 DEF AtMost, Below
    <3>3. Below(s, k) # AtMost(s, k) /\ IsFiniteSet(AtMost(s, k))
      BY <2>1, <3>2, PlacesFinite
    <3>4. lo <= hi /\ lo # hi
      BY <3>2, <3>3, FS_Subset
    <3> QED
      BY <2>1, <3>4
  <2> HIDE DEF lo, hi
  <2>3. i \in 1..n /\ lo < i /\ i <= hi
    BY <1>1, <2>1, <2>2
  <2>4. IsIth(s, k, i)
    BY <2>3 DEF IsIth, lo, hi
  <2> HIDE DEF i
  <2>5. i <= i
    BY <2>3
  <2>6. t[i] <= k /\ k <= t[i] /\ t[i] \in Nat
    BY <1>3, <1>6, <2>1, <2>3, <2>4, <2>5
  <2>7. t[i] = k
    BY <2>1, <2>6
  <2> QED
    BY <1>4, <2>3, <2>7 DEF Range
<1> QED
  BY <1>5, <1>7, <1>8, <1>9 DEF t

(* Two lists of the same numbers in the same order are one. *)

Increasing(s) == \A i, j \in DOMAIN s : i < j => s[i] < s[j]

LEMMA IncreasingIsUnique ==
  ASSUME NEW a \in Seq(Nat), NEW b \in Seq(Nat), Increasing(a), Increasing(b), Range(a) = Range(b)
  PROVE  a = b
<1> DEFINE A == 1..Len(a)
           B == 1..Len(b)
           Bad == {i \in A \cup B : ~(i \in A /\ i \in B /\ a[i] = b[i])}
<1>1. /\ DOMAIN a = A /\ DOMAIN b = B /\ Len(a) \in Nat /\ Len(b) \in Nat
      /\ \A i \in A : a[i] \in Nat /\ \E j \in B : b[j] = a[i]
      /\ \A i \in B : b[i] \in Nat /\ \E j \in A : a[j] = b[i]
  <2>1. /\ DOMAIN a = A /\ DOMAIN b = B /\ Len(a) \in Nat /\ Len(b) \in Nat
        /\ \A i \in A : a[i] \in Nat
        /\ \A i \in B : b[i] \in Nat
    BY LenProperties, ElementOfSeq
  <2>2. (\A i \in A : a[i] \in Range(b)) /\ (\A i \in B : b[i] \in Range(a))
    <3>1. (\A i \in A : a[i] \in Range(a)) /\ (\A i \in B : b[i] \in Range(b))
      BY <2>1 DEF Range
    <3> QED
      BY <3>1
  <2> QED
    BY <2>1, <2>2 DEF Range
<1>2. /\ \A i, j \in A : i < j => a[i] < a[j]
      /\ \A i, j \in B : i < j => b[i] < b[j]
  BY <1>1 DEF Increasing
<1>3. Bad = {}
  <2> SUFFICES ASSUME Bad # {} PROVE FALSE
    OBVIOUS
  <2>1. Bad \in SUBSET Nat
    OBVIOUS
  <2>2. PICK i \in Bad : \A m \in Bad : i <= m
    BY <2>1, LeastNumber
  <2>3. \A m \in A \cup B : m < i => m \in A /\ m \in B /\ a[m] = b[m]
    BY <2>2
  <2>4. CASE i \in A
    <3>1. PICK j \in B : b[j] = a[i]
      BY <1>1, <2>4
    <3>2. ~(j < i)
      BY <1>1, <1>2, <2>3, <2>4, <3>1
    <3>3. i \in B
      BY <1>1, <2>4, <3>2
    <3>4. PICK k \in A : a[k] = b[i]
      BY <1>1, <3>3
    <3>5. ~(k < i)
      BY <1>1, <1>2, <2>3, <3>3, <3>4
    <3>6. (k = i \/ a[i] < a[k]) /\ (j = i \/ b[i] < b[j])
      BY <1>2, <2>4, <3>2, <3>3, <3>5
    <3>7. a[i] \in Nat /\ b[i] \in Nat
      BY <1>1, <2>4, <3>3
    <3>8. a[i] = b[i]
      <4>1. k = i \/ a[i] < b[i]
        BY <3>4, <3>6
      <4>2. j = i \/ b[i] < a[i]
        BY <3>1, <3>6
      <4>3. CASE k = i \/ j = i
        <5>1. k = i => a[k] = a[i]
          OBVIOUS
        <5>2. j = i => b[j] = b[i]
          OBVIOUS
        <5> QED
          BY <3>1, <3>4, <4>3, <5>1, <5>2
      <4>4. ~(a[i] < b[i] /\ b[i] < a[i])
        <5> DEFINE u == a[i]
                   v == b[i]
        <5>1. u \in Nat /\ v \in Nat
          BY <3>7
        <5> HIDE DEF u, v
        <5>2. ~(u < v /\ v < u)
          BY <5>1
        <5> QED
          BY <5>2 DEF u, v
      <4> QED
        BY <4>1, <4>2, <4>3, <4>4
    <3> QED
      BY <2>2, <2>4, <3>3, <3>8
  <2>5. CASE i \in B
    <3>1. PICK j \in A : a[j] = b[i]
      BY <1>1, <2>5
    <3>2. ~(j < i)
      BY <1>1, <1>2, <2>3, <2>5, <3>1
    <3>3. i \in A
      BY <1>1, <2>5, <3>2
    <3> QED
      BY <2>4, <3>3
  <2> QED
    BY <2>4, <2>5
<1>4. A = B
  BY <1>3
<1>5. Len(a) = Len(b)
  <2> DEFINE m == Len(a)
             n == Len(b)
  <2>1. m \in Nat /\ n \in Nat /\ 1..m = 1..n
    BY <1>1, <1>4
  <2> HIDE DEF m, n
  <2>2. ~(m < n) /\ ~(n < m)
    <3>1. m < n => n \in 1..n /\ n \notin 1..m
      BY <2>1
    <3>2. n < m => m \in 1..m /\ m \notin 1..n
      BY <2>1
    <3> QED
      BY <2>1, <3>1, <3>2
  <2> QED
    BY <2>1, <2>2 DEF m, n
<1>6. \A i \in A : a[i] = b[i]
  BY <1>3
<1>7. a \in [A -> Nat] /\ b \in [B -> Nat]
  OBVIOUS
<1> HIDE DEF A, B
<1> QED
  BY <1>4, <1>6, <1>7

(* Dropping what repeats *)

\* What dedupSorted keeps after one more key.
Kept(out, k) == IF out # <<>> /\ k = Last(out) THEN out ELSE Append(out, k)

LEMMA KeptGrows ==
  ASSUME NEW out \in Seq(Nat), NEW k \in Nat, Increasing(out), \A x \in Range(out) : x <= k
  PROVE  Kept(out, k) \in Seq(Nat) /\ Increasing(Kept(out, k)) /\ Range(Kept(out, k)) = Range(out) \cup {k}
<1> DEFINE n == Len(out)
<1>1. n \in Nat /\ DOMAIN out = 1..n /\ \A i \in 1..n : out[i] \in Nat /\ out[i] <= k
  <2>1. n \in Nat /\ DOMAIN out = 1..n /\ \A i \in 1..n : out[i] \in Nat
    BY LenProperties, ElementOfSeq
  <2>2. \A i \in 1..n : out[i] \in Range(out)
    BY <2>1 DEF Range
  <2> QED
    BY <2>1, <2>2
<1>2. \A i, j \in 1..n : i < j => out[i] < out[j]
  BY <1>1 DEF Increasing
<1>3. CASE out # <<>> /\ k = Last(out)
  <2>1. Kept(out, k) = out
    BY <1>3 DEF Kept
  <2>2. n \in 1..n /\ k = out[n]
    BY <1>1, <1>3, EmptySeq DEF Last
  <2>3. k \in Range(out)
    BY <1>1, <2>2 DEF Range
  <2> QED
    BY <2>1, <2>3
<1>4. CASE ~(out # <<>> /\ k = Last(out))
  <2> DEFINE new == Append(out, k)
  <2>1. Kept(out, k) = new
    BY <1>4 DEF Kept
  <2>2. /\ new \in Seq(Nat) /\ Len(new) = n + 1 /\ DOMAIN new = 1..(n + 1)
        /\ new[n + 1] = k /\ \A i \in 1..n : new[i] = out[i]
    BY <1>1, AppendProperties, LenProperties
  <2> HIDE DEF new
  <2>3. \A i \in 1..n : out[i] < k
    <3> SUFFICES ASSUME NEW i \in 1..n PROVE out[i] < k
      OBVIOUS
    <3>1. n \in 1..n /\ out # <<>>
      BY <1>1, EmptySeq
    <3>2. out[n] # k
      BY <1>4, <3>1, Zenon DEF Last
    <3> HIDE DEF n
    <3>3. i = n \/ out[i] < out[n]
      BY <1>1, <1>2, <3>1
    <3>4. out[i] \in Nat /\ out[n] \in Nat /\ out[n] <= k /\ out[n] # k
      BY <1>1, <3>1, <3>2
    <3> QED
      BY <3>3, <3>4
  <2>4. Increasing(new)
    <3> SUFFICES ASSUME NEW i \in 1..(n + 1), NEW j \in 1..(n + 1), i < j
                 PROVE  new[i] < new[j]
      BY <2>2 DEF Increasing
    <3>1. i \in 1..n
      BY <1>1
    <3>2. CASE j \in 1..n
      BY <1>2, <2>2, <3>1, <3>2
    <3>3. CASE j = n + 1
      BY <2>2, <2>3, <3>1, <3>3
    <3> QED
      BY <1>1, <3>2, <3>3
  <2>5. Range(new) = Range(out) \cup {k}
    <3>1. \A i \in 1..(n + 1) : i \in 1..n \/ i = n + 1
      BY <1>1
    <3>2. \A i \in 1..n : i \in 1..(n + 1)
      BY <1>1
    <3>3. n + 1 \in 1..(n + 1)
      BY <1>1
    <3> QED
      BY <1>1, <2>2, <3>1, <3>2, <3>3 DEF Range
  <2> QED
    BY <2>1, <2>2, <2>4, <2>5
<1> QED
  BY <1>3, <1>4

\* The fold of dedupSorted.
Dedups(s, h) ==
  [x \in SUBSET DOMAIN s |-> IF x = {} THEN <<>> ELSE Kept(h[x \ {Max(x)}], s[Max(x)])]

LEMMA dedupSortedIsDedups ==
  ASSUME NEW s
  PROVE  dedupSorted(s) = (CHOOSE h : h = Dedups(s, h))[DOMAIN s]
BY DEF dedupSorted, FoldLeft, MapThenFoldSet, Dedups, Kept

\* dedupSorted lists the keys of a sorted list, each once.
LEMMA DedupLists ==
  ASSUME NEW s \in Seq(Nat), \A i, j \in 1..Len(s) : i <= j => s[i] <= s[j]
  PROVE  dedupSorted(s) \in Seq(Nat) /\ Increasing(dedupSorted(s)) /\ Range(dedupSorted(s)) = Range(s)
<1> DEFINE n    == Len(s)
           D    == DOMAIN s
           S    == Nat
           V    == Seq(Nat)
           base == <<>>
           grow == [a \in V \X Nat |-> Kept(a[1], a[2])]
           h    == CHOOSE f : f = Dedups(s, f)
<1>1. n \in Nat /\ D = 1..n /\ \A i \in D : s[i] \in Nat
  BY LenProperties, ElementOfSeq
<1>2. \A out \in V, k \in Nat : Kept(out, k) \in V /\ grow[<<out, k>>] = Kept(out, k)
  <2>1. \A out \in V, k \in Nat : Append(out, k) \in V
    BY AppendProperties
  <2> HIDE DEF V
  <2> QED
    BY <2>1 DEF Kept
<1>3. grow \in [V \X Nat -> V]
  <2> HIDE DEF V
  <2>1. \A a \in V \X Nat : a[1] \in V /\ a[2] \in Nat
    OBVIOUS
  <2> QED
    BY <1>2, <2>1
<1>4. s \in Seq(Nat) /\ base \in V
  OBVIOUS
<1>5. Steps(s, S, V, base, grow)
  <2> HIDE DEF V, grow, base
  <2> QED
    BY <1>3, <1>4 DEF Steps
<1>6. \A x \in SUBSET D : x # {} => Max(x) \in D
  BY <1>1, MaxOfPositions
<1>7. h = Dedups(s, h)
  <2>1. PICK f : FoldsUp(s, V, base, grow, f)
    <3> HIDE DEF S, V, grow, base, h
    <3> QED
      BY <1>5, FoldExists
  <2>0. f \in [SUBSET DOMAIN s -> V]
    BY <2>1 DEF FoldsUp
  <2>2. ASSUME NEW x \in SUBSET DOMAIN s
        PROVE  f[x] = Dedups(s, f)[x]
    <3>1. f[x] = IF x = {} THEN base ELSE grow[<<f[x \ {Max(x)}], s[Max(x)]>>]
      <4> HIDE DEF V, grow, base
      <4> QED
        BY <2>1 DEF FoldsUp
    <3>2. CASE x # {}
      <4>1. f[x \ {Max(x)}] \in V /\ s[Max(x)] \in Nat
        BY <1>1, <1>6, <2>0, <3>2
      <4>2. grow[<<f[x \ {Max(x)}], s[Max(x)]>>] = Kept(f[x \ {Max(x)}], s[Max(x)])
        <5> HIDE DEF V, grow
        <5> QED
          BY <1>2, <4>1
      <4> HIDE DEF V, grow
      <4> QED
        BY <3>1, <3>2, <4>2 DEF Dedups
    <3> QED
      BY <3>1, <3>2 DEF Dedups
  <2>3. f = Dedups(s, f)
    <3> HIDE DEF V
    <3> QED
      BY <2>0, <2>2 DEF Dedups
  <2> QED
    BY <2>3
<1>8. PICK g : Accumulates(s, V, base, grow, g) /\ h[DOMAIN s] = g[Len(s)]
  <2> HIDE DEF h
  <2>1. ASSUME NEW x \in SUBSET DOMAIN s
        PROVE  /\ x = {} => h[x] = base
               /\ x # {} /\ h[x \ {Max(x)}] \in V => h[x] = grow[<<h[x \ {Max(x)}], s[Max(x)]>>]
    <3>1. h[x] = IF x = {} THEN <<>> ELSE Kept(h[x \ {Max(x)}], s[Max(x)])
      BY <1>7 DEF Dedups
    <3>2. CASE x # {} /\ h[x \ {Max(x)}] \in V
      <4>1. s[Max(x)] \in Nat
        BY <1>1, <1>6, <3>2
      <4> HIDE DEF V, grow
      <4> QED
        BY <1>2, <3>1, <3>2, <4>1
    <3> QED
      BY <3>1, <3>2
  <2> HIDE DEF S, V, grow, base
  <2>2. FoldsIn(s, V, base, grow, h)
    BY <2>1 DEF FoldsIn
  <2> QED
    BY <1>5, <2>2, FoldGrows
<1>9. dedupSorted(s) = g[n]
  BY <1>8, dedupSortedIsDedups
<1> HIDE DEF h, grow
<1>10. /\ \A k \in 0..n : g[k] \in V
       /\ g[0] = <<>> /\ \A k \in 0..(n - 1) : g[k + 1] = Kept(g[k], s[k + 1])
  <2>1. /\ \A k \in 0..n : g[k] \in V
        /\ g[0] = base /\ \A k \in 0..(n - 1) : g[k + 1] = grow[<<g[k], s[k + 1]>>]
    <3> HIDE DEF V, base
    <3> QED
      BY <1>8 DEF Accumulates
  <2>2. \A k \in 0..(n - 1) : k \in 0..n /\ k + 1 \in D
    BY <1>1
  <2> HIDE DEF V
  <2> QED
    BY <1>1, <1>2, <2>1, <2>2
<1> DEFINE T == {k \in Nat : k <= n => Increasing(g[k]) /\ Range(g[k]) = {s[j] : j \in 1..k}}
<1>11. 0 \in T
  <2>1. g[0] = <<>> /\ DOMAIN <<>> = {} /\ 1..0 = {}
    BY <1>10
  <2> QED
    BY <2>1 DEF Increasing, Range
<1>12. ASSUME NEW k \in T
       PROVE  k + 1 \in T
  <2> SUFFICES ASSUME k + 1 <= n
               PROVE  Increasing(g[k + 1]) /\ Range(g[k + 1]) = {s[j] : j \in 1..(k + 1)}
    OBVIOUS
  <2>1. /\ k \in 0..(n - 1) /\ k \in 0..n /\ k <= n /\ k + 1 \in D
        /\ \A j \in 1..k : j \in 1..n /\ j <= k + 1
    BY <1>1
  <2>2. Increasing(g[k]) /\ Range(g[k]) = {s[j] : j \in 1..k}
    BY <1>12, <2>1
  <2>3. \A x \in Range(g[k]) : x <= s[k + 1]
    BY <1>1, <2>1, <2>2
  <2>4. g[k + 1] = Kept(g[k], s[k + 1]) /\ g[k] \in Seq(Nat) /\ s[k + 1] \in Nat
    BY <1>1, <1>10, <2>1
  <2>5. Increasing(g[k + 1]) /\ Range(g[k + 1]) = Range(g[k]) \cup {s[k + 1]}
    BY <2>2, <2>3, <2>4, KeptGrows
  <2>6. 1..(k + 1) = (1..k) \cup {k + 1}
    BY <2>1
  <2>7. {s[j] : j \in 1..(k + 1)} = {s[j] : j \in 1..k} \cup {s[k + 1]}
    BY <2>6
  <2> QED
    BY <2>2, <2>5, <2>7
<1> HIDE DEF T
<1>13. T = Nat
  BY <1>11, <1>12, NumbersInduct DEF T
<1>14. Increasing(g[n]) /\ Range(g[n]) = {s[j] : j \in 1..n}
  <2>1. n \in Nat /\ n <= n
    BY <1>1
  <2>2. n \in T
    BY <1>13, <2>1
  <2> HIDE DEF n
  <2> QED
    BY <2>1, <2>2 DEF T
<1>15. g[n] \in Seq(Nat)
  BY <1>1, <1>10
<1> QED
  BY <1>1, <1>9, <1>14, <1>15 DEF Range

(* The number of keys *)

\* The places of the first i of some sequences.
Places(seqs, i) == {c \in (1..i) \X Nat : c[2] \in 1..Len(seqs[c[1]])}

\* The places of one more.
LEMMA PlacesGrow ==
  ASSUME NEW S, NEW seqs \in Seq(Seq(S)), NEW i \in Nat, i + 1 \in DOMAIN seqs, IsFiniteSet(Places(seqs, i))
  PROVE  /\ IsFiniteSet(Places(seqs, i + 1))
         /\ Cardinality(Places(seqs, i + 1)) = Cardinality(Places(seqs, i)) + Len(seqs[i + 1])
<1> DEFINE m   == Len(seqs[i + 1])
           new == {i + 1} \X (1..m)
           old == Places(seqs, i)
<1>1. m \in Nat
  BY ElementOfSeq, LenProperties
<1>2. Places(seqs, i + 1) = old \cup new
  <2>1. ASSUME NEW c \in (1..(i + 1)) \X Nat
        PROVE  c \in Places(seqs, i + 1) <=> c \in old \cup new
    <3>1. c[1] \in 1..(i + 1) /\ c[2] \in Nat /\ c = <<c[1], c[2]>>
      OBVIOUS
    <3>2. CASE c[1] = i + 1
      <4>1. c \notin old
        BY <3>2 DEF Places
      <4>2. c \in new <=> c[2] \in 1..m
        BY <3>1, <3>2
      <4>3. c \in Places(seqs, i + 1) <=> c[2] \in 1..m
        BY <3>2 DEF Places
      <4> QED
        BY <4>1, <4>2, <4>3
    <3>3. CASE c[1] # i + 1
      <4>1. c[1] \in 1..i
        BY <3>1, <3>3
      <4>2. c \notin new
        BY <3>3
      <4>3. c \in Places(seqs, i + 1) <=> c \in old
        BY <3>1, <4>1 DEF Places
      <4> QED
        BY <4>2, <4>3
    <3> QED
      BY <3>2, <3>3
  <2>2. Places(seqs, i + 1) \subseteq (1..(i + 1)) \X Nat
    BY DEF Places
  <2>3. old \subseteq (1..(i + 1)) \X Nat
    <3>1. 1..i \subseteq 1..(i + 1)
      OBVIOUS
    <3> QED
      BY <3>1 DEF Places
  <2>4. new \subseteq (1..(i + 1)) \X Nat
    BY <1>1
  <2> HIDE DEF old, new
  <2> QED
    BY <2>1, <2>2, <2>3, <2>4
<1>3. old \cap new = {}
  BY DEF Places
<1>4. IsFiniteSet(new) /\ Cardinality(new) = m
  <2> DEFINE a == {i + 1}
             b == 1..m
  <2>1. IsFiniteSet(a) /\ Cardinality(a) = 1
    BY FS_Singleton
  <2>2. IsFiniteSet(b) /\ Cardinality(b) = m
    BY <1>1, PositionsFinite
  <2> HIDE DEF a, b
  <2>3. IsFiniteSet(a \X b) /\ Cardinality(a \X b) = Cardinality(a) * Cardinality(b)
    BY <2>1, <2>2, FS_Product
  <2> HIDE DEF m
  <2>4. Cardinality(a \X b) = m
    BY <1>1, <2>1, <2>2, <2>3
  <2> QED
    BY <2>3, <2>4 DEF a, b
<1>5. IsFiniteSet(old) /\ Cardinality(old) \in Nat
  BY FS_CardinalityType
<1> HIDE DEF old, new, m
<1>6. IsFiniteSet(old \cup new) /\ Cardinality(old \cup new) = Cardinality(old) + Cardinality(new) - Cardinality(old \cap new)
  BY <1>4, <1>5, FS_Union
<1>7. Cardinality(old \cap new) = 0
  BY <1>3, FS_EmptySet
<1>8. Cardinality(old \cup new) = Cardinality(old) + m
  BY <1>1, <1>4, <1>5, <1>6, <1>7
<1> QED
  BY <1>2, <1>6, <1>8 DEF old, m

\* FlattenSeq is as long as the sequences together.
LEMMA FlattenLength ==
  ASSUME NEW S, NEW seqs \in Seq(Seq(S))
  PROVE  /\ IsFiniteSet(Places(seqs, Len(seqs)))
         /\ Len(FlattenSeq(seqs)) = Cardinality(Places(seqs, Len(seqs)))
<1>1. Len(seqs) \in Nat /\ DOMAIN seqs = 1..Len(seqs) /\ \A i \in DOMAIN seqs : seqs[i] \in Seq(S)
  BY LenProperties, ElementOfSeq
<1>2. IsFiniteSet(Places(seqs, 0)) /\ Cardinality(Places(seqs, 0)) = 0
  <2>1. Places(seqs, 0) = {}
    BY DEF Places
  <2> QED
    BY <2>1, FS_EmptySet
<1>3. CASE seqs = <<>>
  <2>1. FlattenSeq(seqs) = <<>> /\ Len(seqs) = 0
    BY <1>3 DEF FlattenSeq
  <2>2. Len(FlattenSeq(seqs)) = 0
    BY <2>1
  <2> QED
    BY <1>2, <2>1, <2>2
<1>4. CASE seqs # <<>>
  <2>1. PICK g : Grows(seqs, S, g) /\ FlattenSeq(seqs) = g[Len(seqs)]
    BY <1>4, FlattenGrows
  <2> DEFINE n == Len(seqs)
             T == {i \in 1..n : IsFiniteSet(Places(seqs, i)) /\ Len(g[i]) = Cardinality(Places(seqs, i))}
  <2>2. n \in Nat /\ n # 0
    BY <1>1, <1>4, EmptySeq
  <2>3. /\ \A i \in 1..n : g[i] \in Seq(S) /\ seqs[i] \in Seq(S)
        /\ g[1] = seqs[1] /\ \A i \in 1..(n - 1) : g[i + 1] = g[i] \o seqs[i + 1]
    BY <1>1, <2>1 DEF Grows
  <2> HIDE DEF n
  <2>4. 1 \in T
    <3>1. 0 \in Nat /\ 0 + 1 = 1 /\ 1 \in 1..n /\ 1 \in DOMAIN seqs
      BY <1>1, <2>2 DEF n
    <3>2. IsFiniteSet(Places(seqs, 1)) /\ Cardinality(Places(seqs, 1)) = 0 + Len(seqs[1])
      BY <1>2, <3>1, PlacesGrow
    <3>3. Len(seqs[1]) \in Nat
      BY <2>3, <3>1, LenProperties
    <3> QED
      BY <2>3, <3>1, <3>2, <3>3
  <2>5. ASSUME NEW i \in T, i # n
        PROVE  i + 1 \in T
    <3>1. i \in Nat /\ i \in 1..(n - 1) /\ i \in 1..n /\ i + 1 \in 1..n /\ i + 1 \in DOMAIN seqs
      <4>1. i \in 1..n /\ DOMAIN seqs = 1..n
        BY <1>1 DEF n
      <4> QED
        BY <2>2, <2>5, <4>1
    <3>2. IsFiniteSet(Places(seqs, i)) /\ Len(g[i]) = Cardinality(Places(seqs, i))
      OBVIOUS
    <3>3. /\ IsFiniteSet(Places(seqs, i + 1))
          /\ Cardinality(Places(seqs, i + 1)) = Cardinality(Places(seqs, i)) + Len(seqs[i + 1])
      BY <3>1, <3>2, PlacesGrow
    <3>4. g[i] \in Seq(S) /\ seqs[i + 1] \in Seq(S) /\ g[i + 1] = g[i] \o seqs[i + 1]
      BY <2>3, <3>1
    <3>5. Len(g[i + 1]) = Len(g[i]) + Len(seqs[i + 1])
      BY <3>4, ConcatProperties
    <3> QED
      BY <3>1, <3>2, <3>3, <3>5
  <2> HIDE DEF T
  <2>6. T = 1..n
    <3>1. T \in SUBSET (1..n)
      BY DEF T
    <3> QED
      BY <2>2, <2>4, <2>5, <3>1, PositionsInduct
  <2>7. n \in T
    BY <2>2, <2>6
  <2> QED
    BY <2>1, <2>7 DEF T, n
<1> QED
  BY <1>3, <1>4

----------------------------------------------------------------------------
(* Every key read is in the table or counted as a duplicate. *)

\* The places of the runs that the readers have passed.
Read == {c \in (DOMAIN runs) \X Nat : c[2] \in 1..(at[c[1]] - 1)}

CountInv ==
  /\ IsFiniteSet(Read)
  /\ deduped + Len(table) = Cardinality(Read)

LEMMA AdvanceReadsOne ==
  ASSUME TypeOK, NEW r \in heap, Advance(r), UNCHANGED runs, IsFiniteSet(Read)
  PROVE  IsFiniteSet(Read') /\ Cardinality(Read') = Cardinality(Read) + 1
<1>1. /\ r \in DOMAIN runs /\ at[r] \in Nat \ {0}
      /\ at' = [at EXCEPT ![r] = @ + 1] /\ runs' = runs
      /\ at \in [DOMAIN runs -> Nat]
  <2>1. r \in DOMAIN runs
    BY DEF TypeOK
  <2>2. at[r] \in 1..(Len(runs[r]) + 1)
    BY <2>1, RunFacts
  <2> QED
    BY <2>1, <2>2 DEF TypeOK, Advance
<1>2. at'[r] = at[r] + 1 /\ \A o \in DOMAIN runs \ {r} : at'[o] = at[o]
  BY <1>1
<1> DEFINE now == <<r, at[r]>>
<1>3. now \notin Read
  BY <1>1 DEF Read
<1>4. Read' = Read \cup {now}
  <2>1. ASSUME NEW c \in (DOMAIN runs) \X Nat
        PROVE  c[2] \in 1..(at'[c[1]] - 1) <=> c[2] \in 1..(at[c[1]] - 1) \/ c = now
    <3>1. c = <<c[1], c[2]>> /\ c[1] \in DOMAIN runs /\ c[2] \in Nat
      OBVIOUS
    <3>2. CASE c[1] = r
      BY <1>1, <1>2, <3>1, <3>2
    <3>3. CASE c[1] # r
      BY <1>2, <3>1, <3>3
    <3> QED
      BY <3>2, <3>3
  <2>2. now \in (DOMAIN runs) \X Nat
    BY <1>1
  <2>3. Read' = {c \in (DOMAIN runs) \X Nat : c[2] \in 1..(at'[c[1]] - 1)}
    BY <1>1 DEF Read
  <2> HIDE DEF now
  <2> QED
    BY <2>1, <2>2, <2>3 DEF Read
<1> HIDE DEF now
<1> QED
  BY <1>3, <1>4, FS_AddElement

LEMMA StepKeepsCount == TypeOK /\ CountInv /\ [Next]_vars => CountInv'
<1> SUFFICES ASSUME TypeOK, CountInv, [Next]_vars PROVE CountInv'
  OBVIOUS
<1>1. /\ IsFiniteSet(Read) /\ Cardinality(Read) \in Nat /\ deduped + Len(table) = Cardinality(Read)
      /\ deduped \in Nat /\ table \in Seq(Key) /\ Len(table) \in Nat
  BY FS_CardinalityType, LenProperties DEF CountInv, TypeOK
<1>2. ASSUME NEW r \in DOMAIN runs, Drop(r)
      PROVE  CountInv'
  <2>1. r \in heap /\ Advance(r) /\ UNCHANGED <<runs, table>> /\ deduped' = deduped + 1
    BY <1>2 DEF Drop, Least
  <2>2. IsFiniteSet(Read') /\ Cardinality(Read') = Cardinality(Read) + 1
    BY <1>1, <2>1, AdvanceReadsOne
  <2> QED
    BY <1>1, <2>1, <2>2 DEF CountInv
<1>3. ASSUME NEW r \in DOMAIN runs, Emit(r)
      PROVE  CountInv'
  <2>1. r \in heap /\ Advance(r) /\ UNCHANGED <<runs, deduped>> /\ table' = Append(table, Cur(r))
    BY <1>3 DEF Emit, Least
  <2>2. IsFiniteSet(Read') /\ Cardinality(Read') = Cardinality(Read) + 1
    BY <1>1, <2>1, AdvanceReadsOne
  <2>3. Cur(r) \in Key
    BY <1>3, <2>1, RunFacts
  <2>4. Len(table') = Len(table) + 1
    BY <1>1, <2>1, <2>3, AppendProperties
  <2> QED
    BY <1>1, <2>1, <2>2, <2>4 DEF CountInv
<1>4. CASE Fail \/ Finish \/ UNCHANGED vars
  BY <1>4 DEF Fail, Finish, vars, CountInv, Read
<1> QED
  BY <1>2, <1>3, <1>4 DEF Next, Work

LEMMA CountInit == Init => CountInv
<1> SUFFICES ASSUME Init PROVE CountInv
  OBVIOUS
<1>1. Read = {} /\ deduped = 0 /\ Len(table) = 0
  BY DEF Init, Read
<1> QED
  BY <1>1, FS_EmptySet DEF CountInv

\* Merging the runs and sorting everything in memory are one: when the merge
\* closes its table, the table is what IngestSorted would have written of the
\* same keys, and the duplicates it reports are as many.
THEOREM MergeAlwaysAgrees == Spec => []AgreesWithInMemory
<1>1. TypeOK /\ TableIncreases /\ TableComplete /\ CoverInv /\ CountInv => AgreesWithInMemory
  <2> SUFFICES ASSUME TypeOK, TableIncreases, TableComplete, CoverInv, CountInv, state = "closed"
               PROVE  /\ table = InMemory(runs)
                      /\ deduped = Len(FlattenSeq(runs)) - Len(InMemory(runs))
    BY DEF AgreesWithInMemory
  <2> DEFINE all == FlattenSeq(runs)
             t   == sortByteSlices(all)
             d   == dedupSorted(t)
  <2>1. runs \in Seq(Seq(Nat)) /\ table \in Seq(Nat)
    <3> DEFINE K == Seq(Key)
               N == Seq(Nat)
    <3>1. Key \subseteq Nat /\ runs \in Seq(K) /\ table \in K
      BY MergeAssumption DEF TypeOK
    <3>2. K \subseteq N
      BY <3>1, SeqMonotonic
    <3> HIDE DEF K, N
    <3>3. runs \in Seq(N) /\ table \in N
      BY <3>1, <3>2, SeqMonotonic
    <3> QED
      BY <3>3 DEF N
  <2>2. all \in Seq(Nat) /\ Range(all) = AllKeys
    <3>1. /\ all \in Seq(Nat)
          /\ \A x \in Nat : (\E m \in DOMAIN all : all[m] = x) <=> Upto(runs, Len(runs), x)
      <4> DEFINE S == Nat
                 seqs == runs
      <4>1. seqs \in Seq(Seq(S))
        BY <2>1
      <4> HIDE DEF S, seqs
      <4>2. /\ FlattenSeq(seqs) \in Seq(S)
            /\ \A x \in S : (\E m \in DOMAIN FlattenSeq(seqs) : FlattenSeq(seqs)[m] = x)
                              <=> Upto(seqs, Len(seqs), x)
        BY <4>1, FlattenHolds
      <4> QED
        BY <4>2 DEF S, seqs
    <3>2. /\ DOMAIN runs = 1..Len(runs)
          /\ \A r \in DOMAIN runs : \A j \in DOMAIN runs[r] : runs[r][j] \in Nat
          /\ \A m \in DOMAIN all : all[m] \in Nat
      BY <2>1, <3>1, LenProperties, ElementOfSeq
    <3> HIDE DEF all
    <3>3. \A x \in Range(all) : x \in Nat /\ x \in AllKeys
      <4> SUFFICES ASSUME NEW x \in Range(all) PROVE x \in Nat /\ x \in AllKeys
        OBVIOUS
      <4>1. PICK m \in DOMAIN all : all[m] = x
        BY DEF Range
      <4>2. x \in Nat
        BY <3>2, <4>1
      <4>3. PICK r \in 1..Len(runs) : \E j \in DOMAIN runs[r] : runs[r][j] = x
        BY <3>1, <4>1, <4>2 DEF Upto
      <4>4. x \in Range(runs[r])
        BY <4>3 DEF Range
      <4> QED
        BY <3>2, <4>2, <4>3, <4>4 DEF AllKeys
    <3>4. \A x \in AllKeys : x \in Range(all)
      BY <3>1, <3>2 DEF Range, AllKeys, Upto
    <3> QED
      BY <3>1, <3>3, <3>4
  <2> HIDE DEF all
  <2>3. t \in Seq(Nat) /\ Range(t) = Range(all) /\ \A i, j \in 1..Len(t) : i <= j => t[i] <= t[j]
    <3>1. /\ t \in Seq(Nat) /\ Len(t) = Len(all) /\ Range(t) = Range(all)
          /\ \A i, j \in 1..Len(all) : i <= j => t[i] <= t[j]
      BY <2>2, SortIsSorted
    <3> QED
      BY <3>1
  <2> HIDE DEF t
  <2>4. d \in Seq(Nat) /\ Increasing(d) /\ Range(d) = Range(t)
    BY <2>3, DedupLists
  <2> HIDE DEF d
  <2>5. Increasing(table) /\ Range(table) = AllKeys
    BY DEF TableIncreases, TableComplete, Increasing, AllKeys
  <2>6. Range(table) = Range(d)
    BY <2>2, <2>3, <2>4, <2>5
  <2>7. table = d
    BY <2>1, <2>4, <2>5, <2>6, IncreasingIsUnique
  <2>8. d = InMemory(runs)
    BY DEF d, t, all, InMemory
  <2>9. Read = Places(runs, Len(runs))
    <3>1. DOMAIN runs = 1..Len(runs)
      BY <2>1, LenProperties
    <3>2. \A r \in DOMAIN runs : at[r] - 1 = Len(runs[r])
      <4> SUFFICES ASSUME NEW r \in DOMAIN runs PROVE at[r] - 1 = Len(runs[r])
        OBVIOUS
      <4>1. at[r] \in 1..(Len(runs[r]) + 1) /\ Len(runs[r]) \in Nat
        BY RunFacts, LenProperties
      <4>2. ~(at[r] <= Len(runs[r]))
        BY DEF CoverInv, TypeOK
      <4> QED
        BY <4>1, <4>2
    <3> QED
      BY <3>1, <3>2 DEF Read, Places
  <2>10. Cardinality(Read) = Len(all)
    <3> DEFINE S == Nat
               seqs == runs
    <3>1. seqs \in Seq(Seq(S))
      BY <2>1
    <3> HIDE DEF S, seqs
    <3>2. Len(FlattenSeq(seqs)) = Cardinality(Places(seqs, Len(seqs)))
      BY <3>1, FlattenLength
    <3> QED
      BY <2>9, <3>2 DEF seqs, all
  <2>11. deduped + Len(table) = Len(all) /\ deduped \in Nat /\ Len(table) \in Nat
    BY <2>1, <2>10, LenProperties DEF CountInv, TypeOK
  <2>12. deduped = Len(all) - Len(d)
    <3> DEFINE x == Len(table)
               y == Len(all)
    <3>1. deduped + x = y /\ deduped \in Nat /\ x \in Nat
      BY <2>11
    <3> HIDE DEF x, y
    <3>2. deduped = y - x
      BY <3>1
    <3> QED
      BY <2>7, <3>2 DEF x, y
  <2> QED
    BY <2>7, <2>8, <2>12 DEF all
<1>2. Init => CoverInv
  BY CoverInit
<1> QED
  BY <1>1, <1>2, CountInit, StepKeepsCover, StepKeepsCount, MergeTypeCorrect, TableAlwaysIncreases,
     TableAlwaysComplete, PTL DEF Spec
=============================================================================
