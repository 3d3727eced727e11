------------------------- MODULE SqliteWriterProofs -------------------------
(* Theorems about SqliteWriter, for every value of its constants. *)
EXTENDS SqliteWriter, SequenceTheorems, TLAPS

(* The inductive invariant, in parts. *)

OpRow    == [id : Nat, seq : Nat, kind : {"add", "remove"}, quad : Quad]
Contents == [quads : SUBSET Quad, commits : SUBSET [id : Nat, at : Nat], ops : SUBSET OpRow]
Call     == [batch : Batch, id : Nat, done : Nat, locked : BOOLEAN, image : Contents]

\* The slots and who stands at them.
SlotTypes ==
  /\ slot \in [Part -> Seq(Proc)]
  /\ pc \in [Proc -> {"idle", "waiting", "writer", "commit", "legacy"}]
  /\ at \in [Proc -> Part]

\* Who waits for a slot or has it is found at it.
AtSlot ==
  \A g \in Proc : pc[g] \in {"waiting", "writer", "commit"} =>
    \E i \in DOMAIN slot[at[g]] : slot[at[g]][i] = g

SlotInv == SlotTypes /\ AtSlot /\ OneWriterPerPartition

TypeInv ==
  /\ file \in [Part -> Contents]
  /\ worlds \in [Part -> SUBSET Contents]
  /\ \A p \in Part : file[p] \in worlds[p]
  /\ call \in [Proc -> Call]
  /\ clock \in Second
  /\ nextId \in Nat \ {0}
  /\ begun \in Seq(Batch) /\ Len(begun) = nextId - 1
  /\ cutoff \in [Part -> Nat]
  /\ failed \in [Part -> SUBSET Proc]

\* The quads of a batch all belong to partition p.
Routed(p, b) ==
  /\ \A i \in DOMAIN b.adds : partFor(Effective(b.adds[i], b.label).label) = p
  /\ \A i \in DOMAIN b.removes : partFor(b.removes[i].label) = p

\* A call in a transaction has an id of its own, has passed the routing check
\* and knows how far it got; the write lock of a file has one holder.
TxInv ==
  /\ \A g \in Proc : ~InTx(g) => call[g] = NoCall
  /\ \A g \in Proc : InTx(g) =>
       /\ call[g].id \in 1..(nextId - 1) /\ begun[call[g].id] = call[g].batch
       /\ Routed(at[g], call[g].batch)
  /\ \A g \in Proc :
       /\ call[g].done <= Len(Jobs(call[g].batch))
       /\ call[g].locked <=> call[g].done > 0
  /\ \A g, h \in Proc : InTx(g) /\ InTx(h) /\ call[g].id = call[h].id => g = h
  /\ \A g, h \in Proc : call[g].locked /\ call[h].locked /\ at[g] = at[h] => g = h

\* The commit row is the first statement of an audited batch.
RowFirst(b) == IF b.audit THEN 1 ELSE 0

\* What the first k statements of a batch add and remove.
AddsTo(b, k) ==
  {Effective(b.adds[i], b.label) : i \in {j \in DOMAIN b.adds : RowFirst(b) + j <= k}}
RemovesTo(b, k) ==
  {b.removes[i] : i \in {j \in DOMAIN b.removes : RowFirst(b) + Len(b.adds) + j <= k}}

\* The image of an open transaction is the file it started from with the
\* statements so far, since nobody else can write that file.
ImageInv ==
  \A g \in Proc : LET c == call[g] IN c.locked =>
    c.image.quads = (file[at[g]].quads \cup AddsTo(c.batch, c.done)) \ RemovesTo(c.batch, c.done)

\* The rows of commit_ops that the first k statements of a commit write.
OpsTo(b, id, k) ==
  {[id |-> id, seq |-> Jobs(b)[i].seq, kind |-> Jobs(b)[i].do, quad |-> Jobs(b)[i].quad] :
     i \in {j \in DOMAIN Jobs(b) : j <= k /\ Jobs(b)[j].do # "commit"}}

WholeOps(b, id) == OpsTo(b, id, Len(Jobs(b)))

RowsOf(f, id) == {o \in f.ops : o.id = id}

\* The two journal tables agree but for the commit `own', which is open.
JournalOf(f, before, own, batches) ==
  /\ \A o \in f.ops : \E c \in f.commits : c.id = o.id
  /\ \A c, d \in f.commits : c.id = d.id => c = d
  /\ \A c \in f.commits : c.id # own =>
       RowsOf(f, c.id) = WholeOps(batches[c.id], c.id) \/ (RowsOf(f, c.id) = {} /\ c.at < before)

\* A commit id that no row has.
Unused(f, id) == \A c \in f.commits : c.id # id

UsesTo(f, next) == \A c \in f.commits : c.id \in 1..(next - 1)

\* What the first k statements of batch b wrote under commit id `own'.
OwnRows(f, b, own, k) ==
  IF b.audit /\ k > 0 THEN ~Unused(f, own) /\ RowsOf(f, own) = OpsTo(b, own, k)
  ELSE Unused(f, own)

\* A published file has no open commit; an image has the one of its call.
JournalInv ==
  /\ \A p \in Part : \A f \in worlds[p] :
       /\ JournalOf(f, cutoff[p], 0, begun) /\ UsesTo(f, nextId)
       /\ \A g \in Proc : InTx(g) => Unused(f, call[g].id)
  /\ \A g \in Proc : LET c == call[g] IN c.locked =>
       /\ JournalOf(c.image, cutoff[at[g]], c.id, begun) /\ UsesTo(c.image, nextId)
       /\ \A h \in Proc : InTx(h) /\ h # g => Unused(c.image, call[h].id)
       /\ OwnRows(c.image, c.batch, c.id, c.done)

----------------------------------------------------------------------------
(* The slots *)

\* A sequence without its i-th element.
LEMMA RemoveAtProperties ==
  ASSUME NEW S, NEW s \in Seq(S), NEW i \in DOMAIN s
  PROVE  /\ RemoveAt(s, i) \in Seq(S)
         /\ Len(RemoveAt(s, i)) = Len(s) - 1
         /\ \A j \in 1..(Len(s) - 1) : RemoveAt(s, i)[j] = IF j < i THEN s[j] ELSE s[j + 1]
<1> DEFINE before == SubSeq(s, 1, i - 1)
           after  == SubSeq(s, i + 1, Len(s))
<1>1. i \in 1..Len(s) /\ Len(s) \in Nat
  BY LenProperties
<1>2. \A j \in 1..Len(s) : s[j] \in S
  BY ElementOfSeq
<1>3. /\ before \in Seq(S) /\ Len(before) = i - 1
      /\ \A j \in 1..(i - 1) : before[j] = s[j]
  <2>1. \A j \in 1..(i - 1) : s[j] \in S
    BY <1>1, <1>2
  <2> QED
    BY <1>1, <2>1, SubSeqProperties
<1>4. /\ after \in Seq(S) /\ Len(after) = Len(s) - i
      /\ \A j \in 1..(Len(s) - i) : after[j] = s[i + j]
  <2>1. \A j \in (i + 1)..Len(s) : s[j] \in S
    BY <1>1, <1>2
  <2>2. /\ SubSeq(s, i + 1, Len(s)) \in Seq(S)
        /\ Len(SubSeq(s, i + 1, Len(s))) =
             IF i + 1 <= Len(s) THEN Len(s) - (i + 1) + 1 ELSE 0
        /\ \A j \in 1..(Len(s) - (i + 1) + 1) :
             SubSeq(s, i + 1, Len(s))[j] = s[(i + 1) + j - 1]
    BY <1>1, <2>1, SubSeqProperties
  <2> QED
    BY <1>1, <2>2
<1>5. /\ before \o after \in Seq(S)
      /\ Len(before \o after) = Len(before) + Len(after)
      /\ \A j \in 1..(Len(before) + Len(after)) : (before \o after)[j] =
           IF j <= Len(before) THEN before[j] ELSE after[j - Len(before)]
  BY <1>3, <1>4, ConcatProperties
<1>6. RemoveAt(s, i) = before \o after
  BY DEF RemoveAt
<1> HIDE DEF before, after
<1>7. Len(before) + Len(after) = Len(s) - 1
  BY <1>1, <1>3, <1>4
<1>8. ASSUME NEW j \in 1..(Len(s) - 1)
      PROVE  (before \o after)[j] = IF j < i THEN s[j] ELSE s[j + 1]
  <2>1. CASE j < i
    BY <1>1, <1>3, <1>5, <1>7, <2>1
  <2>2. CASE ~(j < i)
    <3>1. j - (i - 1) \in 1..(Len(s) - i) /\ i + (j - (i - 1)) = j + 1
      BY <1>1, <2>2
    <3>2. (before \o after)[j] = after[j - (i - 1)]
      <4>1. (before \o after)[j] =
              IF j <= Len(before) THEN before[j] ELSE after[j - Len(before)]
        BY <1>5, <1>7
      <4>2. ~(j <= Len(before)) /\ Len(before) = i - 1
        BY <1>1, <1>3, <2>2
      <4> QED
        BY <4>1, <4>2
    <3> QED
      BY <1>4, <2>2, <3>1, <3>2
  <2> QED
    BY <2>1, <2>2
<1> QED
  BY <1>5, <1>6, <1>7, <1>8

\* A goroutine at a slot stands there once, and at no other.
LEMMA PlaceIsUnique ==
  ASSUME SlotInv
  PROVE  /\ \A p \in Part : \A i \in DOMAIN slot[p] :
              /\ slot[p][i] \in Proc /\ at[slot[p][i]] = p
              /\ pc[slot[p][i]] \in IF i = 1 THEN {"writer", "commit"} ELSE {"waiting"}
         /\ \A p \in Part : \A i, j \in DOMAIN slot[p] : slot[p][i] = slot[p][j] => i = j
         /\ \A p \in Part : /\ slot[p] \in Seq(Proc) /\ Len(slot[p]) \in Nat
                            /\ DOMAIN slot[p] = 1..Len(slot[p])
<1>1. \A p \in Part : /\ slot[p] \in Seq(Proc) /\ Len(slot[p]) \in Nat
                       /\ DOMAIN slot[p] = 1..Len(slot[p])
  BY LenProperties DEF SlotInv, SlotTypes
<1>2. ASSUME NEW p \in Part, NEW i \in DOMAIN slot[p]
      PROVE  /\ slot[p][i] \in Proc /\ at[slot[p][i]] = p
             /\ pc[slot[p][i]] \in IF i = 1 THEN {"writer", "commit"} ELSE {"waiting"}
  <2>1. slot[p][i] \in Proc
    BY <1>1, ElementOfSeq
  <2>2. CASE i = 1
    <3>1. slot[p] # <<>> /\ Head(slot[p]) = slot[p][1]
      BY <1>1, <2>2
    <3> QED
      BY <2>1, <2>2, <3>1 DEF SlotInv, OneWriterPerPartition
  <2>3. CASE i # 1
    <3>1. i \in 2..Len(slot[p])
      BY <1>1, <2>3
    <3> QED
      BY <2>1, <2>3, <3>1 DEF SlotInv, OneWriterPerPartition
  <2> QED
    BY <2>2, <2>3
<1> QED
  BY <1>1, <1>2 DEF SlotInv, OneWriterPerPartition

\* What has to hold of the slots of a state for one Writer to have each.
LEMMA SlotsInOrder ==
  ASSUME NEW s \in [Part -> Seq(Proc)], NEW stands, NEW on,
         \A g \in Proc : stands[g] \in {"waiting", "writer", "commit"} =>
            \E i \in DOMAIN s[on[g]] : s[on[g]][i] = g,
         \A p \in Part : \A i \in DOMAIN s[p] :
            /\ on[s[p][i]] = p
            /\ stands[s[p][i]] \in IF i = 1 THEN {"writer", "commit"} ELSE {"waiting"}
  PROVE  \A p \in Part :
           /\ \A g \in Proc : stands[g] \in {"writer", "commit"} /\ on[g] = p => Head(s[p]) = g
           /\ s[p] # <<>> => stands[Head(s[p])] \in {"writer", "commit"} /\ on[Head(s[p])] = p
           /\ \A i \in 2..Len(s[p]) : stands[s[p][i]] = "waiting" /\ on[s[p][i]] = p
<1> SUFFICES ASSUME NEW p \in Part
             PROVE  /\ \A g \in Proc : stands[g] \in {"writer", "commit"} /\ on[g] = p => Head(s[p]) = g
                    /\ s[p] # <<>> => stands[Head(s[p])] \in {"writer", "commit"} /\ on[Head(s[p])] = p
                    /\ \A i \in 2..Len(s[p]) : stands[s[p][i]] = "waiting" /\ on[s[p][i]] = p
  OBVIOUS
<1>1. /\ s[p] \in Seq(Proc) /\ Len(s[p]) \in Nat
      /\ DOMAIN s[p] = 1..Len(s[p])
      /\ s[p] # <<>> => 1 \in DOMAIN s[p] /\ Head(s[p]) = s[p][1]
  <2>1. /\ s[p] \in Seq(Proc) /\ Len(s[p]) \in Nat
        /\ DOMAIN s[p] = 1..Len(s[p])
    BY LenProperties
  <2>2. s[p] # <<>> => Len(s[p]) \in Nat \ {0}
    BY <2>1, EmptySeq
  <2> QED
    BY <2>1, <2>2
<1>2. ASSUME NEW g \in Proc, stands[g] \in {"writer", "commit"}, on[g] = p
      PROVE  Head(s[p]) = g
  <2>1. PICK i \in DOMAIN s[p] : s[p][i] = g
    BY <1>2
  <2>2. i = 1
    BY <1>2, <2>1
  <2>3. s[p] # <<>>
    BY <1>1, <2>1, <2>2
  <2> QED
    BY <1>1, <2>1, <2>2, <2>3
<1> QED
  BY <1>1, <1>2

\* Slots with the holder first, no one twice and everyone who waits in them are in order.
LEMMA InOrder ==
  ASSUME SlotTypes',
         \A g \in Proc : pc'[g] \in {"waiting", "writer", "commit"} =>
            \E i \in DOMAIN slot'[at'[g]] : slot'[at'[g]][i] = g,
         \A p \in Part : \A i \in DOMAIN slot'[p] :
            /\ at'[slot'[p][i]] = p
            /\ pc'[slot'[p][i]] \in IF i = 1 THEN {"writer", "commit"} ELSE {"waiting"},
         \A p \in Part : \A i, j \in DOMAIN slot'[p] : slot'[p][i] = slot'[p][j] => i = j
  PROVE  SlotInv'
<1>1. slot' \in [Part -> Seq(Proc)]
  BY DEF SlotTypes
<1>2. \A q \in Part :
        /\ \A h \in Proc : pc'[h] \in {"writer", "commit"} /\ at'[h] = q => Head(slot'[q]) = h
        /\ slot'[q] # <<>> => pc'[Head(slot'[q])] \in {"writer", "commit"} /\ at'[Head(slot'[q])] = q
        /\ \A i \in 2..Len(slot'[q]) : pc'[slot'[q][i]] = "waiting" /\ at'[slot'[q][i]] = q
  BY <1>1, SlotsInOrder
<1> QED
  BY <1>2 DEF SlotInv, AtSlot, OneWriterPerPartition

\* A goroutine that asks for a Writer takes the free slot or the last place.
LEMMA WriterForKeepsSlots ==
  ASSUME SlotInv, NEW g \in Proc, NEW p \in Part, WriterFor(g, p)
  PROVE  SlotInv'
<1>1. /\ pc[g] = "idle"
      /\ pc' = [pc EXCEPT ![g] = IF slot[p] = <<>> THEN "writer" ELSE "waiting"]
      /\ slot' = [slot EXCEPT ![p] = Append(slot[p], g)]
      /\ at' = [at EXCEPT ![g] = p]
  BY DEF WriterFor, Goto, SlotInv, SlotTypes
<1>2. /\ SlotTypes
      /\ \A q \in Part : /\ slot[q] \in Seq(Proc) /\ Len(slot[q]) \in Nat
                          /\ DOMAIN slot[q] = 1..Len(slot[q])
  BY PlaceIsUnique DEF SlotInv
<1>3. slot[p] = <<>> <=> Len(slot[p]) = 0
  BY <1>2, EmptySeq
<1>4. /\ slot'[p] \in Seq(Proc) /\ DOMAIN slot'[p] = 1..(Len(slot[p]) + 1)
      /\ slot'[p][Len(slot[p]) + 1] = g
      /\ \A i \in DOMAIN slot[p] : slot'[p][i] = slot[p][i]
  <2>1. slot'[p] = Append(slot[p], g)
    BY <1>1, <1>2 DEF SlotTypes
  <2> QED
    BY <1>2, <2>1, AppendProperties, LenProperties
<1>5. \A q \in Part : q # p => slot'[q] = slot[q]
  BY <1>1, <1>2 DEF SlotTypes
<1>6. \A q \in Part : \A i \in DOMAIN slot[q] : slot[q][i] # g
  <2>1. \A q \in Part : \A i \in DOMAIN slot[q] : pc[slot[q][i]] # "idle"
    BY PlaceIsUnique
  <2> QED
    BY <1>1, <2>1
<1>7. SlotTypes'
  BY <1>1, <1>2, <1>4 DEF SlotTypes
<1>8. AtSlot'
  <2> SUFFICES ASSUME NEW h \in Proc, pc'[h] \in {"waiting", "writer", "commit"}
               PROVE  \E i \in DOMAIN slot'[at'[h]] : slot'[at'[h]][i] = h
    BY DEF AtSlot
  <2>1. CASE h = g
    <3>1. at'[h] = p /\ Len(slot[p]) + 1 \in DOMAIN slot'[p]
      BY <1>1, <1>2, <1>4, <2>1 DEF SlotTypes
    <3> QED
      BY <1>4, <2>1, <3>1
  <2>2. CASE h # g
    <3>1. pc'[h] = pc[h] /\ at'[h] = at[h] /\ at[h] \in Part
      BY <1>1, <1>2, <2>2 DEF SlotTypes
    <3>2. PICK i \in DOMAIN slot[at[h]] : slot[at[h]][i] = h
      BY <3>1 DEF SlotInv, AtSlot
    <3>3. i \in DOMAIN slot'[at[h]] /\ slot'[at[h]][i] = slot[at[h]][i]
      BY <1>2, <1>4, <1>5, <3>1
    <3> QED
      BY <3>1, <3>2, <3>3
  <2> QED
    BY <2>1, <2>2
<1>9. ASSUME NEW q \in Part, NEW i \in DOMAIN slot'[q]
      PROVE  /\ at'[slot'[q][i]] = q
             /\ pc'[slot'[q][i]] \in IF i = 1 THEN {"writer", "commit"} ELSE {"waiting"}
  <2>1. CASE i \in DOMAIN slot[q]
    <3>1. slot'[q][i] = slot[q][i] /\ slot[q][i] \in Proc /\ slot[q][i] # g
      BY <1>4, <1>5, <1>6, <2>1, PlaceIsUnique
    <3> QED
      BY <1>1, <1>2, <2>1, <3>1, PlaceIsUnique DEF SlotTypes
  <2>2. CASE i \notin DOMAIN slot[q]
    <3>1. q = p /\ i = Len(slot[p]) + 1 /\ slot'[q][i] = g
      BY <1>2, <1>4, <1>5, <2>2
    <3> QED
      BY <1>1, <1>2, <1>3, <3>1 DEF SlotTypes
  <2> QED
    BY <2>1, <2>2
<1>10. ASSUME NEW q \in Part, NEW i \in DOMAIN slot'[q], NEW j \in DOMAIN slot'[q],
              slot'[q][i] = slot'[q][j]
       PROVE  i = j
  <2>1. CASE i \in DOMAIN slot[q] /\ j \in DOMAIN slot[q]
    BY <1>4, <1>5, <1>10, <2>1, PlaceIsUnique
  <2>2. CASE ~(i \in DOMAIN slot[q] /\ j \in DOMAIN slot[q])
    BY <1>2, <1>4, <1>5, <1>6, <1>10, <2>2
  <2> QED
    BY <2>1, <2>2
<1> QED
  BY <1>7, <1>8, <1>9, <1>10, InOrder DEF AtSlot

\* What is left of the slots when g leaves its own: who is first may only
\* change when g was first.
LEMMA AfterLeaving ==
  ASSUME SlotInv, NEW g \in Proc, pc[g] \in {"waiting", "writer", "commit"}, LeaveSlot(g)
  PROVE  \E i \in DOMAIN slot[at[g]] :
           /\ slot[at[g]][i] = g
           /\ slot' \in [Part -> Seq(Proc)]
           /\ DOMAIN slot'[at[g]] = 1..(Len(slot[at[g]]) - 1)
           /\ \A j \in DOMAIN slot'[at[g]] :
                slot'[at[g]][j] = IF j < i THEN slot[at[g]][j] ELSE slot[at[g]][j + 1]
           /\ \A q \in Part : q # at[g] => slot'[q] = slot[q]
<1> DEFINE p == at[g]
<1>1. PICK i \in DOMAIN slot[p] : slot[p][i] = g /\ slot' = [slot EXCEPT ![p] = RemoveAt(slot[p], i)]
  BY DEF LeaveSlot, SlotInv, SlotTypes
<1>2. p \in Part /\ slot \in [Part -> Seq(Proc)]
  BY DEF SlotInv, SlotTypes
<1>3. /\ slot'[p] \in Seq(Proc) /\ DOMAIN slot'[p] = 1..(Len(slot[p]) - 1)
      /\ \A j \in 1..(Len(slot[p]) - 1) :
           slot'[p][j] = IF j < i THEN slot[p][j] ELSE slot[p][j + 1]
  <2>1. slot'[p] = RemoveAt(slot[p], i)
    BY <1>1, <1>2
  <2>2. slot[p] \in Seq(Proc) /\ Len(slot[p]) \in Nat
    BY <1>2, LenProperties
  <2>3. /\ RemoveAt(slot[p], i) \in Seq(Proc)
        /\ Len(RemoveAt(slot[p], i)) = Len(slot[p]) - 1
        /\ \A j \in 1..(Len(slot[p]) - 1) :
             RemoveAt(slot[p], i)[j] = IF j < i THEN slot[p][j] ELSE slot[p][j + 1]
    BY <1>1, <2>2, RemoveAtProperties
  <2>4. DOMAIN RemoveAt(slot[p], i) = 1..(Len(slot[p]) - 1)
    BY <2>3, LenProperties
  <2> QED
    BY <2>1, <2>3, <2>4
<1>4. \A q \in Part : q # p => slot'[q] = slot[q]
  BY <1>1, <1>2
<1>5. slot' \in [Part -> Seq(Proc)]
  <2>1. slot'[p] = RemoveAt(slot[p], i)
    BY <1>1, <1>2
  <2> QED
    BY <1>1, <1>2, <1>3, <2>1
<1>6. /\ DOMAIN slot'[p] = 1..(Len(slot[p]) - 1)
      /\ \A j \in DOMAIN slot'[p] :
           slot'[p][j] = IF j < i THEN slot[p][j] ELSE slot[p][j + 1]
  BY <1>3
<1> QED
  BY <1>1, <1>4, <1>5, <1>6

\* Leaving, place by place: every place left is one of before, of another.
LEMMA PlacesLeft ==
  ASSUME SlotInv, NEW g \in Proc, pc[g] \in {"waiting", "writer", "commit"}, LeaveSlot(g)
  PROVE  /\ slot' \in [Part -> Seq(Proc)]
         /\ \A q \in Part : q # at[g] => slot'[q] = slot[q]
         /\ \E i \in DOMAIN slot[at[g]] :
              /\ slot[at[g]][i] = g
              /\ \A j \in DOMAIN slot'[at[g]] : LET k == IF j < i THEN j ELSE j + 1 IN
                   /\ j \in Nat \ {0} /\ k \in DOMAIN slot[at[g]]
                   /\ slot'[at[g]][j] = slot[at[g]][k] /\ slot[at[g]][k] # g
              /\ \A k \in DOMAIN slot[at[g]] : k # i =>
                   \E j \in DOMAIN slot'[at[g]] : slot'[at[g]][j] = slot[at[g]][k]
         /\ \A q \in Part : \A j, k \in DOMAIN slot'[q] : slot'[q][j] = slot'[q][k] => j = k
<1> DEFINE p == at[g]
<1>1. PICK i \in DOMAIN slot[p] :
        /\ slot[p][i] = g
        /\ slot' \in [Part -> Seq(Proc)]
        /\ DOMAIN slot'[p] = 1..(Len(slot[p]) - 1)
        /\ \A j \in DOMAIN slot'[p] :
             slot'[p][j] = IF j < i THEN slot[p][j] ELSE slot[p][j + 1]
        /\ \A q \in Part : q # p => slot'[q] = slot[q]
  BY AfterLeaving
<1>2. /\ p \in Part /\ DOMAIN slot[p] = 1..Len(slot[p]) /\ Len(slot[p]) \in Nat
      /\ \A k, l \in DOMAIN slot[p] : slot[p][k] = slot[p][l] => k = l
  BY PlaceIsUnique DEF SlotInv, SlotTypes
<1>3. ASSUME NEW j \in DOMAIN slot'[p]
      PROVE  LET k == IF j < i THEN j ELSE j + 1 IN
             /\ j \in Nat \ {0} /\ k \in DOMAIN slot[p]
             /\ slot'[p][j] = slot[p][k] /\ slot[p][k] # g
  <2>1. CASE j < i
    BY <1>1, <1>2, <2>1
  <2>2. CASE ~(j < i)
    BY <1>1, <1>2, <2>2
  <2> QED
    BY <2>1, <2>2
<1>4. ASSUME NEW k \in DOMAIN slot[p], k # i
      PROVE  \E j \in DOMAIN slot'[p] : slot'[p][j] = slot[p][k]
  <2>1. CASE k < i
    <3>1. k \in DOMAIN slot'[p] /\ slot'[p][k] = slot[p][k]
      BY <1>1, <1>2, <2>1
    <3> QED
      BY <3>1
  <2>2. CASE k > i
    <3>1. k - 1 \in DOMAIN slot'[p] /\ slot'[p][k - 1] = slot[p][(k - 1) + 1]
      BY <1>1, <1>2, <2>2
    <3>2. (k - 1) + 1 = k
      BY <1>2
    <3> QED
      BY <3>1, <3>2
  <2> QED
    BY <1>2, <1>4, <2>1, <2>2
<1>5. ASSUME NEW q \in Part, NEW j \in DOMAIN slot'[q], NEW k \in DOMAIN slot'[q],
             slot'[q][j] = slot'[q][k]
      PROVE  j = k
  <2>1. CASE q = p
    <3> DEFINE at1 == IF j < i THEN j ELSE j + 1
               at2 == IF k < i THEN k ELSE k + 1
    <3>1. at1 \in DOMAIN slot[p] /\ at2 \in DOMAIN slot[p] /\ slot[p][at1] = slot[p][at2]
      BY <1>3, <1>5, <2>1
    <3>2. at1 = at2 /\ j \in Nat /\ k \in Nat /\ i \in Nat
      BY <1>2, <1>3, <2>1, <3>1
    <3> QED
      BY <3>2
  <2>2. CASE q # p
    BY <1>1, <1>5, <2>2, PlaceIsUnique
  <2> QED
    BY <2>1, <2>2
<1> QED
  BY <1>1, <1>3, <1>4, <1>5

\* Who gives up waiting leaves the others where they stand.
LEMMA CancelledKeepsSlots ==
  ASSUME SlotInv, NEW g \in Proc, Cancelled(g)
  PROVE  SlotInv'
<1> DEFINE p == at[g]
<1>1. /\ pc[g] = "waiting" /\ LeaveSlot(g)
      /\ pc' = [pc EXCEPT ![g] = "idle"] /\ at' = [at EXCEPT ![g] = Default]
      /\ SlotTypes /\ AtSlot
  BY DEF Cancelled, Goto, Leave, SlotInv
<1>2. PICK i \in DOMAIN slot[p] :
        /\ slot[p][i] = g
        /\ \A j \in DOMAIN slot'[p] : LET k == IF j < i THEN j ELSE j + 1 IN
             /\ j \in Nat \ {0} /\ k \in DOMAIN slot[p]
             /\ slot'[p][j] = slot[p][k] /\ slot[p][k] # g
        /\ \A k \in DOMAIN slot[p] : k # i =>
             \E j \in DOMAIN slot'[p] : slot'[p][j] = slot[p][k]
  BY <1>1, PlacesLeft
<1>3. p \in Part /\ i \in Nat /\ i > 1
  <2>1. p \in Part
    BY <1>1 DEF SlotTypes
  <2>2. pc[slot[p][i]] \in IF i = 1 THEN {"writer", "commit"} ELSE {"waiting"}
    BY <2>1, PlaceIsUnique
  <2> QED
    BY <1>1, <1>2, <2>1, <2>2, PlaceIsUnique
<1>4. \A q \in Part : q # p => slot'[q] = slot[q]
  BY <1>1, PlacesLeft
<1>5. SlotTypes'
  BY <1>1, PlacesLeft, RoutingAssumption DEF SlotTypes
<1>6. ASSUME NEW h \in Proc, pc'[h] \in {"waiting", "writer", "commit"}
      PROVE  \E j \in DOMAIN slot'[at'[h]] : slot'[at'[h]][j] = h
  <2>1. h # g /\ pc'[h] = pc[h] /\ at'[h] = at[h] /\ at[h] \in Part
    BY <1>1, <1>6, RoutingAssumption DEF SlotTypes
  <2>2. PICK k \in DOMAIN slot[at[h]] : slot[at[h]][k] = h
    BY <1>1, <1>6, <2>1 DEF AtSlot
  <2>3. CASE at[h] = p
    BY <1>2, <2>1, <2>2, <2>3
  <2>4. CASE at[h] # p
    BY <1>4, <2>1, <2>2, <2>4
  <2> QED
    BY <2>3, <2>4
<1>7. ASSUME NEW q \in Part, NEW j \in DOMAIN slot'[q]
      PROVE  /\ at'[slot'[q][j]] = q
             /\ pc'[slot'[q][j]] \in IF j = 1 THEN {"writer", "commit"} ELSE {"waiting"}
  <2>1. \E k \in DOMAIN slot[q] : slot'[q][j] = slot[q][k] /\ slot[q][k] # g /\ (k = 1 <=> j = 1)
    <3>1. CASE q = p
      <4> DEFINE k == IF j < i THEN j ELSE j + 1
      <4>1. /\ j \in Nat \ {0} /\ k \in DOMAIN slot[q]
            /\ slot'[q][j] = slot[q][k] /\ slot[q][k] # g
        BY <1>2, <3>1
      <4>2. k = 1 <=> j = 1
        BY <1>3, <4>1
      <4> QED
        BY <4>1, <4>2
    <3>2. CASE q # p
      <4>1. slot[q][j] # g /\ slot'[q] = slot[q]
        BY <1>4, <3>2, PlaceIsUnique
      <4> QED
        BY <4>1
    <3> QED
      BY <3>1, <3>2
  <2>2. PICK k \in DOMAIN slot[q] : slot'[q][j] = slot[q][k] /\ slot[q][k] # g /\ (k = 1 <=> j = 1)
    BY <2>1
  <2> QED
    BY <1>1, <2>2, PlaceIsUnique DEF SlotTypes
<1>8. SlotInv' BY <1>1, <1>5, <1>6, <1>7, PlacesLeft, InOrder
<1> QED
  BY <1>8

\* The token goes to the first who waits, and to nobody else.
LEMMA CloseKeepsSlots ==
  ASSUME SlotInv, NEW g \in Proc, Close(g)
  PROVE  SlotInv'
<1> DEFINE p == at[g]
<1>1. /\ pc[g] = "writer" /\ LeaveSlot(g)
      /\ pc' = [o \in Proc |-> IF o = g THEN "idle" ELSE IF o \in Served(p) THEN "writer" ELSE pc[o]]
      /\ at' = [at EXCEPT ![g] = Default]
      /\ SlotTypes /\ AtSlot
  BY DEF Close, Leave, SlotInv
<1>2. PICK i \in DOMAIN slot[p] :
        /\ slot[p][i] = g
        /\ \A j \in DOMAIN slot'[p] : LET k == IF j < i THEN j ELSE j + 1 IN
             /\ j \in Nat \ {0} /\ k \in DOMAIN slot[p]
             /\ slot'[p][j] = slot[p][k] /\ slot[p][k] # g
        /\ \A k \in DOMAIN slot[p] : k # i =>
             \E j \in DOMAIN slot'[p] : slot'[p][j] = slot[p][k]
  BY <1>1, PlacesLeft
<1>3. p \in Part /\ i = 1 /\ DOMAIN slot[p] = 1..Len(slot[p]) /\ Len(slot[p]) \in Nat
  <2>1. p \in Part
    BY <1>1 DEF SlotTypes
  <2>2. pc[slot[p][i]] \in IF i = 1 THEN {"writer", "commit"} ELSE {"waiting"}
    BY <2>1, PlaceIsUnique
  <2> QED
    BY <1>1, <1>2, <2>1, <2>2, PlaceIsUnique
<1>4. \A q \in Part : q # p => slot'[q] = slot[q]
  BY <1>1, PlacesLeft
<1>5. \A o \in Proc : o \in Served(p) <=> Len(slot[p]) > 1 /\ slot[p][2] = o
  BY <1>3, PlaceIsUnique DEF Served
<1>6. SlotTypes'
  BY <1>1, PlacesLeft, RoutingAssumption DEF SlotTypes
<1>7. ASSUME NEW h \in Proc, pc'[h] \in {"waiting", "writer", "commit"}
      PROVE  \E j \in DOMAIN slot'[at'[h]] : slot'[at'[h]][j] = h
  <2>1. h # g /\ at'[h] = at[h] /\ at[h] \in Part /\ pc[h] \in {"waiting", "writer", "commit"}
    BY <1>1, <1>7, RoutingAssumption DEF SlotTypes, Served
  <2>2. PICK k \in DOMAIN slot[at[h]] : slot[at[h]][k] = h
    BY <1>1, <2>1 DEF AtSlot
  <2>3. CASE at[h] = p
    BY <1>2, <2>1, <2>2, <2>3
  <2>4. CASE at[h] # p
    BY <1>4, <2>1, <2>2, <2>4
  <2> QED
    BY <2>3, <2>4
<1>8. ASSUME NEW q \in Part, NEW j \in DOMAIN slot'[q]
      PROVE  /\ at'[slot'[q][j]] = q
             /\ pc'[slot'[q][j]] \in IF j = 1 THEN {"writer", "commit"} ELSE {"waiting"}
  <2>1. CASE q = p
    <3>1. /\ j \in Nat \ {0} /\ j + 1 \in DOMAIN slot[p]
          /\ slot'[p][j] = slot[p][j + 1] /\ slot[p][j + 1] # g
      BY <1>2, <1>3, <2>1
    <3>2. at[slot[p][j + 1]] = p /\ pc[slot[p][j + 1]] = "waiting" /\ slot[p][j + 1] \in Proc
      BY <1>3, <3>1, PlaceIsUnique
    <3>3. slot[p][j + 1] \in Served(p) <=> j = 1
      <4>1. 2 \in DOMAIN slot[p] <=> Len(slot[p]) > 1
        BY <1>3
      <4>2. slot[p][j + 1] = slot[p][2] /\ 2 \in DOMAIN slot[p] => j + 1 = 2
        BY <1>3, <3>1, PlaceIsUnique
      <4>3. j = 1 => j + 1 = 2 /\ Len(slot[p]) > 1
        BY <1>3, <3>1
      <4> QED
        BY <1>5, <3>1, <3>2, <4>1, <4>2, <4>3
    <3> QED
      BY <1>1, <2>1, <3>1, <3>2, <3>3 DEF SlotTypes
  <2>2. CASE q # p
    <3>1. /\ slot'[q] = slot[q] /\ slot[q][j] \in Proc /\ at[slot[q][j]] = q
          /\ pc[slot[q][j]] \in IF j = 1 THEN {"writer", "commit"} ELSE {"waiting"}
      BY <1>4, <2>2, PlaceIsUnique
    <3>2. slot[q][j] # g /\ slot[q][j] \notin Served(p)
      <4>1. Len(slot[p]) > 1 => 2 \in DOMAIN slot[p] /\ at[slot[p][2]] = p
        BY <1>3, PlaceIsUnique
      <4> QED
        BY <1>5, <2>2, <3>1, <4>1
    <3> QED
      BY <1>1, <3>1, <3>2 DEF SlotTypes
  <2> QED
    BY <2>1, <2>2
<1> QED
  BY <1>1, <1>6, <1>7, <1>8, PlacesLeft, InOrder

\* A step of a transaction keeps its goroutine where it is; one without the
\* slot may go to another partition.
LEMMA TransactionsKeepSlots ==
  ASSUME SlotInv, SlotTypes', slot' = slot,
         \A g \in Proc :
           \/ pc'[g] = pc[g] /\ at'[g] = at[g]
           \/ {pc[g], pc'[g]} \subseteq {"writer", "commit"} /\ at'[g] = at[g]
           \/ {pc[g], pc'[g]} \subseteq {"idle", "legacy"}
  PROVE  SlotInv'
<1>1. ASSUME NEW h \in Proc, pc'[h] \in {"waiting", "writer", "commit"}
      PROVE  \E j \in DOMAIN slot'[at'[h]] : slot'[at'[h]][j] = h
  BY <1>1 DEF SlotInv, AtSlot
<1>2. ASSUME NEW q \in Part, NEW j \in DOMAIN slot'[q]
      PROVE  /\ at'[slot'[q][j]] = q
             /\ pc'[slot'[q][j]] \in IF j = 1 THEN {"writer", "commit"} ELSE {"waiting"}
  <2>1. /\ slot[q][j] \in Proc /\ at[slot[q][j]] = q
        /\ pc[slot[q][j]] \in IF j = 1 THEN {"writer", "commit"} ELSE {"waiting"}
    BY PlaceIsUnique
  <2> QED
    BY <2>1
<1> QED
  BY <1>1, <1>2, PlaceIsUnique, InOrder

\* No step of a goroutine takes a slot out of order.
LEMMA StepKeepsSlots ==
  ASSUME SlotInv, NEW g \in Proc, Step(g)
  PROVE  SlotInv'
<1> USE DEF Goto, SlotTypes
<1>0. SlotTypes
  BY DEF SlotInv
<1>1. CASE \E p \in Part : WriterFor(g, p)
  BY <1>1, WriterForKeepsSlots
<1>2. CASE Cancelled(g)
  BY <1>2, CancelledKeepsSlots
<1>3. CASE Close(g)
  BY <1>3, CloseKeepsSlots
<1>4. CASE \E b \in BatchChoice : BeginCommit(g, b)
  <2>1. slot' = slot /\ at' = at /\ pc[g] = "writer" /\ pc' = [pc EXCEPT ![g] = "commit"]
    BY <1>4 DEF BeginCommit
  <2> QED
    BY <1>0, <2>1, TransactionsKeepSlots
<1>5. CASE \E p \in Part, b \in LegacyChoice : BeginLegacy(g, p, b)
  <2>1. PICK p \in Part : slot' = slot /\ pc[g] = "idle" /\ pc' = [pc EXCEPT ![g] = "legacy"]
                         /\ at' = [at EXCEPT ![g] = p]
    BY <1>5 DEF BeginLegacy
  <2> QED
    BY <1>0, <2>1, TransactionsKeepSlots
<1>6. CASE Write(g)
  <2>1. CASE \E now \in Second : Execute(g, now)
    BY <1>0, <2>1, TransactionsKeepSlots DEF Execute
  <2>2. CASE CommitTx(g) \/ Rollback(g)
    <3>1. /\ InTx(g) /\ slot' = slot
          /\ pc' = [pc EXCEPT ![g] = IF pc[g] = "commit" THEN "writer" ELSE "idle"]
          /\ IF pc[g] = "commit" THEN at' = at ELSE at' = [at EXCEPT ![g] = Default]
      BY <1>0, <2>2 DEF CommitTx, Rollback, Return, Leave
    <3> QED
      BY <1>0, <3>1, RoutingAssumption, TransactionsKeepSlots DEF InTx
  <2> QED
    BY <1>6, <2>1, <2>2 DEF Write
<1>7. CASE \E before \in Second : PruneOps(g, before)
  BY <1>0, <1>7, TransactionsKeepSlots DEF PruneOps
<1> QED
  BY <1>1, <1>2, <1>3, <1>4, <1>5, <1>6, <1>7 DEF Step

\* An initial state, and the state after a crash: nobody anywhere.
LEMMA NobodyAtSlots ==
  ASSUME NEW s, NEW stands, NEW on, s = [p \in Part |-> <<>>],
         stands = [g \in Proc |-> "idle"], on = [g \in Proc |-> Default]
  PROVE  /\ s \in [Part -> Seq(Proc)] /\ on \in [Proc -> Part]
         /\ \A p \in Part : Len(s[p]) = 0 /\ DOMAIN s[p] = {} /\ s[p] = <<>>
         /\ \A g \in Proc : stands[g] = "idle"
BY RoutingAssumption

\* At first nobody is at a slot.
LEMMA SlotsAtFirst == Init => SlotInv
<1> SUFFICES ASSUME Init PROVE SlotInv
  OBVIOUS
<1>1. /\ slot \in [Part -> Seq(Proc)] /\ at \in [Proc -> Part]
      /\ \A p \in Part : Len(slot[p]) = 0 /\ DOMAIN slot[p] = {} /\ slot[p] = <<>>
      /\ \A g \in Proc : pc[g] = "idle"
  BY NobodyAtSlots DEF Init
<1> QED
  BY <1>1 DEF Init, SlotInv, SlotTypes, AtSlot, OneWriterPerPartition

\* No step disturbs the slots.
LEMMA NextKeepsSlots == SlotInv /\ [Next]_vars => SlotInv'
<1> SUFFICES ASSUME SlotInv, [Next]_vars PROVE SlotInv'
  OBVIOUS
<1>1. CASE \E g \in Proc : Step(g)
  BY <1>1, StepKeepsSlots
<1>2. CASE Crash
  <2>1. /\ slot' \in [Part -> Seq(Proc)] /\ at' \in [Proc -> Part]
        /\ \A p \in Part : Len(slot'[p]) = 0 /\ DOMAIN slot'[p] = {} /\ slot'[p] = <<>>
        /\ \A g \in Proc : pc'[g] = "idle"
    BY <1>2, NobodyAtSlots DEF Crash
  <2>2. pc' = [g \in Proc |-> "idle"]
    BY <1>2 DEF Crash
  <2> QED
    BY <2>1, <2>2 DEF SlotInv, SlotTypes, AtSlot, OneWriterPerPartition
<1>3. CASE UNCHANGED vars
  BY <1>3 DEF vars, SlotInv, SlotTypes, AtSlot, OneWriterPerPartition
<1> QED
  BY <1>1, <1>2, <1>3 DEF Next

\* Each slot has one holder at its head, and each goroutine one place at most.
LEMMA SlotInvariant == Spec => []SlotInv
BY SlotsAtFirst, NextKeepsSlots, PTL DEF Spec

\* The slot of a partition is held by one Writer at a time and handed to who
\* waits first, for any number of goroutines and partitions.
THEOREM OneWriterAlways == Spec => []OneWriterPerPartition
<1>1. SlotInv => OneWriterPerPartition
  BY DEF SlotInv
<1> QED
  BY <1>1, SlotInvariant, PTL

----------------------------------------------------------------------------
(* Batches, statements and the types *)

\* The label a BulkLoader puts on an unlabelled quad makes it a quad.
LEMMA EffectiveType ==
  ASSUME NEW q \in Quad, NEW l \in AnyLabel
  PROVE  Effective(q, l) \in Quad /\ Effective(q, NoLabel) = q
BY DEF Effective, Quad

\* The statements of a batch in their order.
LEMMA JobsProperties ==
  ASSUME NEW b \in Batch
  PROVE  /\ Len(b.adds) \in Nat /\ DOMAIN b.adds = 1..Len(b.adds)
         /\ Len(b.removes) \in Nat /\ DOMAIN b.removes = 1..Len(b.removes)
         /\ RowFirst(b) \in {0, 1}
         /\ Len(Jobs(b)) = RowFirst(b) + Len(b.adds) + Len(b.removes)
         /\ DOMAIN Jobs(b) = 1..Len(Jobs(b))
         /\ \A k \in 1..Len(Jobs(b)) :
              \/ k <= RowFirst(b) /\ Jobs(b)[k] = [do |-> "commit"]
              \/ \E i \in DOMAIN b.adds :
                   /\ k = RowFirst(b) + i
                   /\ Jobs(b)[k] = [do |-> "add", quad |-> Effective(b.adds[i], b.label), seq |-> i]
              \/ \E i \in DOMAIN b.removes :
                   /\ k = RowFirst(b) + Len(b.adds) + i
                   /\ Jobs(b)[k] = [do |-> "remove", quad |-> b.removes[i], seq |-> Len(b.adds) + i]
<1> DEFINE row == IF b.audit THEN <<[do |-> "commit"]>> ELSE <<>>
           adds == [i \in DOMAIN b.adds |->
                      [do |-> "add", quad |-> Effective(b.adds[i], b.label), seq |-> i]]
           removes == [i \in DOMAIN b.removes |->
                         [do |-> "remove", quad |-> b.removes[i], seq |-> Len(b.adds) + i]]
           Job == {[do |-> "commit"]} \cup {adds[i] : i \in DOMAIN b.adds}
                    \cup {removes[i] : i \in DOMAIN b.removes}
<1>1. /\ b.adds \in Seq(Quad) /\ Len(b.adds) \in Nat /\ DOMAIN b.adds = 1..Len(b.adds)
      /\ b.removes \in Seq(Quad) /\ Len(b.removes) \in Nat /\ DOMAIN b.removes = 1..Len(b.removes)
      /\ b.audit \in BOOLEAN
  BY LenProperties DEF Batch
<1>2. /\ row \in Seq(Job) /\ Len(row) = RowFirst(b) /\ RowFirst(b) \in {0, 1}
      /\ \A k \in 1..RowFirst(b) : row[k] = [do |-> "commit"]
  <2>1. CASE b.audit
    BY <2>1 DEF RowFirst
  <2>2. CASE ~b.audit
    BY <2>2 DEF RowFirst
  <2> QED
    BY <2>1, <2>2
<1>3. adds \in Seq(Job) /\ Len(adds) = Len(b.adds)
  <2>1. adds \in [1..Len(b.adds) -> Job]
    BY <1>1
  <2> HIDE DEF adds, Job
  <2>2. adds \in Seq(Job)
    BY <1>1, <2>1, SeqDef
  <2>3. DOMAIN adds = 1..Len(adds) /\ Len(adds) \in Nat
    BY <2>2, LenProperties
  <2> QED
    BY <1>1, <2>1, <2>2, <2>3
<1>4. removes \in Seq(Job) /\ Len(removes) = Len(b.removes)
  <2>1. removes \in [1..Len(b.removes) -> Job]
    BY <1>1
  <2> HIDE DEF removes, Job
  <2>2. removes \in Seq(Job)
    BY <1>1, <2>1, SeqDef
  <2>3. DOMAIN removes = 1..Len(removes) /\ Len(removes) \in Nat
    BY <2>2, LenProperties
  <2> QED
    BY <1>1, <2>1, <2>2, <2>3
<1>5. Jobs(b) = (row \o adds) \o removes
  BY DEF Jobs
<1>6. /\ \A i \in DOMAIN b.adds :
           adds[i] = [do |-> "add", quad |-> Effective(b.adds[i], b.label), seq |-> i]
      /\ \A i \in DOMAIN b.removes :
           removes[i] = [do |-> "remove", quad |-> b.removes[i], seq |-> Len(b.adds) + i]
  OBVIOUS
<1> HIDE DEF row, adds, removes, Job
<1>7. /\ row \o adds \in Seq(Job)
      /\ Len(row \o adds) = RowFirst(b) + Len(b.adds)
      /\ \A k \in 1..(RowFirst(b) + Len(b.adds)) : (row \o adds)[k] =
           IF k <= RowFirst(b) THEN row[k] ELSE adds[k - RowFirst(b)]
  BY <1>2, <1>3, ConcatProperties
<1>8. /\ Jobs(b) \in Seq(Job)
      /\ Len(Jobs(b)) = RowFirst(b) + Len(b.adds) + Len(b.removes)
      /\ \A k \in 1..Len(Jobs(b)) : Jobs(b)[k] =
           IF k <= RowFirst(b) + Len(b.adds) THEN (row \o adds)[k]
           ELSE removes[k - (RowFirst(b) + Len(b.adds))]
  BY <1>4, <1>5, <1>7, ConcatProperties
<1>9. DOMAIN Jobs(b) = 1..Len(Jobs(b))
  BY <1>8, LenProperties
<1>10. ASSUME NEW k \in 1..Len(Jobs(b))
       PROVE  \/ k <= RowFirst(b) /\ Jobs(b)[k] = [do |-> "commit"]
              \/ \E i \in DOMAIN b.adds :
                   /\ k = RowFirst(b) + i
                   /\ Jobs(b)[k] = [do |-> "add", quad |-> Effective(b.adds[i], b.label), seq |-> i]
              \/ \E i \in DOMAIN b.removes :
                   /\ k = RowFirst(b) + Len(b.adds) + i
                   /\ Jobs(b)[k] = [do |-> "remove", quad |-> b.removes[i], seq |-> Len(b.adds) + i]
  <2>1. CASE k <= RowFirst(b)
    BY <1>1, <1>2, <1>7, <1>8, <2>1
  <2>2. CASE k > RowFirst(b) /\ k <= RowFirst(b) + Len(b.adds)
    <3>1. /\ k - RowFirst(b) \in DOMAIN b.adds /\ k = RowFirst(b) + (k - RowFirst(b))
          /\ Jobs(b)[k] = adds[k - RowFirst(b)]
      BY <1>1, <1>2, <1>7, <1>8, <2>2, SMTT(20)
    <3> QED
      BY <1>6, <3>1
  <2>3. CASE k > RowFirst(b) + Len(b.adds)
    <3> DEFINE i == k - (RowFirst(b) + Len(b.adds))
    <3>1. i \in DOMAIN b.removes /\ k = RowFirst(b) + Len(b.adds) + i /\ Jobs(b)[k] = removes[i]
      <4>1. Jobs(b)[k] = removes[k - (RowFirst(b) + Len(b.adds))]
        BY <1>1, <1>2, <1>8, <2>3
      <4>2. Len(Jobs(b)) = RowFirst(b) + Len(b.adds) + Len(b.removes)
        BY <1>8
      <4> DEFINE r == RowFirst(b)
                 n == Len(b.adds)
                 m == Len(b.removes)
      <4>3. r \in Nat /\ n \in Nat /\ m \in Nat /\ k \in 1..(r + n + m) /\ k > r + n
        BY <1>1, <1>2, <2>3, <4>2
      <4> HIDE DEF r, n, m
      <4>4. k - (r + n) \in 1..m /\ k = r + n + (k - (r + n))
        BY <4>3
      <4> QED
        BY <1>1, <4>1, <4>4 DEF r, n, m
    <3> QED
      BY <1>6, <3>1
  <2> QED
    BY <1>1, <1>2, <1>8, <2>1, <2>2, <2>3
<1> QED
  BY <1>1, <1>2, <1>8, <1>9, <1>10

\* The statement a call is at.
LEMMA JobKinds ==
  ASSUME NEW b \in Batch, NEW k \in DOMAIN Jobs(b)
  PROVE  /\ Jobs(b)[k].do \in {"commit", "add", "remove"}
         /\ Jobs(b)[k].do = "commit" => k = 1 /\ b.audit
         /\ b.audit => Jobs(b)[1].do = "commit"
         /\ Jobs(b)[k].do = "add" => \E i \in DOMAIN b.adds :
              /\ k = RowFirst(b) + i /\ Jobs(b)[k].quad = Effective(b.adds[i], b.label)
         /\ Jobs(b)[k].do = "remove" => \E i \in DOMAIN b.removes :
              /\ k = RowFirst(b) + Len(b.adds) + i /\ Jobs(b)[k].quad = b.removes[i]
         /\ Jobs(b)[k].do # "commit" =>
              Jobs(b)[k].quad \in Quad /\ Jobs(b)[k].seq \in Nat /\ k = RowFirst(b) + Jobs(b)[k].seq
<1> DEFINE job == Jobs(b)[k]
<1>1. /\ b.adds \in Seq(Quad) /\ b.removes \in Seq(Quad) /\ b.label \in AnyLabel
  BY DEF Batch
<1>2. /\ \A i \in DOMAIN b.adds : Effective(b.adds[i], b.label) \in Quad
      /\ \A i \in DOMAIN b.removes : b.removes[i] \in Quad
  BY <1>1, EffectiveType, ElementOfSeq, LenProperties
<1>3. /\ k \in 1..Len(Jobs(b)) /\ k \in Nat /\ RowFirst(b) \in {0, 1} /\ (RowFirst(b) = 1 <=> b.audit)
      /\ Len(b.adds) \in Nat /\ DOMAIN b.adds = 1..Len(b.adds)
      /\ Len(b.removes) \in Nat /\ DOMAIN b.removes = 1..Len(b.removes)
  BY JobsProperties DEF RowFirst
<1>7. b.audit => Jobs(b)[1].do = "commit"
  <2> SUFFICES ASSUME b.audit PROVE Jobs(b)[1].do = "commit"
    OBVIOUS
  <2>1. 1 \in 1..Len(Jobs(b)) /\ RowFirst(b) = 1
    BY <1>3, JobsProperties
  <2>2. \/ Jobs(b)[1] = [do |-> "commit"]
        \/ \E i \in DOMAIN b.adds : 1 = RowFirst(b) + i
        \/ \E i \in DOMAIN b.removes : 1 = RowFirst(b) + Len(b.adds) + i
    BY <2>1, JobsProperties
  <2> QED
    BY <1>3, <2>1, <2>2
<1>4. CASE k <= RowFirst(b) /\ job = [do |-> "commit"]
  BY <1>3, <1>4, <1>7
<1>5. CASE \E i \in DOMAIN b.adds :
             /\ k = RowFirst(b) + i
             /\ job = [do |-> "add", quad |-> Effective(b.adds[i], b.label), seq |-> i]
  BY <1>2, <1>3, <1>5, <1>7
<1>6. CASE \E i \in DOMAIN b.removes :
             /\ k = RowFirst(b) + Len(b.adds) + i
             /\ job = [do |-> "remove", quad |-> b.removes[i], seq |-> Len(b.adds) + i]
  <2>1. PICK i \in DOMAIN b.removes :
          /\ k = RowFirst(b) + Len(b.adds) + i
          /\ job = [do |-> "remove", quad |-> b.removes[i], seq |-> Len(b.adds) + i]
    BY <1>6
  <2>2. /\ job.do = "remove" /\ job.quad = b.removes[i] /\ job.seq = Len(b.adds) + i
        /\ k = RowFirst(b) + (Len(b.adds) + i) /\ Len(b.adds) + i \in Nat
    BY <1>3, <2>1, SMTT(30)
  <2> QED
    BY <1>2, <1>7, <2>1, <2>2
<1> QED
  BY <1>3, <1>4, <1>5, <1>6, <1>7, JobsProperties

\* A record with the fields of a file is a file.
LEMMA FileShape ==
  ASSUME NEW f \in Contents, NEW quads \in SUBSET Quad,
         NEW commits \in SUBSET [id : Nat, at : Nat], NEW ops \in SUBSET OpRow
  PROVE  /\ [f EXCEPT !.quads = quads, !.ops = ops] \in Contents
         /\ [f EXCEPT !.commits = commits] \in Contents
         /\ [f EXCEPT !.ops = ops] \in Contents
BY DEF Contents

\* A statement leaves a file and the effects of a call.
LEMMA ExecutedType ==
  ASSUME NEW f \in Contents, NEW c \in Call, NEW k \in DOMAIN Jobs(c.batch), NEW now \in Nat
  PROVE  Executed(f, c, Jobs(c.batch)[k], now) \in Contents
<1> DEFINE job == Jobs(c.batch)[k]
<1>1. c.batch \in Batch /\ c.id \in Nat
  BY DEF Call
<1>2. /\ job.do \in {"commit", "add", "remove"}
      /\ job.do # "commit" => job.quad \in Quad /\ job.seq \in Nat
  BY <1>1, JobKinds
<1>3. job.do # "commit" => OpOf(c, job) \subseteq OpRow
  BY <1>1, <1>2 DEF OpOf, OpRow
<1>4. /\ f.quads \in SUBSET Quad /\ f.ops \in SUBSET OpRow
      /\ f = [quads |-> f.quads, commits |-> f.commits, ops |-> f.ops]
      /\ f.commits \in SUBSET [id : Nat, at : Nat]
  BY DEF Contents
<1> SUFFICES Executed(f, c, job, now) \in Contents
  OBVIOUS
<1> HIDE DEF job
<1>5. CASE job.do = "commit"
  <2>1. Executed(f, c, job, now) = [f EXCEPT !.commits = f.commits \cup {[id |-> c.id, at |-> now]}]
    BY <1>5 DEF Executed
  <2>2. f.commits \cup {[id |-> c.id, at |-> now]} \in SUBSET [id : Nat, at : Nat]
    BY <1>1, <1>4
  <2> QED
    BY <2>1, <2>2, FileShape
<1>6. CASE job.do = "add"
  <2>1. Executed(f, c, job, now) =
          [f EXCEPT !.quads = f.quads \cup {job.quad}, !.ops = f.ops \cup OpOf(c, job)]
    BY <1>6 DEF Executed
  <2> DEFINE quads == f.quads \cup {job.quad}
             ops == f.ops \cup OpOf(c, job)
  <2>2. quads \in SUBSET Quad /\ ops \in SUBSET OpRow
    BY <1>2, <1>3, <1>4, <1>6
  <2> HIDE DEF quads, ops
  <2>3. [f EXCEPT !.quads = quads, !.ops = ops] \in Contents
    BY <2>2, FileShape
  <2> QED
    BY <2>1, <2>3 DEF quads, ops
<1>7. CASE job.do = "remove"
  <2>1. Executed(f, c, job, now) =
          [f EXCEPT !.quads = f.quads \ {job.quad}, !.ops = f.ops \cup OpOf(c, job)]
    BY <1>7 DEF Executed
  <2> DEFINE quads == f.quads \ {job.quad}
             ops == f.ops \cup OpOf(c, job)
  <2>2. quads \in SUBSET Quad /\ ops \in SUBSET OpRow
    BY <1>2, <1>3, <1>4, <1>7
  <2> HIDE DEF quads, ops
  <2>3. [f EXCEPT !.quads = quads, !.ops = ops] \in Contents
    BY <2>2, FileShape
  <2> QED
    BY <2>1, <2>3 DEF quads, ops
<1> QED
  BY <1>2, <1>5, <1>6, <1>7

\* A new file is among the contents a file may have.
LEMMA EmptyFileType == EmptyFile \in Contents
BY DEF EmptyFile, Contents

\* The idle call is a call, with no statement to run.
LEMMA NoCallType == NoCall \in Call /\ Len(Jobs(NoBatch)) = 0
<1>1. /\ NoBatch \in Batch /\ NoBatch.adds = <<>> /\ NoBatch.removes = <<>> /\ ~NoBatch.audit
  BY DEF NoBatch, Batch, AnyLabel
<1>2. Len(Jobs(NoBatch)) = 0
  <2>1. /\ Len(NoBatch.adds) = 0 /\ Len(NoBatch.removes) = 0 /\ RowFirst(NoBatch) = 0
    BY <1>1 DEF RowFirst
  <2> QED
    BY <1>1, <2>1, JobsProperties
<1> QED
  BY <1>1, <1>2, EmptyFileType DEF NoCall, Call

\* What a Writer may be asked to commit is a batch.
LEMMA ChoicesAreBatches == BatchChoice \cup LegacyChoice \subseteq Batch
BY SqliteAssumption

(* The kinds of step, as far as transactions are concerned. *)

\* Waiting for a slot, getting it, leaving it.
AtSlots ==
  /\ UNCHANGED <<contents, call, clock, history>>
  /\ \A h \in Proc : (InTx(h)' <=> InTx(h)) /\ (InTx(h) => at'[h] = at[h])

\* A checked batch enters a transaction of its own.
Starts(g, b) ==
  /\ ~InTx(g) /\ InTx(g)' /\ Routed(at'[g], b)
  /\ Begin(g, b)
  /\ \A h \in Proc : h # g => (InTx(h)' <=> InTx(h)) /\ at'[h] = at[h]
  /\ UNCHANGED <<contents, clock, cutoff, failed>>

\* A transaction is over, committed or not.
Ends(g) ==
  /\ InTx(g) /\ ~InTx(g)'
  /\ call' = [call EXCEPT ![g] = NoCall]
  /\ \A h \in Proc : h # g => (InTx(h)' <=> InTx(h)) /\ at'[h] = at[h]
  /\ UNCHANGED <<clock, nextId, begun, cutoff>>

Stays == \A h \in Proc : (InTx(h)' <=> InTx(h)) /\ at'[h] = at[h]

\* A legacy batch whose labels all belong to p is routed to p.
LEMMA LegacyIsRouted ==
  ASSUME NEW p \in Part, NEW b \in LegacyChoice,
         \A q \in Range(b.adds) \cup Range(b.removes) : partFor(q.label) = p
  PROVE  Routed(p, b)
<1>1. b.label = NoLabel /\ b.adds \in Seq(Quad) /\ b.removes \in Seq(Quad)
  BY SqliteAssumption DEF Batch
<1>2. \A i \in DOMAIN b.adds : Effective(b.adds[i], b.label) = b.adds[i] /\ b.adds[i] \in Range(b.adds)
  BY <1>1, EffectiveType, ElementOfSeq, LenProperties DEF Range, AnyLabel
<1>3. \A i \in DOMAIN b.removes : b.removes[i] \in Range(b.removes)
  BY DEF Range
<1> QED
  BY <1>2, <1>3 DEF Routed

\* Every step of a goroutine is of one of these kinds.
LEMMA StepKinds ==
  ASSUME SlotTypes, NEW g \in Proc, Step(g)
  PROVE  \/ AtSlots
         \/ \E b \in BatchChoice \cup LegacyChoice : Starts(g, b)
         \/ (\E now \in Second : Execute(g, now)) /\ Stays
         \/ CommitTx(g) /\ Ends(g)
         \/ Rollback(g) /\ Ends(g)
         \/ (\E before \in Second : PruneOps(g, before)) /\ Stays
<1> USE DEF InTx, SlotTypes, Goto
<1>1. CASE (\E p \in Part : WriterFor(g, p)) \/ Cancelled(g)
  <2>1. AtSlots
    BY <1>1 DEF AtSlots, WriterFor, Cancelled, Leave
  <2> QED
    BY <2>1
<1>2. CASE Close(g)
  <2>1. AtSlots
    BY <1>2 DEF AtSlots, Close, Leave, Served
  <2> QED
    BY <2>1
<1>3. ASSUME NEW b \in BatchChoice, BeginCommit(g, b)
      PROVE  Starts(g, b)
  <2>1. Routed(at[g], b) /\ at' = at
    BY <1>3 DEF BeginCommit, Accepted, Routed
  <2> QED
    BY <1>3, <2>1 DEF BeginCommit, Starts
<1>4. ASSUME NEW p \in Part, NEW b \in LegacyChoice, BeginLegacy(g, p, b)
      PROVE  Starts(g, b)
  <2>1. Routed(p, b)
    BY <1>4, LegacyIsRouted DEF BeginLegacy
  <2>2. at'[g] = p
    BY <1>4 DEF BeginLegacy
  <2> QED
    BY <1>4, <2>1, <2>2 DEF BeginLegacy, Starts
<1>5. CASE \E now \in Second : Execute(g, now)
  BY <1>5 DEF Execute, Stays
<1>6. CASE CommitTx(g) \/ Rollback(g)
  <2>1. InTx(g) /\ Return(g)
    BY <1>6 DEF CommitTx, Rollback
  <2>2. Ends(g)
    BY <2>1 DEF Ends, Return, Leave
  <2> QED
    BY <1>6, <2>2
<1>7. CASE \E before \in Second : PruneOps(g, before)
  BY <1>7 DEF PruneOps, Stays
<1> QED
  BY <1>1, <1>2, <1>3, <1>4, <1>5, <1>6, <1>7 DEF Step, Write

(* Types *)

\* Begin opens a call with nothing done.
LEMMA StartedCall ==
  ASSUME NEW b \in Batch, NEW n \in Nat
  PROVE  LET c == [NoCall EXCEPT !.batch = b, !.id = n] IN
         c \in Call /\ c.batch = b /\ c.id = n /\ c.done = 0 /\ ~c.locked
<1>1. NoCall \in Call /\ NoCall.done = 0 /\ NoCall.locked = FALSE
  BY NoCallType DEF NoCall
<1> QED
  BY <1>1 DEF Call

\* A statement leaves its call one statement further.
LEMMA ExtendedCall ==
  ASSUME NEW c \in Call, NEW f \in Contents
  PROVE  LET d == [c EXCEPT !.done = c.done + 1, !.locked = TRUE, !.image = f] IN
         d \in Call /\ d.batch = c.batch /\ d.id = c.id /\ d.done = c.done + 1
           /\ d.locked /\ d.image = f
<1> DEFINE n == c.done + 1
<1>1. n \in Nat
  BY DEF Call
<1> HIDE DEF n
<1>2. LET d == [c EXCEPT !.done = n, !.locked = TRUE, !.image = f] IN
      d \in Call /\ d.batch = c.batch /\ d.id = c.id /\ d.done = n /\ d.locked /\ d.image = f
  BY <1>1 DEF Call
<1> QED
  BY <1>2 DEF n

\* Publishing contents leaves every file with contents of its type.
LEMMA PublishTypes ==
  ASSUME TypeInv, NEW p \in Part, NEW f \in Contents, Publish(p, f)
  PROVE  /\ file' \in [Part -> Contents] /\ worlds' \in [Part -> SUBSET Contents]
         /\ \A q \in Part : file'[q] \in worlds'[q]
BY DEF TypeInv, Publish

\* A statement extends the call of its goroutine.
LEMMA ExecuteStep ==
  ASSUME SlotTypes, TypeInv, NEW g \in Proc, NEW now \in Second, Execute(g, now)
  PROVE  LET c == call[g]
             base == IF c.locked THEN c.image ELSE file[at[g]]
             done == Executed(base, c, Jobs(c.batch)[c.done + 1], now)
         IN /\ base \in Contents /\ done \in Contents
            /\ c.done + 1 \in DOMAIN Jobs(c.batch) /\ c.done + 1 \in Nat \ {0} /\ now \in Nat
            /\ call' = [call EXCEPT ![g] = [c EXCEPT !.done = c.done + 1, !.locked = TRUE, !.image = done]]
            /\ InTx(g) /\ (c.locked \/ Unlocked(at[g]))
            /\ UNCHANGED <<file, worlds, nextId, begun, cutoff, failed>>
            /\ clock' = now
<1> DEFINE c == call[g]
           base == IF c.locked THEN c.image ELSE file[at[g]]
           done == Executed(base, c, Jobs(c.batch)[c.done + 1], now)
<1>1. c \in Call /\ c.batch \in Batch /\ c.done \in Nat /\ now \in Nat /\ at[g] \in Part
  BY DEF TypeInv, Call, Second, SlotTypes
<1>2. base \in Contents
  BY <1>1 DEF TypeInv, Call
<1>3. c.done + 1 \in DOMAIN Jobs(c.batch)
  <2>1. c.done < Len(Jobs(c.batch))
    BY DEF Execute
  <2> QED
    BY <1>1, <2>1, JobsProperties
<1> HIDE DEF base, c
<1>4. done \in Contents
  BY <1>1, <1>2, <1>3, ExecutedType
<1> QED
  BY <1>1, <1>2, <1>3, <1>4 DEF Execute, contents, history, base, c

\* A prune takes rows out of a file and leaves a file.
LEMMA PrunedType ==
  ASSUME NEW f \in Contents, NEW before
  PROVE  Pruned(f, before) \in Contents
BY DEF Pruned, Contents

\* No step of a goroutine leaves the types.
LEMMA StepKeepsTypes ==
  ASSUME SlotTypes, TypeInv, NEW g \in Proc, Step(g)
  PROVE  TypeInv'
<1>1. CASE AtSlots
  BY <1>1 DEF AtSlots, TypeInv, contents, history
<1>2. ASSUME NEW b \in BatchChoice \cup LegacyChoice, Starts(g, b)
      PROVE  TypeInv'
  <2>1. b \in Batch /\ nextId \in Nat
    BY ChoicesAreBatches DEF TypeInv
  <2>2. call' \in [Proc -> Call]
    <3>1. [NoCall EXCEPT !.batch = b, !.id = nextId] \in Call
      BY <2>1, StartedCall
    <3> QED
      BY <1>2, <3>1 DEF Starts, Begin, TypeInv
  <2>3. begun' \in Seq(Batch) /\ Len(begun') = nextId' - 1 /\ nextId' \in Nat \ {0}
    BY <1>2, <2>1, AppendProperties DEF Starts, Begin, TypeInv
  <2> QED
    BY <1>2, <2>2, <2>3 DEF Starts, TypeInv, contents
<1>3. CASE \E now \in Second : Execute(g, now)
  <2>1. PICK now \in Second : Execute(g, now)
    BY <1>3
  <2> DEFINE c == call[g]
             base == IF c.locked THEN c.image ELSE file[at[g]]
             done == Executed(base, c, Jobs(c.batch)[c.done + 1], now)
  <2>2. /\ c \in Call /\ done \in Contents
        /\ call' = [call EXCEPT ![g] = [c EXCEPT !.done = c.done + 1, !.locked = TRUE, !.image = done]]
        /\ UNCHANGED <<file, worlds, nextId, begun, cutoff, failed>>
        /\ clock' = now
    BY <2>1, ExecuteStep DEF TypeInv
  <2> HIDE DEF c, done
  <2>3. [c EXCEPT !.done = c.done + 1, !.locked = TRUE, !.image = done] \in Call
    BY <2>2, ExtendedCall
  <2> QED
    BY <2>2, <2>3 DEF TypeInv
<1>4. CASE CommitTx(g) /\ Ends(g)
  <2>1. at[g] \in Part /\ call[g].image \in Contents
    BY DEF SlotTypes, TypeInv, Call
  <2>2. \/ Publish(at[g], call[g].image)
        \/ UNCHANGED contents
    BY <1>4 DEF CommitTx
  <2>3. call' \in [Proc -> Call]
    BY <1>4, NoCallType DEF Ends, TypeInv
  <2> QED
    BY <1>4, <2>1, <2>2, <2>3, PublishTypes DEF Ends, CommitTx, TypeInv, contents
<1>5. CASE Rollback(g) /\ Ends(g)
  <2>1. call' \in [Proc -> Call]
    BY <1>5, NoCallType DEF Ends, TypeInv
  <2> QED
    BY <1>5, <2>1 DEF Ends, Rollback, TypeInv, contents, SlotTypes
<1>6. CASE \E before \in Second : PruneOps(g, before)
  <2>1. PICK before \in Second : PruneOps(g, before)
    BY <1>6
  <2>2. at[g] \in Part /\ before \in Nat /\ Pruned(file[at[g]], before) \in Contents
    BY PrunedType DEF SlotTypes, TypeInv, Second
  <2>3. cutoff' \in [Part -> Nat]
    BY <2>1, <2>2 DEF PruneOps, TypeInv
  <2> QED
    BY <2>1, <2>2, <2>3, PublishTypes DEF PruneOps, TypeInv
<1> QED
  BY <1>1, <1>2, <1>3, <1>4, <1>5, <1>6, StepKinds

\* A crash leaves each file with contents it may be left with, and no calls.
LEMMA CrashStep ==
  ASSUME TypeInv, Crash
  PROVE  /\ TypeInv'
         /\ \A g \in Proc : ~InTx(g)' /\ call'[g] = NoCall
         /\ \A p \in Part : file'[p] \in worlds[p] /\ worlds'[p] = {file'[p]}
<1>1. /\ file' \in [Part -> Contents] /\ worlds' \in [Part -> SUBSET Contents]
      /\ \A p \in Part : file'[p] \in worlds[p] /\ worlds'[p] = {file'[p]}
  BY DEF Crash, TypeInv
<1>2. TypeInv'
  BY <1>1, NoCallType DEF Crash, TypeInv
<1> QED
  BY <1>1, <1>2 DEF Crash, InTx

\* At first every variable has its type.
LEMMA TypesAtFirst == Init => TypeInv
BY EmptyFileType, NoCallType, SqliteAssumption DEF Init, TypeInv, Second

\* No step leaves the types.
LEMMA NextKeepsTypes == SlotInv /\ TypeInv /\ [Next]_vars => TypeInv'
<1> SUFFICES ASSUME SlotInv, TypeInv, [Next]_vars PROVE TypeInv'
  OBVIOUS
<1>1. CASE \E g \in Proc : Step(g)
  BY <1>1, StepKeepsTypes DEF SlotInv
<1>2. CASE Crash
  BY <1>2, CrashStep
<1>3. CASE UNCHANGED vars
  BY <1>3 DEF vars, TypeInv
<1> QED
  BY <1>1, <1>2, <1>3 DEF Next

\* Every variable keeps its type, and what a reader sees of a file is always
\* among what a crash may leave of it.
THEOREM TypeCorrect == Spec => []TypeInv
BY TypesAtFirst, NextKeepsTypes, SlotInvariant, PTL DEF Spec

(* Transactions *)

\* The idle call holds no lock and has run nothing.
LEMMA NoCallIsIdle == NoCall.done = 0 /\ ~NoCall.locked /\ NoCall.batch = NoBatch
BY DEF NoCall

\* Only a call in a transaction holds a lock.
LEMMA LockedIsInTx ==
  ASSUME TxInv, NEW g \in Proc, call[g].locked
  PROVE  InTx(g)
BY NoCallIsIdle DEF TxInv

\* A call that begins is in a transaction without a lock.
LEMMA StartKeepsTx ==
  ASSUME TypeInv, TxInv, NEW g \in Proc, NEW b \in BatchChoice \cup LegacyChoice, Starts(g, b)
  PROVE  TxInv'
<1>1. b \in Batch /\ nextId \in Nat \ {0} /\ begun \in Seq(Batch) /\ Len(begun) = nextId - 1
  BY ChoicesAreBatches DEF TypeInv
<1>2. /\ call'[g].batch = b /\ call'[g].id = nextId /\ call'[g].done = 0 /\ ~call'[g].locked
      /\ \A h \in Proc : h # g => call'[h] = call[h]
  <2>1. call' = [call EXCEPT ![g] = [NoCall EXCEPT !.batch = b, !.id = nextId]]
    BY DEF Starts, Begin
  <2>2. call'[g] = [NoCall EXCEPT !.batch = b, !.id = nextId] /\ \A h \in Proc : h # g => call'[h] = call[h]
    BY <2>1 DEF TypeInv
  <2>3. LET c == [NoCall EXCEPT !.batch = b, !.id = nextId] IN
        c \in Call /\ c.batch = b /\ c.id = nextId /\ c.done = 0 /\ ~c.locked
    BY <1>1, StartedCall
  <2> QED
    BY <2>2, <2>3
<1>3. /\ nextId' = nextId + 1 /\ begun'[nextId] = b
      /\ \A i \in 1..(nextId - 1) : begun'[i] = begun[i]
  BY <1>1, AppendProperties DEF Starts, Begin
<1>4. 0 <= Len(Jobs(b))
  BY <1>1, JobsProperties
<1>5. \A h \in Proc : InTx(h) /\ h # g => call[h].id \in 1..(nextId - 1) /\ call[h].id # nextId
  BY <1>1 DEF TxInv
<1>6. \A h \in Proc : h # g => (InTx(h)' <=> InTx(h)) /\ at'[h] = at[h]
  BY DEF Starts
<1>7. InTx(g)' /\ Routed(at[g], b)' /\ ~InTx(g)
  BY DEF Starts, Routed
<1>8. \A h \in Proc : ~InTx(h)' => call'[h] = NoCall
  BY <1>2, <1>6, <1>7 DEF TxInv
<1>9. \A h \in Proc : InTx(h)' =>
        /\ call'[h].id \in 1..(nextId' - 1) /\ begun'[call'[h].id] = call'[h].batch
        /\ Routed(at'[h], call'[h].batch)
  <2> SUFFICES ASSUME NEW h \in Proc, InTx(h)'
               PROVE  /\ call'[h].id \in 1..(nextId' - 1) /\ begun'[call'[h].id] = call'[h].batch
                      /\ Routed(at'[h], call'[h].batch)
    OBVIOUS
  <2>1. CASE h = g
    BY <1>1, <1>2, <1>3, <1>7, <2>1 DEF Routed
  <2>2. CASE h # g
    BY <1>1, <1>2, <1>3, <1>5, <1>6, <2>2 DEF TxInv
  <2> QED
    BY <2>1, <2>2
<1>10. \A h \in Proc : /\ call'[h].done <= Len(Jobs(call'[h].batch))
                       /\ call'[h].locked <=> call'[h].done > 0
  BY <1>2, <1>4 DEF TxInv
<1>11. \A h, o \in Proc : InTx(h)' /\ InTx(o)' /\ call'[h].id = call'[o].id => h = o
  BY <1>2, <1>5, <1>6 DEF TxInv
<1>12. \A h, o \in Proc : call'[h].locked /\ call'[o].locked /\ at'[h] = at'[o] => h = o
  BY <1>2, <1>6 DEF TxInv
<1> QED
  BY <1>8, <1>9, <1>10, <1>11, <1>12 DEF TxInv, Routed

\* The first write of a transaction takes the lock of its file, if it is free.
LEMMA ExecuteKeepsTx ==
  ASSUME SlotTypes, TypeInv, TxInv, NEW g \in Proc, NEW now \in Second, Execute(g, now), Stays
  PROVE  TxInv'
<1> DEFINE c == call[g]
<1>1. PICK f \in Contents :
        /\ call' = [call EXCEPT ![g] = [c EXCEPT !.done = c.done + 1, !.locked = TRUE, !.image = f]]
        /\ c.done + 1 \in DOMAIN Jobs(c.batch)
        /\ InTx(g) /\ (c.locked \/ Unlocked(at[g]))
        /\ UNCHANGED <<nextId, begun>>
  BY ExecuteStep
<1>2. c \in Call /\ c.done \in Nat /\ c.batch \in Batch
  BY DEF TypeInv, Call
<1>3. /\ call'[g].batch = c.batch /\ call'[g].id = c.id /\ call'[g].done = c.done + 1
      /\ call'[g].locked
      /\ \A h \in Proc : h # g => call'[h] = call[h]
  <2>1. call'[g] = [c EXCEPT !.done = c.done + 1, !.locked = TRUE, !.image = f]
        /\ \A h \in Proc : h # g => call'[h] = call[h]
    BY <1>1 DEF TypeInv
  <2> HIDE DEF c
  <2>2. LET d == [c EXCEPT !.done = c.done + 1, !.locked = TRUE, !.image = f] IN
        d \in Call /\ d.batch = c.batch /\ d.id = c.id /\ d.done = c.done + 1
          /\ d.locked /\ d.image = f
    BY <1>2, ExtendedCall
  <2> QED
    BY <2>1, <2>2
<1>4. c.done + 1 <= Len(Jobs(c.batch)) /\ c.done + 1 > 0
  BY <1>1, <1>2, JobsProperties
<1>5. \A h \in Proc : (InTx(h)' <=> InTx(h)) /\ at'[h] = at[h]
  BY DEF Stays
<1>6. \A h \in Proc : h # g => ~(at[h] = at[g] /\ call[h].locked)
  BY <1>1 DEF Unlocked, TxInv
<1>7. \A h \in Proc : call'[h].batch = call[h].batch /\ call'[h].id = call[h].id
  BY <1>3
<1>8. \A h \in Proc : ~InTx(h)' => call'[h] = NoCall
  BY <1>1, <1>3, <1>5 DEF TxInv
<1>9. \A h \in Proc : InTx(h)' =>
        /\ call'[h].id \in 1..(nextId' - 1) /\ begun'[call'[h].id] = call'[h].batch
        /\ Routed(at'[h], call'[h].batch)
  BY <1>1, <1>5, <1>7 DEF TxInv
<1>10. \A h \in Proc : /\ call'[h].done <= Len(Jobs(call'[h].batch))
                       /\ call'[h].locked <=> call'[h].done > 0
  BY <1>3, <1>4 DEF TxInv
<1>11. \A h, o \in Proc : InTx(h)' /\ InTx(o)' /\ call'[h].id = call'[o].id => h = o
  BY <1>5, <1>7 DEF TxInv
<1>12. \A h, o \in Proc : call'[h].locked /\ call'[o].locked /\ at'[h] = at'[o] => h = o
  BY <1>3, <1>5, <1>6 DEF TxInv
<1> QED
  BY <1>8, <1>9, <1>10, <1>11, <1>12 DEF TxInv, Routed

\* No step leaves two transactions with the lock of one file.
LEMMA StepKeepsTx ==
  ASSUME SlotTypes, TypeInv, TxInv, NEW g \in Proc, Step(g)
  PROVE  TxInv'
<1>1. CASE AtSlots
  <2>1. /\ \A h \in Proc : (InTx(h)' <=> InTx(h)) /\ (InTx(h) => at'[h] = at[h])
        /\ call' = call /\ nextId' = nextId /\ begun' = begun
    BY <1>1 DEF AtSlots, history
  <2>2. \A h \in Proc : call[h].locked => at'[h] = at[h]
    BY <2>1, LockedIsInTx
  <2> QED
    BY <2>1, <2>2 DEF TxInv, Routed
<1>2. CASE (CommitTx(g) \/ Rollback(g)) /\ Ends(g)
  <2>1. /\ \A h \in Proc : h # g => (InTx(h)' <=> InTx(h)) /\ at'[h] = at[h] /\ call'[h] = call[h]
        /\ call'[g] = NoCall /\ ~InTx(g)' /\ nextId' = nextId /\ begun' = begun
    BY <1>2 DEF Ends, TypeInv
  <2>2. call'[g].done = 0 /\ ~call'[g].locked /\ 0 <= Len(Jobs(call'[g].batch))
    BY <2>1, NoCallIsIdle, NoCallType
  <2> QED
    BY <2>1, <2>2 DEF TxInv, Routed
<1>3. CASE (\E before \in Second : PruneOps(g, before)) /\ Stays
  <2>1. /\ \A h \in Proc : (InTx(h)' <=> InTx(h)) /\ at'[h] = at[h]
        /\ call' = call /\ nextId' = nextId /\ begun' = begun
    BY <1>3 DEF PruneOps, Stays
  <2> QED
    BY <2>1 DEF TxInv, Routed
<1> QED
  BY <1>1, <1>2, <1>3, StartKeepsTx, ExecuteKeepsTx, StepKinds

\* At first nobody is in a transaction.
LEMMA TxAtFirst == Init => TxInv
<1> SUFFICES ASSUME Init PROVE TxInv
  OBVIOUS
<1>1. \A g \in Proc : call[g] = NoCall /\ ~InTx(g)
  BY DEF Init, InTx
<1> QED
  BY <1>1, NoCallIsIdle, NoCallType DEF TxInv

\* No step disturbs the transactions.
LEMMA NextKeepsTx == SlotInv /\ TypeInv /\ TxInv /\ [Next]_vars => TxInv'
<1> SUFFICES ASSUME SlotInv, TypeInv, TxInv, [Next]_vars PROVE TxInv'
  OBVIOUS
<1>1. CASE \E g \in Proc : Step(g)
  BY <1>1, StepKeepsTx DEF SlotInv
<1>2. CASE Crash
  BY <1>2, CrashStep, NoCallIsIdle, NoCallType DEF TxInv
<1>3. CASE UNCHANGED vars
  BY <1>3 DEF vars, TxInv, Routed, InTx
<1> QED
  BY <1>1, <1>2, <1>3 DEF Next

\* One transaction at a time has the lock of a file, and it has passed the routing check.
LEMMA TxInvariant == Spec => []TxInv
BY TxAtFirst, NextKeepsTx, SlotInvariant, TypeCorrect, PTL DEF Spec

----------------------------------------------------------------------------
(* What a transaction has written *)

\* Before its first statement a batch has added and removed nothing.
LEMMA NothingYet ==
  ASSUME NEW b \in Batch
  PROVE  AddsTo(b, 0) = {} /\ RemovesTo(b, 0) = {}
BY JobsProperties DEF AddsTo, RemovesTo

\* After its last statement a batch has added and removed all it names.
LEMMA AllDone ==
  ASSUME NEW b \in Batch
  PROVE  /\ AddsTo(b, Len(Jobs(b))) = Wanted(b).adds
         /\ RemovesTo(b, Len(Jobs(b))) = Wanted(b).removes
<1>1. /\ \A j \in DOMAIN b.adds : RowFirst(b) + j <= Len(Jobs(b))
      /\ \A j \in DOMAIN b.removes : RowFirst(b) + Len(b.adds) + j <= Len(Jobs(b))
  BY JobsProperties, SMTT(40)
<1> QED
  BY <1>1 DEF AddsTo, RemovesTo, Wanted, Range

\* One more statement, one more quad: the removes come after the adds.
LEMMA StatementApplied ==
  ASSUME NEW f \in Contents, NEW c \in Call, NEW now, NEW quads,
         c.done + 1 \in DOMAIN Jobs(c.batch),
         f.quads = (quads \cup AddsTo(c.batch, c.done)) \ RemovesTo(c.batch, c.done)
  PROVE  Executed(f, c, Jobs(c.batch)[c.done + 1], now).quads =
           (quads \cup AddsTo(c.batch, c.done + 1)) \ RemovesTo(c.batch, c.done + 1)
<1> DEFINE b == c.batch
           k == c.done
           job == Jobs(b)[k + 1]
<1>1. b \in Batch /\ k \in Nat /\ f \in [quads : SUBSET Quad, commits : SUBSET [id : Nat, at : Nat], ops : SUBSET OpRow]
  BY DEF Call, Contents
<1>2. /\ Len(b.adds) \in Nat /\ DOMAIN b.adds = 1..Len(b.adds)
      /\ Len(b.removes) \in Nat /\ DOMAIN b.removes = 1..Len(b.removes)
      /\ RowFirst(b) \in {0, 1} /\ (b.audit => RowFirst(b) = 1)
  BY <1>1, JobsProperties DEF RowFirst
<1>3. k + 1 \in DOMAIN Jobs(b)
  OBVIOUS
<1> SUFFICES Executed(f, c, job, now).quads = (quads \cup AddsTo(b, k + 1)) \ RemovesTo(b, k + 1)
  OBVIOUS
<1> SUFFICES ASSUME f.quads = (quads \cup AddsTo(b, k)) \ RemovesTo(b, k)
             PROVE  Executed(f, c, job, now).quads = (quads \cup AddsTo(b, k + 1)) \ RemovesTo(b, k + 1)
  OBVIOUS
<1>4. /\ job.do \in {"commit", "add", "remove"}
      /\ job.do = "commit" => k + 1 = 1 /\ b.audit
      /\ job.do = "add" => \E i \in DOMAIN b.adds :
           k + 1 = RowFirst(b) + i /\ job.quad = Effective(b.adds[i], b.label)
      /\ job.do = "remove" => \E i \in DOMAIN b.removes :
           k + 1 = RowFirst(b) + Len(b.adds) + i /\ job.quad = b.removes[i]
  BY <1>1, <1>3, JobKinds
<1> HIDE DEF b, k, job
<1>5. CASE job.do = "commit"
  <2>1. Executed(f, c, job, now).quads = f.quads
    BY <1>1, <1>5 DEF Executed
  <2>2. /\ \A j \in DOMAIN b.adds : ~(RowFirst(b) + j <= k) /\ ~(RowFirst(b) + j <= k + 1)
        /\ \A j \in DOMAIN b.removes : /\ ~(RowFirst(b) + Len(b.adds) + j <= k)
                                      /\ ~(RowFirst(b) + Len(b.adds) + j <= k + 1)
    BY <1>1, <1>2, <1>4, <1>5
  <2>3. AddsTo(b, k) = AddsTo(b, k + 1) /\ RemovesTo(b, k) = RemovesTo(b, k + 1)
    BY <2>2 DEF AddsTo, RemovesTo
  <2> QED
    BY <2>1, <2>3
<1>6. CASE job.do = "add"
  <2>1. Executed(f, c, job, now).quads = f.quads \cup {job.quad}
    BY <1>1, <1>6 DEF Executed
  <2>2. PICK i \in DOMAIN b.adds : k + 1 = RowFirst(b) + i /\ job.quad = Effective(b.adds[i], b.label)
    BY <1>4, <1>6
  <2>3. \A j \in DOMAIN b.adds : RowFirst(b) + j <= k + 1 <=> RowFirst(b) + j <= k \/ j = i
    BY <1>1, <1>2, <2>2
  <2>4. \A j \in DOMAIN b.removes : /\ ~(RowFirst(b) + Len(b.adds) + j <= k)
                                   /\ ~(RowFirst(b) + Len(b.adds) + j <= k + 1)
    BY <1>1, <1>2, <2>2
  <2>5. AddsTo(b, k + 1) = AddsTo(b, k) \cup {job.quad}
    BY <2>2, <2>3 DEF AddsTo
  <2>6. RemovesTo(b, k) = {} /\ RemovesTo(b, k + 1) = {}
    BY <2>4 DEF RemovesTo
  <2> QED
    BY <2>1, <2>5, <2>6
<1>7. CASE job.do = "remove"
  <2>1. Executed(f, c, job, now).quads = f.quads \ {job.quad}
    BY <1>1, <1>7 DEF Executed
  <2>2. PICK i \in DOMAIN b.removes :
          k + 1 = RowFirst(b) + Len(b.adds) + i /\ job.quad = b.removes[i]
    BY <1>4, <1>7
  <2>3. \A j \in DOMAIN b.removes :
          RowFirst(b) + Len(b.adds) + j <= k + 1 <=> RowFirst(b) + Len(b.adds) + j <= k \/ j = i
    BY <1>1, <1>2, <2>2
  <2>4. \A j \in DOMAIN b.adds : RowFirst(b) + j <= k /\ RowFirst(b) + j <= k + 1
    BY <1>1, <1>2, <2>2
  <2>5. AddsTo(b, k + 1) = AddsTo(b, k)
    BY <2>4 DEF AddsTo
  <2>6. RemovesTo(b, k + 1) = RemovesTo(b, k) \cup {job.quad}
    BY <2>2, <2>3 DEF RemovesTo
  <2> QED
    BY <2>1, <2>5, <2>6
<1> QED
  BY <1>4, <1>5, <1>6, <1>7

\* A step leaves the image of every other open transaction as it is, and the
\* file that image was taken from.
LEMMA OthersUntouched ==
  ASSUME SlotTypes, TypeInv, TxInv, NEW g \in Proc, Step(g),
         NEW h \in Proc, call'[h].locked
  PROVE  /\ InTx(h) /\ at'[h] = at[h] /\ at[h] \in Part
         /\ \/ h = g /\ \E now \in Second : Execute(g, now)
            \/ call'[h] = call[h]
         /\ file'[at[h]] = file[at[h]] /\ worlds'[at[h]] = worlds[at[h]]
         /\ cutoff'[at[h]] = cutoff[at[h]]
<1>0. at[h] \in Part /\ at[g] \in Part
  BY DEF SlotTypes
<1>1. CASE AtSlots
  <2>1. /\ InTx(h) => at'[h] = at[h]
        /\ call' = call /\ file' = file /\ worlds' = worlds /\ cutoff' = cutoff
    BY <1>1 DEF AtSlots, contents, history
  <2> QED
    BY <1>0, <2>1, LockedIsInTx
<1>2. CASE \E b \in BatchChoice \cup LegacyChoice : Starts(g, b)
  <2>1. PICK b \in BatchChoice \cup LegacyChoice : Starts(g, b)
    BY <1>2
  <2>2. call' = [call EXCEPT ![g] = [NoCall EXCEPT !.batch = b, !.id = nextId]]
    BY <2>1 DEF Starts, Begin
  <2>3. b \in Batch /\ nextId \in Nat
    BY ChoicesAreBatches DEF TypeInv
  <2>4. LET c == [NoCall EXCEPT !.batch = b, !.id = nextId] IN
        c \in Call /\ c.batch = b /\ c.id = nextId /\ c.done = 0 /\ ~c.locked
    BY <2>3, StartedCall
  <2>5. h # g
    BY <2>2, <2>4 DEF TypeInv
  <2>6. /\ call'[h] = call[h] /\ at'[h] = at[h]
        /\ file' = file /\ worlds' = worlds /\ cutoff' = cutoff
    BY <2>1, <2>2, <2>5 DEF Starts, TypeInv, contents
  <2> QED
    BY <1>0, <2>6, LockedIsInTx
<1>3. CASE (\E now \in Second : Execute(g, now)) /\ Stays
  <2>1. PICK now \in Second : Execute(g, now)
    BY <1>3
  <2>2. /\ file' = file /\ worlds' = worlds /\ cutoff' = cutoff /\ InTx(g)
        /\ h # g => call'[h] = call[h]
    BY <2>1 DEF Execute, contents, history, TypeInv
  <2>3. at'[h] = at[h]
    BY <1>3 DEF Stays
  <2> QED
    BY <1>0, <2>1, <2>2, <2>3, LockedIsInTx
<1>4. CASE (CommitTx(g) \/ Rollback(g)) /\ Ends(g)
  <2>1. /\ call' = [call EXCEPT ![g] = NoCall] /\ cutoff' = cutoff
        /\ h # g => at'[h] = at[h]
    BY <1>4 DEF Ends
  <2>2. h # g /\ call'[h] = call[h]
    BY <2>1, NoCallIsIdle DEF TypeInv
  <2>3. \/ file' = file /\ worlds' = worlds
        \/ call[g].locked /\ Publish(at[g], call[g].image)
    BY <1>4 DEF CommitTx, Rollback, contents
  <2>4. call[g].locked => at[h] # at[g]
    BY <2>2 DEF TxInv
  <2>5. file'[at[h]] = file[at[h]] /\ worlds'[at[h]] = worlds[at[h]]
    BY <1>0, <2>3, <2>4 DEF Publish, TypeInv
  <2> QED
    BY <1>0, <2>1, <2>2, <2>5, LockedIsInTx
<1>5. CASE (\E before \in Second : PruneOps(g, before)) /\ Stays
  <2>1. PICK before \in Second : PruneOps(g, before)
    BY <1>5
  <2>2. call' = call /\ at' = at /\ at[h] # at[g]
    BY <2>1 DEF PruneOps, Unlocked
  <2>3. /\ file'[at[h]] = file[at[h]] /\ worlds'[at[h]] = worlds[at[h]]
        /\ cutoff'[at[h]] = cutoff[at[h]]
    BY <1>0, <2>1, <2>2 DEF PruneOps, Publish, TypeInv
  <2> QED
    BY <1>0, <2>2, <2>3, LockedIsInTx
<1> QED
  BY <1>1, <1>2, <1>3, <1>4, <1>5, StepKinds

\* The image after a statement.
LEMMA ExecutedImage ==
  ASSUME SlotTypes, TypeInv, TxInv, NEW g \in Proc, NEW now \in Second, Execute(g, now)
  PROVE  LET c == call[g]
             base == IF c.locked THEN c.image ELSE file[at[g]]
         IN /\ c \in Call /\ base \in Contents /\ at[g] \in Part /\ now \in Nat
            /\ c.done + 1 \in DOMAIN Jobs(c.batch) /\ (c.locked <=> c.done > 0) /\ c.done \in Nat
            /\ call'[g].image = Executed(base, c, Jobs(c.batch)[c.done + 1], now)
            /\ call'[g].batch = c.batch /\ call'[g].id = c.id
            /\ call'[g].done = c.done + 1 /\ call'[g].locked
<1> DEFINE c == call[g]
           base == IF c.locked THEN c.image ELSE file[at[g]]
           done == Executed(base, c, Jobs(c.batch)[c.done + 1], now)
<1>1. /\ base \in Contents /\ done \in Contents
      /\ c.done + 1 \in DOMAIN Jobs(c.batch) /\ now \in Nat
      /\ call' = [call EXCEPT ![g] = [c EXCEPT !.done = c.done + 1, !.locked = TRUE, !.image = done]]
  BY ExecuteStep
<1>2. /\ c \in Call /\ c.done \in Nat /\ at[g] \in Part /\ (c.locked <=> c.done > 0)
      /\ call \in [Proc -> Call]
  BY DEF TypeInv, Call, SlotTypes, TxInv
<1> HIDE DEF c, base, done
<1>3. LET d == [c EXCEPT !.done = c.done + 1, !.locked = TRUE, !.image = done] IN
      d \in Call /\ d.batch = c.batch /\ d.id = c.id /\ d.done = c.done + 1
        /\ d.locked /\ d.image = done
  BY <1>1, <1>2, ExtendedCall
<1>4. call'[g] = [c EXCEPT !.done = c.done + 1, !.locked = TRUE, !.image = done]
  BY <1>1, <1>2
<1>5. /\ call'[g].batch = c.batch /\ call'[g].id = c.id /\ call'[g].done = c.done + 1
      /\ call'[g].locked /\ call'[g].image = done
  BY <1>3, <1>4
<1> QED
  BY <1>1, <1>2, <1>5 DEF c, base, done

\* No step parts the image of a transaction from its statements.
LEMMA StepKeepsImages ==
  ASSUME SlotTypes, TypeInv, TxInv, ImageInv, NEW g \in Proc, Step(g)
  PROVE  ImageInv'
<1> SUFFICES ASSUME NEW h \in Proc, call'[h].locked
             PROVE  LET c == call'[h] IN c.image.quads =
                      (file'[at'[h]].quads \cup AddsTo(c.batch, c.done)) \ RemovesTo(c.batch, c.done)
  BY DEF ImageInv
<1>1. /\ at'[h] = at[h] /\ file'[at[h]] = file[at[h]]
      /\ (h = g /\ \E now \in Second : Execute(g, now)) \/ call'[h] = call[h]
  BY OthersUntouched
<1>2. CASE call'[h] = call[h]
  BY <1>1, <1>2 DEF ImageInv
<1>3. CASE h = g /\ \E now \in Second : Execute(g, now)
  <2>1. PICK now \in Second : Execute(g, now)
    BY <1>3
  <2> DEFINE c == call[g]
             base == IF c.locked THEN c.image ELSE file[at[g]]
             quads == file[at[g]].quads
  <2>2. /\ c \in Call /\ base \in Contents /\ c.done + 1 \in DOMAIN Jobs(c.batch)
        /\ c.locked <=> c.done > 0
        /\ c.done \in Nat
        /\ call'[g].image = Executed(base, c, Jobs(c.batch)[c.done + 1], now)
        /\ call'[g].batch = c.batch /\ call'[g].done = c.done + 1
    BY <2>1, ExecutedImage
  <2>3. base.quads = (quads \cup AddsTo(c.batch, c.done)) \ RemovesTo(c.batch, c.done)
    <3>1. CASE c.locked
      BY <3>1 DEF ImageInv
    <3>2. CASE ~c.locked
      <4>1. c.done = 0 /\ c.batch \in Batch
        BY <2>2, <3>2 DEF Call
      <4> QED
        BY <3>2, <4>1, NothingYet
    <3> QED
      BY <3>1, <3>2
  <2> HIDE DEF c, base, quads
  <2>4. Executed(base, c, Jobs(c.batch)[c.done + 1], now).quads =
          (quads \cup AddsTo(c.batch, c.done + 1)) \ RemovesTo(c.batch, c.done + 1)
    BY <2>2, <2>3, StatementApplied, ZenonT(30)
  <2> QED
    BY <1>1, <1>3, <2>2, <2>4 DEF quads
<1> QED
  BY <1>1, <1>2, <1>3

\* At first there is no image.
LEMMA ImagesAtFirst == Init => ImageInv
<1> SUFFICES ASSUME Init, NEW g \in Proc PROVE ~call[g].locked
  BY DEF ImageInv
<1> QED
  BY NoCallIsIdle DEF Init

\* No step disturbs an image.
LEMMA NextKeepsImages == SlotInv /\ TypeInv /\ TxInv /\ ImageInv /\ [Next]_vars => ImageInv'
<1> SUFFICES ASSUME SlotInv, TypeInv, TxInv, ImageInv, [Next]_vars PROVE ImageInv'
  OBVIOUS
<1>1. CASE \E g \in Proc : Step(g)
  BY <1>1, StepKeepsImages DEF SlotInv
<1>2. CASE Crash
  BY <1>2, CrashStep, NoCallIsIdle DEF ImageInv
<1>3. CASE UNCHANGED vars
  BY <1>3 DEF vars, ImageInv
<1> QED
  BY <1>1, <1>2, <1>3 DEF Next

\* The image of a transaction is its file with its statements so far applied.
LEMMA ImageInvariant == Spec => []ImageInv
BY ImagesAtFirst, NextKeepsImages, SlotInvariant, TypeCorrect, TxInvariant, PTL DEF Spec

\* Where the contents come from that a step publishes.
LEMMA WhatIsPublished ==
  ASSUME SlotTypes, TypeInv, NEW g \in Proc, Step(g), NEW p \in Part, NEW f \in worlds'[p]
  PROVE  \/ f \in worlds[p]
         \/ /\ CommitTx(g) /\ call[g].locked /\ call[g].done = Len(Jobs(call[g].batch))
            /\ InTx(g) /\ p = at[g] /\ f = call[g].image
         \/ p = at[g] /\ \E before \in Second : PruneOps(g, before) /\ f = Pruned(file[p], before)
<1>1. CASE AtSlots \/ \E b \in BatchChoice \cup LegacyChoice : Starts(g, b)
  BY <1>1 DEF AtSlots, Starts, contents
<1>2. CASE (\E now \in Second : Execute(g, now)) \/ Rollback(g)
  BY <1>2 DEF Execute, Rollback, contents
<1>3. CASE CommitTx(g)
  BY <1>3 DEF CommitTx, Publish, contents, TypeInv, SlotTypes
<1>4. CASE \E before \in Second : PruneOps(g, before)
  <2>1. PICK before \in Second : PruneOps(g, before)
    BY <1>4
  <2>2. /\ at[g] \in Part
        /\ worlds' = [worlds EXCEPT ![at[g]] = worlds[at[g]] \cup {Pruned(file[at[g]], before)}]
    BY <2>1 DEF PruneOps, Publish, TypeInv, SlotTypes
  <2>3. f \in worlds[p] \/ (p = at[g] /\ f = Pruned(file[p], before))
    BY <2>2 DEF TypeInv
  <2> QED
    BY <2>1, <2>3
<1> QED
  BY <1>1, <1>2, <1>3, <1>4, StepKinds

\* At first there are no quads.
LEMMA PartitionsAtFirst == Init => RightPartition
BY DEF Init, RightPartition, EmptyFile

\* No step puts a quad in a file of another partition.
LEMMA NextKeepsPartitions == SlotInv /\ TypeInv /\ TxInv /\ ImageInv /\ RightPartition /\ [Next]_vars => RightPartition'
<1> SUFFICES ASSUME SlotInv, TypeInv, TxInv, ImageInv, RightPartition, [Next]_vars
             PROVE  RightPartition'
  OBVIOUS
<1>1. ASSUME NEW g \in Proc, Step(g)
      PROVE  RightPartition'
  <2> SUFFICES ASSUME NEW p \in Part, NEW f \in worlds'[p], NEW q \in f.quads
               PROVE  partFor(q.label) = p
    BY DEF RightPartition
  <2>1. CASE f \in worlds[p]
    BY <2>1 DEF RightPartition
  <2>2. CASE call[g].locked /\ InTx(g) /\ p = at[g] /\ f = call[g].image
    <3>1. q \in file[p].quads \/ q \in AddsTo(call[g].batch, call[g].done)
      BY <2>2 DEF ImageInv
    <3>2. CASE q \in file[p].quads
      BY <3>2 DEF RightPartition, TypeInv
    <3>3. CASE q \in AddsTo(call[g].batch, call[g].done)
      BY <2>2, <3>3 DEF AddsTo, TxInv, Routed
    <3> QED
      BY <3>1, <3>2, <3>3
  <2>3. CASE \E before \in Second : f = Pruned(file[p], before)
    <3>1. q \in file[p].quads
      BY <2>3 DEF Pruned, TypeInv, Contents
    <3> QED
      BY <3>1 DEF RightPartition, TypeInv
  <2> QED
    BY <1>1, <2>1, <2>2, <2>3, WhatIsPublished DEF SlotInv
<1>2. CASE Crash
  BY <1>2, CrashStep DEF RightPartition
<1>3. CASE UNCHANGED vars
  BY <1>3 DEF vars, RightPartition
<1> QED
  BY <1>1, <1>2, <1>3 DEF Next

\* Whoever writes it, by a Writer or an older call, a quad is only ever in the
\* file that a read of its label goes to.
THEOREM QuadsInTheirPartition == Spec => []RightPartition
BY PartitionsAtFirst, NextKeepsPartitions, SlotInvariant, TypeCorrect, TxInvariant, ImageInvariant, PTL DEF Spec

----------------------------------------------------------------------------
(* The journal *)

\* Before its first statement a transaction has journalled nothing.
LEMMA NoRowsYet ==
  ASSUME NEW f, NEW own, NEW before, NEW batches,
         JournalOf(f, before, own, batches), Unused(f, own)
  PROVE  RowsOf(f, own) = {}
BY DEF JournalOf, Unused, RowsOf

\* One more statement, one more row of the open commit.
LEMMA StatementJournalled ==
  ASSUME NEW f \in Contents, NEW c \in Call, NEW now \in Nat, NEW before, NEW batches,
         c.done + 1 \in DOMAIN Jobs(c.batch), JournalOf(f, before, c.id, batches),
         OwnRows(f, c.batch, c.id, c.done)
  PROVE  LET done == Executed(f, c, Jobs(c.batch)[c.done + 1], now)
         IN /\ JournalOf(done, before, c.id, batches)
            /\ OwnRows(done, c.batch, c.id, c.done + 1)
            /\ \A d \in done.commits : d \in f.commits \/ d.id = c.id
<1> DEFINE b == c.batch
           k == c.done
           id == c.id
           job == Jobs(b)[k + 1]
           done == Executed(f, c, job, now)
           op == [id |-> id, seq |-> job.seq, kind |-> job.do, quad |-> job.quad]
<1>1. /\ b \in Batch /\ k \in Nat /\ id \in Nat /\ k + 1 \in DOMAIN Jobs(b) /\ k + 1 > 0
      /\ f \in [quads : SUBSET Quad, commits : SUBSET [id : Nat, at : Nat], ops : SUBSET OpRow]
  BY DEF Call, Contents
<1>2. /\ job.do \in {"commit", "add", "remove"}
      /\ job.do = "commit" => k = 0 /\ b.audit
      /\ k = 0 /\ b.audit => job.do = "commit"
  BY <1>1, JobKinds
<1>3. OpsTo(b, id, k + 1) = OpsTo(b, id, k) \cup (IF job.do = "commit" THEN {} ELSE {op})
  <2>1. \A j \in DOMAIN Jobs(b) : j <= k + 1 <=> j <= k \/ j = k + 1
    BY <1>1, JobsProperties
  <2> QED
    BY <1>1, <2>1 DEF OpsTo
<1>4. OpsTo(b, id, 0) = {}
  BY <1>1, JobsProperties DEF OpsTo
<1>5. /\ JournalOf(f, before, id, batches) /\ OwnRows(f, b, id, k)
      /\ Unused(f, id) => RowsOf(f, id) = {}
  BY NoRowsYet
<1> SUFFICES /\ JournalOf(done, before, id, batches)
             /\ OwnRows(done, b, id, k + 1)
             /\ \A d \in done.commits : d \in f.commits \/ d.id = id
  OBVIOUS
<1>6. OpOf(c, job) = IF b.audit THEN {op} ELSE {}
  BY DEF OpOf
<1> HIDE DEF b, k, id, job, op
<1>7. CASE job.do = "commit"
  <2>1. /\ done.commits = f.commits \cup {[id |-> id, at |-> now]} /\ done.ops = f.ops
    BY <1>1, <1>7 DEF Executed, id
  <2>2. Unused(f, id) /\ RowsOf(f, id) = {} /\ b.audit /\ k = 0
    BY <1>2, <1>5, <1>7 DEF OwnRows
  <2> HIDE DEF done
  <2>3. \A i : RowsOf(done, i) = RowsOf(f, i)
    BY <2>1 DEF RowsOf
  <2>4. JournalOf(done, before, id, batches)
    <3>1. \A d \in done.commits : d \in f.commits \/ d = [id |-> id, at |-> now]
      BY <2>1
    <3>2. \A d \in f.commits : d \in done.commits /\ d.id # id
      BY <2>1, <2>2 DEF Unused
    <3>3. \A o \in done.ops : \E d \in done.commits : d.id = o.id
      BY <1>5, <2>1, <3>2 DEF JournalOf
    <3>4. \A d, e \in done.commits : d.id = e.id => d = e
      BY <1>5, <3>1, <3>2 DEF JournalOf
    <3>5. \A d \in done.commits : d.id # id =>
            \/ RowsOf(done, d.id) = WholeOps(batches[d.id], d.id)
            \/ RowsOf(done, d.id) = {} /\ d.at < before
      BY <1>5, <2>3, <3>1 DEF JournalOf
    <3> QED
      BY <3>3, <3>4, <3>5 DEF JournalOf
  <2>5. OwnRows(done, b, id, k + 1)
    <3>1. ~Unused(done, id)
      <4> DEFINE row == [id |-> id, at |-> now]
      <4>1. row \in done.commits /\ row.id = id
        BY <2>1
      <4> QED
        BY <4>1 DEF Unused
    <3> QED
      BY <1>1, <1>3, <1>4, <1>7, <2>2, <2>3, <3>1 DEF OwnRows
  <2> QED
    BY <2>1, <2>4, <2>5
<1>8. CASE job.do # "commit"
  <2>1. done.commits = f.commits /\ done.ops = f.ops \cup (IF b.audit THEN {op} ELSE {})
    <3>1. CASE job.do = "add"
      BY <1>1, <1>6, <3>1 DEF Executed
    <3>2. CASE job.do = "remove"
      BY <1>1, <1>6, <3>2 DEF Executed
    <3> QED
      BY <1>2, <1>8, <3>1, <3>2
  <2> HIDE DEF done
  <2>2. op.id = id /\ (b.audit => k > 0)
    BY <1>1, <1>2, <1>8 DEF op
  <2>3. \A i : i # id => RowsOf(done, i) = RowsOf(f, i)
    BY <2>1, <2>2 DEF RowsOf
  <2>4. RowsOf(done, id) = RowsOf(f, id) \cup (IF b.audit THEN {op} ELSE {})
    BY <2>1, <2>2 DEF RowsOf
  <2>5. Unused(done, id) <=> Unused(f, id)
    BY <2>1 DEF Unused
  <2>6. OwnRows(done, b, id, k + 1)
    BY <1>1, <1>3, <1>5, <1>8, <2>2, <2>4, <2>5 DEF OwnRows
  <2>7. \A o \in done.ops : \E d \in done.commits : d.id = o.id
    <3>1. b.audit => \E d \in f.commits : d.id = op.id
      BY <1>5, <2>2 DEF OwnRows, Unused
    <3> QED
      BY <1>5, <2>1, <3>1 DEF JournalOf
  <2>8. JournalOf(done, before, id, batches)
    BY <1>5, <2>1, <2>3, <2>7 DEF JournalOf
  <2> QED
    BY <2>1, <2>6, <2>8
<1> QED
  BY <1>7, <1>8

\* Later commits and later prunes take nothing back.
LEMMA JournalStays ==
  ASSUME NEW f \in Contents, NEW before \in Nat, NEW later \in Nat, before <= later,
         NEW own, NEW batches, NEW more, NEW next \in Nat,
         JournalOf(f, before, own, batches), UsesTo(f, next),
         \A i \in 1..(next - 1) : more[i] = batches[i]
  PROVE  JournalOf(f, later, own, more)
<1>1. \A c \in f.commits : c.at \in Nat /\ more[c.id] = batches[c.id]
  BY DEF UsesTo, Contents
<1>2. \A c \in f.commits : c.at < before => c.at < later
  BY <1>1
<1> QED
  BY <1>1, <1>2 DEF JournalOf

\* A prune takes all the operations of a commit or none.
LEMMA PrunedJournal ==
  ASSUME NEW f \in Contents, NEW cut \in Nat, NEW before \in Nat, NEW later \in Nat,
         cut <= later, before <= later, NEW batches, JournalOf(f, cut, 0, batches)
  PROVE  JournalOf(Pruned(f, before), later, 0, batches)
<1> DEFINE pruned == Pruned(f, before)
<1>1. /\ pruned.commits = f.commits
      /\ pruned.ops = {o \in f.ops : ~\E c \in f.commits : c.id = o.id /\ c.at < before}
      /\ \A c \in f.commits : c.at \in Nat
  BY DEF Pruned, Contents
<1> HIDE DEF pruned
<1>2. /\ \A o \in pruned.ops : \E c \in pruned.commits : c.id = o.id
      /\ \A c, d \in pruned.commits : c.id = d.id => c = d
  BY <1>1 DEF JournalOf
<1>3. ASSUME NEW c \in pruned.commits, c.id # 0
      PROVE  \/ RowsOf(pruned, c.id) = WholeOps(batches[c.id], c.id)
             \/ RowsOf(pruned, c.id) = {} /\ c.at < later
  <2>1. CASE c.at < before
    <3>1. RowsOf(pruned, c.id) = {}
      BY <1>1, <2>1 DEF RowsOf
    <3> QED
      BY <1>1, <2>1, <3>1
  <2>2. CASE ~(c.at < before)
    <3>1. \A d \in f.commits : d.id = c.id => d = c
      BY <1>1 DEF JournalOf
    <3>2. RowsOf(pruned, c.id) = RowsOf(f, c.id)
      BY <1>1, <2>2, <3>1 DEF RowsOf
    <3>3. RowsOf(f, c.id) = WholeOps(batches[c.id], c.id) \/ (RowsOf(f, c.id) = {} /\ c.at < cut)
      BY <1>1, <1>3 DEF JournalOf
    <3>4. c.at < cut => c.at < later
      BY <1>1
    <3> QED
      BY <3>2, <3>3, <3>4
  <2> QED
    BY <2>1, <2>2
<1> QED
  BY <1>2, <1>3 DEF JournalOf, pruned

\* A commit whose statements are all done is whole.
LEMMA CommittedJournal ==
  ASSUME NEW f, NEW before, NEW own, NEW batches, NEW b \in Batch,
         JournalOf(f, before, own, batches), batches[own] = b,
         OwnRows(f, b, own, Len(Jobs(b))), Len(Jobs(b)) > 0
  PROVE  JournalOf(f, before, 0, batches)
<1>1. ASSUME NEW c \in f.commits, c.id = own
      PROVE  RowsOf(f, own) = WholeOps(batches[own], own)
  BY <1>1 DEF OwnRows, WholeOps, Unused
<1> QED
  BY <1>1 DEF JournalOf

\* What a step may do to ids and cutoffs.
LEMMA HistoryStep ==
  ASSUME SlotTypes, TypeInv, TxInv, NEW g \in Proc, Step(g)
  PROVE  /\ nextId \in Nat /\ nextId' \in Nat /\ nextId <= nextId'
         /\ \A i \in 1..(nextId - 1) : begun'[i] = begun[i]
         /\ \A p \in Part : cutoff[p] \in Nat /\ cutoff'[p] \in Nat /\ cutoff[p] <= cutoff'[p]
         /\ \A h \in Proc : InTx(h)' =>
              \/ InTx(h) /\ at'[h] = at[h] /\ call'[h].id = call[h].id
              \/ nextId' = nextId + 1 /\ call'[h].id = nextId
<1>0. /\ nextId \in Nat \ {0} /\ cutoff \in [Part -> Nat] /\ call \in [Proc -> Call]
      /\ begun \in Seq(Batch) /\ Len(begun) = nextId - 1
  BY DEF TypeInv
<1>1. CASE AtSlots
  BY <1>0, <1>1 DEF AtSlots, history
<1>2. ASSUME NEW b \in BatchChoice \cup LegacyChoice, Starts(g, b)
      PROVE  /\ nextId' = nextId + 1 /\ cutoff' = cutoff
             /\ \A i \in 1..(nextId - 1) : begun'[i] = begun[i]
             /\ call'[g].id = nextId
             /\ \A h \in Proc : h # g => (InTx(h)' <=> InTx(h)) /\ at'[h] = at[h] /\ call'[h] = call[h]
  <2>1. /\ call'[g] = [NoCall EXCEPT !.batch = b, !.id = nextId]
        /\ \A h \in Proc : h # g => call'[h] = call[h]
    BY <1>0, <1>2 DEF Starts, Begin
  <2>2. b \in Batch
    BY ChoicesAreBatches
  <2>3. LET c == [NoCall EXCEPT !.batch = b, !.id = nextId] IN
        c \in Call /\ c.batch = b /\ c.id = nextId /\ c.done = 0 /\ ~c.locked
    BY <1>0, <2>2, StartedCall
  <2>4. \A i \in 1..(nextId - 1) : begun'[i] = begun[i]
    BY <1>0, <1>2, <2>2, AppendProperties DEF Starts, Begin
  <2> QED
    BY <1>2, <2>1, <2>3, <2>4 DEF Starts, Begin
<1>3. CASE (\E now \in Second : Execute(g, now)) /\ Stays
  <2>1. PICK now \in Second : Execute(g, now)
    BY <1>3
  <2>2. call'[g].id = call[g].id /\ InTx(g)
    BY <2>1, ExecutedImage DEF Execute
  <2>3. /\ \A h \in Proc : h # g => call'[h] = call[h]
        /\ nextId' = nextId /\ begun' = begun /\ cutoff' = cutoff
    BY <1>0, <2>1 DEF Execute, history
  <2> QED
    BY <1>0, <1>3, <2>2, <2>3 DEF Stays
<1>4. CASE (CommitTx(g) \/ Rollback(g)) /\ Ends(g)
  <2>1. /\ \A h \in Proc : InTx(h)' => InTx(h) /\ at'[h] = at[h] /\ call'[h] = call[h]
        /\ nextId' = nextId /\ begun' = begun /\ cutoff' = cutoff
    BY <1>0, <1>4 DEF Ends
  <2> QED
    BY <1>0, <2>1
<1>5. CASE (\E before \in Second : PruneOps(g, before)) /\ Stays
  <2>1. PICK before \in Second : PruneOps(g, before)
    BY <1>5
  <2>2. /\ call' = call /\ nextId' = nextId /\ begun' = begun /\ before \in Nat
        /\ cutoff' = [cutoff EXCEPT ![at[g]] = IF before > cutoff[at[g]] THEN before ELSE cutoff[at[g]]]
    BY <1>0, <2>1 DEF PruneOps, Second
  <2>3. \A p \in Part : cutoff'[p] \in Nat /\ cutoff[p] <= cutoff'[p]
    BY <1>0, <2>2
  <2> QED
    BY <1>0, <1>5, <2>2, <2>3 DEF Stays
<1>6. CASE \E b \in BatchChoice \cup LegacyChoice : Starts(g, b)
  BY <1>0, <1>2, <1>6
<1> QED
  BY <1>1, <1>3, <1>4, <1>5, <1>6, StepKinds

\* Identifiers are never given back.
LEMMA UsedGrows ==
  ASSUME NEW f, NEW next \in Nat, NEW more \in Nat, next <= more, UsesTo(f, next)
  PROVE  UsesTo(f, more) /\ Unused(f, next)
BY DEF UsesTo, Unused

\* The journal of a file that is left alone stays whole, and has no row of a
\* transaction that is open.
LEMMA FileKeepsJournal ==
  ASSUME SlotTypes, TypeInv, TxInv, NEW g \in Proc, Step(g), NEW p \in Part, NEW f \in Contents,
         NEW own, JournalOf(f, cutoff[p], own, begun), UsesTo(f, nextId)
  PROVE  /\ JournalOf(f, cutoff'[p], own, begun') /\ UsesTo(f, nextId')
         /\ \A h \in Proc : InTx(h)' /\ (InTx(h) => Unused(f, call[h].id)) => Unused(f, call'[h].id)
<1>1. /\ nextId \in Nat /\ nextId' \in Nat /\ nextId <= nextId'
      /\ \A i \in 1..(nextId - 1) : begun'[i] = begun[i]
      /\ cutoff[p] \in Nat /\ cutoff'[p] \in Nat /\ cutoff[p] <= cutoff'[p]
      /\ \A h \in Proc : InTx(h)' =>
           \/ InTx(h) /\ call'[h].id = call[h].id
           \/ nextId' = nextId + 1 /\ call'[h].id = nextId
  BY HistoryStep
<1>2. JournalOf(f, cutoff'[p], own, begun')
  BY <1>1, JournalStays
<1>3. UsesTo(f, nextId') /\ Unused(f, nextId)
  BY <1>1, UsedGrows
<1> QED
  BY <1>1, <1>2, <1>3

\* No step takes the journal of a published file apart.
LEMMA StepKeepsFiles ==
  ASSUME SlotTypes, TypeInv, TxInv, JournalInv, NEW g \in Proc, Step(g),
         NEW p \in Part, NEW f \in worlds'[p]
  PROVE  /\ JournalOf(f, cutoff'[p], 0, begun') /\ UsesTo(f, nextId')
         /\ \A h \in Proc : InTx(h)' => Unused(f, call'[h].id)
<1>1. CASE f \in worlds[p]
  <2>1. /\ f \in Contents /\ JournalOf(f, cutoff[p], 0, begun) /\ UsesTo(f, nextId)
        /\ \A h \in Proc : InTx(h) => Unused(f, call[h].id)
    BY <1>1 DEF TypeInv, JournalInv
  <2> QED
    BY <2>1, FileKeepsJournal
<1>2. CASE /\ CommitTx(g) /\ call[g].locked /\ call[g].done = Len(Jobs(call[g].batch))
           /\ InTx(g) /\ p = at[g] /\ f = call[g].image
  <2> DEFINE c == call[g]
  <2>1. /\ f \in Contents /\ c.batch \in Batch /\ c.done > 0 /\ begun[c.id] = c.batch
    BY <1>2 DEF TypeInv, Call, TxInv
  <2>2. /\ JournalOf(f, cutoff[p], c.id, begun) /\ UsesTo(f, nextId)
        /\ \A h \in Proc : InTx(h) /\ h # g => Unused(f, call[h].id)
        /\ OwnRows(f, c.batch, c.id, Len(Jobs(c.batch)))
    BY <1>2 DEF JournalInv
  <2>3. JournalOf(f, cutoff[p], 0, begun)
    BY <1>2, <2>1, <2>2, CommittedJournal
  <2>4. ~InTx(g)'
    BY <1>2 DEF CommitTx, Return, InTx, SlotTypes
  <2>5. /\ JournalOf(f, cutoff'[p], 0, begun') /\ UsesTo(f, nextId')
        /\ \A h \in Proc : InTx(h)' /\ (InTx(h) => Unused(f, call[h].id)) => Unused(f, call'[h].id)
    BY <2>1, <2>2, <2>3, FileKeepsJournal
  <2> QED
    BY <2>2, <2>4, <2>5
<1>3. CASE p = at[g] /\ \E before \in Second : PruneOps(g, before) /\ f = Pruned(file[p], before)
  <2>1. PICK before \in Second : PruneOps(g, before) /\ f = Pruned(file[p], before)
    BY <1>3
  <2>2. /\ file[p] \in Contents /\ f \in Contents
        /\ JournalOf(file[p], cutoff[p], 0, begun) /\ UsesTo(file[p], nextId)
        /\ \A h \in Proc : InTx(h) => Unused(file[p], call[h].id)
    BY <2>1, PrunedType DEF TypeInv, JournalInv
  <2>3. /\ UsesTo(file[p], nextId')
        /\ \A h \in Proc : InTx(h)' => Unused(file[p], call'[h].id)
    BY <2>2, FileKeepsJournal
  <2>4. f.commits = file[p].commits
    BY <2>1, <2>2 DEF Pruned, Contents
  <2>5. UsesTo(f, nextId') /\ \A h \in Proc : InTx(h)' => Unused(f, call'[h].id)
    BY <2>3, <2>4 DEF UsesTo, Unused
  <2>6. /\ before \in Nat /\ cutoff[p] \in Nat /\ cutoff'[p] \in Nat
        /\ cutoff[p] <= cutoff'[p] /\ before <= cutoff'[p] /\ begun' = begun
    BY <1>3, <2>1 DEF PruneOps, TypeInv, Second, SlotTypes
  <2>7. JournalOf(f, cutoff'[p], 0, begun)
    BY <2>1, <2>2, <2>6, PrunedJournal
  <2> QED
    BY <2>5, <2>6, <2>7
<1> QED
  BY <1>1, <1>2, <1>3, WhatIsPublished

\* No step takes the journal of an open transaction apart.
LEMMA StepKeepsOpenJournals ==
  ASSUME SlotTypes, TypeInv, TxInv, JournalInv, NEW g \in Proc, Step(g),
         NEW h \in Proc, call'[h].locked
  PROVE  LET c == call'[h] IN
         /\ JournalOf(c.image, cutoff'[at'[h]], c.id, begun') /\ UsesTo(c.image, nextId')
         /\ \A o \in Proc : InTx(o)' /\ o # h => Unused(c.image, call'[o].id)
         /\ OwnRows(c.image, c.batch, c.id, c.done)
<1>1. /\ InTx(h) /\ at'[h] = at[h] /\ at[h] \in Part /\ cutoff'[at[h]] = cutoff[at[h]]
      /\ \/ h = g /\ \E now \in Second : Execute(g, now)
         \/ call'[h] = call[h]
  BY OthersUntouched
<1>2. CASE call'[h] = call[h]
  <2> DEFINE c == call[h]
  <2>1. /\ c.image \in Contents
        /\ JournalOf(c.image, cutoff[at[h]], c.id, begun) /\ UsesTo(c.image, nextId)
        /\ \A o \in Proc : InTx(o) /\ o # h => Unused(c.image, call[o].id)
        /\ OwnRows(c.image, c.batch, c.id, c.done)
    BY <1>2 DEF JournalInv, TypeInv, Call
  <2>2. /\ JournalOf(c.image, cutoff'[at[h]], c.id, begun') /\ UsesTo(c.image, nextId')
        /\ \A o \in Proc : InTx(o)' /\ (InTx(o) => Unused(c.image, call[o].id)) =>
             Unused(c.image, call'[o].id)
    BY <1>1, <2>1, FileKeepsJournal
  <2> QED
    BY <1>1, <1>2, <2>1, <2>2
<1>3. CASE h = g /\ \E now \in Second : Execute(g, now)
  <2>1. PICK now \in Second : Execute(g, now)
    BY <1>3
  <2> DEFINE c == call[g]
             base == IF c.locked THEN c.image ELSE file[at[g]]
             done == Executed(base, c, Jobs(c.batch)[c.done + 1], now)
  <2>2. /\ c \in Call /\ base \in Contents /\ at[g] \in Part /\ now \in Nat
        /\ c.done + 1 \in DOMAIN Jobs(c.batch) /\ (c.locked <=> c.done > 0) /\ c.done \in Nat
        /\ call'[g].image = done
        /\ call'[g].batch = c.batch /\ call'[g].id = c.id /\ call'[g].done = c.done + 1
    BY <2>1, ExecutedImage
  <2>3. /\ JournalOf(base, cutoff[at[g]], c.id, begun) /\ UsesTo(base, nextId)
        /\ \A o \in Proc : InTx(o) /\ o # g => Unused(base, call[o].id)
        /\ OwnRows(base, c.batch, c.id, c.done)
    <3>1. CASE c.locked
      BY <3>1 DEF JournalInv
    <3>2. CASE ~c.locked
      <4>1. base = file[at[g]] /\ base \in worlds[at[g]] /\ c.done = 0
        BY <2>2, <3>2 DEF TypeInv
      <4>2. /\ JournalOf(base, cutoff[at[g]], 0, begun) /\ UsesTo(base, nextId)
            /\ \A o \in Proc : InTx(o) => Unused(base, call[o].id)
        BY <2>2, <4>1 DEF JournalInv
      <4>3. JournalOf(base, cutoff[at[g]], c.id, begun)
        <5>1. \A d \in base.commits : d.id # 0
          BY <4>2 DEF UsesTo
        <5> QED
          BY <4>2, <5>1 DEF JournalOf
      <4>4. OwnRows(base, c.batch, c.id, c.done)
        BY <1>1, <1>3, <4>1, <4>2 DEF OwnRows
      <4> QED
        BY <4>2, <4>3, <4>4
    <3> QED
      BY <3>1, <3>2
  <2>4. /\ begun' = begun /\ nextId' = nextId /\ nextId \in Nat
        /\ \A o \in Proc : o # g => call'[o] = call[o] /\ (InTx(o)' <=> InTx(o))
        /\ c.id \in 1..(nextId - 1)
    <3>1. /\ begun' = begun /\ nextId' = nextId /\ pc' = pc
          /\ \E d : call' = [call EXCEPT ![g] = d]
      BY <2>1 DEF Execute, history
    <3>2. \A o \in Proc : o # g => call'[o] = call[o]
      <4>1. call \in [Proc -> Call]
        BY DEF TypeInv
      <4> QED
        BY <3>1, <4>1
    <3>3. nextId \in Nat
      BY DEF TypeInv
    <3>4. c.id \in 1..(nextId - 1)
      BY <1>1, <1>3 DEF TxInv
    <3> QED
      BY <3>1, <3>2, <3>3, <3>4 DEF InTx
  <2>5. /\ JournalOf(done, cutoff[at[g]], c.id, begun)
        /\ OwnRows(done, c.batch, c.id, c.done + 1)
        /\ \A d \in done.commits : d \in base.commits \/ d.id = c.id
    <3> HIDE DEF c, base
    <3> QED
      BY <2>2, <2>3, StatementJournalled
  <2> HIDE DEF done, base
  <2>6. UsesTo(done, nextId)
    BY <2>3, <2>4, <2>5 DEF UsesTo
  <2>7. \A o \in Proc : InTx(o) /\ o # g => Unused(done, call[o].id)
    BY <1>1, <1>3, <2>3, <2>5 DEF Unused, TxInv
  <2> QED
    BY <1>1, <1>3, <2>2, <2>4, <2>5, <2>6, <2>7
<1> QED
  BY <1>1, <1>2, <1>3

\* The published files and the open transactions have whole journals.
LEMMA JournalInvariant == Spec => []JournalInv
<1>1. Init => JournalInv
  <2> SUFFICES ASSUME Init PROVE JournalInv
    OBVIOUS
  <2>1. \A g \in Proc : ~InTx(g) /\ ~call[g].locked
    BY NoCallIsIdle DEF Init, InTx
  <2>2. \A p \in Part : \A f \in worlds[p] : f.commits = {} /\ f.ops = {}
    BY DEF Init, EmptyFile
  <2> QED
    BY <2>1, <2>2 DEF JournalInv, JournalOf, UsesTo
<1>2. SlotInv /\ TypeInv /\ TxInv /\ JournalInv /\ [Next]_vars => JournalInv'
  <2> SUFFICES ASSUME SlotInv, TypeInv, TxInv, JournalInv, [Next]_vars PROVE JournalInv'
    OBVIOUS
  <2>1. ASSUME NEW g \in Proc, Step(g)
        PROVE  JournalInv'
    BY <2>1, StepKeepsFiles, StepKeepsOpenJournals DEF JournalInv, SlotInv
  <2>2. CASE Crash
    <3>1. /\ \A g \in Proc : ~InTx(g)' /\ ~call'[g].locked
          /\ \A p \in Part : \A f \in worlds'[p] : f \in worlds[p]
          /\ nextId' = nextId /\ begun' = begun /\ cutoff' = cutoff
      BY <2>2, CrashStep, NoCallIsIdle DEF Crash
    <3> QED
      BY <3>1 DEF JournalInv
  <2>3. CASE UNCHANGED vars
    BY <2>3 DEF vars, JournalInv, InTx
  <2> QED
    BY <2>1, <2>2, <2>3 DEF Next
<1> QED
  BY <1>1, <1>2, SlotInvariant, TypeCorrect, TxInvariant, PTL DEF Spec

\* Whatever commits, prunes and older calls interleave, and wherever the
\* process dies: the journal has every commit whole, but for pruned ones.
THEOREM JournalAlwaysWhole == Spec => []JournalWhole
<1>1. TypeInv /\ JournalInv => JournalWhole
  <2> SUFFICES ASSUME TypeInv, JournalInv, NEW p \in Part, NEW f \in worlds[p]
               PROVE  /\ \A o \in f.ops : \E c \in f.commits : c.id = o.id
                      /\ \A c \in f.commits :
                           LET ops == {o \in f.ops : o.id = c.id}
                           IN ops = OpsOf(c.id) \/ (ops = {} /\ c.at < cutoff[p])
    BY DEF JournalWhole
  <2>1. JournalOf(f, cutoff[p], 0, begun) /\ UsesTo(f, nextId)
    BY DEF JournalInv
  <2>2. ASSUME NEW c \in f.commits
        PROVE  WholeOps(begun[c.id], c.id) = OpsOf(c.id) /\ c.id # 0
    <3>1. c.id \in 1..(nextId - 1) /\ begun[c.id] \in Batch
      <4>1. c.id \in 1..(nextId - 1)
        BY <2>1 DEF UsesTo
      <4> QED
        BY <4>1, ElementOfSeq DEF TypeInv
    <3>2. \A j \in DOMAIN Jobs(begun[c.id]) : j <= Len(Jobs(begun[c.id]))
      BY <3>1, JobsProperties
    <3> QED
      BY <3>1, <3>2 DEF WholeOps, OpsTo, OpsOf, TypeInv
  <2> QED
    BY <2>1, <2>2 DEF JournalOf, RowsOf
<1> QED
  BY <1>1, TypeCorrect, JournalInvariant, PTL

----------------------------------------------------------------------------
(* Refinement: each file implements the abstract graph. *)

AskedFor == BatchChoice \cup LegacyChoice

ChosenInv == \A g \in Proc : InTx(g) => call[g].batch \in AskedFor

Graphs(p) == {f.quads : f \in worlds[p]}

Asked(p) == [g \in Proc |-> IF InTx(g) /\ at[g] = p THEN {Wanted(call[g].batch)} ELSE {}]

\* The batch of a call is the one it began with.
LEMMA BatchOfStep ==
  ASSUME SlotTypes, TypeInv, TxInv, NEW g \in Proc, NEW now \in Second, Execute(g, now)
  PROVE  \A h \in Proc : call'[h].batch = call[h].batch
<1>1. call'[g].batch = call[g].batch
  BY ExecutedImage
<1>2. \A h \in Proc : h # g => call'[h] = call[h]
  BY DEF Execute, TypeInv
<1> QED
  BY <1>1, <1>2

\* A call begins with one of the batches a Writer may be asked for.
LEMMA BatchOfStart ==
  ASSUME TypeInv, NEW g \in Proc, NEW b \in AskedFor, Starts(g, b)
  PROVE  /\ call'[g].batch = b
         /\ \A h \in Proc : h # g => call'[h] = call[h]
<1>1. /\ call'[g] = [NoCall EXCEPT !.batch = b, !.id = nextId]
      /\ \A h \in Proc : h # g => call'[h] = call[h]
  BY DEF Starts, Begin, TypeInv
<1>2. b \in Batch /\ nextId \in Nat
  BY ChoicesAreBatches DEF AskedFor, TypeInv
<1>3. LET c == [NoCall EXCEPT !.batch = b, !.id = nextId] IN
      c \in Call /\ c.batch = b /\ c.id = nextId /\ c.done = 0 /\ ~c.locked
  BY <1>2, StartedCall
<1> QED
  BY <1>1, <1>3

\* Every open call is for a batch a Writer may be asked for.
LEMMA NextKeepsChosen == SlotInv /\ TypeInv /\ TxInv /\ ChosenInv /\ [Next]_vars => ChosenInv'
<1> SUFFICES ASSUME SlotInv, TypeInv, TxInv, ChosenInv, [Next]_vars PROVE ChosenInv'
  OBVIOUS
<1>1. ASSUME NEW g \in Proc, Step(g)
      PROVE  ChosenInv'
  <2>1. CASE AtSlots
    BY <2>1 DEF AtSlots, ChosenInv
  <2>2. CASE \E b \in AskedFor : Starts(g, b)
    BY <2>2, BatchOfStart DEF Starts, ChosenInv
  <2>3. CASE (\E now \in Second : Execute(g, now)) /\ Stays
    BY <2>3, BatchOfStep DEF Stays, ChosenInv, SlotInv
  <2>4. CASE (CommitTx(g) \/ Rollback(g)) /\ Ends(g)
    <3>1. \A h \in Proc : InTx(h)' => InTx(h) /\ call'[h] = call[h]
      BY <2>4 DEF Ends, TypeInv
    <3> QED
      BY <3>1 DEF ChosenInv
  <2>5. CASE (\E before \in Second : PruneOps(g, before)) /\ Stays
    BY <2>5 DEF PruneOps, Stays, ChosenInv
  <2> QED
    BY <1>1, <2>1, <2>2, <2>3, <2>4, <2>5, StepKinds DEF SlotInv, AskedFor
<1>2. CASE Crash
  BY <1>2, CrashStep DEF ChosenInv
<1>3. CASE UNCHANGED vars
  BY <1>3 DEF vars, ChosenInv, InTx
<1> QED
  BY <1>1, <1>2, <1>3 DEF Next

LEMMA ChosenAtFirst == Init => ChosenInv
BY DEF Init, ChosenInv, InTx

LEMMA ChosenInvariant == Spec => []ChosenInv
BY ChosenAtFirst, NextKeepsChosen, SlotInvariant, TypeCorrect, TxInvariant, PTL DEF Spec

\* A step that leaves a file's quads, its worlds' and its calls alone is a
\* stutter of its graph.
LEMMA GraphStutters ==
  ASSUME NEW p \in Part, Graphs(p)' = Graphs(p), Asked(p)' = Asked(p),
         file'[p].quads = file[p].quads, failed'[p] = failed[p]
  PROVE  UNCHANGED Graph(p)!vars
BY DEF Graph!vars, Graphs, Asked

\* A call that begins is a request to the graph of its file.
LEMMA GraphAsks ==
  ASSUME SlotTypes, TypeInv, NEW g \in Proc, NEW b \in AskedFor, Starts(g, b), NEW p \in Part
  PROVE  [Graph(p)!Next]_(Graph(p)!vars)
<1>1. /\ ~InTx(g) /\ InTx(g)' /\ call'[g].batch = b
      /\ \A h \in Proc : h # g => (InTx(h)' <=> InTx(h)) /\ at'[h] = at[h] /\ call'[h] = call[h]
      /\ file' = file /\ worlds' = worlds /\ failed' = failed
  BY BatchOfStart DEF Starts, contents
<1>2. CASE at'[g] = p
  <2>1. Asked(p)' = [Asked(p) EXCEPT ![g] = {Wanted(b)}] /\ Asked(p)[g] = {}
    BY <1>1, <1>2 DEF Asked
  <2>2. Graph(p)!Ask(g, Wanted(b))
    BY <1>1, <2>1 DEF Graph!Ask, Asked
  <2>3. Wanted(b) \in {Wanted(d) : d \in BatchChoice \cup LegacyChoice}
    BY DEF AskedFor
  <2> QED
    BY <2>2, <2>3 DEF Graph!Next
<1>3. CASE at'[g] # p
  <2>1. Asked(p)' = Asked(p)
    BY <1>1, <1>3 DEF Asked
  <2> QED
    BY <1>1, <2>1, GraphStutters DEF Graphs
<1> QED
  BY <1>2, <1>3

\* COMMIT applies the whole batch to the graph of its file.
LEMMA GraphCommits ==
  ASSUME SlotTypes, TypeInv, TxInv, ImageInv, ChosenInv, NEW g \in Proc, CommitTx(g), Ends(g),
         NEW p \in Part
  PROVE  [Graph(p)!Next]_(Graph(p)!vars)
<1>0. PICK b \in AskedFor : b = call[g].batch
  BY DEF ChosenInv, Ends
<1> DEFINE wanted == Wanted(b)
<1>1. /\ InTx(g) /\ ~InTx(g)' /\ at[g] \in Part /\ b \in Batch /\ b = call[g].batch
      /\ \A h \in Proc : h # g => (InTx(h)' <=> InTx(h)) /\ at'[h] = at[h] /\ call'[h] = call[h]
      /\ failed' = [failed EXCEPT ![at[g]] = failed[at[g]] \ {g}]
      /\ call[g].done = Len(Jobs(b)) /\ call[g].image \in Contents
  BY <1>0 DEF Ends, CommitTx, TypeInv, SlotTypes, Call
<1>2. CASE at[g] = p
  <2>1. Asked(p)' = [Asked(p) EXCEPT ![g] = {}] /\ Asked(p)[g] = {wanted}
    BY <1>1, <1>2 DEF Asked
  <2>2. failed'[p] = failed[p] \ {g}
    BY <1>1, <1>2 DEF TypeInv
  <2>3. /\ file'[p].quads = (file[p].quads \cup wanted.adds) \ wanted.removes
        /\ Graphs(p)' = Graphs(p) \cup {file'[p].quads}
    <3>1. CASE call[g].locked
      <4>1. Publish(p, call[g].image)
        BY <1>2, <3>1 DEF CommitTx
      <4>2. file'[p] = call[g].image /\ worlds'[p] = worlds[p] \cup {call[g].image}
        BY <4>1 DEF Publish, TypeInv
      <4>3. call[g].image.quads = (file[p].quads \cup wanted.adds) \ wanted.removes
        BY <1>1, <1>2, <3>1, AllDone DEF ImageInv
      <4> QED
        BY <4>2, <4>3 DEF Graphs
    <3>2. CASE ~call[g].locked
      <4>1. call[g].done = 0
        BY <3>2 DEF TxInv, TypeInv, Call
      <4>2. wanted.adds = {} /\ wanted.removes = {}
        BY <1>1, <4>1, AllDone, NothingYet
      <4>3. file' = file /\ worlds' = worlds
        BY <3>2 DEF CommitTx, contents
      <4>4. file[p].quads \in Graphs(p)
        BY DEF Graphs, TypeInv
      <4> QED
        BY <4>2, <4>3, <4>4 DEF Graphs
    <3> QED
      BY <3>1, <3>2
  <2> HIDE DEF wanted
  <2>4. Graph(p)!Commit(g, wanted)
    BY <2>1, <2>2, <2>3 DEF Graph!Commit, Asked, Graphs
  <2>5. wanted \in {Wanted(d) : d \in BatchChoice \cup LegacyChoice}
    BY <1>1 DEF AskedFor, wanted
  <2>6. Graph(p)!Next
    BY <2>4, <2>5 DEF Graph!Next
  <2> QED
    BY <2>6
<1>3. CASE at[g] # p
  <2>1. file'[p] = file[p] /\ worlds'[p] = worlds[p] /\ failed'[p] = failed[p]
    BY <1>1, <1>3 DEF CommitTx, Publish, contents, TypeInv
  <2>2. Asked(p)' = Asked(p)
    BY <1>1, <1>3 DEF Asked
  <2> QED
    BY <2>1, <2>2, GraphStutters DEF Graphs
<1> QED
  BY <1>2, <1>3

\* A rollback refuses the request and leaves the graph alone.
LEMMA GraphRefuses ==
  ASSUME SlotTypes, TypeInv, NEW g \in Proc, Rollback(g), Ends(g), NEW p \in Part
  PROVE  [Graph(p)!Next]_(Graph(p)!vars)
<1>1. /\ InTx(g) /\ ~InTx(g)' /\ at[g] \in Part /\ file' = file /\ worlds' = worlds
      /\ \A h \in Proc : h # g => (InTx(h)' <=> InTx(h)) /\ at'[h] = at[h] /\ call'[h] = call[h]
      /\ failed' = [failed EXCEPT ![at[g]] = failed[at[g]] \cup {g}]
  BY DEF Ends, Rollback, contents, TypeInv, SlotTypes
<1>2. CASE at[g] = p
  <2>1. Asked(p)' = [Asked(p) EXCEPT ![g] = {}] /\ Asked(p)[g] # {}
    BY <1>1, <1>2 DEF Asked
  <2>2. failed'[p] = failed[p] \cup {g}
    BY <1>1, <1>2 DEF TypeInv
  <2>3. Graph(p)!Refuse(g)
    BY <1>1, <2>1, <2>2 DEF Graph!Refuse, Asked
  <2> QED
    BY <2>3 DEF Graph!Next
<1>3. CASE at[g] # p
  <2>1. failed'[p] = failed[p]
    BY <1>1, <1>3 DEF TypeInv
  <2>2. Asked(p)' = Asked(p)
    BY <1>1, <1>3 DEF Asked
  <2> QED
    BY <1>1, <2>1, <2>2, GraphStutters DEF Graphs
<1> QED
  BY <1>2, <1>3

\* A crash leaves the graph one of its durable states.
LEMMA GraphRecovers ==
  ASSUME TypeInv, Crash, NEW p \in Part
  PROVE  Graph(p)!Recover
<1>1. /\ \A g \in Proc : ~InTx(g)'
      /\ file'[p] \in worlds[p] /\ worlds'[p] = {file'[p]} /\ failed'[p] = {}
  BY CrashStep DEF Crash
<1>2. Asked(p)' = [g \in Proc |-> {}]
  BY <1>1 DEF Asked
<1>3. file'[p].quads \in Graphs(p) /\ Graphs(p)' = {file'[p].quads}
  BY <1>1 DEF Graphs
<1> QED
  BY <1>1, <1>2, <1>3 DEF Graph!Recover, Graph!NothingAsked, Asked, Graphs

\* Every step is a step of the graph of each file, or a stutter.
LEMMA StepOfGraph ==
  ASSUME SlotTypes, TypeInv, TxInv, ImageInv, ChosenInv, NEW g \in Proc, Step(g), NEW p \in Part
  PROVE  [Graph(p)!Next]_(Graph(p)!vars)
<1>1. CASE AtSlots
  <2>1. /\ file' = file /\ worlds' = worlds /\ failed' = failed /\ call' = call
        /\ \A h \in Proc : (InTx(h)' <=> InTx(h)) /\ (InTx(h) => at'[h] = at[h])
    BY <1>1 DEF AtSlots, contents, history
  <2>2. Asked(p)' = Asked(p)
    BY <2>1 DEF Asked
  <2> QED
    BY <2>1, <2>2, GraphStutters DEF Graphs
<1>2. CASE \E b \in AskedFor : Starts(g, b)
  BY <1>2, GraphAsks
<1>3. CASE (\E now \in Second : Execute(g, now)) /\ Stays
  <2>1. /\ file' = file /\ worlds' = worlds /\ failed' = failed
        /\ \A h \in Proc : /\ (InTx(h)' <=> InTx(h)) /\ at'[h] = at[h]
                            /\ call'[h].batch = call[h].batch
    BY <1>3, BatchOfStep DEF Execute, Stays, contents, history
  <2>2. Asked(p)' = Asked(p)
    BY <2>1 DEF Asked
  <2> QED
    BY <2>1, <2>2, GraphStutters DEF Graphs
<1>4. CASE (\E before \in Second : PruneOps(g, before)) /\ Stays
  <2>1. PICK before \in Second : PruneOps(g, before)
    BY <1>4
  <2>2. Asked(p)' = Asked(p) /\ failed' = failed
    BY <1>4, <2>1 DEF Asked, PruneOps, Stays
  <2>3. file'[p].quads = file[p].quads /\ Graphs(p)' = Graphs(p)
    <3> DEFINE pruned == Pruned(file[at[g]], before)
    <3>1. /\ at[g] \in Part /\ pruned.quads = file[at[g]].quads
          /\ file[at[g]].quads \in Graphs(at[g])
      BY DEF Pruned, TypeInv, Contents, SlotTypes, Graphs
    <3>2. /\ file' = [file EXCEPT ![at[g]] = pruned]
          /\ worlds' = [worlds EXCEPT ![at[g]] = worlds[at[g]] \cup {pruned}]
      BY <2>1 DEF PruneOps, Publish
    <3> HIDE DEF pruned
    <3>3. CASE p = at[g]
      <4>1. file'[p] = pruned /\ worlds'[p] = worlds[p] \cup {pruned}
        BY <3>1, <3>2, <3>3 DEF TypeInv
      <4> QED
        BY <3>1, <3>3, <4>1 DEF Graphs
    <3>4. CASE p # at[g]
      BY <3>1, <3>2, <3>4 DEF Graphs, TypeInv
    <3> QED
      BY <3>3, <3>4
  <2> QED
    BY <2>2, <2>3, GraphStutters
<1> QED
  BY <1>1, <1>2, <1>3, <1>4, GraphCommits, GraphRefuses, StepKinds DEF AskedFor

\* Each file is a graph of its own that changes by whole batches: a batch is
\* applied once and completely if its call returns nil, not at all if it
\* returns an error, and after a crash the file is one of its published states.
THEOREM SqliteImplementsQuadGraph == Spec => ImplementsQuadGraph
<1>1. Init => \A p \in Part : Graph(p)!Init
  <2> SUFFICES ASSUME Init, NEW p \in Part PROVE Graph(p)!Init
    OBVIOUS
  <2>1. /\ file[p].quads = {} /\ failed[p] = {} /\ \A g \in Proc : ~InTx(g)
        /\ worlds[p] = {EmptyFile} /\ EmptyFile.quads = {}
    BY DEF Init, EmptyFile, InTx
  <2>2. Graphs(p) = {{}} /\ Asked(p) = [g \in Proc |-> {}]
    BY <2>1 DEF Graphs, Asked
  <2> QED
    BY <2>1, <2>2 DEF Graph!Init, Graph!NothingAsked, Graphs, Asked
<1>2. SlotInv /\ TypeInv /\ TxInv /\ ImageInv /\ ChosenInv /\ [Next]_vars
        => [\A p \in Part : [Graph(p)!Next]_(Graph(p)!vars)]_vars
  <2> SUFFICES ASSUME SlotInv, TypeInv, TxInv, ImageInv, ChosenInv, Next, NEW p \in Part
               PROVE  [Graph(p)!Next]_(Graph(p)!vars)
    OBVIOUS
  <2>1. CASE \E g \in Proc : Step(g)
    BY <2>1, StepOfGraph DEF SlotInv
  <2>2. CASE Crash
    BY <2>2, GraphRecovers DEF Graph!Next
  <2> QED
    BY <2>1, <2>2 DEF Next
<1>3. (\A p \in Part : Graph(p)!Init) /\ [][\A p \in Part : [Graph(p)!Next]_(Graph(p)!vars)]_vars
        => ImplementsQuadGraph
  BY DEF ImplementsQuadGraph
<1> QED
  BY <1>1, <1>2, <1>3, SlotInvariant, TypeCorrect, TxInvariant, ImageInvariant, ChosenInvariant, PTL
  DEF Spec

----------------------------------------------------------------------------
(* Replaying the journal *)

\* Operations of commits before this one, or of its statements so far.
Earlier(ops, id, done) == \A o \in ops : o.id < id \/ (o.id = id /\ o.seq < done)

\* With audited Writers only, the commit ids of a file grow in the order of
\* its commits, since one goroutine at a time draws an id for it.
ReplayInv ==
  /\ \A g \in Proc : pc[g] # "legacy"
  /\ \A p \in Part : \A f \in worlds[p] :
       /\ Replayed(f.ops) = f.quads
       /\ \A g \in Proc : InTx(g) /\ at[g] = p => \A o \in f.ops : o.id < call[g].id
  /\ \A g \in Proc : LET c == call[g] IN c.locked =>
       Replayed(c.image.ops) = c.image.quads /\ Earlier(c.image.ops, c.id, c.done)

\* The last operation on a quad decides.
LEMMA LastDecides ==
  ASSUME NEW ops \in SUBSET OpRow, NEW op \in OpRow, Earlier(ops, op.id, op.seq)
  PROVE  /\ op.kind = "add" => Replayed(ops \cup {op}) = Replayed(ops) \cup {op.quad}
         /\ op.kind = "remove" => Replayed(ops \cup {op}) = Replayed(ops) \ {op.quad}
<1>1. \A o \in ops : Before(o, op) /\ ~Before(op, o)
  BY DEF Earlier, Before, OpRow
<1>2. op.quad \in Quad /\ op.kind \in {"add", "remove"} /\ ~Before(op, op)
  BY DEF OpRow, Before
<1>3. ASSUME op.kind = "add"
      PROVE  Replayed(ops \cup {op}) = Replayed(ops) \cup {op.quad}
  <2>1. ASSUME NEW q \in Quad
        PROVE  q \in Replayed(ops \cup {op}) <=> q \in Replayed(ops) \/ q = op.quad
    BY <1>1, <1>2, <1>3 DEF Replayed
  <2> QED
    BY <1>2, <2>1 DEF Replayed
<1>4. ASSUME op.kind = "remove"
      PROVE  Replayed(ops \cup {op}) = Replayed(ops) \ {op.quad}
  <2>1. ASSUME NEW q \in Quad
        PROVE  q \in Replayed(ops \cup {op}) <=> q \in Replayed(ops) /\ q # op.quad
    BY <1>1, <1>2, <1>4 DEF Replayed
  <2> QED
    BY <1>2, <2>1 DEF Replayed
<1> QED
  BY <1>3, <1>4

\* A statement of an audited batch keeps the journal in step with the quads.
LEMMA StatementReplayed ==
  ASSUME NEW f \in Contents, NEW c \in Call, NEW now \in Nat, c.batch.audit,
         c.done + 1 \in DOMAIN Jobs(c.batch),
         Replayed(f.ops) = f.quads, Earlier(f.ops, c.id, c.done)
  PROVE  LET done == Executed(f, c, Jobs(c.batch)[c.done + 1], now)
         IN Replayed(done.ops) = done.quads /\ Earlier(done.ops, c.id, c.done + 1)
<1> DEFINE b == c.batch
           k == c.done
           id == c.id
           job == Jobs(b)[k + 1]
           done == Executed(f, c, job, now)
           op == [id |-> id, seq |-> job.seq, kind |-> job.do, quad |-> job.quad]
<1>1. /\ b \in Batch /\ k \in Nat /\ id \in Nat /\ k + 1 \in DOMAIN Jobs(b)
      /\ f \in [quads : SUBSET Quad, commits : SUBSET [id : Nat, at : Nat], ops : SUBSET OpRow]
  BY DEF Call, Contents
<1>2. RowFirst(b) = 1
  BY DEF RowFirst
<1>3. /\ job.do \in {"commit", "add", "remove"}
      /\ job.do # "commit" => job.quad \in Quad /\ job.seq \in Nat /\ k + 1 = 1 + job.seq
  BY <1>1, <1>2, JobKinds
<1>4. OpOf(c, job) = {op}
  BY DEF OpOf
<1>5. Replayed(f.ops) = f.quads /\ Earlier(f.ops, id, k)
  OBVIOUS
<1> SUFFICES Replayed(done.ops) = done.quads /\ Earlier(done.ops, id, k + 1)
  OBVIOUS
<1> HIDE DEF b, k, id, job, op
<1>6. Earlier(f.ops, id, k + 1)
  <2>1. \A o \in f.ops : o.seq \in Nat
    BY <1>1 DEF OpRow
  <2> QED
    BY <1>1, <1>5, <2>1 DEF Earlier
<1>7. CASE job.do = "commit"
  <2>1. done.ops = f.ops /\ done.quads = f.quads
    BY <1>1, <1>7 DEF Executed
  <2> QED
    BY <1>5, <1>6, <2>1
<1>8. CASE job.do # "commit"
  <2>1. op.id = id /\ op.seq = k /\ op.kind = job.do /\ op.quad = job.quad
    BY <1>1, <1>3, <1>8 DEF op
  <2>2. op \in OpRow
    BY <1>1, <1>3, <1>8 DEF op, OpRow
  <2>3. done.ops = f.ops \cup {op}
    <3>1. CASE job.do = "add"
      BY <1>1, <1>4, <3>1 DEF Executed
    <3>2. CASE job.do = "remove"
      BY <1>1, <1>4, <3>2 DEF Executed
    <3> QED
      BY <1>3, <1>8, <3>1, <3>2
  <2>4. done.quads = IF job.do = "add" THEN f.quads \cup {job.quad} ELSE f.quads \ {job.quad}
    <3>1. CASE job.do = "add"
      BY <1>1, <3>1 DEF Executed
    <3>2. CASE job.do = "remove"
      BY <1>1, <3>2 DEF Executed
    <3> QED
      BY <1>3, <1>8, <3>1, <3>2
  <2> HIDE DEF done
  <2>5. /\ op.kind = "add" => Replayed(f.ops \cup {op}) = Replayed(f.ops) \cup {op.quad}
        /\ op.kind = "remove" => Replayed(f.ops \cup {op}) = Replayed(f.ops) \ {op.quad}
    BY <1>1, <1>5, <2>1, <2>2, LastDecides
  <2>6. Replayed(done.ops) = done.quads
    BY <1>3, <1>5, <1>8, <2>1, <2>3, <2>4, <2>5
  <2>7. Earlier(done.ops, id, k + 1)
    BY <1>1, <1>6, <2>1, <2>3 DEF Earlier
  <2> QED
    BY <2>6, <2>7
<1> QED
  BY <1>7, <1>8

AuditedWritersOnly == LegacyChoice = {} /\ ~Prune /\ \A b \in BatchChoice : b.audit

\* With audited writers only, every open call is audited.
LEMMA NoLegacyCalls ==
  ASSUME AuditedWritersOnly, SlotTypes, \A g \in Proc : pc[g] # "legacy", NEW g \in Proc, Step(g)
  PROVE  \A h \in Proc : pc'[h] # "legacy"
<1> USE DEF Goto, SlotTypes
<1>1. CASE \E p \in Part : WriterFor(g, p)
  BY <1>1 DEF WriterFor
<1>2. CASE Cancelled(g) \/ Close(g)
  BY <1>2 DEF Cancelled, Close
<1>3. CASE \E b \in BatchChoice : BeginCommit(g, b)
  BY <1>3 DEF BeginCommit
<1>4. CASE Write(g)
  BY <1>4 DEF Write, Execute, CommitTx, Rollback, Return
<1>5. CASE \E before \in Second : PruneOps(g, before)
  BY <1>5 DEF PruneOps
<1> QED
  BY <1>1, <1>2, <1>3, <1>4, <1>5 DEF Step, AuditedWritersOnly

\* No step parts the journal of a file from its quads.
LEMMA StepKeepsReplay ==
  ASSUME AuditedWritersOnly, SlotInv, TypeInv, TxInv, ChosenInv, JournalInv, ReplayInv,
         NEW g \in Proc, Step(g)
  PROVE  ReplayInv'
<1>0. SlotTypes /\ OneWriterPerPartition
  BY DEF SlotInv
<1>1. \A h \in Proc : pc'[h] # "legacy"
  BY <1>0, NoLegacyCalls DEF ReplayInv
<1>2. ASSUME NEW h \in Proc, NEW o \in Proc, InTx(h), InTx(o), at[h] = at[o]
      PROVE  h = o
  <2>1. pc[h] = "commit" /\ pc[o] = "commit" /\ at[h] \in Part
    BY <1>0, <1>2 DEF InTx, ReplayInv, SlotTypes
  <2> QED
    BY <1>0, <1>2, <2>1 DEF OneWriterPerPartition
<1>3. /\ nextId \in Nat
      /\ \A h \in Proc : InTx(h)' =>
           \/ InTx(h) /\ at'[h] = at[h] /\ call'[h].id = call[h].id
           \/ nextId' = nextId + 1 /\ call'[h].id = nextId
  BY <1>0, HistoryStep
<1>4. ASSUME NEW p \in Part, NEW f \in worlds'[p]
      PROVE  /\ Replayed(f.ops) = f.quads
             /\ \A h \in Proc : InTx(h)' /\ at'[h] = p => \A o \in f.ops : o.id < call'[h].id
  <2>1. CASE f \in worlds[p]
    <3>1. \A o \in f.ops : o.id < nextId
      <4>1. \A o \in f.ops : \E c \in f.commits : c.id = o.id
        BY <2>1 DEF JournalInv, JournalOf
      <4>2. \A c \in f.commits : c.id \in 1..(nextId - 1)
        BY <2>1 DEF JournalInv, UsesTo
      <4> QED
        BY <1>3, <4>1, <4>2
    <3> QED
      BY <1>3, <2>1, <3>1 DEF ReplayInv
  <2>2. CASE CommitTx(g) /\ call[g].locked /\ InTx(g) /\ p = at[g] /\ f = call[g].image
    <3>1. Replayed(f.ops) = f.quads
      BY <2>2 DEF ReplayInv
    <3>2. ~InTx(g)' /\ nextId' = nextId
      BY <1>0, <2>2 DEF CommitTx, Return, InTx, SlotTypes
    <3>3. \A h \in Proc : ~(InTx(h)' /\ at'[h] = p)
      BY <1>2, <1>3, <2>2, <3>2
    <3> QED
      BY <3>1, <3>3
  <2>3. CASE \E before \in Second : PruneOps(g, before)
    BY <2>3 DEF PruneOps, AuditedWritersOnly
  <2> QED
    BY <1>0, <2>1, <2>2, <2>3, WhatIsPublished
<1>5. ASSUME NEW h \in Proc, call'[h].locked
      PROVE  LET c == call'[h] IN
             Replayed(c.image.ops) = c.image.quads /\ Earlier(c.image.ops, c.id, c.done)
  <2>1. /\ InTx(h)
        /\ (h = g /\ \E now \in Second : Execute(g, now)) \/ call'[h] = call[h]
    BY <1>0, <1>5, OthersUntouched
  <2>2. CASE call'[h] = call[h]
    BY <1>5, <2>2 DEF ReplayInv
  <2>3. CASE h = g /\ \E now \in Second : Execute(g, now)
    <3>1. PICK now \in Second : Execute(g, now)
      BY <2>3
    <3> DEFINE c == call[g]
               base == IF c.locked THEN c.image ELSE file[at[g]]
               done == Executed(base, c, Jobs(c.batch)[c.done + 1], now)
    <3>2. /\ c \in Call /\ base \in Contents /\ at[g] \in Part /\ now \in Nat
          /\ c.done + 1 \in DOMAIN Jobs(c.batch) /\ (c.locked <=> c.done > 0) /\ c.done \in Nat
          /\ call'[g].image = done /\ call'[g].id = c.id /\ call'[g].done = c.done + 1
      BY <1>0, <3>1, ExecutedImage
    <3>3. c.batch.audit
      BY <2>1, <2>3 DEF ChosenInv, AskedFor, AuditedWritersOnly
    <3>4. Replayed(base.ops) = base.quads /\ Earlier(base.ops, c.id, c.done)
      <4>1. CASE c.locked
        BY <4>1 DEF ReplayInv
      <4>2. CASE ~c.locked
        <5>1. base \in worlds[at[g]]
          BY <3>2, <4>2 DEF TypeInv
        <5> QED
          BY <2>1, <2>3, <3>2, <5>1 DEF ReplayInv, Earlier
      <4> QED
        BY <4>1, <4>2
    <3> HIDE DEF c, base
    <3>5. Replayed(done.ops) = done.quads /\ Earlier(done.ops, c.id, c.done + 1)
      BY <3>2, <3>3, <3>4, StatementReplayed
    <3> QED
      BY <2>3, <3>2, <3>5
  <2> QED
    BY <2>1, <2>2, <2>3
<1> QED
  BY <1>1, <1>4, <1>5 DEF ReplayInv

\* Nothing but audited Writers, and no prune: the operations of the journal in
\* the order of their commit ids give the quads of the file, in every state
\* and after every crash, however the Writers take turns.
THEOREM JournalAlwaysReplays ==
  ASSUME AuditedWritersOnly
  PROVE  Spec => []JournalReplays
<1>1. Init => ReplayInv
  <2> SUFFICES ASSUME Init PROVE ReplayInv
    OBVIOUS
  <2>1. \A g \in Proc : pc[g] = "idle" /\ ~InTx(g) /\ ~call[g].locked
    BY NoCallIsIdle DEF Init, InTx
  <2>2. \A p \in Part : \A f \in worlds[p] : f.quads = {} /\ f.ops = {}
    BY DEF Init, EmptyFile
  <2> QED
    BY <2>1, <2>2 DEF ReplayInv, Replayed
<1>2. SlotInv /\ TypeInv /\ TxInv /\ ChosenInv /\ JournalInv /\ ReplayInv /\ [Next]_vars
        => ReplayInv'
  <2> SUFFICES ASSUME SlotInv, TypeInv, TxInv, ChosenInv, JournalInv, ReplayInv, [Next]_vars
               PROVE  ReplayInv'
    OBVIOUS
  <2>1. CASE \E g \in Proc : Step(g)
    BY <2>1, StepKeepsReplay
  <2>2. CASE Crash
    <3>1. /\ \A g \in Proc : ~InTx(g)' /\ ~call'[g].locked /\ pc'[g] = "idle"
          /\ \A p \in Part : \A f \in worlds'[p] : f \in worlds[p]
      BY <2>2, CrashStep, NoCallIsIdle DEF Crash
    <3> QED
      BY <3>1 DEF ReplayInv
  <2>3. CASE UNCHANGED vars
    BY <2>3 DEF vars, ReplayInv, InTx
  <2> QED
    BY <2>1, <2>2, <2>3 DEF Next
<1>3. ReplayInv => JournalReplays
  BY DEF ReplayInv, JournalReplays
<1> QED
  BY <1>1, <1>2, <1>3, SlotInvariant, TypeCorrect, TxInvariant, ChosenInvariant, JournalInvariant,
     PTL DEF Spec

=============================================================================
