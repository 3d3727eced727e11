------------------------ MODULE IngestPipelineProofs ------------------------
(* Theorems about IngestPipeline, for every value of its constants. *)
EXTENDS IngestPipeline, FiniteSetTheorems, SequenceTheorems, TLAPS

Channel == [buf : Seq(Quad), closed : BOOLEAN]

\* The places of the quads of the runs rs.
PlacesOf(rs) == {x \in (DOMAIN rs) \X (1..ChunkSize) : x[2] \in DOMAIN rs[x[1]]}

TypeInv ==
  /\ input \in Seq(Quad) /\ default \in AnyLabel /\ cap \in Nat /\ forwarded \in BOOLEAN
  /\ sent \in 0..Len(input) /\ silent \in BOOLEAN
  /\ chan \in [{"in", "inner"} -> Channel]
  /\ fwd \in {"receive", "send", "done"}
  /\ held \in Seq(Quad) /\ Len(held) = IF fwd = "send" THEN 1 ELSE 0
  /\ cancelled \in BOOLEAN
  /\ call \in {"start", "reading", "ingest", "count", "done"}
  /\ chunk \in Seq(Quad) /\ Len(chunk) < ChunkSize
  /\ runs \in Seq(Seq(Quad)) /\ \A i \in DOMAIN runs : Len(runs[i]) \in 1..ChunkSize
  /\ IsFiniteSet(PlacesOf(runs))
  /\ deltas \in [AnyLabel -> Nat]

\* How many quads are in the runs, and how far into the input the quads before
\* the second channel reach, and before the forwarding goroutine.
Flushed == Cardinality(PlacesOf(runs))
AtTap   == Flushed + Len(chunk)
Ahead   == AtTap + Len(chan["inner"].buf)

\* The quads of b are those of s after the first n.
From(s, b, n) == n + Len(b) <= Len(s) /\ \A i \in DOMAIN b : b[i] = s[n + i]

InputFrom(b, n) == From(input, b, n)

Reading == call \in {"start", "reading"}

\* While the call reads, the runs, the chunk, the channels and what the
\* forwarding goroutine holds are the input in its order; that goroutine loses
\* at most one quad, when it is cancelled.
StreamInv ==
  /\ Reading =>
       /\ InputFrom(chunk, Flushed) /\ InputFrom(chan[Tap].buf, AtTap)
       /\ forwarded /\ fwd # "done" =>
            /\ InputFrom(held, Ahead) /\ InputFrom(chan["in"].buf, Ahead + Len(held))
            /\ sent = Ahead + Len(held) + Len(chan["in"].buf)
       /\ forwarded /\ fwd = "done" =>
            /\ sent - Ahead - Len(chan["in"].buf) \in 0..1
            /\ ~cancelled => Ahead = Len(input)
       /\ ~forwarded => sent = AtTap + Len(chan["in"].buf)
  /\ chan["in"].closed => sent = Len(input)
  /\ forwarded => (chan["inner"].closed <=> fwd = "done")
  /\ ~forwarded => fwd = "done" /\ chan["inner"].buf = <<>>

\* The channels hold what they have room for; an unbuffered one, what the
\* receiver that waits at it is about to take.
RoomInv ==
  /\ \A c \in {"in", "inner"} : Len(chan[c].buf) <= IF cap = 0 THEN 1 ELSE cap
  /\ forwarded /\ cap = 0 /\ chan["in"].buf # <<>> => fwd = "receive"

\* Effective(q) under the default label d; the first n quads of s so, and their
\* tally.
Eff(q, d)            == IF q.label = NoLabel THEN [q EXCEPT !.label = d] ELSE q
EffectiveOf(qs, d)   == {Eff(qs[i], d) : i \in DOMAIN qs}
TallyOf(qs, d)       == [l \in AnyLabel |-> Cardinality({i \in DOMAIN qs : Eff(qs[i], d).label = l})]
AllOf(rs, d)         == UNION {EffectiveOf(rs[i], d) : i \in DOMAIN rs}
EffectiveTo(s, d, n) == {Eff(s[i], d) : i \in 1..n}
TallyTo(s, d, n)     == [l \in AnyLabel |-> Cardinality({i \in 1..n : Eff(s[i], d).label = l})]

Good(q, d) == q.stmt # EmptyStmt /\ Eff(q, d).label \in ValidLabel

\* The runs hold the first quads of the input, each of them checked and counted.
RunsInv ==
  /\ call # "done" =>
       /\ Flushed <= Len(input)
       /\ AllOf(runs, default) = EffectiveTo(input, default, Flushed)
       /\ deltas = TallyTo(input, default, Flushed)
       /\ \A i \in 1..Flushed : Good(input[i], default)
       /\ \A i \in DOMAIN chunk : chunk[i].stmt # EmptyStmt
       /\ counted = Zero /\ result = NoResult
       /\ call # "count" => stored = {}
  /\ call \in {"ingest", "count"} /\ (forwarded => ~cancelled) => Flushed = Len(input)
  /\ call = "count" => stored = EffectiveTo(input, default, Flushed)

\* The call stored and counted the first n quads of s, and says so.
Whole(s, d, n, kept, tally, res) ==
  /\ kept = EffectiveTo(s, d, n) /\ tally = TallyTo(s, d, n)
  /\ res.ingested = Cardinality(kept) /\ res.ingested + res.skipped = n

\* What a call that returned has done.
ResultInv ==
  call = "done" =>
    /\ Ok => \E n \in 0..Len(input) :
               /\ Whole(input, default, n, stored, counted, result)
               /\ \A i \in 1..n : Good(input[i], default)
               /\ (forwarded => ~cancelled) => n = Len(input)
    /\ ~Ok => stored = {} /\ counted = Zero

PipelineInv == TypeInv /\ StreamInv /\ RoomInv /\ RunsInv /\ ResultInv

----------------------------------------------------------------------------

\* What the assumption on the constants gives.
LEMMA Constants ==
  /\ ChunkSize \in Nat \ {0} /\ NoLabel \in AnyLabel /\ NoLabel \in ValidLabel
  /\ \A q \in Quad, d \in AnyLabel : Eff(q, d) \in Quad /\ Eff(q, d).stmt = q.stmt
BY PipelineAssumption DEF AnyLabel, ValidLabel, Eff, Quad

\* One more quad from the input.
LEMMA AppendFrom ==
  ASSUME NEW s \in Seq(Quad), NEW b \in Seq(Quad), NEW n \in Nat, From(s, b, n),
         NEW q \in Quad, n + Len(b) + 1 <= Len(s), q = s[n + Len(b) + 1]
  PROVE  From(s, Append(b, q), n)
BY AppendProperties DEF From

\* One quad less: the next of the input.
LEMMA TailFrom ==
  ASSUME NEW s \in Seq(Quad), NEW b \in Seq(Quad), NEW n \in Nat, From(s, b, n), b # <<>>
  PROVE  /\ Head(b) \in Quad /\ Tail(b) \in Seq(Quad) /\ Len(b) = Len(Tail(b)) + 1
         /\ n + 1 <= Len(s) /\ Head(b) = s[n + 1] /\ From(s, Tail(b), n + 1)
<1>1. /\ Head(b) \in Quad /\ Tail(b) \in Seq(Quad) /\ Len(Tail(b)) = Len(b) - 1 /\ Len(b) \in Nat \ {0}
      /\ Head(b) = b[1]
  OBVIOUS
<1>2. \A i \in DOMAIN Tail(b) : Tail(b)[i] = b[i + 1] /\ i + 1 \in DOMAIN b /\ i \in Nat
  BY <1>1
<1>3. \A i \in DOMAIN Tail(b) : Tail(b)[i] = s[n + 1 + i]
  <2> TAKE i \in DOMAIN Tail(b)
  <2>1. n + (i + 1) = n + 1 + i
    BY <1>2
  <2> QED
    BY <1>2, <2>1 DEF From
<1> QED
  BY <1>1, <1>3 DEF From

\* A run more has its quads more.
LEMMA OneRunMore ==
  ASSUME NEW rs \in Seq(Seq(Quad)), IsFiniteSet(PlacesOf(rs)),
         NEW qs \in Seq(Quad), Len(qs) <= ChunkSize
  PROVE  /\ IsFiniteSet(PlacesOf(Append(rs, qs)))
         /\ Cardinality(PlacesOf(Append(rs, qs))) = Cardinality(PlacesOf(rs)) + Len(qs)
<1> DEFINE k   == Len(rs) + 1
           New == {<<k, j>> : j \in 1..Len(qs)}
           f   == [j \in 1..Len(qs) |-> <<k, j>>]
           all == Append(rs, qs)
<1>1. Len(rs) \in Nat /\ Len(qs) \in Nat /\ DOMAIN qs = 1..Len(qs) /\ DOMAIN rs = 1..Len(rs)
  OBVIOUS
<1>2. /\ DOMAIN all = 1..k /\ all[k] = qs
      /\ \A i \in DOMAIN rs : all[i] = rs[i]
  BY <1>1, AppendProperties
<1>3. f \in Bijection(1..Len(qs), New)
  <2>1. f \in [1..Len(qs) -> New] /\ \A j \in 1..Len(qs) : f[j] = <<k, j>>
    OBVIOUS
  <2>2. \A i, j \in 1..Len(qs) : f[i] = f[j] => i = j
    BY <2>1
  <2>3. \A y \in New : \E j \in 1..Len(qs) : f[j] = y
    BY <2>1
  <2> HIDE DEF f, New
  <2> QED
    BY <2>1, <2>2, <2>3 DEF Bijection, Injection, Surjection, IsInjective
<1>4. IsFiniteSet(1..Len(qs)) /\ Cardinality(1..Len(qs)) = Len(qs)
  <2> DEFINE m == Len(qs)
  <2>1. m \in Nat
    BY <1>1
  <2> HIDE DEF m
  <2>2. IsFiniteSet(1..m) /\ Cardinality(1..m) = m
    BY <2>1, FS_Interval
  <2> QED
    BY <2>2 DEF m
<1>5. ExistsBijection(1..Len(qs), New)
  BY <1>3 DEF ExistsBijection
<1>6. IsFiniteSet(New) /\ Cardinality(New) = Len(qs)
  BY <1>4, <1>5, FS_Bijection
<1>7. PlacesOf(all) = PlacesOf(rs) \cup New
  <2> HIDE DEF all
  <2>1. \A i, j : <<i, j>> \in PlacesOf(all) <=> i \in DOMAIN all /\ j \in 1..ChunkSize /\ j \in DOMAIN all[i]
    BY DEF PlacesOf
  <2>2. \A i, j : <<i, j>> \in PlacesOf(rs) <=> i \in DOMAIN rs /\ j \in 1..ChunkSize /\ j \in DOMAIN rs[i]
    BY DEF PlacesOf
  <2>3. \A i : i \in DOMAIN all <=> i \in DOMAIN rs \/ i = k
    BY <1>1, <1>2
  <2>4. k \notin DOMAIN rs
    BY <1>1
  <2>5. \A j : j \in DOMAIN all[k] <=> j \in 1..Len(qs)
    BY <1>1, <1>2
  <2>6. 1..Len(qs) \subseteq 1..ChunkSize
    BY <1>1, Constants
  <2>7. \A x \in PlacesOf(all) : \E i, j : x = <<i, j>>
    BY DEF PlacesOf
  <2>8. \A x \in PlacesOf(rs) : \E i, j : x = <<i, j>>
    BY DEF PlacesOf
  <2>9. \A i, j : <<i, j>> \in New <=> i = k /\ j \in 1..Len(qs)
    OBVIOUS
  <2>10. \A x \in New : \E i, j : x = <<i, j>>
    OBVIOUS
  <2> HIDE DEF New, k
  <2>11. \A i, j : <<i, j>> \in PlacesOf(all) <=> <<i, j>> \in PlacesOf(rs) \/ <<i, j>> \in New
    BY <1>2, <2>1, <2>2, <2>3, <2>4, <2>5, <2>6, <2>9
  <2> QED
    BY <2>7, <2>8, <2>10, <2>11
<1>8. PlacesOf(rs) \cap New = {}
  BY <1>1 DEF PlacesOf
<1> HIDE DEF all, New, k, f
<1> DEFINE Old == PlacesOf(rs)
<1>9. Cardinality(Old \cup New) = Cardinality(Old) + Cardinality(New)
  <2>1. /\ IsFiniteSet(Old) /\ Old \cap New = {} /\ Cardinality({}) = 0
        /\ Cardinality(Old) \in Nat /\ Cardinality(New) \in Nat
    BY <1>6, <1>8, FS_EmptySet, FS_CardinalityType
  <2> HIDE DEF Old
  <2>2. Cardinality(Old \cup New) = Cardinality(Old) + Cardinality(New) - Cardinality(Old \cap New)
    BY <1>6, <2>1, FS_Union
  <2>3. IsFiniteSet(Old \cap New)
    BY <2>1, FS_Subset
  <2>4. Cardinality(Old \cap New) = 0
    BY <2>1, <2>3, FS_EmptySet
  <2> QED
    BY <1>6, <2>1, <2>2, <2>4
<1>10. Cardinality(PlacesOf(rs)) \in Nat
  BY FS_CardinalityType
<1>11. IsFiniteSet(PlacesOf(rs) \cup New)
  BY <1>6, FS_Union
<1> QED
  BY <1>1, <1>6, <1>7, <1>9, <1>10, <1>11 DEF all

\* Without runs there is no place.
LEMMA NoPlaces == IsFiniteSet(PlacesOf(<<>>)) /\ Cardinality(PlacesOf(<<>>)) = 0
<1>1. PlacesOf(<<>>) = {}
  BY DEF PlacesOf
<1> QED
  BY <1>1, FS_EmptySet

\* The tally and the quads of the first n and of the next ones.
LEMMA MoreOfInput ==
  ASSUME NEW s \in Seq(Quad), NEW d \in AnyLabel, NEW n \in Nat, NEW qs \in Seq(Quad), From(s, qs, n)
  PROVE  /\ EffectiveTo(s, d, n + Len(qs)) = EffectiveTo(s, d, n) \cup EffectiveOf(qs, d)
         /\ TallyTo(s, d, n + Len(qs)) = Plus(TallyTo(s, d, n), TallyOf(qs, d))
         /\ TallyOf(qs, d) \in [AnyLabel -> Nat] /\ TallyTo(s, d, n) \in [AnyLabel -> Nat]
<1> DEFINE m == Len(qs)
           Shifted == {n + i : i \in 1..m}
<1>1. m \in Nat /\ DOMAIN qs = 1..m /\ \A i \in 1..m : qs[i] = s[n + i]
  BY DEF From
<1>2. \A i \in 1..(n + m) : i \in 1..n \/ (i - n \in 1..m /\ qs[i - n] = s[i])
  BY <1>1
<1>3. \A i \in 1..m : n + i \in 1..(n + m) /\ n + i \notin 1..n
  BY <1>1
<1> HIDE DEF m
<1>4. EffectiveTo(s, d, n + m) = EffectiveTo(s, d, n) \cup EffectiveOf(qs, d)
  <2>1. ASSUME NEW x \in EffectiveTo(s, d, n + m)
        PROVE  x \in EffectiveTo(s, d, n) \cup EffectiveOf(qs, d)
    <3>1. PICK i \in 1..(n + m) : x = Eff(s[i], d)
      BY DEF EffectiveTo
    <3> QED
      BY <1>1, <1>2, <3>1 DEF EffectiveTo, EffectiveOf
  <2>2. ASSUME NEW x \in EffectiveTo(s, d, n)
        PROVE  x \in EffectiveTo(s, d, n + m)
    BY <1>1 DEF EffectiveTo
  <2>3. ASSUME NEW x \in EffectiveOf(qs, d)
        PROVE  x \in EffectiveTo(s, d, n + m)
    BY <1>1, <1>3 DEF EffectiveTo, EffectiveOf
  <2> QED
    BY <2>1, <2>2, <2>3
<1>5. ASSUME NEW l \in AnyLabel
      PROVE  /\ TallyTo(s, d, n + m)[l] = TallyTo(s, d, n)[l] + TallyOf(qs, d)[l]
             /\ TallyTo(s, d, n)[l] \in Nat /\ TallyOf(qs, d)[l] \in Nat
  <2> DEFINE A == {i \in 1..n : Eff(s[i], d).label = l}
             B == {i \in 1..m : Eff(qs[i], d).label = l}
             C == {n + i : i \in B}
             f == [i \in B |-> n + i]
             D == {i \in 1..(n + m) : Eff(s[i], d).label = l}
  <2>1. IsFiniteSet(A) /\ IsFiniteSet(B)
    BY <1>1, FS_Interval, FS_Subset, SMTT(20)
  <2>2. f \in Bijection(B, C)
    <3>1. f \in [B -> C] /\ \A i \in B : f[i] = n + i
      OBVIOUS
    <3>2. \A i, j \in B : f[i] = f[j] => i = j
      BY <1>1, <3>1
    <3>3. \A y \in C : \E i \in B : f[i] = y
      BY <3>1
    <3> HIDE DEF f, B, C
    <3> QED
      BY <3>1, <3>2, <3>3 DEF Bijection, Injection, Surjection, IsInjective
  <2>3. IsFiniteSet(C) /\ Cardinality(C) = Cardinality(B)
    <3> HIDE DEF f, B, C
    <3>1. ExistsBijection(B, C)
      BY <2>2 DEF ExistsBijection
    <3> QED
      BY <2>1, <3>1, FS_Bijection
  <2>4. D = A \cup C
    <3>1. ASSUME NEW x \in D
          PROVE  x \in A \cup C
      <4>1. CASE x \in 1..n
        BY <4>1
      <4>2. CASE x - n \in 1..m /\ qs[x - n] = s[x]
        <5>1. x - n \in B /\ x = n + (x - n)
          BY <1>1, <4>2
        <5> QED
          BY <5>1
      <4> QED
        BY <1>2, <4>1, <4>2
    <3>2. ASSUME NEW x \in A
          PROVE  x \in D
      BY <1>1
    <3>3. ASSUME NEW x \in C
          PROVE  x \in D
      BY <1>1, <1>3
    <3> QED
      BY <3>1, <3>2, <3>3
  <2>5. A \cap C = {}
    BY <1>3
  <2> HIDE DEF A, B, C, D, f
  <2>6. Cardinality(A \cup C) = Cardinality(A) + Cardinality(C) - 0
    BY <2>1, <2>3, <2>5, FS_Union, FS_EmptySet
  <2>7. Cardinality(A) \in Nat /\ Cardinality(B) \in Nat
    BY <2>1, FS_CardinalityType
  <2>8. TallyTo(s, d, n + m)[l] = Cardinality(D) /\ TallyTo(s, d, n)[l] = Cardinality(A)
    BY DEF TallyTo, A, D
  <2>9. TallyOf(qs, d)[l] = Cardinality(B)
    BY <1>1 DEF TallyOf, B
  <2> QED
    BY <2>3, <2>4, <2>6, <2>7, <2>8, <2>9
<1>6. TallyTo(s, d, n + m) = Plus(TallyTo(s, d, n), TallyOf(qs, d))
  BY <1>5 DEF Plus, TallyTo
<1>7. TallyOf(qs, d) \in [AnyLabel -> Nat] /\ TallyTo(s, d, n) \in [AnyLabel -> Nat]
  BY <1>5 DEF TallyOf, TallyTo
<1> QED
  BY <1>4, <1>6, <1>7 DEF m

----------------------------------------------------------------------------
(* The steps *)

\* The counts of the quads read are numbers.
LEMMA FlushedType == TypeInv => Flushed \in Nat /\ AtTap \in Nat /\ Ahead \in Nat /\ Len(chunk) \in Nat
BY FS_CardinalityType DEF TypeInv, Flushed, AtTap, Ahead, Channel

\* What the call did stays while the others move, who can only cancel.
LEMMA CallRests ==
  ASSUME PipelineInv, UNCHANGED <<request, callVars>>, cancelled => cancelled'
  PROVE  /\ RunsInv' /\ ResultInv'
         /\ Flushed' = Flushed /\ AtTap' = AtTap
<1> USE DEF request, callVars
<1>1. Flushed' = Flushed /\ AtTap' = AtTap
  BY DEF Flushed, AtTap
<1>2. RunsInv'
  BY <1>1 DEF PipelineInv, RunsInv
<1>3. ResultInv'
  BY DEF PipelineInv, ResultInv, Ok
<1> QED
  BY <1>1, <1>2, <1>3

\* A channel with one quad more.
LEMMA Sent ==
  ASSUME TypeInv, NEW c \in {"in", "inner"}, NEW q \in Quad, Send(c, q)
  PROVE  /\ chan' \in [{"in", "inner"} -> Channel]
         /\ chan'[c].buf = Append(chan[c].buf, q) /\ Len(chan'[c].buf) = Len(chan[c].buf) + 1
         /\ chan'[c].closed = chan[c].closed
         /\ \A o \in {"in", "inner"} \ {c} : chan'[o] = chan[o]
<1> DEFINE d == [chan[c] EXCEPT !.buf = Append(@, q)]
<1>1. chan[c] \in Channel /\ chan[c].buf \in Seq(Quad)
  BY DEF TypeInv, Channel
<1>2. Append(chan[c].buf, q) \in Seq(Quad) /\ Len(Append(chan[c].buf, q)) = Len(chan[c].buf) + 1
  BY <1>1, AppendProperties
<1>3. d \in Channel /\ d.buf = Append(chan[c].buf, q) /\ d.closed = chan[c].closed
  BY <1>1, <1>2 DEF Channel
<1>4. chan' = [chan EXCEPT ![c] = d]
  BY DEF Send
<1> HIDE DEF d
<1> QED
  BY <1>2, <1>3, <1>4 DEF TypeInv

\* A channel with one quad less.
LEMMA Received ==
  ASSUME TypeInv, NEW c \in {"in", "inner"}, Pending(c), Receive(c)
  PROVE  /\ chan' \in [{"in", "inner"} -> Channel]
         /\ chan'[c].buf = Tail(chan[c].buf) /\ Len(chan[c].buf) = Len(chan'[c].buf) + 1
         /\ Head(chan[c].buf) \in Quad
         /\ chan'[c].closed = chan[c].closed
         /\ \A o \in {"in", "inner"} \ {c} : chan'[o] = chan[o]
<1>1. chan[c].buf \in Seq(Quad) /\ chan[c].buf # <<>>
  BY DEF TypeInv, Channel, Pending
<1> DEFINE b == chan[c].buf
<1>2. Tail(b) \in Seq(Quad) /\ Len(b) = Len(Tail(b)) + 1 /\ Head(b) \in Quad
  BY <1>1
<1> DEFINE d == [chan[c] EXCEPT !.buf = Tail(@)]
<1>3. d \in Channel /\ d.buf = Tail(b) /\ d.closed = chan[c].closed
  BY <1>2 DEF TypeInv, Channel
<1>4. chan' = [chan EXCEPT ![c] = d]
  BY DEF Receive
<1> HIDE DEF d
<1> QED
  BY <1>2, <1>3, <1>4 DEF TypeInv

\* A closed channel.
LEMMA Closed ==
  ASSUME TypeInv, NEW c \in {"in", "inner"}, Close(c)
  PROVE  /\ chan' \in [{"in", "inner"} -> Channel]
         /\ chan'[c].buf = chan[c].buf /\ chan'[c].closed
         /\ \A o \in {"in", "inner"} \ {c} : chan'[o] = chan[o]
BY DEF TypeInv, Close, Channel

\* The caller puts the next quad in its channel.
LEMMA SendsStep ==
  ASSUME PipelineInv, CallerSends
  PROVE  PipelineInv'
<1> USE DEF request, callVars, fwdVars, callerVars
<1> DEFINE q == input[sent + 1]
<1>1. /\ q \in Quad /\ sent \in Nat /\ sent < Len(input) /\ Len(input) \in Nat /\ input \in Seq(Quad)
      /\ Send("in", q) /\ sent' = sent + 1 /\ TypeInv /\ Room("in", InReceiverWaits)
      /\ UNCHANGED <<input, default, cap, forwarded, silent, cancelled, fwd, held, call, chunk, runs, deltas,
                     stored, counted, result>>
  BY DEF CallerSends, PipelineInv, TypeInv
<1> HIDE DEF q
<1>2. /\ chan' \in [{"in", "inner"} -> Channel]
      /\ chan'["in"].buf = Append(chan["in"].buf, q)
      /\ Len(chan'["in"].buf) = Len(chan["in"].buf) + 1
      /\ chan'["in"].closed = chan["in"].closed
      /\ chan'["inner"] = chan["inner"]
  BY <1>1, Sent
<1>3. RunsInv' /\ ResultInv' /\ Flushed' = Flushed /\ AtTap' = AtTap /\ Ahead' = Ahead
  BY <1>1, <1>2, CallRests DEF Ahead
<1>4. TypeInv'
  BY <1>1, <1>2 DEF TypeInv
<1>5. /\ Flushed \in Nat /\ AtTap \in Nat /\ Ahead \in Nat /\ Len(held) \in Nat
      /\ Len(chan["in"].buf) \in Nat /\ chan["in"].buf \in Seq(Quad)
  BY <1>1, FlushedType DEF TypeInv, Channel
<1>6. StreamInv'
  <2>1. StreamInv
    BY DEF PipelineInv
  <2>2. chan'["in"].closed => sent' = Len(input')
    BY <1>1, <1>2, <2>1 DEF StreamInv
  <2>3. ASSUME Reading', ~forwarded
        PROVE  /\ InputFrom(chunk, Flushed)' /\ InputFrom(chan[Tap].buf, AtTap)'
               /\ sent' = AtTap' + Len(chan'["in"].buf)
    <3>1. /\ From(input, chan["in"].buf, AtTap) /\ sent = AtTap + Len(chan["in"].buf)
          /\ From(input, chunk, Flushed)
      BY <1>1, <2>1, <2>3 DEF StreamInv, Reading, Tap, InputFrom
    <3>2. q = input[AtTap + Len(chan["in"].buf) + 1] /\ AtTap + Len(chan["in"].buf) + 1 <= Len(input)
      BY <1>1, <3>1 DEF q
    <3>3. From(input, chan'["in"].buf, AtTap)
      BY <1>1, <1>2, <1>5, <3>1, <3>2, AppendFrom
    <3>4. Tap' = "in" /\ InputFrom(chan[Tap].buf, AtTap)' /\ InputFrom(chunk, Flushed)'
      BY <1>1, <1>3, <2>3, <3>1, <3>3 DEF Tap, InputFrom
    <3>5. sent + 1 = AtTap + (Len(chan["in"].buf) + 1)
      BY <1>1, <1>5, <3>1
    <3> QED
      BY <1>1, <1>2, <1>3, <3>4, <3>5
  <2>4. ASSUME Reading', forwarded
        PROVE  /\ InputFrom(chunk, Flushed)' /\ InputFrom(chan[Tap].buf, AtTap)'
    BY <1>1, <1>2, <1>3, <2>1, <2>4 DEF StreamInv, Reading, Tap, InputFrom
  <2>5. ASSUME Reading', forwarded, fwd # "done"
        PROVE  /\ InputFrom(held, Ahead)' /\ InputFrom(chan["in"].buf, Ahead + Len(held))'
               /\ sent' = Ahead' + Len(held') + Len(chan'["in"].buf)
    <3>1. /\ From(input, chan["in"].buf, Ahead + Len(held)) /\ sent = Ahead + Len(held) + Len(chan["in"].buf)
          /\ From(input, held, Ahead)
      BY <1>1, <2>1, <2>5 DEF StreamInv, Reading, InputFrom
    <3>2. /\ q = input[(Ahead + Len(held)) + Len(chan["in"].buf) + 1]
          /\ (Ahead + Len(held)) + Len(chan["in"].buf) + 1 <= Len(input) /\ Ahead + Len(held) \in Nat
      <4>1. sent + 1 = (Ahead + Len(held)) + Len(chan["in"].buf) + 1 /\ Ahead + Len(held) \in Nat
        BY <1>1, <1>5, <3>1
      <4> QED
        BY <1>1, <4>1 DEF q
    <3>3. From(input, chan'["in"].buf, Ahead + Len(held))
      BY <1>1, <1>2, <1>5, <3>1, <3>2, AppendFrom
    <3>4. InputFrom(held, Ahead)' /\ InputFrom(chan["in"].buf, Ahead + Len(held))'
      BY <1>1, <1>3, <3>1, <3>3 DEF InputFrom
    <3>5. sent + 1 = Ahead + Len(held) + (Len(chan["in"].buf) + 1)
      <4> DEFINE h == Len(held)
                 b == Len(chan["in"].buf)
      <4>1. sent \in Nat /\ Ahead \in Nat /\ h \in Nat /\ b \in Nat /\ sent = Ahead + h + b
        BY <1>1, <1>5, <3>1
      <4> HIDE DEF h, b
      <4>2. sent + 1 = Ahead + h + (b + 1)
        BY <4>1
      <4> QED
        BY <4>2 DEF h, b
    <3> QED
      BY <1>1, <1>2, <1>3, <3>4, <3>5
  <2>6. ASSUME Reading', forwarded, fwd = "done"
        PROVE  /\ sent' - Ahead' - Len(chan'["in"].buf) \in 0..1
               /\ ~cancelled' => Ahead' = Len(input')
    <3>1. Reading
      BY <1>1, <1>3, <2>6 DEF Reading
    <3>2. /\ sent - Ahead - Len(chan["in"].buf) \in 0..1
          /\ ~cancelled => Ahead = Len(input)
      BY <1>1, <2>1, <2>6, <3>1 DEF StreamInv
    <3> DEFINE b == Len(chan["in"].buf)
    <3>3. /\ sent \in Nat /\ Ahead \in Nat /\ b \in Nat
          /\ Ahead' = Ahead /\ input' = input /\ cancelled' = cancelled
          /\ sent' = sent + 1 /\ Len(chan'["in"].buf) = b + 1
      BY <1>1, <1>2, <1>3, <1>5
    <3> HIDE DEF b
    <3>4. sent' - Ahead' - (b + 1) = sent - Ahead - b
      BY <3>3
    <3> QED
      BY <3>2, <3>3, <3>4 DEF b
  <2> QED
    BY <1>1, <1>2, <2>1, <2>2, <2>3, <2>4, <2>5, <2>6 DEF StreamInv
<1>7. RoomInv'
  <2>1. RoomInv /\ StreamInv
    BY DEF PipelineInv
  <2>2. Len(chan["in"].buf) < cap \/ (cap = 0 /\ chan["in"].buf = <<>> /\ InReceiverWaits)
    BY <1>1 DEF Room
  <2>3. Len(chan'["in"].buf) <= IF cap = 0 THEN 1 ELSE cap
    BY <1>1, <1>2, <1>5, <2>2 DEF TypeInv
  <2>4. forwarded /\ cap = 0 => fwd = "receive"
    BY <1>5, <2>2 DEF InReceiverWaits
  <2> QED
    BY <1>1, <1>2, <2>1, <2>3, <2>4 DEF RoomInv
<1> QED
  BY <1>3, <1>4, <1>6, <1>7 DEF PipelineInv

\* The caller has sent everything.
LEMMA ClosesStep ==
  ASSUME PipelineInv, CallerCloses
  PROVE  PipelineInv'
<1> USE DEF request, callVars, fwdVars, callerVars
<1>1. /\ Close("in") /\ TypeInv /\ sent = Len(input)
      /\ UNCHANGED <<input, default, cap, forwarded, sent, silent, cancelled, fwd, held, call, chunk, runs, deltas,
                     stored, counted, result>>
  BY DEF CallerCloses, PipelineInv
<1>2. /\ chan' \in [{"in", "inner"} -> Channel]
      /\ chan'["in"].buf = chan["in"].buf /\ chan'["inner"] = chan["inner"]
  BY <1>1, Closed
<1>3. RunsInv' /\ ResultInv' /\ Flushed' = Flushed /\ AtTap' = AtTap /\ Ahead' = Ahead
  BY <1>1, <1>2, CallRests DEF Ahead
<1>4. TypeInv'
  BY <1>1, <1>2 DEF TypeInv
<1>5. StreamInv'
  BY <1>1, <1>2, <1>3 DEF PipelineInv, StreamInv, Reading, Tap, InputFrom
<1>6. RoomInv'
  BY <1>1, <1>2 DEF PipelineInv, RoomInv
<1> QED
  BY <1>3, <1>4, <1>5, <1>6 DEF PipelineInv

\* The context is done.
LEMMA CancelsStep ==
  ASSUME PipelineInv, CallerCancels
  PROVE  PipelineInv'
<1> USE DEF request, callVars, fwdVars, callerVars
<1>1. /\ cancelled' /\ silent' \in BOOLEAN /\ cancelled' \in BOOLEAN
      /\ UNCHANGED <<input, default, cap, forwarded, sent, chan, fwd, held, call, chunk, runs, deltas,
                     stored, counted, result>>
  BY DEF CallerCancels
<1>2. RunsInv' /\ ResultInv' /\ Flushed' = Flushed /\ AtTap' = AtTap /\ Ahead' = Ahead
  BY <1>1, CallRests DEF Ahead
<1>3. TypeInv'
  BY <1>1 DEF PipelineInv, TypeInv
<1>4. StreamInv'
  BY <1>1, <1>2 DEF PipelineInv, StreamInv, Reading, Tap, InputFrom
<1>5. RoomInv'
  BY <1>1 DEF PipelineInv, RoomInv
<1> QED
  BY <1>2, <1>3, <1>4, <1>5 DEF PipelineInv

\* The forwarding goroutine takes the next quad of the input.
LEMMA ForwarderReceivesStep ==
  ASSUME PipelineInv, ForwarderReceives
  PROVE  PipelineInv'
<1> USE DEF request, callVars, fwdVars, callerVars
<1> DEFINE b == chan["in"].buf
           q == Head(b)
<1>1. /\ fwd = "receive" /\ Pending("in") /\ Receive("in") /\ TypeInv /\ held' = <<q>> /\ fwd' = "send"
      /\ UNCHANGED <<input, default, cap, forwarded, sent, silent, cancelled, call, chunk, runs, deltas,
                     stored, counted, result>>
  BY DEF ForwarderReceives, PipelineInv
<1>2. /\ chan' \in [{"in", "inner"} -> Channel]
      /\ chan'["in"].buf = Tail(b) /\ Len(b) = Len(chan'["in"].buf) + 1 /\ q \in Quad
      /\ chan'["in"].closed = chan["in"].closed
      /\ chan'["inner"] = chan["inner"]
      /\ b \in Seq(Quad) /\ b # <<>> /\ chan'["in"].buf \in Seq(Quad)
  BY <1>1, Received DEF TypeInv, Channel, Pending
<1>3. RunsInv' /\ ResultInv' /\ Flushed' = Flushed /\ AtTap' = AtTap /\ Ahead' = Ahead
  BY <1>1, <1>2, CallRests DEF Ahead
<1>4. /\ held' \in Seq(Quad) /\ Len(held') = 1 /\ held'[1] = q /\ held = <<>> /\ Len(held) = 0
      /\ DOMAIN held' = {1}
  BY <1>1, <1>2 DEF TypeInv
<1>5. TypeInv'
  BY <1>1, <1>2, <1>4 DEF TypeInv
<1>6. Flushed \in Nat /\ AtTap \in Nat /\ Ahead \in Nat /\ input \in Seq(Quad) /\ forwarded
  BY <1>1, FlushedType DEF TypeInv, PipelineInv, StreamInv
<1>7. StreamInv'
  <2>1. StreamInv
    BY DEF PipelineInv
  <2>2. ASSUME Reading'
        PROVE  /\ InputFrom(chunk, Flushed)' /\ InputFrom(chan[Tap].buf, AtTap)'
               /\ InputFrom(held, Ahead)' /\ InputFrom(chan["in"].buf, Ahead + Len(held))'
               /\ sent' = Ahead' + Len(held') + Len(chan'["in"].buf)
    <3>1. /\ From(input, b, Ahead + Len(held)) /\ sent = Ahead + Len(held) + Len(b)
          /\ From(input, chunk, Flushed) /\ From(input, chan["inner"].buf, AtTap)
      BY <1>1, <1>6, <2>1, <2>2 DEF StreamInv, Reading, Tap, InputFrom
    <3>2. From(input, b, Ahead) /\ sent = Ahead + Len(b)
      BY <1>2, <1>4, <1>6, <3>1
    <3>3. /\ Ahead + 1 <= Len(input) /\ q = input[Ahead + 1]
          /\ From(input, chan'["in"].buf, Ahead + 1)
      BY <1>2, <1>6, <3>2, TailFrom
    <3>4. From(input, held', Ahead)
      BY <1>4, <1>6, <3>3 DEF From
    <3>5. InputFrom(chunk, Flushed)' /\ InputFrom(chan[Tap].buf, AtTap)'
      BY <1>1, <1>2, <1>3, <1>6, <3>1 DEF Tap, InputFrom
    <3>6. InputFrom(held, Ahead)' /\ InputFrom(chan["in"].buf, Ahead + Len(held))'
      BY <1>1, <1>3, <1>4, <3>3, <3>4 DEF InputFrom
    <3>7. sent = Ahead + 1 + Len(chan'["in"].buf)
      <4> DEFINE n == Len(chan'["in"].buf)
      <4>1. n \in Nat /\ Ahead \in Nat /\ sent = Ahead + (n + 1)
        BY <1>2, <1>6, <3>2
      <4> HIDE DEF n
      <4>2. sent = Ahead + 1 + n
        BY <4>1
      <4> QED
        BY <4>2 DEF n
    <3> QED
      BY <1>1, <1>3, <1>4, <3>5, <3>6, <3>7
  <2> QED
    BY <1>1, <1>2, <1>6, <2>1, <2>2 DEF StreamInv
<1>8. RoomInv'
  <2>1. RoomInv /\ Len(b) \in Nat /\ Len(chan'["in"].buf) \in Nat
    BY <1>2 DEF PipelineInv
  <2>2. cap = 0 => chan'["in"].buf = <<>>
    BY <1>2, <2>1 DEF RoomInv
  <2>3. Len(chan'["in"].buf) <= IF cap = 0 THEN 1 ELSE cap
    <3> DEFINE n == Len(chan'["in"].buf)
               m == IF cap = 0 THEN 1 ELSE cap
    <3>1. n \in Nat /\ m \in Nat /\ n + 1 <= m
      BY <1>1, <1>2, <2>1 DEF RoomInv, TypeInv
    <3> HIDE DEF n, m
    <3>2. n <= m
      BY <3>1
    <3> QED
      BY <3>2 DEF n, m
  <2>4. Len(chan'["inner"].buf) <= IF cap = 0 THEN 1 ELSE cap
    BY <1>2, <2>1 DEF RoomInv
  <2> QED
    BY <1>1, <2>2, <2>3, <2>4 DEF RoomInv
<1> QED
  BY <1>3, <1>5, <1>7, <1>8 DEF PipelineInv

\* It puts what it holds behind what is in the second channel.
LEMMA ForwarderSendsStep ==
  ASSUME PipelineInv, ForwarderSends
  PROVE  PipelineInv'
<1> USE DEF request, callVars, fwdVars, callerVars
<1> DEFINE b == chan["inner"].buf
           q == held[1]
<1>1. /\ fwd = "send" /\ Room("inner", call = "reading") /\ Send("inner", q) /\ TypeInv /\ held' = <<>>
      /\ fwd' = "receive"
      /\ UNCHANGED <<input, default, cap, forwarded, sent, silent, cancelled, call, chunk, runs, deltas,
                     stored, counted, result>>
  BY DEF ForwarderSends, PipelineInv
<1>2. q \in Quad /\ Len(held) = 1 /\ DOMAIN held = {1} /\ b \in Seq(Quad) /\ forwarded /\ Len(b) \in Nat
  <2>1. held \in Seq(Quad) /\ Len(held) = 1 /\ b \in Seq(Quad)
    BY <1>1 DEF TypeInv, Channel
  <2>2. forwarded
    BY <1>1 DEF PipelineInv, StreamInv
  <2> QED
    BY <2>1, <2>2
<1> HIDE DEF q
<1>3. /\ chan' \in [{"in", "inner"} -> Channel]
      /\ chan'["inner"].buf = Append(b, q) /\ Len(chan'["inner"].buf) = Len(b) + 1
      /\ chan'["inner"].closed = chan["inner"].closed
      /\ chan'["in"] = chan["in"]
  BY <1>1, <1>2, Sent
<1>4. Flushed \in Nat /\ AtTap \in Nat /\ Ahead \in Nat /\ input \in Seq(Quad) /\ chan["in"].buf \in Seq(Quad)
  BY <1>1, FlushedType DEF TypeInv, Channel
<1>5. RunsInv' /\ ResultInv' /\ Flushed' = Flushed /\ AtTap' = AtTap
  BY <1>1, <1>3, CallRests
<1>6. Ahead' = Ahead + 1 /\ Ahead = AtTap + Len(b)
  BY <1>2, <1>3, <1>4, <1>5 DEF Ahead
<1>7. TypeInv'
  BY <1>1, <1>3 DEF TypeInv
<1>8. StreamInv'
  <2>1. StreamInv
    BY DEF PipelineInv
  <2>2. ASSUME Reading'
        PROVE  /\ InputFrom(chunk, Flushed)' /\ InputFrom(chan[Tap].buf, AtTap)'
               /\ InputFrom(held, Ahead)' /\ InputFrom(chan["in"].buf, Ahead + Len(held))'
               /\ sent' = Ahead' + Len(held') + Len(chan'["in"].buf)
    <3>1. /\ From(input, held, Ahead) /\ From(input, chan["in"].buf, Ahead + 1)
          /\ sent = Ahead + 1 + Len(chan["in"].buf)
          /\ From(input, chunk, Flushed) /\ From(input, b, AtTap)
      BY <1>1, <1>2, <2>1, <2>2 DEF StreamInv, Reading, Tap, InputFrom
    <3>2. q = input[Ahead + 1] /\ Ahead + 1 <= Len(input)
      BY <1>2, <3>1 DEF From, q
    <3>3. From(input, Append(b, q), AtTap)
      BY <1>2, <1>4, <1>6, <3>1, <3>2, AppendFrom
    <3>4. InputFrom(chunk, Flushed)' /\ InputFrom(chan[Tap].buf, AtTap)'
      BY <1>1, <1>2, <1>3, <1>5, <3>1, <3>3 DEF Tap, InputFrom
    <3>5. Len(held') = 0 /\ DOMAIN held' = {} /\ Ahead' + Len(held') = Ahead + 1 /\ Ahead' = Ahead + 1
      BY <1>1, <1>4, <1>6
    <3>6. InputFrom(chan["in"].buf, Ahead + Len(held))'
      BY <1>1, <1>3, <3>1, <3>5 DEF InputFrom
    <3>7. InputFrom(held, Ahead)'
      BY <1>1, <1>4, <3>2, <3>5 DEF InputFrom, From
    <3> QED
      BY <1>1, <1>3, <3>1, <3>4, <3>5, <3>6, <3>7
  <2> QED
    BY <1>1, <1>2, <1>3, <2>1, <2>2 DEF StreamInv
<1>9. RoomInv'
  <2>1. RoomInv
    BY DEF PipelineInv
  <2>2. Len(b) < cap \/ (cap = 0 /\ b = <<>>)
    BY <1>1 DEF Room
  <2>3. Len(chan'["inner"].buf) <= IF cap = 0 THEN 1 ELSE cap
    BY <1>1, <1>2, <1>3, <2>2 DEF TypeInv
  <2> QED
    BY <1>1, <1>3, <2>1, <2>3 DEF RoomInv
<1> QED
  BY <1>5, <1>7, <1>8, <1>9 DEF PipelineInv

\* It ends with nothing in its hands, or cancelled, losing one quad.
LEMMA ForwarderEndsStep ==
  ASSUME PipelineInv, ForwarderEnds
  PROVE  PipelineInv'
<1> USE DEF request, callVars, fwdVars, callerVars
<1>1. /\ (fwd = "receive" /\ Drained("in")) \/ (fwd = "send" /\ cancelled)
      /\ fwd' = "done" /\ held' = <<>> /\ Close("inner") /\ TypeInv
      /\ UNCHANGED <<input, default, cap, forwarded, sent, silent, cancelled, call, chunk, runs, deltas,
                     stored, counted, result>>
  BY DEF ForwarderEnds, PipelineInv
<1>2. /\ chan' \in [{"in", "inner"} -> Channel]
      /\ chan'["inner"].buf = chan["inner"].buf /\ chan'["inner"].closed /\ chan'["in"] = chan["in"]
  BY <1>1, Closed
<1>3. RunsInv' /\ ResultInv' /\ Flushed' = Flushed /\ AtTap' = AtTap /\ Ahead' = Ahead
  BY <1>1, <1>2, CallRests DEF Ahead
<1>4. TypeInv'
  BY <1>1, <1>2 DEF TypeInv
<1>5. /\ Flushed \in Nat /\ AtTap \in Nat /\ Ahead \in Nat /\ forwarded /\ StreamInv
      /\ Len(chan["in"].buf) \in Nat /\ Len(held) = IF fwd = "send" THEN 1 ELSE 0
  BY <1>1, FlushedType DEF TypeInv, PipelineInv, StreamInv, Channel
<1>6. StreamInv'
  <2>1. ASSUME Reading'
        PROVE  /\ InputFrom(chunk, Flushed)' /\ InputFrom(chan[Tap].buf, AtTap)'
               /\ sent' - Ahead' - Len(chan'["in"].buf) \in 0..1
               /\ ~cancelled' => Ahead' = Len(input')
    <3>1. /\ From(input, chunk, Flushed) /\ From(input, chan["inner"].buf, AtTap)
          /\ sent = Ahead + Len(held) + Len(chan["in"].buf)
      BY <1>1, <1>5, <2>1 DEF StreamInv, Reading, Tap, InputFrom
    <3>2. InputFrom(chunk, Flushed)' /\ InputFrom(chan[Tap].buf, AtTap)'
      BY <1>1, <1>2, <1>3, <1>5, <3>1 DEF Tap, InputFrom
    <3>3. sent - Ahead - Len(chan["in"].buf) \in 0..1
      <4> DEFINE h == Len(held)
                 n == Len(chan["in"].buf)
      <4>1. h \in {0, 1} /\ n \in Nat /\ Ahead \in Nat /\ sent = Ahead + h + n
        BY <1>5, <3>1
      <4> HIDE DEF h, n
      <4>2. sent - Ahead - n \in 0..1
        BY <4>1
      <4> QED
        BY <4>2 DEF n
    <3>4. ASSUME ~cancelled
          PROVE  Ahead = Len(input)
      <4>1. Len(held) = 0 /\ Len(chan["in"].buf) = 0 /\ sent = Len(input)
        BY <1>1, <1>5, <3>4 DEF Drained, StreamInv
      <4> QED
        BY <1>5, <3>1, <4>1
    <3> QED
      BY <1>1, <1>2, <1>3, <3>2, <3>3, <3>4
  <2> QED
    BY <1>1, <1>2, <1>5, <2>1 DEF StreamInv
<1>7. RoomInv'
  <2>1. forwarded /\ cap = 0 => chan["in"].buf = <<>>
    BY <1>1 DEF PipelineInv, RoomInv, Drained
  <2> QED
    BY <1>1, <1>2, <2>1 DEF PipelineInv, RoomInv
<1> QED
  BY <1>3, <1>4, <1>6, <1>7 DEF PipelineInv

\* The default label as a parameter.
LEMMA DefaultLabel ==
  /\ \A q : Effective(q) = Eff(q, default)
  /\ \A qs : EffectiveSet(qs) = EffectiveOf(qs, default) /\ LabelTally(qs) = TallyOf(qs, default)
  /\ \A qs : LabelsValid(qs) <=> \A i \in DOMAIN qs : Eff(qs[i], default).label \in ValidLabel
<1>1. \A q : Effective(q) = Eff(q, default)
  BY DEF Effective, Eff
<1> QED
  BY <1>1 DEF EffectiveSet, EffectiveOf, LabelTally, TallyOf, LabelsValid

\* A call that fails leaves the store alone; the channels keep what nobody reads.
LEMMA FailsStep ==
  ASSUME PipelineInv, NEW status \in {"invalid", "io", "cancelled"}, Fail(status),
         call \in {"start", "reading", "ingest"},
         UNCHANGED <<callerVars, fwdVars, cancelled, stored, counted>>,
         chan' \in [{"in", "inner"} -> Channel],
         \A c \in {"in", "inner"} :
           /\ chan'[c].closed = chan[c].closed /\ Len(chan'[c].buf) <= Len(chan[c].buf)
           /\ chan[c].buf = <<>> => chan'[c].buf = <<>>
  PROVE  PipelineInv'
<1> USE DEF request, fwdVars, callerVars
<1>1. /\ call' = "done" /\ chunk' = <<>> /\ runs' = <<>> /\ deltas' = Zero /\ result'.status = status
      /\ UNCHANGED <<input, default, cap, forwarded, sent, silent, fwd, held>> /\ TypeInv
      /\ stored' = {} /\ counted' = Zero
  BY DEF Fail, Return, NoResult, PipelineInv, RunsInv
<1>2. Zero \in [AnyLabel -> Nat] /\ Len(chunk') = 0 /\ Len(chunk') < ChunkSize
  BY <1>1, Constants DEF Zero
<1>3. TypeInv'
  BY <1>1, <1>2, NoPlaces DEF TypeInv
<1>4. StreamInv'
  BY <1>1 DEF PipelineInv, StreamInv, Reading
<1>5. RoomInv'
  <2>1. RoomInv /\ \A c \in {"in", "inner"} : Len(chan[c].buf) \in Nat /\ Len(chan'[c].buf) \in Nat
    BY <1>1 DEF PipelineInv, TypeInv, Channel
  <2>2. \A c \in {"in", "inner"} : Len(chan'[c].buf) <= IF cap = 0 THEN 1 ELSE cap
    BY <1>1, <2>1 DEF RoomInv, TypeInv
  <2> QED
    BY <1>1, <2>1, <2>2 DEF RoomInv
<1>6. RunsInv' /\ ResultInv'
  BY <1>1 DEF RunsInv, ResultInv, Ok
<1> QED
  BY <1>3, <1>4, <1>5, <1>6 DEF PipelineInv

\* A chunk becomes a run, which is checked and counted.
LEMMA ChunkFlushed ==
  ASSUME PipelineInv, call # "done", NEW qs \in Seq(Quad), From(input, qs, Flushed), Len(qs) <= ChunkSize,
         \A i \in DOMAIN qs : qs[i].stmt # EmptyStmt, LabelsValid(qs),
         runs' = IF qs = <<>> THEN runs ELSE Append(runs, qs),
         deltas' = Plus(deltas, LabelTally(qs)),
         UNCHANGED <<input, default>>
  PROVE  /\ runs' \in Seq(Seq(Quad)) /\ \A i \in DOMAIN runs' : Len(runs'[i]) \in 1..ChunkSize
         /\ IsFiniteSet(PlacesOf(runs')) /\ deltas' \in [AnyLabel -> Nat]
         /\ Flushed' = Flushed + Len(qs) /\ Flushed' <= Len(input)
         /\ AllOf(runs', default) = EffectiveTo(input, default, Flushed')
         /\ deltas' = TallyTo(input, default, Flushed')
         /\ \A i \in 1..Flushed' : Good(input[i], default)
<1>1. /\ input \in Seq(Quad) /\ default \in AnyLabel /\ Flushed \in Nat /\ runs \in Seq(Seq(Quad))
      /\ \A i \in DOMAIN runs : Len(runs[i]) \in 1..ChunkSize /\ IsFiniteSet(PlacesOf(runs))
      /\ deltas \in [AnyLabel -> Nat] /\ Len(qs) \in Nat /\ IsFiniteSet(PlacesOf(runs)) /\ TypeInv
  BY FlushedType DEF PipelineInv, TypeInv
<1>2. /\ Flushed <= Len(input)
      /\ AllOf(runs, default) = EffectiveTo(input, default, Flushed)
      /\ deltas = TallyTo(input, default, Flushed)
      /\ \A i \in 1..Flushed : Good(input[i], default)
  BY DEF PipelineInv, RunsInv
<1> DEFINE n == Flushed + Len(qs)
<1>3. /\ EffectiveTo(input, default, n) = EffectiveTo(input, default, Flushed) \cup EffectiveOf(qs, default)
      /\ TallyTo(input, default, n) = Plus(TallyTo(input, default, Flushed), TallyOf(qs, default))
      /\ TallyOf(qs, default) \in [AnyLabel -> Nat]
  BY <1>1, MoreOfInput
<1>4. deltas' = TallyTo(input, default, n) /\ deltas' \in [AnyLabel -> Nat]
  BY <1>1, <1>2, <1>3, DefaultLabel DEF Plus
<1>5. \A i \in 1..n : Good(input[i], default)
  <2> TAKE i \in 1..n
  <2>1. CASE i \in 1..Flushed
    BY <1>2, <2>1
  <2>2. CASE i \notin 1..Flushed
    <3>1. i - Flushed \in DOMAIN qs /\ qs[i - Flushed] = input[Flushed + (i - Flushed)] /\ Flushed + (i - Flushed) = i
      BY <1>1, <2>2 DEF From
    <3> QED
      BY <3>1, DefaultLabel DEF Good
  <2> QED
    BY <2>1, <2>2
<1>6. n <= Len(input)
  BY DEF From
<1>7. CASE qs = <<>>
  <2>1. n = Flushed /\ runs' = runs /\ Flushed' = Flushed
    BY <1>1, <1>7 DEF Flushed
  <2> QED
    BY <1>1, <1>2, <1>4, <1>5, <1>6, <2>1
<1>8. CASE qs # <<>>
  <2>1. runs' = Append(runs, qs) /\ Len(qs) \in 1..ChunkSize
    BY <1>1, <1>8, Constants
  <2>2. Flushed' = n /\ IsFiniteSet(PlacesOf(runs'))
    BY <1>1, <2>1, OneRunMore DEF Flushed
  <2>3. /\ runs' \in Seq(Seq(Quad)) /\ DOMAIN runs' = 1..(Len(runs) + 1) /\ runs'[Len(runs) + 1] = qs
        /\ \A i \in DOMAIN runs : runs'[i] = runs[i]
        /\ DOMAIN runs = 1..Len(runs) /\ Len(runs) \in Nat
    BY <1>1, <2>1, AppendProperties
  <2>4. \A i \in DOMAIN runs' : i \in DOMAIN runs \/ i = Len(runs) + 1
    BY <2>3
  <2>5. \A i \in DOMAIN runs' : Len(runs'[i]) \in 1..ChunkSize
    BY <1>1, <2>1, <2>3, <2>4
  <2>6. AllOf(runs', default)
          = AllOf(runs, default) \cup EffectiveOf(qs, default)
    <3>1. ASSUME NEW x \in AllOf(runs', default)
          PROVE  x \in AllOf(runs, default) \cup EffectiveOf(qs, default)
      BY <2>3, <2>4 DEF AllOf
    <3>2. ASSUME NEW x \in AllOf(runs, default)
          PROVE  x \in AllOf(runs', default)
      <4>1. PICK i \in DOMAIN runs : x \in EffectiveOf(runs[i], default)
        BY DEF AllOf
      <4>2. i \in DOMAIN runs' /\ x \in EffectiveOf(runs'[i], default)
        BY <2>3, <4>1
      <4> QED
        BY <4>2 DEF AllOf
    <3>3. ASSUME NEW x \in EffectiveOf(qs, default)
          PROVE  x \in AllOf(runs', default)
      <4>1. Len(runs) + 1 \in DOMAIN runs' /\ x \in EffectiveOf(runs'[Len(runs) + 1], default)
        BY <2>3, <3>3
      <4> QED
        BY <4>1 DEF AllOf
    <3> QED
      BY <3>1, <3>2, <3>3
  <2>7. AllOf(runs', default) = EffectiveTo(input, default, n)
    BY <1>2, <1>3, <2>6
  <2> HIDE DEF n
  <2> QED
    BY <1>4, <1>5, <1>6, <2>2, <2>3, <2>5, <2>7 DEF n
<1> QED
  BY <1>7, <1>8

\* The checks before the first read.
LEMMA BeginStep ==
  ASSUME PipelineInv, Begin
  PROVE  PipelineInv'
<1> USE DEF request, fwdVars, callerVars
<1>1. /\ call = "start" /\ UNCHANGED <<callerVars, chan, fwdVars, cancelled, stored, counted>>
      /\ chan' \in [{"in", "inner"} -> Channel]
      /\ \A c \in {"in", "inner"} : Len(chan[c].buf) \in Nat
  BY DEF Begin, PipelineInv, TypeInv, Channel
<1>2. CASE Fail("invalid") \/ Fail("io")
  BY <1>1, <1>2, FailsStep
<1>3. CASE call' = "reading" /\ UNCHANGED <<chunk, runs, deltas, result>>
  <2>1. Flushed' = Flushed /\ AtTap' = AtTap /\ Ahead' = Ahead /\ Tap' = Tap
    BY <1>1, <1>3 DEF Flushed, AtTap, Ahead, Tap
  <2>2. TypeInv'
    BY <1>1, <1>3 DEF PipelineInv, TypeInv
  <2>3. StreamInv'
    BY <1>1, <1>3, <2>1 DEF PipelineInv, StreamInv, Reading, InputFrom
  <2>4. RoomInv'
    BY <1>1 DEF PipelineInv, RoomInv
  <2>5. RunsInv' /\ ResultInv'
    BY <1>1, <1>3, <2>1 DEF PipelineInv, RunsInv, ResultInv
  <2> QED
    BY <2>2, <2>3, <2>4, <2>5 DEF PipelineInv
<1> QED
  BY <1>2, <1>3 DEF Begin

\* The call has taken one quad from its channel, into a chunk or a run.
LEMMA TapMoves ==
  ASSUME PipelineInv, call = "reading", Pending(Tap), Receive(Tap),
         UNCHANGED <<callerVars, fwdVars, cancelled>>, AtTap' = AtTap + 1, InputFrom(chunk, Flushed)'
  PROVE  StreamInv' /\ RoomInv'
<1> USE DEF request, fwdVars, callerVars
<1> DEFINE b == chan[Tap].buf
           rest == chan'[Tap].buf
<1>1. /\ Tap \in {"in", "inner"} /\ Tap' = Tap /\ TypeInv
      /\ UNCHANGED <<input, default, cap, forwarded, sent, silent, fwd, held>>
  BY DEF Tap, PipelineInv
<1>2. /\ chan' \in [{"in", "inner"} -> Channel]
      /\ rest = Tail(b) /\ Len(b) = Len(rest) + 1
      /\ chan'[Tap].closed = chan[Tap].closed
      /\ \A o \in {"in", "inner"} \ {Tap} : chan'[o] = chan[o]
      /\ b \in Seq(Quad) /\ b # <<>> /\ rest \in Seq(Quad)
  BY <1>1, Received DEF Pending, TypeInv, Channel
<1>3. AtTap \in Nat /\ Len(rest) \in Nat /\ input \in Seq(Quad) /\ Len(b) \in Nat
  BY <1>1, <1>2, FlushedType DEF TypeInv
<1>4. StreamInv /\ From(input, b, AtTap)
  BY DEF PipelineInv, StreamInv, Reading, InputFrom
<1>5. From(input, rest, AtTap + 1)
  BY <1>2, <1>3, <1>4, TailFrom
<1>6. InputFrom(chan[Tap].buf, AtTap)'
  BY <1>1, <1>5 DEF InputFrom
<1>7. ASSUME forwarded
      PROVE  Tap = "inner" /\ Ahead' = Ahead /\ chan'["in"] = chan["in"]
  <2>1. Tap = "inner" /\ Ahead = AtTap + Len(b) /\ Ahead' = AtTap' + Len(rest)
    BY <1>7 DEF Tap, Ahead
  <2>2. Ahead' = Ahead
    <3> DEFINE n == Len(rest)
    <3>1. Ahead = AtTap + (n + 1) /\ Ahead' = AtTap + 1 + n /\ n \in Nat
      BY <1>2, <1>3, <2>1
    <3> HIDE DEF n
    <3> QED
      BY <1>3, <3>1
  <2> QED
    BY <1>2, <2>1, <2>2
<1>8. ASSUME ~forwarded
      PROVE  sent = AtTap' + Len(chan'["in"].buf) /\ chan'["inner"] = chan["inner"]
  <2>1. Tap = "in" /\ sent = AtTap + Len(b)
    BY <1>4, <1>8 DEF Tap, StreamInv, Reading
  <2>2. sent = AtTap' + Len(rest)
    <3> DEFINE n == Len(rest)
    <3>1. sent = AtTap + (n + 1) /\ n \in Nat
      BY <1>2, <1>3, <2>1
    <3> HIDE DEF n
    <3>2. sent = AtTap' + n
      BY <1>3, <3>1
    <3> QED
      BY <3>2 DEF n
  <2> QED
    BY <1>2, <2>1, <2>2
<1>9. StreamInv'
  <2>1. Reading' /\ forwarded => (fwd # "done" =>
            /\ InputFrom(held, Ahead)' /\ InputFrom(chan["in"].buf, Ahead + Len(held))'
            /\ sent' = Ahead' + Len(held') + Len(chan'["in"].buf))
    BY <1>1, <1>4, <1>7 DEF StreamInv, Reading, InputFrom
  <2>2. Reading' /\ forwarded => (fwd = "done" =>
            /\ sent' - Ahead' - Len(chan'["in"].buf) \in 0..1
            /\ ~cancelled' => Ahead' = Len(input'))
    BY <1>1, <1>4, <1>7 DEF StreamInv, Reading
  <2>3. chan'["in"].closed = chan["in"].closed /\ chan'["inner"].closed = chan["inner"].closed
    BY <1>1, <1>2
  <2> QED
    BY <1>1, <1>4, <1>6, <1>8, <2>1, <2>2, <2>3 DEF StreamInv
<1>10. RoomInv'
  <2>1. Len(rest) <= IF cap = 0 THEN 1 ELSE cap
    <3> DEFINE n == Len(rest)
               m == IF cap = 0 THEN 1 ELSE cap
    <3>1. n \in Nat /\ m \in Nat /\ n + 1 <= m
      BY <1>1, <1>2, <1>3 DEF PipelineInv, RoomInv, TypeInv
    <3> HIDE DEF n, m
    <3>2. n <= m
      BY <3>1
    <3> QED
      BY <3>2 DEF n, m
  <2>2. \A c \in {"in", "inner"} : Len(chan'[c].buf) <= IF cap = 0 THEN 1 ELSE cap
    BY <1>1, <1>2, <2>1 DEF PipelineInv, RoomInv
  <2> QED
    BY <1>1, <1>7, <2>2 DEF PipelineInv, RoomInv
<1> QED
  BY <1>9, <1>10

\* The next quad goes to the chunk; a full chunk becomes a run.
LEMMA ReadStep ==
  ASSUME PipelineInv, ReadQuad
  PROVE  PipelineInv'
<1> USE DEF request, fwdVars, callerVars
<1> DEFINE q == Head(chan[Tap].buf)
           qs == Append(chunk, q)
<1>1. /\ call = "reading" /\ Pending(Tap) /\ Receive(Tap) /\ Tap \in {"in", "inner"} /\ TypeInv
      /\ UNCHANGED <<callerVars, fwdVars, cancelled, stored, counted>>
      /\ UNCHANGED <<input, default, cap, forwarded, sent, silent, fwd, held>>
  BY DEF ReadQuad, Tap, PipelineInv
<1>2. /\ chan' \in [{"in", "inner"} -> Channel] /\ q \in Quad
      /\ chan'[Tap].buf = Tail(chan[Tap].buf) /\ Len(chan[Tap].buf) = Len(chan'[Tap].buf) + 1
      /\ \A c \in {"in", "inner"} : chan'[c].closed = chan[c].closed
      /\ \A o \in {"in", "inner"} \ {Tap} : chan'[o] = chan[o]
      /\ chan[Tap].buf \in Seq(Quad) /\ chan[Tap].buf # <<>>
      /\ \A c \in {"in", "inner"} : Len(chan[c].buf) \in Nat /\ Len(chan'[c].buf) \in Nat
  BY <1>1, Received DEF Pending, TypeInv, Channel
<1>3. /\ \A c \in {"in", "inner"} : Len(chan'[c].buf) <= Len(chan[c].buf)
      /\ \A c \in {"in", "inner"} : chan[c].buf = <<>> => chan'[c].buf = <<>>
  <2>1. Len(chan'[Tap].buf) <= Len(chan[Tap].buf) /\ chan[Tap].buf # <<>>
    BY <1>1, <1>2
  <2>2. \A c \in {"in", "inner"} : c # Tap => chan'[c] = chan[c]
    BY <1>2
  <2>3. ASSUME NEW c \in {"in", "inner"}
        PROVE  Len(chan'[c].buf) <= Len(chan[c].buf) /\ (chan[c].buf = <<>> => chan'[c].buf = <<>>)
    <3>1. CASE c = Tap
      BY <2>1, <3>1
    <3>2. CASE c # Tap
      <4>1. chan'[c] = chan[c] /\ Len(chan[c].buf) \in Nat
        BY <1>2, <2>2, <3>2
      <4> QED
        BY <4>1
    <3> QED
      BY <3>1, <3>2
  <2> QED
    BY <2>3
<1>4. CASE Fail("invalid") \/ Fail("io")
  BY <1>1, <1>2, <1>3, <1>4, FailsStep
<1>5. /\ Flushed \in Nat /\ AtTap \in Nat /\ chunk \in Seq(Quad) /\ input \in Seq(Quad)
      /\ Len(chunk) \in Nat /\ Len(chunk) < ChunkSize /\ ChunkSize \in Nat
      /\ AtTap = Flushed + Len(chunk)
  BY <1>1, FlushedType, Constants DEF TypeInv, AtTap
<1>6. /\ From(input, chunk, Flushed) /\ From(input, chan[Tap].buf, AtTap)
      /\ AtTap + 1 <= Len(input) /\ q = input[AtTap + 1]
  <2>1. From(input, chunk, Flushed) /\ From(input, chan[Tap].buf, AtTap)
    BY <1>1 DEF PipelineInv, StreamInv, Reading, InputFrom
  <2> QED
    BY <1>2, <1>5, <2>1, TailFrom
<1>7. qs \in Seq(Quad) /\ Len(qs) = Len(chunk) + 1 /\ From(input, qs, Flushed)
  BY <1>2, <1>5, <1>6, AppendFrom, AppendProperties
<1>8. AtTap + 1 = Flushed + Len(qs)
  BY <1>5, <1>7
<1>9. q.stmt # EmptyStmt => \A i \in DOMAIN qs : qs[i].stmt # EmptyStmt
  <2>1. \A i \in DOMAIN chunk : chunk[i].stmt # EmptyStmt
    BY <1>1 DEF PipelineInv, RunsInv
  <2>2. \A i \in DOMAIN qs : qs[i] = q \/ (i \in DOMAIN chunk /\ qs[i] = chunk[i])
    BY <1>2, <1>5, AppendProperties
  <2> QED
    BY <2>1, <2>2
<1> HIDE DEF qs, q
<1>10. CASE /\ q.stmt # EmptyStmt /\ Len(qs) < ChunkSize /\ chunk' = qs
            /\ UNCHANGED <<call, runs, deltas, result>>
  <2>1. Flushed' = Flushed /\ AtTap' = AtTap + 1
    BY <1>8, <1>10 DEF Flushed, AtTap
  <2>2. InputFrom(chunk, Flushed)'
    BY <1>1, <1>7, <1>10, <2>1 DEF InputFrom
  <2>3. StreamInv' /\ RoomInv'
    BY <1>1, <2>1, <2>2, TapMoves
  <2>4. TypeInv'
    BY <1>1, <1>2, <1>7, <1>10 DEF TypeInv
  <2>5. RunsInv' /\ ResultInv'
    BY <1>1, <1>9, <1>10, <2>1 DEF PipelineInv, RunsInv, ResultInv
  <2> QED
    BY <2>3, <2>4, <2>5 DEF PipelineInv
<1>11. CASE /\ q.stmt # EmptyStmt /\ Len(qs) >= ChunkSize /\ LabelsValid(qs)
            /\ runs' = (IF qs = <<>> THEN runs ELSE Append(runs, qs))
            /\ deltas' = Plus(deltas, LabelTally(qs))
            /\ chunk' = <<>> /\ call' = "reading" /\ UNCHANGED result
  <2>1. /\ runs' \in Seq(Seq(Quad)) /\ \A i \in DOMAIN runs' : Len(runs'[i]) \in 1..ChunkSize
        /\ IsFiniteSet(PlacesOf(runs')) /\ deltas' \in [AnyLabel -> Nat]
        /\ Flushed' = Flushed + Len(qs) /\ Flushed' <= Len(input)
        /\ AllOf(runs', default) = EffectiveTo(input, default, Flushed')
        /\ deltas' = TallyTo(input, default, Flushed')
        /\ \A i \in 1..Flushed' : Good(input[i], default)
    <3>1. Len(qs) <= ChunkSize /\ call # "done"
      BY <1>1, <1>5, <1>7
    <3> QED
      BY <1>1, <1>7, <1>9, <1>11, <3>1, ChunkFlushed
  <2>2. AtTap' = AtTap + 1 /\ Len(chunk') = 0 /\ DOMAIN chunk' = {} /\ Flushed' = AtTap + 1
    BY <1>5, <1>8, <1>11, <2>1 DEF AtTap
  <2>3. InputFrom(chunk, Flushed)'
    BY <1>1, <1>5, <2>1, <2>2 DEF InputFrom, From
  <2>4. StreamInv' /\ RoomInv'
    BY <1>1, <2>2, <2>3, TapMoves
  <2>5. TypeInv'
    <3>1. chunk' \in Seq(Quad) /\ Len(chunk') < ChunkSize
      BY <1>11, <2>2, Constants
    <3> QED
      BY <1>1, <1>2, <1>11, <2>1, <3>1 DEF TypeInv
  <2>6. RunsInv' /\ ResultInv'
    BY <1>1, <1>11, <2>1, <2>2 DEF PipelineInv, RunsInv, ResultInv
  <2> QED
    BY <2>4, <2>5, <2>6 DEF PipelineInv
<1> QED
  BY <1>4, <1>10, <1>11 DEF ReadQuad, FlushChunk, q, qs

\* What a failing call leaves of the channels when it does not read.
LEMMA ChannelsRest ==
  ASSUME TypeInv, UNCHANGED chan
  PROVE  /\ chan' \in [{"in", "inner"} -> Channel]
         /\ \A c \in {"in", "inner"} :
              /\ chan'[c].closed = chan[c].closed /\ Len(chan'[c].buf) <= Len(chan[c].buf)
              /\ chan[c].buf = <<>> => chan'[c].buf = <<>>
<1>1. \A c \in {"in", "inner"} : Len(chan[c].buf) \in Nat
  BY DEF TypeInv, Channel
<1> QED
  BY <1>1 DEF TypeInv

\* At the end of its channel the call has read the whole input, unless the
\* forwarding goroutine was cancelled.
LEMMA AllRead ==
  ASSUME PipelineInv, call = "reading", Drained(Tap), forwarded => ~cancelled
  PROVE  Flushed + Len(chunk) = Len(input)
<1>1. /\ TypeInv /\ StreamInv /\ AtTap \in Nat /\ AtTap = Flushed + Len(chunk) /\ Len(input) \in Nat
      /\ chan[Tap].closed /\ Len(chan[Tap].buf) = 0
  BY FlushedType DEF PipelineInv, TypeInv, AtTap, Drained
<1>2. CASE forwarded
  <2>1. fwd = "done" /\ Ahead = AtTap + 0
    BY <1>1, <1>2 DEF StreamInv, Tap, Ahead
  <2> QED
    BY <1>1, <1>2, <2>1 DEF StreamInv, Reading
<1>3. CASE ~forwarded
  <2>1. sent = AtTap + 0 /\ sent = Len(input)
    BY <1>1, <1>3 DEF StreamInv, Reading, Tap
  <2> QED
    BY <1>1, <2>1
<1> QED
  BY <1>2, <1>3

\* The end of the channel: the last chunk becomes a run.
LEMMA ReadEndStep ==
  ASSUME PipelineInv, ReadEnd
  PROVE  PipelineInv'
<1> USE DEF request, fwdVars, callerVars
<1>1. /\ call = "reading" /\ Drained(Tap) /\ TypeInv
      /\ UNCHANGED <<callerVars, fwdVars, cancelled, chan, stored, counted>>
      /\ UNCHANGED <<input, default, cap, forwarded, sent, silent, fwd, held>>
  BY DEF ReadEnd, PipelineInv
<1>2. CASE Fail("invalid") \/ Fail("io")
  BY <1>1, <1>2, ChannelsRest, FailsStep
<1>3. CASE /\ LabelsValid(chunk)
           /\ runs' = (IF chunk = <<>> THEN runs ELSE Append(runs, chunk))
           /\ deltas' = Plus(deltas, LabelTally(chunk))
           /\ chunk' = <<>> /\ call' = "ingest" /\ UNCHANGED result
  <2>1. /\ chunk \in Seq(Quad) /\ Len(chunk) <= ChunkSize /\ Len(chunk) \in Nat
        /\ From(input, chunk, Flushed) /\ \A i \in DOMAIN chunk : chunk[i].stmt # EmptyStmt
    BY <1>1, Constants DEF PipelineInv, TypeInv, StreamInv, Reading, InputFrom, RunsInv
  <2>2. /\ runs' \in Seq(Seq(Quad)) /\ \A i \in DOMAIN runs' : Len(runs'[i]) \in 1..ChunkSize
        /\ IsFiniteSet(PlacesOf(runs')) /\ deltas' \in [AnyLabel -> Nat]
        /\ Flushed' = Flushed + Len(chunk) /\ Flushed' <= Len(input)
        /\ AllOf(runs', default) = EffectiveTo(input, default, Flushed')
        /\ deltas' = TallyTo(input, default, Flushed')
        /\ \A i \in 1..Flushed' : Good(input[i], default)
    BY <1>1, <1>3, <2>1, ChunkFlushed
  <2>3. (forwarded => ~cancelled) => Flushed' = Len(input)
    BY <1>1, <2>2, AllRead
  <2>4. Len(chunk') = 0 /\ DOMAIN chunk' = {} /\ Len(chunk') < ChunkSize /\ chunk' \in Seq(Quad)
    BY <1>3, Constants
  <2>5. TypeInv'
    BY <1>1, <1>3, <2>2, <2>4 DEF TypeInv
  <2>6. StreamInv' /\ RoomInv'
    BY <1>1, <1>3 DEF PipelineInv, StreamInv, RoomInv, Reading
  <2>7. RunsInv' /\ ResultInv'
    BY <1>1, <1>3, <2>2, <2>3, <2>4 DEF PipelineInv, RunsInv, ResultInv
  <2> QED
    BY <2>5, <2>6, <2>7 DEF PipelineInv
<1> QED
  BY <1>2, <1>3 DEF ReadEnd, FlushChunk

\* The context is done while the call reads.
LEMMA ReadCancelledStep ==
  ASSUME PipelineInv, ReadCancelled
  PROVE  PipelineInv'
BY ChannelsRest, FailsStep DEF ReadCancelled, PipelineInv

\* The runs are ingested, or not.
LEMMA IngestRunsStep ==
  ASSUME PipelineInv, IngestRuns
  PROVE  PipelineInv'
<1> USE DEF request, fwdVars, callerVars
<1>1. /\ call = "ingest" /\ TypeInv
      /\ UNCHANGED <<callerVars, fwdVars, cancelled, chan, counted>>
      /\ UNCHANGED <<input, default, cap, forwarded, sent, silent, fwd, held>>
  BY DEF IngestRuns, PipelineInv
<1>2. CASE Fail("io") /\ UNCHANGED stored
  BY <1>1, <1>2, ChannelsRest, FailsStep
<1>3. CASE /\ stored' = UNION {EffectiveSet(runs[i]) : i \in DOMAIN runs} /\ call' = "count"
           /\ UNCHANGED <<chunk, runs, deltas, result>>
  <2>1. UNION {EffectiveSet(runs[i]) : i \in DOMAIN runs} = AllOf(runs, default)
    BY DefaultLabel DEF AllOf
  <2>2. stored' = EffectiveTo(input, default, Flushed) /\ Flushed' = Flushed
    BY <1>1, <1>3, <2>1 DEF PipelineInv, RunsInv, Flushed
  <2>3. TypeInv'
    BY <1>1, <1>3 DEF TypeInv
  <2>4. StreamInv' /\ RoomInv'
    BY <1>1, <1>3 DEF PipelineInv, StreamInv, RoomInv, Reading
  <2>5. RunsInv' /\ ResultInv'
    BY <1>1, <1>3, <2>2 DEF PipelineInv, RunsInv, ResultInv
  <2> QED
    BY <2>3, <2>4, <2>5 DEF PipelineInv
<1> QED
  BY <1>2, <1>3 DEF IngestRuns

\* What a prefix of the input stores is finite.
LEMMA PrefixFinite ==
  ASSUME NEW s, NEW d, NEW n \in Nat
  PROVE  IsFiniteSet(EffectiveTo(s, d, n)) /\ Cardinality(EffectiveTo(s, d, n)) \in Nat
<1> DEFINE f == [i \in 1..n |-> Eff(s[i], d)]
           T == EffectiveTo(s, d, n)
<1>1. f \in Surjection(1..n, T)
  <2>1. f \in [1..n -> T] /\ \A i \in 1..n : f[i] = Eff(s[i], d)
    BY DEF EffectiveTo
  <2>2. \A y \in T : \E i \in 1..n : y = Eff(s[i], d)
    BY DEF EffectiveTo
  <2> HIDE DEF f, T
  <2> QED
    BY <2>1, <2>2 DEF Surjection
<1>2. IsFiniteSet(1..n)
  BY FS_Interval
<1> HIDE DEF f, T
<1>3. IsFiniteSet(T)
  BY <1>1, <1>2, FS_Surjection
<1> QED
  BY <1>3, FS_CardinalityType DEF T

\* The counters get what was read.
LEMMA CountRunsStep ==
  ASSUME PipelineInv, CountRuns
  PROVE  PipelineInv'
<1> USE DEF request, fwdVars, callerVars
<1>1. /\ call = "count" /\ call' = "done" /\ TypeInv
      /\ chunk' = <<>> /\ runs' = <<>> /\ deltas' = Zero
      /\ counted' = Plus(counted, deltas)
      /\ result' = [status |-> "ok", ingested |-> Cardinality(stored),
                    skipped |-> Cardinality(Positions) - Cardinality(stored)]
      /\ UNCHANGED <<input, default, cap, forwarded, sent, silent, fwd, held, cancelled, chan, stored>>
  BY DEF CountRuns, Return, PipelineInv
<1>2. /\ Flushed \in Nat /\ Flushed <= Len(input) /\ Cardinality(Positions) = Flushed
      /\ stored = EffectiveTo(input, default, Flushed)
      /\ deltas = TallyTo(input, default, Flushed) /\ deltas \in [AnyLabel -> Nat] /\ counted = Zero
      /\ \A i \in 1..Flushed : Good(input[i], default)
      /\ (forwarded => ~cancelled) => Flushed = Len(input)
  BY <1>1, FlushedType DEF PipelineInv, RunsInv, TypeInv, Positions, Flushed, PlacesOf
<1>3. counted' = TallyTo(input, default, Flushed)
  BY <1>1, <1>2 DEF Plus, Zero
<1>4. Cardinality(stored) \in Nat
  BY <1>2, PrefixFinite
<1>5. result'.ingested = Cardinality(stored) /\ result'.ingested + result'.skipped = Flushed /\ Ok'
  BY <1>1, <1>2, <1>4 DEF Ok
<1>6. Zero \in [AnyLabel -> Nat] /\ Len(chunk') = 0 /\ Len(chunk') < ChunkSize
  BY <1>1, Constants DEF Zero
<1>7. TypeInv'
  BY <1>1, <1>6, NoPlaces DEF TypeInv
<1>8. StreamInv' /\ RoomInv'
  BY <1>1 DEF PipelineInv, StreamInv, RoomInv, Reading
<1>9. RunsInv'
  BY <1>1 DEF RunsInv
<1>10. ResultInv'
  <2> DEFINE n == Flushed
  <2>1. n \in 0..Len(input)
    BY <1>1, <1>2 DEF TypeInv
  <2>2. Whole(input, default, n, stored', counted', result')
    BY <1>1, <1>2, <1>3, <1>5 DEF Whole
  <2>3. (forwarded => ~cancelled) => n = Len(input)
    BY <1>2
  <2>4. \A i \in 1..n : Good(input[i], default)
    BY <1>2
  <2> HIDE DEF n
  <2> QED
    BY <1>1, <1>5, <2>1, <2>2, <2>3, <2>4 DEF ResultInv
<1> QED
  BY <1>7, <1>8, <1>9, <1>10 DEF PipelineInv

\* Nothing is read, stored or counted yet.
LEMMA InitiallyHolds ==
  ASSUME Init
  PROVE  PipelineInv
<1>1. /\ input \in Seq(Quad) /\ default \in AnyLabel /\ cap \in Nat /\ forwarded \in BOOLEAN
      /\ Len(input) \in Nat /\ Zero \in [AnyLabel -> Nat] /\ ChunkSize \in Nat \ {0}
  BY PipelineAssumption DEF Init, Zero
<1>2. /\ chan \in [{"in", "inner"} -> Channel]
      /\ \A c \in {"in", "inner"} : chan[c].buf = <<>> /\ ~chan[c].closed /\ Len(chan[c].buf) = 0
  BY DEF Init, Channel
<1>3. Flushed = 0 /\ AtTap = 0 /\ Ahead = 0 /\ Len(chunk) = 0 /\ Len(held) = 0
  BY <1>2, NoPlaces DEF Init, Flushed, AtTap, Ahead
<1>4. TypeInv
  <2>1. /\ runs = <<>> /\ chunk = <<>> /\ held = <<>> /\ sent = 0 /\ silent = FALSE /\ cancelled = FALSE
        /\ call = "start" /\ deltas = Zero /\ fwd \in {"receive", "done"}
    BY DEF Init
  <2>2. /\ <<>> \in Seq(Quad) /\ <<>> \in Seq(Seq(Quad)) /\ DOMAIN runs = {} /\ 0 \in 0..Len(input)
        /\ Len(chunk) < ChunkSize
    BY <1>1, <1>3, <2>1
  <2>3. IsFiniteSet(PlacesOf(runs)) /\ \A i \in DOMAIN runs : Len(runs[i]) \in 1..ChunkSize
    BY <2>1, <2>2, NoPlaces
  <2> QED
    BY <1>1, <1>2, <1>3, <2>1, <2>2, <2>3 DEF TypeInv
<1>5. StreamInv
  <2>1. chan[Tap].buf = <<>>
    BY <1>2 DEF Tap
  <2> QED
    BY <1>1, <1>2, <1>3, <2>1 DEF Init, StreamInv, InputFrom, From
<1>6. RoomInv
  BY <1>1, <1>2 DEF RoomInv
<1>7. RunsInv
  <2>1. EffectiveTo(input, default, 0) = {} /\ AllOf(runs, default) = {}
    BY DEF EffectiveTo, AllOf, Init
  <2>2. TallyTo(input, default, 0) = Zero
    BY FS_EmptySet DEF TallyTo, Zero
  <2>3. /\ stored = {} /\ counted = Zero /\ result = NoResult /\ deltas = Zero /\ call = "start"
        /\ DOMAIN chunk = {} /\ 1..Flushed = {} /\ Flushed <= Len(input)
    BY <1>1, <1>3 DEF Init
  <2> QED
    BY <1>3, <2>1, <2>2, <2>3 DEF RunsInv
<1>8. ResultInv
  BY DEF Init, ResultInv
<1> QED
  BY <1>4, <1>5, <1>6, <1>7, <1>8 DEF PipelineInv

\* Every step keeps the inductive invariant.
LEMMA StepKeeps ==
  ASSUME PipelineInv, [Next]_vars
  PROVE  PipelineInv'
<1>1. CASE UNCHANGED vars
  <2>1. Flushed' = Flushed /\ AtTap' = AtTap /\ Ahead' = Ahead /\ Tap' = Tap
    BY <1>1 DEF vars, Flushed, AtTap, Ahead, Tap
  <2>2. /\ UNCHANGED <<input, default, cap, forwarded, sent, silent, chan, fwd, held, cancelled>>
        /\ UNCHANGED <<call, chunk, runs, deltas, stored, counted, result>>
    BY <1>1 DEF vars
  <2>3. TypeInv' /\ RoomInv'
    BY <2>2 DEF PipelineInv, TypeInv, RoomInv
  <2>4. StreamInv'
    BY <2>1, <2>2 DEF PipelineInv, StreamInv, Reading, InputFrom
  <2>5. RunsInv' /\ ResultInv'
    BY <2>1, <2>2 DEF PipelineInv, RunsInv, ResultInv, Ok
  <2> QED
    BY <2>3, <2>4, <2>5 DEF PipelineInv
<1> QED
  BY <1>1, SendsStep, ClosesStep, CancelsStep, ForwarderReceivesStep, ForwarderSendsStep, ForwarderEndsStep,
     BeginStep, ReadStep, ReadEndStep, ReadCancelledStep, IngestRunsStep, CountRunsStep
     DEF Next, Caller, Forwarder, Call

\* The inductive invariant.
LEMMA PipelineInvariant == Spec => []PipelineInv
BY InitiallyHolds, StepKeeps, PTL DEF Spec


----------------------------------------------------------------------------
(* The theorems *)

\* The type invariant, for any number of quads and any capacity.
THEOREM PipelineTypeCorrect == Spec => []TypeInv
BY PipelineInvariant, PTL DEF PipelineInv

\* The prefixes of the input, as WholeOrNothing names them.
LEMMA PrefixOf ==
  ASSUME NEW s \in Seq(Quad), NEW n \in 0..Len(s)
  PROVE  /\ EffectiveSet(SubSeq(s, 1, n)) = EffectiveTo(s, default, n)
         /\ LabelTally(SubSeq(s, 1, n)) = TallyTo(s, default, n)
         /\ Len(SubSeq(s, 1, n)) = n
<1> DEFINE p == SubSeq(s, 1, n)
<1>1. DOMAIN p = 1..n /\ Len(p) = n /\ \A i \in 1..n : p[i] = s[i]
  BY SubSeqProperties
<1> HIDE DEF p
<1>2. EffectiveOf(p, default) = EffectiveTo(s, default, n)
  BY <1>1 DEF EffectiveOf, EffectiveTo
<1>3. TallyOf(p, default) = TallyTo(s, default, n)
  <2>1. ASSUME NEW l
        PROVE  {i \in DOMAIN p : Eff(p[i], default).label = l} = {i \in 1..n : Eff(s[i], default).label = l}
    BY <1>1
  <2> QED
    BY <2>1 DEF TallyOf, TallyTo
<1> QED
  BY <1>1, <1>2, <1>3, DefaultLabel DEF p

\* A call that succeeds and is not cancelled has ingested and counted all the
\* caller sent, a cancelled one a prefix of it; a call that fails, nothing.
THEOREM ImportsWholeOrNothing == Spec => []WholeOrNothing
<1>1. ASSUME PipelineInv
      PROVE  WholeOrNothing
  <2>1. input \in Seq(Quad) /\ Len(input) \in Nat
    BY <1>1 DEF PipelineInv, TypeInv
  <2>2. ASSUME NEW n \in 0..Len(input), Whole(input, default, n, stored, counted, result)
        PROVE  Imported(SubSeq(input, 1, n))
    BY <2>1, <2>2, PrefixOf DEF Whole, Imported
  <2>3. SubSeq(input, 1, Len(input)) = input
    BY <2>1
  <2>4. Ok => call = "done"
    BY <1>1 DEF PipelineInv, RunsInv, TypeInv, Ok, NoResult
  <2>5. Ok => \E n \in 0..Len(input) : Imported(SubSeq(input, 1, n))
    BY <1>1, <2>2, <2>4 DEF PipelineInv, ResultInv
  <2>6. Ok /\ (forwarded => ~cancelled) => Imported(input)
    BY <1>1, <2>2, <2>3, <2>4 DEF PipelineInv, ResultInv
  <2>7. \A q \in stored : q.stmt # EmptyStmt /\ q.label \in ValidLabel
    <3>1. \/ stored = {}
          \/ \E n \in Nat : stored = EffectiveTo(input, default, n) /\ n <= Len(input)
                           /\ \A i \in 1..n : Good(input[i], default)
      <4>1. CASE call = "done" /\ Ok
        BY <1>1, <4>1 DEF PipelineInv, ResultInv, Whole
      <4>2. CASE call = "done" /\ ~Ok
        BY <1>1, <4>2 DEF PipelineInv, ResultInv
      <4>3. CASE call # "done"
        BY <1>1, <4>3, FlushedType DEF PipelineInv, RunsInv
      <4> QED
        BY <4>1, <4>2, <4>3
    <3>2. ASSUME NEW n \in Nat, stored = EffectiveTo(input, default, n), n <= Len(input),
                 \A i \in 1..n : Good(input[i], default), NEW q \in stored
          PROVE  q.stmt # EmptyStmt /\ q.label \in ValidLabel
      <4>1. PICK i \in 1..n : q = Eff(input[i], default)
        BY <3>2 DEF EffectiveTo
      <4>2. input[i] \in Quad /\ default \in AnyLabel
        BY <1>1, <2>1, <3>2 DEF PipelineInv, TypeInv
      <4> QED
        BY <3>2, <4>1, <4>2, Constants DEF Good
    <3> QED
      BY <3>1, <3>2
  <2> QED
    BY <1>1, <2>5, <2>6, <2>7 DEF WholeOrNothing, PipelineInv, ResultInv
<1> QED
  BY <1>1, PipelineInvariant, PTL

\* While the call reads, what has been sent and is not in a run fits a chunk,
\* the two channels and the forwarding goroutine.
THEOREM MemoryAlwaysBounded == Spec => []BoundedMemory
<1>1. ASSUME PipelineInv, call = "reading"
      PROVE  sent - Cardinality(Positions) <= ChunkSize + 2 * cap + 1
  <2> DEFINE in    == Len(chan["in"].buf)
             inner == Len(chan["inner"].buf)
             part  == Len(chunk)
             hold  == Len(held)
             n     == Flushed
             room  == IF cap = 0 THEN 1 ELSE cap
  <2>1. /\ in \in Nat /\ inner \in Nat /\ part \in Nat /\ part < ChunkSize /\ ChunkSize \in Nat /\ cap \in Nat
        /\ hold = (IF fwd = "send" THEN 1 ELSE 0) /\ n \in Nat /\ sent \in Nat
        /\ in <= room /\ inner <= room /\ forwarded \in BOOLEAN
    BY <1>1, FlushedType, Constants DEF PipelineInv, TypeInv, RoomInv, Channel
  <2>2. Cardinality(Positions) = n
    BY DEF Positions, Flushed, PlacesOf
  <2>3. forwarded /\ cap = 0 /\ in # 0 => fwd = "receive"
    BY <1>1 DEF PipelineInv, RoomInv, TypeInv, Channel
  <2>4. AtTap = n + part /\ Ahead = n + part + inner
    BY DEF AtTap, Ahead
  <2>5. forwarded /\ fwd # "done" => sent = Ahead + hold + in
    BY <1>1 DEF PipelineInv, StreamInv, Reading
  <2>6. forwarded /\ fwd = "done" => sent - Ahead - in \in 0..1
    BY <1>1 DEF PipelineInv, StreamInv, Reading
  <2>7. ~forwarded => sent = AtTap + in
    BY <1>1 DEF PipelineInv, StreamInv, Reading
  <2> HIDE DEF in, inner, part, hold, n
  <2>8. forwarded /\ fwd # "done" => sent - n <= ChunkSize + 2 * cap + 1
    BY <2>1, <2>3, <2>4, <2>5
  <2>9. forwarded /\ fwd = "done" => sent - n <= ChunkSize + 2 * cap + 1
    BY <2>1, <2>3, <2>4, <2>6
  <2>10. ~forwarded => sent - n <= ChunkSize + 2 * cap + 1
    BY <2>1, <2>4, <2>7
  <2> QED
    BY <2>1, <2>2, <2>8, <2>9, <2>10
<1>2. PipelineInv => BoundedMemory
  BY <1>1 DEF BoundedMemory
<1> QED
  BY <1>2, PipelineInvariant, PTL

=============================================================================
