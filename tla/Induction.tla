------------------------------ MODULE Induction ------------------------------
(***************************************************************************)
(* Induction over the natural numbers and what follows from it, for the    *)
(* proofs about scans, folds and loops of the other modules.  The least    *)
(* element of a set takes the place of a predicate: the facts here are     *)
(* about sets and functions, so that a prover can instantiate them.        *)
(***************************************************************************)
EXTENDS Integers, SequencesExt, FiniteSetTheorems, SequenceTheorems, WellFoundedInduction, TLAPS

\* A set of natural numbers that is not empty has a least element.
LEMMA LeastNumber ==
  ASSUME NEW T \in SUBSET Nat, T # {}
  PROVE  \E n \in T : \A m \in T : n <= m
<1>1. PICK n \in T : \A m \in T : <<m, n>> \notin OpToRel(<, Nat)
  <2> DEFINE R == OpToRel(<, Nat)
  <2>1. IsWellFoundedOn(R, Nat)
    BY NatLessThanWellFounded
  <2> HIDE DEF R
  <2>2. \E n \in T : \A m \in T : <<m, n>> \notin R
    BY <2>1, WFMin
  <2> QED
    BY <2>2 DEF R
<1>2. \A m \in T : ~(m < n)
  BY <1>1 DEF OpToRel
<1> QED
  BY <1>2

\* Induction, with the set of the numbers that have the property.
LEMMA NumbersInduct ==
  ASSUME NEW T \in SUBSET Nat, 0 \in T, \A n \in T : n + 1 \in T
  PROVE  T = Nat
<1> SUFFICES ASSUME Nat \ T # {} PROVE FALSE
  OBVIOUS
<1>1. PICK n \in Nat \ T : \A m \in Nat \ T : n <= m
  BY LeastNumber
<1>2. n # 0 /\ n - 1 \in Nat /\ n - 1 \in T
  BY <1>1
<1> QED
  BY <1>1, <1>2

(***************************************************************************)
(* A function may be defined by what it is at the arguments where it stops *)
(* and, elsewhere, by its value at an argument of smaller size.            *)
(***************************************************************************)
OneStep(X, Stop, base, next, step, f) ==
  [x \in X |-> IF x \in Stop THEN base[x] ELSE step[<<x, f[next[x]]>>]]

\* f is what is defined, at the arguments of size less than n.
UpTo(X, Stop, base, next, step, size, n, f) ==
  \A x \in X : size[x] < n => f[x] = OneStep(X, Stop, base, next, step, f)[x]

\* What it takes: each argument where it does not stop has a smaller next one.
Terminates(X, V, Stop, size, base, next, step) ==
  /\ Stop \in SUBSET X /\ size \in [X -> Nat]
  /\ base \in [X -> V] /\ next \in [X -> X] /\ step \in [X \X V -> V]
  /\ \A x \in X \ Stop : size[next[x]] < size[x]

LEMMA RecursiveFunction ==
  ASSUME NEW X, NEW V, NEW Stop, NEW size, NEW base, NEW next, NEW step,
         Terminates(X, V, Stop, size, base, next, step)
  PROVE  \E f \in [X -> V] : f = OneStep(X, Stop, base, next, step, f)
<1> USE DEF Terminates
<1> DEFINE Def(f) == OneStep(X, Stop, base, next, step, f)
           Has(n, f) == UpTo(X, Stop, base, next, step, size, n, f)
<1>0. ASSUME NEW f
      PROVE  \A x \in X : Def(f)[x] = IF x \in Stop THEN base[x] ELSE step[<<x, f[next[x]]>>]
  BY DEF OneStep
<1>1. \A f \in [X -> V] : Def(f) \in [X -> V]
  BY DEF OneStep
<1>2. \A n, f : Has(n, f) <=> \A x \in X : size[x] < n => f[x] = Def(f)[x]
  BY DEF UpTo
<1> HIDE DEF Def, Has
<1>3. ASSUME NEW n \in Nat
      PROVE  \E f \in [X -> V] : Has(n, f)
  <2> DEFINE T == {m \in Nat : \E f \in [X -> V] : Has(m, f)}
  <2>1. 0 \in T
    <3>1. Has(0, base)
      BY <1>2
    <3> QED
      BY <3>1
  <2>2. ASSUME NEW m \in T
        PROVE  m + 1 \in T
    <3>1. PICK f \in [X -> V] : Has(m, f)
      OBVIOUS
    <3>2. ASSUME NEW x \in X, size[x] < m + 1
          PROVE  Def(f)[x] = Def(Def(f))[x]
      <4>1. CASE x \in Stop
        BY <1>0, <4>1
      <4>2. CASE x \notin Stop
        <5>1. next[x] \in X /\ size[next[x]] < m
          BY <3>2, <4>2
        <5>2. f[next[x]] = Def(f)[next[x]]
          BY <1>2, <3>1, <5>1
        <5>3. Def(f)[x] = step[<<x, f[next[x]]>>]
          BY <1>0, <4>2
        <5>4. Def(Def(f))[x] = step[<<x, Def(f)[next[x]]>>]
          BY <1>0, <4>2
        <5> QED
          BY <5>2, <5>3, <5>4
      <4> QED
        BY <4>1, <4>2
    <3>3. Has(m + 1, Def(f))
      BY <1>2, <3>2
    <3> QED
      BY <1>1, <3>3
  <2> HIDE DEF T
  <2>3. T = Nat
    BY <2>1, <2>2, NumbersInduct DEF T
  <2> QED
    BY <2>3 DEF T
<1>4. ASSUME NEW n \in Nat
      PROVE  \A f, g \in [X -> V] : Has(n, f) /\ Has(n, g) => \A x \in X : size[x] < n => f[x] = g[x]
  <2> DEFINE T == {m \in Nat : \A f, g \in [X -> V] : Has(m, f) /\ Has(m, g) =>
                                  \A x \in X : size[x] < m => f[x] = g[x]}
  <2>1. 0 \in T
    OBVIOUS
  <2>2. ASSUME NEW m \in T
        PROVE  m + 1 \in T
    <3> SUFFICES ASSUME NEW f \in [X -> V], NEW g \in [X -> V], Has(m + 1, f), Has(m + 1, g),
                        NEW x \in X, size[x] < m + 1
                 PROVE  f[x] = g[x]
      OBVIOUS
    <3>1. Has(m, f) /\ Has(m, g)
      BY <1>2
    <3>2. f[x] = Def(f)[x] /\ g[x] = Def(g)[x]
      BY <1>2
    <3>3. CASE x \in Stop
      BY <1>0, <3>2, <3>3
    <3>4. CASE x \notin Stop
      <4>1. next[x] \in X /\ size[next[x]] < m
        BY <3>4
      <4>2. f[next[x]] = g[next[x]]
        BY <3>1, <4>1
      <4>3. Def(f)[x] = step[<<x, f[next[x]]>>]
        BY <1>0, <3>4
      <4>4. Def(g)[x] = step[<<x, g[next[x]]>>]
        BY <1>0, <3>4
      <4> QED
        BY <3>2, <4>2, <4>3, <4>4
    <3> QED
      BY <3>3, <3>4
  <2> HIDE DEF T
  <2>3. T = Nat
    BY <2>1, <2>2, NumbersInduct DEF T
  <2> QED
    BY <2>3 DEF T
<1> DEFINE At(x) == CHOOSE f \in [X -> V] : Has(size[x] + 1, f)
           F == [x \in X |-> At(x)[x]]
<1>5. ASSUME NEW x \in X
      PROVE  At(x) \in [X -> V] /\ Has(size[x] + 1, At(x))
  BY <1>3
<1> HIDE DEF At
<1>6. F \in [X -> V]
  BY <1>5
<1>7. ASSUME NEW x \in X
      PROVE  F[x] = Def(F)[x]
  <2>1. F[x] = Def(At(x))[x]
    BY <1>2, <1>5
  <2>2. CASE x \in Stop
    BY <1>0, <2>1, <2>2
  <2>3. CASE x \notin Stop
    <3>1. next[x] \in X /\ size[next[x]] < size[x]
      BY <2>3
    <3>2. Has(size[next[x]] + 1, At(x))
      BY <1>2, <1>5, <3>1
    <3>3. At(next[x]) \in [X -> V] /\ Has(size[next[x]] + 1, At(next[x]))
      BY <1>5, <3>1
    <3>4. size[next[x]] + 1 \in Nat /\ size[next[x]] < size[next[x]] + 1
      BY <3>1
    <3>5. At(x)[next[x]] = At(next[x])[next[x]]
      <4> DEFINE a == At(x)
                 b == At(next[x])
                 y == next[x]
                 n == size[next[x]] + 1
      <4>1. a \in [X -> V] /\ b \in [X -> V] /\ n \in Nat /\ Has(n, a) /\ Has(n, b) /\ y \in X /\ size[y] < n
        BY <1>5, <3>1, <3>2, <3>3, <3>4
      <4> HIDE DEF a, b, y, n, Has
      <4>2. a[y] = b[y]
        BY <1>4, <4>1
      <4> QED
        BY <4>2 DEF a, b, y
    <3>6. F[next[x]] = At(next[x])[next[x]]
      BY <3>1
    <3>7. Def(At(x))[x] = step[<<x, At(x)[next[x]]>>]
      BY <1>0, <2>3
    <3>8. Def(F)[x] = step[<<x, F[next[x]]>>]
      BY <1>0, <2>3
    <3> QED
      BY <2>1, <3>5, <3>6, <3>7, <3>8
  <2> QED
    BY <2>2, <2>3
<1> HIDE DEF F
<1>8. Def(F) \in [X -> V]
  BY <1>1, <1>6
<1>9. F = Def(F)
  BY <1>6, <1>7, <1>8
<1> QED
  BY <1>6, <1>9 DEF Def

\* Min of a set with a least element.
LEMMA LeastIsMin ==
  ASSUME NEW S \in SUBSET Nat, NEW n \in S, \A m \in S : n <= m
  PROVE  Min(S) = n
<1>1. \A m \in S : (\A k \in S : m <= k) => m = n
  OBVIOUS
<1> QED
  BY <1>1 DEF Min

----------------------------------------------------------------------------
(* Sequences of sequences *)

\* Induction over the positions of a sequence.
LEMMA PositionsInduct ==
  ASSUME NEW n \in Nat, NEW T \in SUBSET (1..n), n # 0 => 1 \in T, \A i \in T : i # n => i + 1 \in T
  PROVE  T = 1..n
<1> SUFFICES ASSUME (1..n) \ T # {} PROVE FALSE
  OBVIOUS
<1> DEFINE R == (1..n) \ T
<1>0. R \in SUBSET Nat /\ R # {}
  OBVIOUS
<1>1. PICK m \in R : \A k \in R : m <= k
  <2> HIDE DEF R
  <2> QED
    BY <1>0, LeastNumber
<1>2. m # 1 /\ m - 1 \in 1..n /\ m - 1 \in T
  BY <1>1
<1> QED
  BY <1>1, <1>2

\* What FlattenSeq builds up, part by part.
Parts(seqs, f) == [i \in 1..Len(seqs) |-> IF i = 1 THEN seqs[i] ELSE f[i - 1] \o seqs[i]]

\* FlattenSeq is the last of what it builds up.
LEMMA FlattenIsParts ==
  ASSUME NEW seqs, Len(seqs) # 0, NEW f, f = Parts(seqs, f)
  PROVE  \E g : g = Parts(seqs, g) /\ FlattenSeq(seqs) = g[Len(seqs)]
<1> DEFINE g == CHOOSE h : h = Parts(seqs, h)
<1>1. g = Parts(seqs, g)
  OBVIOUS
<1>2. FlattenSeq(seqs) = g[Len(seqs)]
  BY DEF FlattenSeq, Parts
<1> QED
  BY <1>1, <1>2

\* The sequences before position i are those up to it, one less.
Grows(seqs, S, g) ==
  /\ g \in [1..Len(seqs) -> Seq(S)]
  /\ g[1] = seqs[1]
  /\ \A i \in 1..(Len(seqs) - 1) : g[i + 1] = g[i] \o seqs[i + 1]

\* FlattenSeq puts the sequences one after another.
LEMMA FlattenGrows ==
  ASSUME NEW S, NEW seqs \in Seq(Seq(S)), seqs # <<>>
  PROVE  \E g : Grows(seqs, S, g) /\ FlattenSeq(seqs) = g[Len(seqs)]
<1> DEFINE n    == Len(seqs)
           X    == 1..n
           V    == Seq(S)
           Stop == {1}
           size == [i \in X |-> i]
           ends == [i \in X |-> seqs[i]]
           next == [i \in X |-> IF i = 1 THEN 1 ELSE i - 1]
           step == [a \in X \X V |-> a[2] \o seqs[a[1]]]
<1>1. n \in Nat \ {0} /\ \A i \in X : seqs[i] \in V
  OBVIOUS
<1>2. Stop \in SUBSET X /\ size \in [X -> Nat] /\ ends \in [X -> V] /\ next \in [X -> X]
  BY <1>1
<1>3. step \in [X \X V -> V]
  <2>1. ASSUME NEW i \in X, NEW v \in V
        PROVE  v \o seqs[i] \in V
    BY <1>1
  <2> QED
    BY <2>1
<1>4. \A i \in X \ Stop : size[next[i]] < size[i]
  BY <1>1
<1>5. PICK f \in [X -> V] : f = OneStep(X, Stop, ends, next, step, f)
  <2> HIDE DEF X, Stop, size, ends, next, step, V
  <2>1. Terminates(X, V, Stop, size, ends, next, step)
    BY <1>2, <1>3, <1>4 DEF Terminates
  <2> QED
    BY <2>1, RecursiveFunction
<1>6. f = Parts(seqs, f)
  <2>1. ASSUME NEW i \in X
        PROVE  f[i] = IF i = 1 THEN seqs[i] ELSE f[i - 1] \o seqs[i]
    <3>1. f[i] = IF i \in Stop THEN ends[i] ELSE step[<<i, f[next[i]]>>]
      <4> HIDE DEF X, Stop, ends, next, step
      <4> QED
        BY <1>5 DEF OneStep
    <3>2. CASE i = 1
      BY <3>1, <3>2
    <3>3. CASE i # 1
      <4>1. next[i] = i - 1 /\ i - 1 \in X
        BY <1>1, <3>3
      <4>2. f[i - 1] \in V
        BY <4>1
      <4>3. step[<<i, f[i - 1]>>] = f[i - 1] \o seqs[i]
        BY <4>2
      <4> QED
        BY <3>1, <3>3, <4>1, <4>3
    <3> QED
      BY <3>2, <3>3
  <2>2. f = [i \in X |-> f[i]]
    OBVIOUS
  <2> QED
    BY <2>1, <2>2, Zenon DEF Parts
<1>7. PICK g : g = Parts(seqs, g) /\ FlattenSeq(seqs) = g[n]
  <2>1. n # 0
    BY <1>1
  <2> QED
    BY <1>6, <2>1, FlattenIsParts
<1>8. /\ DOMAIN g = X /\ g[1] = seqs[1]
      /\ \A i \in 1..(n - 1) : g[i + 1] = g[i] \o seqs[i + 1]
  <2>1. /\ DOMAIN g = X
        /\ \A i \in X : g[i] = IF i = 1 THEN seqs[i] ELSE g[i - 1] \o seqs[i]
    BY <1>7, Zenon DEF Parts
  <2>2. 1 \in X
    BY <1>1
  <2>3. g[1] = seqs[1]
    BY <2>1, <2>2, Zenon
  <2>4. ASSUME NEW i \in 1..(n - 1)
        PROVE  g[i + 1] = g[i] \o seqs[i + 1]
    <3>1. i + 1 \in X /\ i + 1 # 1 /\ (i + 1) - 1 = i
      BY <1>1
    <3> QED
      BY <2>1, <3>1, Zenon
  <2> QED
    BY <2>1, <2>3, <2>4
<1>9. \A i \in X : g[i] \in V
  <2> DEFINE T == {i \in X : g[i] \in V}
  <2>1. 1 \in T
    BY <1>1, <1>8
  <2>2. ASSUME NEW i \in T, i # n
        PROVE  i + 1 \in T
    <3>1. i \in 1..(n - 1) /\ i + 1 \in X
      BY <1>1, <2>2
    <3>2. g[i + 1] = g[i] \o seqs[i + 1] /\ seqs[i + 1] \in V /\ g[i] \in V
      BY <1>1, <1>8, <3>1
    <3>3. g[i + 1] \in V
      <4> DEFINE a == g[i]
                 b == seqs[i + 1]
      <4>1. a \in Seq(S) /\ b \in Seq(S)
        BY <3>2
      <4> HIDE DEF a, b
      <4>2. a \o b \in Seq(S)
        BY <4>1
      <4> QED
        BY <3>2, <4>2 DEF a, b
    <3> QED
      BY <3>1, <3>3
  <2> HIDE DEF T
  <2>3. T = 1..n
    <3>1. T \in SUBSET (1..n)
      BY DEF T
    <3> HIDE DEF n
    <3> QED
      BY <1>1, <2>1, <2>2, <3>1, PositionsInduct
  <2> QED
    BY <2>3 DEF T
<1>10. g \in [X -> V]
  <2>1. g = [i \in X |-> g[i]]
    BY <1>7, <1>8 DEF Parts
  <2> QED
    BY <1>9, <2>1
<1> QED
  BY <1>7, <1>8, <1>10 DEF Grows

\* x is somewhere in sequence i or in one before it.
Upto(seqs, i, x) == \E k \in 1..i : \E j \in DOMAIN seqs[k] : seqs[k][j] = x

\* FlattenSeq keeps what is in the sequences, and nothing else.
LEMMA FlattenHolds ==
  ASSUME NEW S, NEW seqs \in Seq(Seq(S))
  PROVE  /\ FlattenSeq(seqs) \in Seq(S)
         /\ \A x \in S : (\E m \in DOMAIN FlattenSeq(seqs) : FlattenSeq(seqs)[m] = x)
                           <=> Upto(seqs, Len(seqs), x)
<1>1. CASE seqs = <<>>
  <2>1. FlattenSeq(seqs) = <<>> /\ Len(seqs) = 0
    BY <1>1 DEF FlattenSeq
  <2> QED
    BY <2>1 DEF Upto
<1>2. CASE seqs # <<>>
  <2>1. PICK g : Grows(seqs, S, g) /\ FlattenSeq(seqs) = g[Len(seqs)]
    BY <1>2, FlattenGrows
  <2> DEFINE n == Len(seqs)
             T == {i \in 1..n : \A x \in S : (\E m \in DOMAIN g[i] : g[i][m] = x) <=> Upto(seqs, i, x)}
  <2>2. n \in Nat \ {0} /\ \A i \in 1..n : seqs[i] \in Seq(S) /\ g[i] \in Seq(S)
    BY <1>2, <2>1 DEF Grows
  <2>3. 1 \in T
    BY <2>1, <2>2 DEF Grows, Upto
  <2>4. ASSUME NEW i \in T, i # n
        PROVE  i + 1 \in T
    <3>1. i \in 1..(n - 1) /\ i + 1 \in 1..n /\ g[i] \in Seq(S) /\ seqs[i + 1] \in Seq(S)
      BY <2>2, <2>4
    <3>2. g[i + 1] = g[i] \o seqs[i + 1]
      BY <2>1, <3>1 DEF Grows
    <3> SUFFICES ASSUME NEW x \in S
                 PROVE  (\E m \in DOMAIN g[i + 1] : g[i + 1][m] = x) <=> Upto(seqs, i + 1, x)
      BY <3>1
    <3>3. (\E m \in DOMAIN g[i + 1] : g[i + 1][m] = x)
            <=> (\E m \in DOMAIN g[i] : g[i][m] = x) \/ (\E m \in DOMAIN seqs[i + 1] : seqs[i + 1][m] = x)
      <4> DEFINE a == g[i]
                 b == seqs[i + 1]
      <4> HIDE DEF a, b
      <4>1. a \in Seq(S) /\ b \in Seq(S)
        BY <3>1 DEF a, b
      <4>2. (\E m \in DOMAIN (a \o b) : (a \o b)[m] = x)
              <=> (\E m \in DOMAIN a : a[m] = x) \/ (\E m \in DOMAIN b : b[m] = x)
        <5>1. ASSUME NEW m \in DOMAIN (a \o b), (a \o b)[m] = x
              PROVE  (\E k \in DOMAIN a : a[k] = x) \/ (\E k \in DOMAIN b : b[k] = x)
          <6>1. CASE m <= Len(a)
            BY <4>1, <5>1, <6>1
          <6>2. CASE m > Len(a)
            <7>1. m - Len(a) \in DOMAIN b /\ b[m - Len(a)] = x
              BY <4>1, <5>1, <6>2
            <7> QED
              BY <7>1
          <6> QED
            BY <4>1, <6>1, <6>2
        <5>2. ASSUME NEW m \in DOMAIN a, a[m] = x
              PROVE  \E k \in DOMAIN (a \o b) : (a \o b)[k] = x
          <6>1. m \in DOMAIN (a \o b) /\ (a \o b)[m] = x
            BY <4>1, <5>2
          <6> QED
            BY <6>1
        <5>3. ASSUME NEW m \in DOMAIN b, b[m] = x
              PROVE  \E k \in DOMAIN (a \o b) : (a \o b)[k] = x
          <6>1. Len(a) + m \in DOMAIN (a \o b) /\ (a \o b)[Len(a) + m] = x
            BY <4>1, <5>3
          <6> QED
            BY <6>1
        <5> QED
          BY <5>1, <5>2, <5>3
      <4> QED
        BY <3>2, <4>2 DEF a, b
    <3>4. Upto(seqs, i + 1, x) <=> Upto(seqs, i, x) \/ \E j \in DOMAIN seqs[i + 1] : seqs[i + 1][j] = x
      <4>1. \A k : k \in 1..(i + 1) <=> k \in 1..i \/ k = i + 1
        BY <3>1
      <4> QED
        BY <4>1, Zenon DEF Upto
    <3> QED
      BY <3>3, <3>4
  <2> HIDE DEF T
  <2>5. T = 1..n
    <3>1. T \in SUBSET (1..n)
      BY DEF T
    <3> HIDE DEF n
    <3> QED
      BY <2>2, <2>3, <2>4, <3>1, PositionsInduct
  <2>6. n \in T
    BY <2>2, <2>5
  <2> QED
    BY <2>1, <2>2, <2>6 DEF T
<1> QED
  BY <1>1, <1>2

\* FlattenSeq of sequences of one element.
LEMMA FlattenOnes ==
  ASSUME NEW S, NEW seqs \in Seq(Seq(S)), \A i \in DOMAIN seqs : Len(seqs[i]) = 1
  PROVE  FlattenSeq(seqs) = [i \in 1..Len(seqs) |-> seqs[i][1]]
<1>1. CASE seqs = <<>>
  <2>1. FlattenSeq(seqs) = <<>> /\ Len(seqs) = 0
    BY <1>1 DEF FlattenSeq
  <2> QED
    BY <2>1
<1>2. CASE seqs # <<>>
  <2>1. PICK g : Grows(seqs, S, g) /\ FlattenSeq(seqs) = g[Len(seqs)]
    BY <1>2, FlattenGrows
  <2> DEFINE n == Len(seqs)
             T == {i \in 1..n : Len(g[i]) = i /\ \A k \in 1..i : g[i][k] = seqs[k][1]}
  <2>2. n \in Nat \ {0} /\ \A i \in 1..n : seqs[i] \in Seq(S) /\ g[i] \in Seq(S) /\ Len(seqs[i]) = 1
    BY <1>2, <2>1 DEF Grows
  <2>3. 1 \in T
    BY <2>1, <2>2 DEF Grows
  <2>4. ASSUME NEW i \in T, i # n
        PROVE  i + 1 \in T
    <3>1. i \in 1..(n - 1) /\ i + 1 \in 1..n /\ g[i] \in Seq(S) /\ seqs[i + 1] \in Seq(S)
      BY <2>2, <2>4
    <3>2. g[i + 1] = g[i] \o seqs[i + 1]
      BY <2>1, <3>1 DEF Grows
    <3> DEFINE a == g[i]
               b == seqs[i + 1]
    <3>3. /\ a \in Seq(S) /\ b \in Seq(S) /\ Len(a) = i /\ Len(b) = 1 /\ i \in Nat
          /\ (\A k \in 1..i : a[k] = seqs[k][1]) /\ b[1] = seqs[i + 1][1]
      BY <2>2, <3>1
    <3> HIDE DEF a, b
    <3>4. Len(a \o b) = i + 1
      <4>1. Len(a \o b) = Len(a) + Len(b)
        BY <3>3, ConcatProperties
      <4> QED
        BY <3>3, <4>1
    <3>5. \A k \in 1..(i + 1) : (a \o b)[k] = seqs[k][1]
      <4>1. \A k \in 1..i : (a \o b)[k] = a[k]
        BY <3>3
      <4>2. (a \o b)[i + 1] = b[1]
        BY <3>3
      <4>3. \A k \in 1..(i + 1) : k \in 1..i \/ k = i + 1
        BY <3>3
      <4> QED
        BY <3>3, <4>1, <4>2, <4>3, Zenon
    <3> QED
      BY <3>1, <3>2, <3>4, <3>5 DEF a, b
  <2> HIDE DEF T
  <2>5. T = 1..n
    <3>1. T \in SUBSET (1..n)
      BY DEF T
    <3> HIDE DEF n
    <3> QED
      BY <2>2, <2>3, <2>4, <3>1, PositionsInduct
  <2>6. n \in T /\ g[n] \in Seq(S)
    BY <2>2, <2>5
  <2> QED
    <3>1. Len(g[n]) = n /\ \A k \in 1..n : g[n][k] = seqs[k][1]
      BY <2>6 DEF T
    <3>2. g[n] = [k \in 1..n |-> g[n][k]]
      <4> DEFINE s == g[n]
      <4>1. s \in Seq(S) /\ Len(s) = n
        BY <2>6, <3>1
      <4> HIDE DEF s
      <4>2. s \in [1..n -> S]
        BY <4>1
      <4>3. s = [k \in 1..n |-> s[k]]
        BY <4>2
      <4> QED
        BY <4>3 DEF s
    <3> QED
      BY <2>1, <3>1, <3>2
<1> QED
  BY <1>1, <1>2

----------------------------------------------------------------------------
(* Folds over sets, and sums *)

\* What it takes to fold step over a set, by the elements that ch takes away.
Foldable(S, V, base, ch, step) ==
  /\ IsFiniteSet(S) /\ base \in V /\ step \in [S \X V -> V]
  /\ \A s \in SUBSET S : s # {} => ch[s] \in s

\* f folds step over every subset.
Folded(S, base, ch, step, f) ==
  \A s \in SUBSET S : f[s] = IF s = {} THEN base ELSE step[<<ch[s], f[s \ {ch[s]}]>>]

\* A recursion over the subsets of a finite set that takes one element away
\* after another.
LEMMA SetRecursion ==
  ASSUME NEW S, NEW V, NEW base, NEW ch, NEW step, Foldable(S, V, base, ch, step)
  PROVE  \E f \in [SUBSET S -> V] : Folded(S, base, ch, step, f)
<1> USE DEF Foldable
<1> DEFINE X    == SUBSET S
           Stop == {{}}
           size == [s \in X |-> Cardinality(s)]
           ends == [s \in X |-> base]
           next == [s \in X |-> s \ {ch[s]}]
           more == [a \in X \X V |-> IF a[1] = {} THEN base ELSE step[<<ch[a[1]], a[2]>>]]
<1>1. \A s \in X : IsFiniteSet(s) /\ Cardinality(s) \in Nat
  BY FS_Subset, FS_CardinalityType
<1>2. Stop \in SUBSET X /\ size \in [X -> Nat] /\ ends \in [X -> V] /\ next \in [X -> X]
  BY <1>1
<1>3. more \in [X \X V -> V]
  <2>1. ASSUME NEW s \in X, NEW v \in V, s # {}
        PROVE  step[<<ch[s], v>>] \in V
    <3>1. ch[s] \in S
      BY <2>1
    <3> QED
      BY <3>1
  <2> QED
    BY <2>1
<1>4. \A s \in X \ Stop : size[next[s]] < size[s]
  <2> SUFFICES ASSUME NEW s \in X, s # {}
               PROVE  Cardinality(s \ {ch[s]}) < Cardinality(s)
    BY <1>2
  <2>1. IsFiniteSet(s) /\ ch[s] \in s /\ Cardinality(s) \in Nat
    BY <1>1
  <2>2. Cardinality(s \ {ch[s]}) = Cardinality(s) - 1
    BY <2>1, FS_RemoveElement
  <2> QED
    BY <2>1, <2>2
<1>5. PICK f \in [X -> V] : f = OneStep(X, Stop, ends, next, more, f)
  <2> HIDE DEF X, Stop, size, ends, next, more
  <2>1. Terminates(X, V, Stop, size, ends, next, more)
    BY <1>2, <1>3, <1>4 DEF Terminates
  <2> QED
    BY <2>1, RecursiveFunction
<1>6. ASSUME NEW s \in X
      PROVE  f[s] = IF s = {} THEN base ELSE step[<<ch[s], f[s \ {ch[s]}]>>]
  <2>1. f[s] = IF s \in Stop THEN ends[s] ELSE more[<<s, f[next[s]]>>]
    <3> HIDE DEF X, Stop, ends, next, more
    <3> QED
      BY <1>5 DEF OneStep
  <2>2. CASE s = {}
    BY <2>1, <2>2
  <2>3. CASE s # {}
    <3>1. next[s] \in X /\ f[next[s]] \in V
      BY <1>2
    <3>2. more[<<s, f[next[s]]>>] = step[<<ch[s], f[next[s]]>>]
      BY <2>3, <3>1
    <3> QED
      BY <2>1, <2>3, <3>2
  <2> QED
    BY <2>2, <2>3
<1> QED
  BY <1>6 DEF Folded

\* What SumFunction adds up, set by set.
Sums(fun, S, f) ==
  [s \in SUBSET S |-> IF s = {} THEN 0
                      ELSE fun[CHOOSE x \in s : TRUE] + f[s \ {CHOOSE x \in s : TRUE}]]

\* SumFunction is the sum of the whole.
LEMMA SumIsSums ==
  ASSUME NEW fun
  PROVE  SumFunction(fun) = (CHOOSE g : g = Sums(fun, DOMAIN fun, g))[DOMAIN fun]
BY DEF SumFunction, SumFunctionOnSet, FoldFunctionOnSet, MapThenFoldSet, Sums

\* There is such a sum of every subset.
LEMMA SumsExist ==
  ASSUME NEW S, IsFiniteSet(S), NEW fun \in [S -> Nat]
  PROVE  \E f \in [SUBSET S -> Nat] : f = Sums(fun, S, f)
<1> DEFINE ch   == [s \in SUBSET S |-> CHOOSE x \in s : TRUE]
           step == [a \in S \X Nat |-> fun[a[1]] + a[2]]
<1>1. \A s \in SUBSET S : s # {} => ch[s] \in s
  OBVIOUS
<1>2. step \in [S \X Nat -> Nat]
  OBVIOUS
<1>3. PICK f \in [SUBSET S -> Nat] : \A s \in SUBSET S :
        f[s] = IF s = {} THEN 0 ELSE step[<<ch[s], f[s \ {ch[s]}]>>]
  <2> HIDE DEF ch, step
  <2> DEFINE V == Nat
  <2> HIDE DEF V
  <2>1. 0 \in V /\ step \in [S \X V -> V]
    BY <1>2 DEF V
  <2>2. \E f \in [SUBSET S -> V] : Folded(S, 0, ch, step, f)
    <3>1. Foldable(S, V, 0, ch, step)
      BY <1>1, <2>1 DEF Foldable
    <3> QED
      BY <3>1, SetRecursion
  <2> QED
    BY <2>2 DEF V, Folded
<1>4. ASSUME NEW s \in SUBSET S
      PROVE  f[s] = Sums(fun, S, f)[s]
  <2>1. CASE s = {}
    BY <1>3, <2>1 DEF Sums
  <2>2. CASE s # {}
    <3>1. ch[s] \in S /\ s \ {ch[s]} \in SUBSET S /\ f[s \ {ch[s]}] \in Nat /\ ch[s] = CHOOSE x \in s : TRUE
      BY <1>1, <2>2
    <3>2. step[<<ch[s], f[s \ {ch[s]}]>>] = fun[ch[s]] + f[s \ {ch[s]}]
      <4> DEFINE x == ch[s]
                 v == f[s \ {ch[s]}]
      <4>1. x \in S /\ v \in Nat
        BY <3>1
      <4> HIDE DEF x, v, ch
      <4>2. step[<<x, v>>] = fun[x] + v
        BY <4>1
      <4> QED
        BY <4>2 DEF x, v
    <3> QED
      BY <1>3, <2>2, <3>1, <3>2, Zenon DEF Sums
  <2> QED
    BY <2>1, <2>2
<1>5. DOMAIN f = SUBSET S /\ DOMAIN Sums(fun, S, f) = SUBSET S
      /\ Sums(fun, S, f) = [s \in SUBSET S |-> Sums(fun, S, f)[s]]
  BY DEF Sums
<1> QED
  BY <1>4, <1>5

\* A sum of which only one part is not zero.
LEMMA SumOfOne ==
  ASSUME NEW fun, NEW S, S = DOMAIN fun, IsFiniteSet(S), fun \in [S -> Nat],
         NEW k, \A x \in S : x # k => fun[x] = 0
  PROVE  SumFunction(fun) = IF k \in S THEN fun[k] ELSE 0
<1> DEFINE f == CHOOSE g : g = Sums(fun, S, g)
           Of(s) == IF k \in s THEN fun[k] ELSE 0
           Bad == {n \in Nat : \E s \in SUBSET S : Cardinality(s) = n /\ f[s] # Of(s)}
<1>1. f = Sums(fun, S, f)
  BY SumsExist
<1>2. ASSUME NEW s \in SUBSET S, s # {}
      PROVE  \E x \in s : f[s] = fun[x] + f[s \ {x}]
  <2>1. f[s] = fun[CHOOSE x \in s : TRUE] + f[s \ {CHOOSE x \in s : TRUE}]
    <3> HIDE DEF f
    <3> QED
      BY <1>1, <1>2, Zenon DEF Sums
  <2> HIDE DEF f
  <2> QED
    BY <1>2, <2>1
<1>3. f[{}] = 0
  <2> HIDE DEF f
  <2> QED
    BY <1>1 DEF Sums
<1> HIDE DEF f
<1>4. \A s \in SUBSET S : IsFiniteSet(s) /\ Cardinality(s) \in Nat
  BY FS_Subset, FS_CardinalityType
<1>5. Bad = {}
  <2> SUFFICES ASSUME Bad # {} PROVE FALSE
    OBVIOUS
  <2>1. PICK n \in Bad : \A m \in Bad : n <= m
    BY LeastNumber
  <2>2. PICK s \in SUBSET S : Cardinality(s) = n /\ f[s] # Of(s)
    OBVIOUS
  <2>3. s # {}
    BY <1>3, <2>2
  <2>4. PICK x \in s : f[s] = fun[x] + f[s \ {x}]
    BY <1>2, <2>3
  <2>5. Cardinality(s \ {x}) = n - 1 /\ s \ {x} \in SUBSET S
    BY <1>4, <2>2, FS_RemoveElement
  <2>6. f[s \ {x}] = Of(s \ {x})
    <3> SUFFICES ASSUME f[s \ {x}] # Of(s \ {x}) PROVE FALSE
      OBVIOUS
    <3>1. n - 1 \in Nat
      BY <1>4, <2>5
    <3>2. n - 1 \in Bad
      BY <2>5, <3>1
    <3> QED
      BY <2>1, <3>1, <3>2
  <2>7. x \in S /\ fun[x] \in Nat
    BY <2>2
  <2>8. CASE x = k
    BY <2>2, <2>4, <2>6, <2>7, <2>8
  <2>9. CASE x # k
    <3>1. fun[x] = 0
      BY <2>7, <2>9
    <3>2. Of(s \ {x}) = Of(s) /\ Of(s) \in Nat
      BY <2>9
    <3> HIDE DEF Of
    <3> QED
      BY <2>2, <2>4, <2>6, <3>1, <3>2
  <2> QED
    BY <2>8, <2>9
<1>6. f[S] = Of(S)
  BY <1>4, <1>5
<1>7. SumFunction(fun) = f[S]
  BY SumIsSums DEF f
<1> QED
  BY <1>6, <1>7

Addable(fun, S) == IsFiniteSet(S) /\ \A x \in S : fun[x] \in Nat

\* f adds up the elements of every subset of S, in some order.
AddsUp(fun, S, f) ==
  f[{}] = 0 /\ \A s \in SUBSET S : s # {} => \E x \in s : f[s] = fun[x] + f[s \ {x}]

\* The sum of fun over S.
Total(fun, S) == (CHOOSE g : g = Sums(fun, S, g))[S]

LEMMA SumsAddUp ==
  ASSUME NEW fun, NEW S, Addable(fun, S)
  PROVE  AddsUp(fun, S, CHOOSE g : g = Sums(fun, S, g))
<1> DEFINE only == [x \in S |-> fun[x]]
           f == CHOOSE g : g = Sums(fun, S, g)
<1>1. only \in [S -> Nat] /\ IsFiniteSet(S)
  BY DEF Addable
<1>2. PICK g : g = Sums(only, S, g)
  <2> HIDE DEF only
  <2> QED
    BY <1>1, SumsExist
<1>3. Sums(only, S, g) = Sums(fun, S, g)
  <2>1. \A s \in SUBSET S : s # {} => (CHOOSE x \in s : TRUE) \in S
    OBVIOUS
  <2>2. \A x \in S : only[x] = fun[x]
    OBVIOUS
  <2> HIDE DEF only
  <2> QED
    BY <2>1, <2>2 DEF Sums
<1>4. f = Sums(fun, S, f)
  <2>1. g = Sums(fun, S, g)
    BY <1>2, <1>3
  <2> QED
    BY <2>1
<1> HIDE DEF f
<1>5. f[{}] = 0
  BY <1>4 DEF Sums
<1>6. ASSUME NEW s \in SUBSET S, s # {}
      PROVE  \E x \in s : f[s] = fun[x] + f[s \ {x}]
  <2>1. f[s] = fun[CHOOSE x \in s : TRUE] + f[s \ {CHOOSE x \in s : TRUE}]
    BY <1>4, <1>6, Zenon DEF Sums
  <2> QED
    BY <1>6, <2>1
<1> QED
  BY <1>5, <1>6 DEF AddsUp, f

\* The order does not matter.
LEMMA AddsOneMore ==
  ASSUME NEW fun, NEW S, Addable(fun, S), NEW f, AddsUp(fun, S, f)
  PROVE  \A s \in SUBSET S : f[s] \in Nat /\ \A y \in S \ s : f[s \cup {y}] = fun[y] + f[s]
<1> DEFINE Good(s) == f[s] \in Nat /\ \A y \in S \ s : f[s \cup {y}] = fun[y] + f[s]
           Bad == {n \in Nat : \E s \in SUBSET S : Cardinality(s) = n /\ ~Good(s)}
<1>1. \A s \in SUBSET S : IsFiniteSet(s) /\ Cardinality(s) \in Nat
  BY FS_Subset, FS_CardinalityType DEF Addable
<1>2. Bad = {}
  <2> SUFFICES ASSUME Bad # {} PROVE FALSE
    OBVIOUS
  <2>1. PICK n \in Bad : \A m \in Bad : n <= m
    BY LeastNumber
  <2>2. PICK s \in SUBSET S : Cardinality(s) = n /\ ~Good(s)
    OBVIOUS
  <2>3. ASSUME NEW x \in s
        PROVE  Good(s \ {x})
    <3>1. Cardinality(s \ {x}) = n - 1 /\ s \ {x} \in SUBSET S /\ n - 1 \in Nat
      <4>1. Cardinality(s \ {x}) = n - 1 /\ s \ {x} \in SUBSET S
        BY <1>1, <2>2, FS_RemoveElement
      <4> QED
        BY <1>1, <4>1
    <3> SUFFICES ASSUME ~Good(s \ {x}) PROVE FALSE
      OBVIOUS
    <3> HIDE DEF Good
    <3>2. n - 1 \in Bad
      BY <3>1
    <3> QED
      BY <2>1, <3>1, <3>2
  <2>4. f[s] \in Nat
    <3>1. CASE s = {}
      BY <3>1 DEF AddsUp
    <3>2. CASE s # {}
      <4>1. PICK x \in s : f[s] = fun[x] + f[s \ {x}]
        BY <3>2 DEF AddsUp
      <4>2. f[s \ {x}] \in Nat /\ fun[x] \in Nat
        BY <2>3 DEF Addable
      <4> QED
        BY <4>1, <4>2
    <3> QED
      BY <3>1, <3>2
  <2>5. ASSUME NEW y \in S \ s
        PROVE  f[s \cup {y}] = fun[y] + f[s]
    <3> DEFINE t == s \cup {y}
    <3>1. PICK x \in t : f[t] = fun[x] + f[t \ {x}]
      BY DEF AddsUp
    <3>2. CASE x = y
      <4>1. t \ {x} = s
        BY <3>2
      <4> QED
        BY <3>1, <3>2, <4>1
    <3>3. CASE x # y
      <4>1. x \in s /\ t \ {x} = (s \ {x}) \cup {y} /\ (s \ {x}) \cup {x} = s /\ y \in S \ (s \ {x}) /\ x \in S \ (s \ {x})
        BY <3>3
      <4>2. f[t \ {x}] = fun[y] + f[s \ {x}] /\ f[s] = fun[x] + f[s \ {x}] /\ f[s \ {x}] \in Nat
        BY <2>3, <4>1
      <4>3. fun[x] \in Nat /\ fun[y] \in Nat
        BY <4>1 DEF Addable
      <4> DEFINE a == fun[x]
                 b == fun[y]
                 c == f[s \ {x}]
      <4>4. f[t] = a + (b + c) /\ f[s] = a + c /\ a \in Nat /\ b \in Nat /\ c \in Nat
        BY <3>1, <4>2, <4>3
      <4> HIDE DEF a, b, c, t
      <4>5. f[t] = b + f[s]
        BY <4>4
      <4> QED
        BY <4>5 DEF b, t
    <3> QED
      BY <3>2, <3>3
  <2> QED
    BY <2>2, <2>4, <2>5
<1> HIDE DEF Good
<1>3. \A s \in SUBSET S : Good(s)
  BY <1>1, <1>2
<1> QED
  BY <1>3 DEF Good

\* Sums over a part agree with those over the whole.
LEMMA AddsUpAlike ==
  ASSUME NEW fun, NEW S, Addable(fun, S), NEW f, AddsUp(fun, S, f),
         NEW other, NEW T \in SUBSET S, NEW g, AddsUp(other, T, g), \A x \in T : other[x] = fun[x]
  PROVE  g[T] = f[T]
<1> DEFINE Bad == {n \in Nat : \E s \in SUBSET T : Cardinality(s) = n /\ g[s] # f[s]}
<1>1. \A s \in SUBSET T : IsFiniteSet(s) /\ Cardinality(s) \in Nat
  BY FS_Subset, FS_CardinalityType DEF Addable
<1>2. Bad = {}
  <2> SUFFICES ASSUME Bad # {} PROVE FALSE
    OBVIOUS
  <2>1. PICK n \in Bad : \A m \in Bad : n <= m
    BY LeastNumber
  <2>2. PICK s \in SUBSET T : Cardinality(s) = n /\ g[s] # f[s]
    OBVIOUS
  <2>3. s # {}
    BY <2>2 DEF AddsUp
  <2>4. PICK x \in s : g[s] = other[x] + g[s \ {x}]
    BY <2>3 DEF AddsUp
  <2>5. g[s \ {x}] = f[s \ {x}]
    <3>1. Cardinality(s \ {x}) = n - 1 /\ s \ {x} \in SUBSET T
      BY <1>1, <2>2, FS_RemoveElement
    <3>2. n - 1 \in Nat
      BY <1>1, <3>1
    <3> SUFFICES ASSUME g[s \ {x}] # f[s \ {x}] PROVE FALSE
      OBVIOUS
    <3>3. n - 1 \in Bad
      BY <3>1, <3>2
    <3> QED
      BY <2>1, <3>2, <3>3
  <2>6. f[s] = fun[x] + f[s \ {x}]
    <3> DEFINE rest == s \ {x}
    <3>1. rest \in SUBSET S /\ x \in S \ rest /\ rest \cup {x} = s
      OBVIOUS
    <3>2. \A y \in S \ rest : f[rest \cup {y}] = fun[y] + f[rest]
      <4>1. rest \in SUBSET S
        BY <3>1
      <4> HIDE DEF rest
      <4> QED
        BY <4>1, AddsOneMore
    <3> HIDE DEF rest
    <3>3. f[rest \cup {x}] = fun[x] + f[rest]
      BY <3>1, <3>2
    <3> QED
      BY <3>1, <3>3 DEF rest
  <2> QED
    BY <2>2, <2>4, <2>5, <2>6
<1> QED
  BY <1>1, <1>2

\* The sum over a part is a sum of the whole.
LEMMA TotalIs ==
  ASSUME NEW fun, NEW S, Addable(fun, S), NEW f, AddsUp(fun, S, f),
         NEW other, NEW T \in SUBSET S, \A x \in T : other[x] = fun[x]
  PROVE  Total(other, T) = f[T]
<1> DEFINE g == CHOOSE h : h = Sums(other, T, h)
<1>1. Addable(other, T)
  BY FS_Subset DEF Addable
<1>2. AddsUp(other, T, g)
  BY <1>1, SumsAddUp
<1> HIDE DEF g
<1>3. g[T] = f[T]
  BY <1>2, AddsUpAlike
<1> QED
  BY <1>3 DEF Total, g

LEMMA TotalOfNone == ASSUME NEW fun PROVE Total(fun, {}) = 0
<1>1. Addable(fun, {})
  BY FS_EmptySet DEF Addable
<1>2. AddsUp(fun, {}, CHOOSE g : g = Sums(fun, {}, g))
  BY <1>1, SumsAddUp
<1> QED
  BY <1>2 DEF AddsUp, Total

\* One element more.
LEMMA TotalGrows ==
  ASSUME NEW fun, NEW S, Addable(fun, S), NEW x, x \notin S, fun[x] \in Nat
  PROVE  Total(fun, S) \in Nat /\ Total(fun, S \cup {x}) = fun[x] + Total(fun, S)
<1> DEFINE U == S \cup {x}
           f == CHOOSE g : g = Sums(fun, U, g)
<1>1. Addable(fun, U)
  BY FS_AddElement DEF Addable
<1>2. AddsUp(fun, U, f)
  BY <1>1, SumsAddUp
<1>3. Total(fun, U) = f[U]
  BY DEF Total
<1>0. S \in SUBSET U /\ x \in U \ S /\ S \cup {x} = U
  OBVIOUS
<1> HIDE DEF f, U
<1>4. Total(fun, S) = f[S]
  BY <1>0, <1>1, <1>2, TotalIs
<1>5. f[S] \in Nat /\ f[S \cup {x}] = fun[x] + f[S]
  BY <1>0, <1>1, <1>2, AddsOneMore
<1> QED
  BY <1>0, <1>3, <1>4, <1>5 DEF U

\* Only the values on the set count.
LEMMA TotalAlike ==
  ASSUME NEW fun, NEW S, Addable(fun, S), NEW other, \A x \in S : other[x] = fun[x]
  PROVE  Total(other, S) = Total(fun, S) /\ Total(fun, S) \in Nat
<1> DEFINE f == CHOOSE g : g = Sums(fun, S, g)
<1>1. AddsUp(fun, S, f)
  BY SumsAddUp
<1>2. Total(fun, S) = f[S]
  BY DEF Total
<1> HIDE DEF f
<1>0. S \in SUBSET S
  OBVIOUS
<1>3. Total(other, S) = f[S]
  BY <1>0, <1>1, TotalIs
<1>4. f[S] \in Nat
  BY <1>0, <1>1, AddsOneMore
<1> QED
  BY <1>2, <1>3, <1>4

\* A part is no more than the whole, and nothing only if it adds nothing.
LEMMA TotalOfPart ==
  ASSUME NEW fun, NEW S, Addable(fun, S), NEW T \in SUBSET S
  PROVE  /\ Total(fun, T) \in Nat /\ Total(fun, T) <= Total(fun, S)
         /\ Total(fun, S) = 0 => \A x \in S : fun[x] = 0
<1> DEFINE f == CHOOSE g : g = Sums(fun, S, g)
           Bad == {n \in Nat : \E s \in SUBSET S : Cardinality(s) = n /\ ~(\A t \in SUBSET s : f[t] <= f[s])}
<1>1. AddsUp(fun, S, f)
  BY SumsAddUp
<1>2. \A s \in SUBSET S : Total(fun, s) = f[s]
  <2> HIDE DEF f
  <2> QED
    BY <1>1, TotalIs
<1> HIDE DEF f
<1>3. \A s \in SUBSET S : f[s] \in Nat /\ \A y \in S \ s : f[s \cup {y}] = fun[y] + f[s]
  BY <1>1, AddsOneMore
<1>4. \A s \in SUBSET S : IsFiniteSet(s) /\ Cardinality(s) \in Nat
  BY FS_Subset, FS_CardinalityType DEF Addable
<1>5. Bad = {}
  <2> SUFFICES ASSUME Bad # {} PROVE FALSE
    OBVIOUS
  <2>1. PICK n \in Bad : \A m \in Bad : n <= m
    BY LeastNumber
  <2>2. PICK s \in SUBSET S : Cardinality(s) = n /\ ~(\A t \in SUBSET s : f[t] <= f[s])
    OBVIOUS
  <2>3. PICK t \in SUBSET s : ~(f[t] <= f[s])
    BY <2>2
  <2>4. f[t] \in Nat /\ f[s] \in Nat /\ t # s
    BY <1>3, <2>3
  <2>5. PICK x \in s : x \notin t
    BY <2>4
  <2>6. Cardinality(s \ {x}) = n - 1 /\ s \ {x} \in SUBSET S /\ t \in SUBSET (s \ {x})
    BY <1>4, <2>2, <2>5, FS_RemoveElement
  <2>7. n - 1 \in Nat
    BY <1>4, <2>6
  <2>8. f[t] <= f[s \ {x}]
    <3> SUFFICES ASSUME ~(f[t] <= f[s \ {x}]) PROVE FALSE
      OBVIOUS
    <3>1. n - 1 \in Bad
      BY <2>6, <2>7
    <3> QED
      BY <2>1, <2>7, <3>1
  <2>9. f[s] = fun[x] + f[s \ {x}] /\ fun[x] \in Nat /\ f[s \ {x}] \in Nat
    <3>1. (s \ {x}) \cup {x} = s /\ x \in S \ (s \ {x})
      OBVIOUS
    <3> QED
      BY <1>3, <2>6, <3>1 DEF Addable
  <2> QED
    BY <2>3, <2>4, <2>8, <2>9
<1>6. \A s \in SUBSET S : \A t \in SUBSET s : f[t] <= f[s]
  BY <1>4, <1>5
<1>7. ASSUME f[S] = 0, NEW x \in S
      PROVE  fun[x] = 0
  <2>1. S \ {x} \in SUBSET S /\ x \in S \ (S \ {x}) /\ (S \ {x}) \cup {x} = S
    OBVIOUS
  <2>2. f[S] = fun[x] + f[S \ {x}] /\ f[S \ {x}] \in Nat
    BY <1>3, <2>1
  <2>3. fun[x] \in Nat
    BY DEF Addable
  <2> QED
    BY <1>7, <2>2, <2>3
<1> QED
  BY <1>2, <1>3, <1>6, <1>7

----------------------------------------------------------------------------
(* Unions of finite sets *)

\* What a union adds.
LEMMA UnionAdds ==
  ASSUME NEW S, NEW T, IsFiniteSet(S), IsFiniteSet(T)
  PROVE  /\ Cardinality(S) \in Nat /\ Cardinality(T \ S) \in Nat
         /\ Cardinality(S \cup T) = Cardinality(S) + Cardinality(T \ S)
<1> DEFINE more == T \ S
<1>1. S \cap more = {} /\ S \cup more = S \cup T /\ IsFiniteSet(more)
  BY FS_Subset
<1> HIDE DEF more
<1>2. Cardinality(S) \in Nat /\ Cardinality(more) \in Nat /\ Cardinality(S \cap more) = 0
  BY <1>1, FS_EmptySet, FS_CardinalityType
<1>3. Cardinality(S \cup more) = Cardinality(S) + Cardinality(more) - Cardinality(S \cap more)
  BY <1>1, FS_Union
<1>4. Cardinality(S \cup more) = Cardinality(S) + Cardinality(more)
  <2> DEFINE a == Cardinality(S)
             b == Cardinality(more)
  <2>1. a \in Nat /\ b \in Nat /\ Cardinality(S \cup more) = a + b - 0
    BY <1>2, <1>3
  <2> HIDE DEF a, b
  <2> QED
    BY <2>1 DEF a, b
<1>5. Cardinality(S \cup T) = Cardinality(S) + Cardinality(more)
  BY <1>1, <1>4, Zenon
<1> QED
  BY <1>2, <1>5 DEF more

\* A union has at most as many elements as both have.
LEMMA UnionAtMost ==
  ASSUME NEW S, NEW T, IsFiniteSet(S), IsFiniteSet(T)
  PROVE  /\ Cardinality(S) \in Nat /\ Cardinality(T) \in Nat
         /\ Cardinality(S \cup T) \in Nat /\ IsFiniteSet(S \cup T)
         /\ Cardinality(S \cup T) <= Cardinality(S) + Cardinality(T)
<1>1. /\ Cardinality(S) \in Nat /\ Cardinality(T \ S) \in Nat
      /\ Cardinality(S \cup T) = Cardinality(S) + Cardinality(T \ S)
  BY UnionAdds
<1>2. Cardinality(T) \in Nat /\ Cardinality(T \ S) <= Cardinality(T)
  <2>1. T \ S \in SUBSET T
    OBVIOUS
  <2> QED
    BY <2>1, FS_Subset, FS_CardinalityType
<1>3. IsFiniteSet(S \cup T)
  BY FS_Union
<1> DEFINE a == Cardinality(S)
           b == Cardinality(T \ S)
           c == Cardinality(T)
<1>4. a \in Nat /\ b \in Nat /\ c \in Nat /\ b <= c /\ Cardinality(S \cup T) = a + b
  BY <1>1, <1>2
<1> HIDE DEF a, b, c
<1>5. Cardinality(S \cup T) \in Nat /\ Cardinality(S \cup T) <= a + c
  BY <1>4
<1> QED
  BY <1>3, <1>4, <1>5 DEF a, c

\* The union of the sets of f.
UnionOf(f, S) == UNION {f[x] : x \in S}

\* A union of small sets.
LEMMA UnionBound ==
  ASSUME NEW S, IsFiniteSet(S), NEW P, IsFiniteSet(P), NEW f, \A x \in S : f[x] \in SUBSET P,
         NEW g \in Nat, \A x \in S : Cardinality(f[x]) <= g
  PROVE  Cardinality(UnionOf(f, S)) <= Cardinality(S) * g
<1> DEFINE Bad == {n \in Nat : \E s \in SUBSET S : Cardinality(s) = n /\ ~(Cardinality(UnionOf(f, s)) <= n * g)}
<1>1. \A s \in SUBSET S : /\ IsFiniteSet(s) /\ Cardinality(s) \in Nat
                          /\ UnionOf(f, s) \in SUBSET P
                          /\ IsFiniteSet(UnionOf(f, s)) /\ Cardinality(UnionOf(f, s)) \in Nat
  <2>1. \A s \in SUBSET S : UnionOf(f, s) \in SUBSET P
    BY DEF UnionOf
  <2> QED
    BY <2>1, FS_Subset, FS_CardinalityType
<1>2. Bad = {}
  <2> SUFFICES ASSUME Bad # {} PROVE FALSE
    OBVIOUS
  <2>1. PICK n \in Bad : \A m \in Bad : n <= m
    BY LeastNumber
  <2>2. PICK s \in SUBSET S : Cardinality(s) = n /\ ~(Cardinality(UnionOf(f, s)) <= n * g)
    OBVIOUS
  <2>3. s # {}
    <3> SUFFICES ASSUME s = {} PROVE FALSE
      OBVIOUS
    <3>1. UnionOf(f, s) = {} /\ Cardinality({}) = 0
      BY FS_EmptySet DEF UnionOf
    <3>2. n = 0 /\ Cardinality(UnionOf(f, s)) = 0
      BY <2>2, <3>1
    <3>3. Cardinality(UnionOf(f, s)) <= n * g
      BY <3>2
    <3> QED
      BY <2>2, <3>3
  <2>4. PICK x \in s : TRUE
    BY <2>3
  <2> DEFINE t == s \ {x}
             m == n - 1
             u == UnionOf(f, t)
  <2>5. Cardinality(t) = m /\ t \in SUBSET S /\ m \in Nat /\ n = m + 1
    <3>1. Cardinality(t) = n - 1 /\ t \in SUBSET S
      BY <1>1, <2>2, FS_RemoveElement
    <3> QED
      BY <1>1, <3>1
  <2>6. UnionOf(f, s) = f[x] \cup u
    BY DEF UnionOf
  <2> HIDE DEF t, m, u
  <2>7. Cardinality(u) <= m * g
    <3> SUFFICES ASSUME ~(Cardinality(u) <= m * g) PROVE FALSE
      OBVIOUS
    <3>1. m \in Bad
      BY <2>5 DEF u
    <3> QED
      BY <2>1, <2>5, <3>1
  <2>8. /\ IsFiniteSet(u) /\ Cardinality(u) \in Nat
        /\ IsFiniteSet(f[x]) /\ Cardinality(f[x]) \in Nat /\ Cardinality(f[x]) <= g
    <3>1. f[x] \in SUBSET P /\ Cardinality(f[x]) <= g
      OBVIOUS
    <3> QED
      BY <1>1, <2>5, <3>1, FS_Subset, FS_CardinalityType DEF u
  <2> DEFINE v == f[x]
  <2>9. Cardinality(v \cup u) <= Cardinality(v) + Cardinality(u)
    <3> HIDE DEF v
    <3>1. IsFiniteSet(v) /\ IsFiniteSet(u)
      BY <2>8 DEF v
    <3> QED
      BY <3>1, UnionAtMost
  <2> DEFINE a == Cardinality(v)
             b == Cardinality(u)
             w == Cardinality(UnionOf(f, s))
  <2>10. a \in Nat /\ b \in Nat /\ a <= g /\ b <= m * g /\ w <= a + b /\ w \in Nat /\ ~(w <= n * g)
    <3>1. UnionOf(f, s) = v \cup u
      BY <2>6
    <3>2. a \in Nat /\ a <= g
      BY <2>8
    <3>3. w <= a + b
      BY <2>9, <3>1
    <3>4. w \in Nat
      BY <1>1
    <3> HIDE DEF v, a
    <3>5. b \in Nat /\ b <= m * g
      BY <2>7, <2>8
    <3> QED
      BY <2>2, <3>2, <3>3, <3>4, <3>5
  <2> HIDE DEF a, b, w, v
  <2>11. n * g = m * g + g /\ m * g \in Nat
    BY <2>5
  <2> QED
    BY <2>10, <2>11
<1>3. S \in SUBSET S /\ Cardinality(S) \in Nat
  BY <1>1
<1> QED
  BY <1>2, <1>3

----------------------------------------------------------------------------
(* Folds over sequences *)

\* The greatest of some positions.
LEMMA MaxOfPositions ==
  ASSUME NEW n \in Nat, NEW s \in SUBSET (1..n), s # {}
  PROVE  Max(s) \in s /\ \A y \in s : Max(s) >= y
<1> DEFINE T == {n - x : x \in s}
<1>0. \A x \in s : x \in Nat /\ n - x \in Nat
  OBVIOUS
<1>1. T \in SUBSET Nat /\ T # {}
  BY <1>0
<1>2. PICK d \in T : \A m \in T : d <= m
  BY <1>1, LeastNumber
<1>3. PICK x \in s : d = n - x
  OBVIOUS
<1>4. \A y \in s : x >= y
  <2> SUFFICES ASSUME NEW y \in s PROVE x >= y
    OBVIOUS
  <2>1. n - x <= n - y
    BY <1>2, <1>3
  <2>2. x \in Nat /\ y \in Nat
    BY <1>0, <1>3
  <2> QED
    BY <2>1, <2>2
<1> QED
  BY <1>4 DEF Max

LEMMA MaxOfFirst ==
  ASSUME NEW k \in Nat
  PROVE  Max(1..(k + 1)) = k + 1 /\ (1..(k + 1)) \ {k + 1} = 1..k
<1>1. Max(1..(k + 1)) \in 1..(k + 1) /\ \A y \in 1..(k + 1) : Max(1..(k + 1)) >= y
  <2> DEFINE s == 1..(k + 1)
             n == k + 1
  <2>1. n \in Nat /\ s \in SUBSET (1..n) /\ s # {}
    OBVIOUS
  <2> HIDE DEF s, n
  <2>2. Max(s) \in s /\ \A y \in s : Max(s) >= y
    BY <2>1, MaxOfPositions
  <2> QED
    BY <2>2 DEF s
<1>2. k + 1 \in 1..(k + 1)
  OBVIOUS
<1>3. Max(1..(k + 1)) >= k + 1
  BY <1>1, <1>2
<1> QED
  <2>1. Max(1..(k + 1)) = k + 1
    BY <1>1, <1>3
  <2> QED
    BY <2>1

\* What it takes to fold step over a sequence.
Steps(seq, S, V, base, step) == seq \in Seq(S) /\ base \in V /\ step \in [V \X S -> V]

\* f folds step over any of the positions, the greatest last.
FoldsUp(seq, V, base, step, f) ==
  /\ f \in [SUBSET DOMAIN seq -> V]
  /\ \A s \in SUBSET DOMAIN seq :
       f[s] = IF s = {} THEN base ELSE step[<<f[s \ {Max(s)}], seq[Max(s)]>>]

LEMMA FoldExists ==
  ASSUME NEW seq, NEW S, NEW V, NEW base, NEW step, Steps(seq, S, V, base, step)
  PROVE  \E f : FoldsUp(seq, V, base, step, f)
<1> DEFINE D    == DOMAIN seq
           ch   == [s \in SUBSET D |-> Max(s)]
           back == [a \in D \X V |-> step[<<a[2], seq[a[1]]>>]]
<1>1. /\ Len(seq) \in Nat /\ D = 1..Len(seq) /\ \A i \in D : seq[i] \in S
      /\ base \in V /\ step \in [V \X S -> V]
  BY LenProperties, ElementOfSeq DEF Steps
<1>2. IsFiniteSet(D)
  BY <1>1, FS_Interval
<1>3. back \in [D \X V -> V]
  BY <1>1
<1>4. \A s \in SUBSET D : s # {} => Max(s) \in s
  BY <1>1, MaxOfPositions
<1> HIDE DEF D
<1>5. \A s \in SUBSET D : s # {} => ch[s] \in s
  BY <1>4
<1>6. PICK f \in [SUBSET D -> V] : Folded(D, base, ch, back, f)
  <2> HIDE DEF ch, back
  <2>1. Foldable(D, V, base, ch, back)
    BY <1>1, <1>2, <1>3, <1>5 DEF Foldable
  <2> QED
    BY <2>1, SetRecursion
<1>7. ASSUME NEW s \in SUBSET D
      PROVE  f[s] = IF s = {} THEN base ELSE step[<<f[s \ {Max(s)}], seq[Max(s)]>>]
  <2>1. f[s] = IF s = {} THEN base ELSE back[<<ch[s], f[s \ {ch[s]}]>>]
    <3> HIDE DEF ch, back
    <3> QED
      BY <1>6 DEF Folded
  <2>2. CASE s # {}
    <3>1. Max(s) \in D /\ f[s \ {Max(s)}] \in V
      BY <1>4, <2>2
    <3>2. back[<<Max(s), f[s \ {Max(s)}]>>] = step[<<f[s \ {Max(s)}], seq[Max(s)]>>]
      BY <3>1
    <3> QED
      BY <2>1, <2>2, <3>2
  <2> QED
    BY <2>1, <2>2
<1> QED
  BY <1>7 DEF FoldsUp, D

\* g is what a fold has after each of the elements.
Accumulates(seq, V, base, step, g) ==
  /\ g \in [0..Len(seq) -> V]
  /\ g[0] = base
  /\ \A k \in 0..(Len(seq) - 1) : g[k + 1] = step[<<g[k], seq[k + 1]>>]

\* h folds step, as far as it stays in V.
FoldsIn(seq, V, base, step, h) ==
  \A s \in SUBSET DOMAIN seq :
    /\ s = {} => h[s] = base
    /\ s # {} /\ h[s \ {Max(s)}] \in V => h[s] = step[<<h[s \ {Max(s)}], seq[Max(s)]>>]

\* A fold takes the elements one after another.
LEMMA FoldGrows ==
  ASSUME NEW seq, NEW S, NEW V, NEW base, NEW step, Steps(seq, S, V, base, step),
         NEW h, FoldsIn(seq, V, base, step, h)
  PROVE  \E g : Accumulates(seq, V, base, step, g) /\ h[DOMAIN seq] = g[Len(seq)]
<1> DEFINE n == Len(seq)
           g == [k \in 0..n |-> h[1..k]]
<1>1. /\ n \in Nat /\ DOMAIN seq = 1..n /\ \A i \in 1..n : seq[i] \in S
      /\ base \in V /\ step \in [V \X S -> V]
  BY LenProperties, ElementOfSeq DEF Steps
<1> HIDE DEF n
<1>2. h[1..0] = base
  <2>1. 1..0 = {} /\ 1..0 \in SUBSET DOMAIN seq
    BY <1>1
  <2> QED
    BY <2>1 DEF FoldsIn
<1>3. ASSUME NEW k \in 0..(n - 1), h[1..k] \in V
      PROVE  h[1..(k + 1)] = step[<<h[1..k], seq[k + 1]>>] /\ h[1..(k + 1)] \in V
  <2>1. /\ 1..(k + 1) \in SUBSET DOMAIN seq /\ k \in Nat /\ k + 1 \in 1..n
        /\ Max(1..(k + 1)) = k + 1 /\ (1..(k + 1)) \ {k + 1} = 1..k
    <3>1. k \in Nat /\ k + 1 \in 1..n
      BY <1>1
    <3>2. Max(1..(k + 1)) = k + 1 /\ (1..(k + 1)) \ {k + 1} = 1..k
      BY <3>1, MaxOfFirst
    <3>3. 1..(k + 1) \in SUBSET (1..n)
      BY <1>1, <3>1
    <3> QED
      BY <1>1, <3>1, <3>2, <3>3
  <2> DEFINE s == 1..(k + 1)
  <2>2. s \in SUBSET DOMAIN seq /\ s # {} /\ Max(s) = k + 1 /\ s \ {k + 1} = 1..k
    BY <2>1
  <2> HIDE DEF s
  <2>3. h[s] = step[<<h[1..k], seq[k + 1]>>]
    BY <1>3, <2>2 DEF FoldsIn
  <2>4. step[<<h[1..k], seq[k + 1]>>] \in V
    BY <1>1, <1>3, <2>1
  <2> QED
    BY <2>3, <2>4 DEF s
<1>4. \A k \in 0..n : h[1..k] \in V
  <2> DEFINE T == {k \in Nat : k <= n => h[1..k] \in V}
  <2>1. 0 \in T
    BY <1>1, <1>2
  <2>2. ASSUME NEW k \in T PROVE k + 1 \in T
    <3>1. k \in Nat /\ k + 1 \in Nat
      BY <2>2
    <3>2. CASE k + 1 <= n
      <4>1. k \in 0..(n - 1) /\ h[1..k] \in V
        BY <1>1, <2>2, <3>1, <3>2
      <4> QED
        BY <1>3, <3>1, <4>1
    <3> QED
      BY <3>1, <3>2
  <2> HIDE DEF T
  <2>3. T = Nat
    BY <2>1, <2>2, NumbersInduct DEF T
  <2> QED
    BY <1>1, <2>3 DEF T
<1>5. g \in [0..n -> V] /\ g[0] = base /\ g[n] = h[1..n]
  BY <1>1, <1>2, <1>4
<1>6. \A k \in 0..(n - 1) : g[k + 1] = step[<<g[k], seq[k + 1]>>]
  BY <1>1, <1>3, <1>4
<1> HIDE DEF g
<1> QED
  BY <1>1, <1>5, <1>6 DEF Accumulates, n
=============================================================================
