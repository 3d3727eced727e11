----------------------------- MODULE MCSqliteBulk -----------------------------
(* Instances of SqliteBulk for TLC: two partitions, named by two labels. *)
EXTENDS SqliteBulk, TLC

CONSTANTS s1, s2, a, b, bad, main, side, c1, c2

Q(s, l) == [stmt |-> s, label |-> l]

Routes == (a :> main) @@ (b :> side) @@ (bad :> main) @@ (NoLabel :> main)

\* An own label, the loader's default one, another partition's, one in no
\* namespace, and an empty field.
Adds   == {Q(s1, NoLabel), Q(s1, a), Q(s2, b), Q(EmptyStmt, a)}
OneAdd == {Q(s1, NoLabel)}
===============================================================================
