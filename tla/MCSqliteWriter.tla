---------------------------- MODULE MCSqliteWriter ----------------------------
(* Instances of SqliteWriter for TLC: two partitions, named by two labels. *)
EXTENDS SqliteWriter, TLC

CONSTANTS g1, g2, g3, s1, s2, a, b, bad, main, side, nowhere

Q(s, l) == [stmt |-> s, label |-> l]

B(adds, removes, label, audit) ==
  [adds |-> adds, removes |-> removes, label |-> label, audit |-> audit]

\* b has a partition of its own; the router knows no such partition as nowhere.
Routes == (a :> main) @@ (b :> side) @@ (bad :> nowhere) @@ (NoLabel :> nowhere)

Put    == B(<<Q(s1, NoLabel)>>, <<>>, a, TRUE)
PutB   == B(<<Q(s1, NoLabel)>>, <<>>, b, TRUE)
Swap   == B(<<Q(s2, a)>>, <<Q(s1, a)>>, NoLabel, TRUE)
Drop   == B(<<>>, <<Q(s1, a)>>, NoLabel, TRUE)
Twice  == B(<<Q(s1, a)>>, <<Q(s1, a)>>, a, TRUE)
Quiet  == B(<<Q(s2, a)>>, <<Q(s1, a)>>, NoLabel, FALSE)
\* Refused by validation.
Cross  == B(<<Q(s1, a), Q(s1, b)>>, <<>>, NoLabel, TRUE)
BadAdd == B(<<Q(s1, bad)>>, <<>>, a, TRUE)
\* The older calls.
AddBad == B(<<Q(s1, bad)>>, <<>>, NoLabel, FALSE)
AddTwo == B(<<Q(s2, a), Q(EmptyStmt, a)>>, <<>>, NoLabel, FALSE)
Delete == B(<<>>, <<Q(s1, a)>>, NoLabel, FALSE)

AllBatches     == {Put, PutB, Swap, Quiet, Cross, BadAdd}
AllLegacy      == {AddBad, AddTwo, Delete}
JournalBatches == {Put, Drop, Twice, Swap}
Symmetry == Permutations(Proc)

NoBatches      == {}
=============================================================================
