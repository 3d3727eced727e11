------------------------------ MODULE MCMigrate ------------------------------
(* Instances of Migrate for TLC: two partitions, named by two labels. *)
EXTENDS Migrate, TLC

CONSTANTS s1, s2, a, b, lost, main, side, nowhere, c1, c2, x1, x2

Q(s, l) == [stmt |-> s, label |-> l]

\* The router has a partition for lost that the destination does not have.
Routes == (a :> main) @@ (b :> side) @@ (lost :> nowhere) @@ (NoLabel :> EmptyName)

C(adds, removes, label, audited) ==
  [adds |-> adds, removes |-> removes, label |-> label, audit |-> audited]

\* A commit whose label and quads go to different partitions, a removal, a
\* write without a trail, and quads or a commit that go nowhere.
Writes ==
  {C({Q(s1, a), Q(s1, b)}, {}, b, TRUE), C({Q(s2, NoLabel)}, {Q(s1, a)}, NoLabel, TRUE),
   C({Q(s2, b)}, {}, NoLabel, FALSE), C({Q(s2, a)}, {}, lost, TRUE),
   C({Q(s2, lost)}, {}, a, FALSE)}

Nothing == {}
===============================================================================
