---------------------------- MODULE MCPebbleStore ----------------------------
(* Instances of PebbleStore for TLC: two goroutines, two statements. *)
EXTENDS PebbleStore

CONSTANTS p1, p2, s1, s2, a, b, bad

Q(s, l) == [stmt |-> s, label |-> l]

B(adds, removes, label, audit) ==
  [adds |-> adds, removes |-> removes, label |-> label, audit |-> audit]

Put    == B(<<Q(s1, NoLabel)>>, <<>>, a, TRUE)
Other  == B(<<Q(s2, NoLabel)>>, <<>>, a, TRUE)
Drop   == B(<<>>, <<Q(s1, a)>>, NoLabel, TRUE)
Swap   == B(<<Q(s2, a)>>, <<Q(s1, a)>>, NoLabel, FALSE)
Cancel == B(<<Q(s1, a)>>, <<Q(s1, a)>>, a, TRUE)
Move   == B(<<Q(s1, b)>>, <<Q(s1, a)>>, a, TRUE)

AnyOwner   == [s \in Stmt \cup {EmptyStmt} |-> Proc]
SplitOwner == [s \in Stmt \cup {EmptyStmt} |-> IF s = s1 THEN {p1} ELSE {p2}]

AllBatches     == {Put, Swap, Cancel}
MoveBatches    == {Put, Move, Drop, Other}

Ingests ==
  {[quads |-> <<Q(s1, NoLabel), Q(s2, NoLabel)>>, label |-> a],
   [quads |-> <<Q(s2, a), Q(s2, a)>>, label |-> NoLabel]}
OwnIngests ==
  {[quads |-> <<Q(s1, NoLabel), Q(s1, b)>>, label |-> a],
   [quads |-> <<Q(s2, a)>>, label |-> NoLabel]}
=============================================================================
