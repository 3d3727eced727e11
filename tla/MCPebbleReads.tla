---------------------------- MODULE MCPebbleReads ----------------------------
(* An instance of PebbleReads: fields and labels that begin alike, requests  *)
(* that are refused, and each statement written by one goroutine.            *)
EXTENDS PebbleReads

CONSTANTS p1, p2

A  == <<97>>
AB == <<97, 98>>
P  == <<112>>
x  == <<A, P, AB>>
y  == <<AB, P, A>>
la == <<115>>
lb == <<115, 116>>
lx == <<120>>

NoText     == <<>>
Statements == {x, y}
NoStmt     == <<<<>>, <<>>, <<>>>>
Labels     == {la, lb}
NoPrefix   == {lx}
Owners     == [s \in Statements \cup {NoStmt} |-> IF s = x THEN {p1} ELSE {p2}]

Q(s, l) == [stmt |-> s, label |-> l]

B(adds, removes, label, audit) ==
  [adds |-> adds, removes |-> removes, label |-> label, audit |-> audit]

Move   == B(<<Q(x, lb), Q(x, NoLabel)>>, <<Q(x, la)>>, NoLabel, TRUE)
PutX   == B(<<Q(x, NoLabel)>>, <<>>, la, TRUE)
PutY   == B(<<Q(y, la)>>, <<>>, NoLabel, TRUE)
Cancel == B(<<Q(x, la)>>, <<Q(x, la)>>, NoLabel, TRUE)

\* Refused: a bad label of its own, a bad default, an empty field.
BadAdd     == B(<<Q(x, NoLabel), Q(x, lx)>>, <<>>, la, TRUE)
BadDefault == B(<<Q(y, la)>>, <<>>, lx, TRUE)
Hollow     == B(<<Q(y, la), Q(NoStmt, la)>>, <<>>, NoLabel, TRUE)
Batches    == {PutX, Move, PutY, Cancel, BadAdd, BadDefault, Hollow}
BadIngests ==
  {[quads |-> <<Q(y, NoLabel), Q(y, lx)>>, label |-> la],
   [quads |-> <<Q(y, NoLabel), Q(NoStmt, NoLabel)>>, label |-> la],
   [quads |-> <<Q(y, NoLabel), Q(y, la)>>, label |-> lx]}

Pat(s, p, o, l) == [s |-> s, p |-> p, o |-> o, l |-> l]
Patterns ==
  {Pat(A, P, Wild, la), Pat(A, P, AB, Wild), Pat(A, Wild, AB, Wild), Pat(Wild, P, A, Wild),
   Pat(Wild, Wild, A, la), Pat(Wild, Wild, Wild, la), Pat(Wild, Wild, Wild, Wild)}
=============================================================================
