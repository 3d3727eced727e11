----------------------------- MODULE Partitions -----------------------------
(***************************************************************************)
(* Quads, labels and their partitions, as the SQLite modules share them    *)
(* (quadstore.go, writer.go, partitioned.go).                              *)
(***************************************************************************)
CONSTANTS
  Part,        \* the partitions, each a SQLite file of its own
  Default,     \* the default one
  RouteLabel,  \* RouteLabel[l]: what the configured router answers for a label
  Stmt,        \* complete statements (subject, predicate, object)
  EmptyStmt,   \* a statement with an empty field
  GoodLabel,   \* labels with one of the four namespace prefixes
  BadLabel,    \* labels with none of them
  NoLabel      \* the empty label

AnyLabel   == GoodLabel \cup BadLabel \cup {NoLabel}
ValidLabel == GoodLabel \cup {NoLabel}
Quad       == [stmt : Stmt \cup {EmptyStmt}, label : AnyLabel]

ASSUME RoutingAssumption ==
  /\ Default \in Part
  /\ AnyLabel \subseteq DOMAIN RouteLabel

\* A quad without a label of its own takes the default.
Effective(q, default) == IF q.label = NoLabel THEN [q EXCEPT !.label = default] ELSE q

\* partFor: an empty or unknown name means the default partition.
partFor(l) == IF RouteLabel[l] \in Part THEN RouteLabel[l] ELSE Default

=============================================================================
