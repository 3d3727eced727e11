----------------------------- MODULE MCSessions -----------------------------
(* Instances of five machines that share no state: SqliteReads, Schema,      *)
(* IndexTool, Clusters and PebbleCopy.  A behaviour is one of one machine    *)
(* while the others rest, so the states are the sum of theirs.               *)
EXTENDS SqliteReads, Schema, IndexTool, Clusters, PebbleCopy

(* SqliteReads: two partitions, edges that cross them. *)

CONSTANTS g1, a, b, bad, main, side, nowhere, n1, n2, n3, knows, likes

x == <<n1, knows, n2>>
y == <<n2, likes, n3>>
Statements == {x, y}
Routes == (a :> main) @@ (b :> side) @@ (bad :> nowhere) @@ (NoLabel :> main)

Q(s, l) == [stmt |-> s, label |-> l]

B(adds, removes, label, audit) ==
  [adds |-> adds, removes |-> removes, label |-> label, audit |-> audit]

PutX  == B(<<Q(x, a)>>, <<>>, NoLabel, FALSE)
PutY  == B(<<Q(y, b)>>, <<>>, NoLabel, FALSE)
SwapX == B(<<Q(y, a)>>, <<Q(x, a)>>, NoLabel, TRUE)
Batches == {PutX, PutY, SwapX}
Legacy  == {B(<<Q(x, bad)>>, <<>>, NoLabel, FALSE)}

Pat(s, p, o, l) == [s |-> s, p |-> p, o |-> o, l |-> l]
ByLabel   == {Pat(Wild, Wild, Wild, l) : l \in {b, bad}}
ByPred    == Pat(Wild, likes, Wild, Wild)
BySubject == Pat(n1, Wild, Wild, Wild)  \* n1 is only ever written to main
Patterns  == ByLabel \cup {ByPred, BySubject}
PatternRouter == [pat \in Patterns |-> IF pat = BySubject THEN main ELSE nowhere]

Out(preds)    == [kind |-> "out", preds |-> preds, value |-> Wild]
In(preds)     == [kind |-> "in", preds |-> preds, value |-> Wild]
Has(pred, v)  == [kind |-> "has", preds |-> {pred}, value |-> v]
Unique        == [kind |-> "unique", preds |-> {}, value |-> Wild]
Paths ==
  {[seeds |-> <<n1>>, steps |-> <<Out({}), Out({likes})>>],
   [seeds |-> <<n3, n3>>, steps |-> <<Unique, In({likes}), Has(likes, n3)>>],
   [seeds |-> <<n1, n2, n3>>, steps |-> <<Out({knows})>>]}
Order == <<main, side>>

(* Schema: files from new to newer than the code, half upgraded ones on the  *)
(* way, and one left by a bulk load that was cut off.                        *)

CONSTANTS o1, o2, f1, f2

Disk(objects, v) == [objects |-> objects, version |-> v]
Empty     == Disk({}, 0)
Newer     == Disk(AllObjects, 3)
Unindexed == Disk(AllObjects \ BulkIndexes, 2)
Disks == (f1 :> {Empty, Unindexed, Newer, Disk(Objects(BaseSchema), Junk)})
           @@ (f2 :> {Unindexed})

Single == [single |-> TRUE, parts |-> <<[name |-> NoName, file |-> f1]>>, default |-> NoName, router |-> FALSE]
Parts(list, default, router) ==
  [single |-> FALSE, parts |-> [i \in DOMAIN list |-> [name |-> list[i][1], file |-> list[i][2]]],
   default |-> default, router |-> router]
Configs ==
  (o1 :> {Parts(<<<<main, f2>>, <<side, f1>>>>, main, TRUE),
          Parts(<<<<main, f2>>, <<main, f1>>>>, main, TRUE),
          Parts(<<<<NoName, f2>>>>, main, TRUE),
          Parts(<<<<side, f2>>>>, main, TRUE),
          Parts(<<<<main, f1>>>>, main, FALSE),
          Parts(<<>>, main, TRUE)})
    @@ (o2 :> {Single})

(* IndexTool: three entries on up to four pages. *)

CONSTANTS e1, e2, e3

TermWords == (e1 :> {1}) @@ (e2 :> {1, 2}) @@ (e3 :> {1, 2})
Weights   == {[e \in Entry |-> [p \in PageNo |-> IF e = e1 THEN 3 ELSE 1 + (p % 2)]]}
Quarters  == (e1 :> 1) @@ (e2 :> 3) @@ (e3 :> 1)

(* Clusters: six pages of two topics; the second text has two pages of both. *)

Texts == {<<{"bark"}, {"bark"}, {"bark"}, {"nest"}, {"nest"}, {"nest"}>>,
          <<{"bark", "the"}, {"bark", "nest", "the"}, {"nest", "the"}, {"bark", "the"}, {"nest"}, {"the"}>>}

(* PebbleCopy: two subjects with two quads each. *)

CONSTANTS q1, q2, q3, q4

SubjectIs   == (q1 :> n1) @@ (q2 :> n1) @@ (q3 :> n2) @@ (q4 :> n2)
PredicateIs == (q1 :> knows) @@ (q2 :> knows) @@ (q3 :> knows) @@ (q4 :> likes)
Held0       == {{}, {q1}}

(* One machine at a time. *)

reads == <<vars, reading>>

FilesIdle == OpenInit /\ disk[f1] = Newer
ToolsIdle == IndexInit /\ ClusterInit /\ CopyInit

SessionInit == RInit /\ OpenInit /\ ToolsIdle

SessionNext ==
  \/ FilesIdle /\ ToolsIdle /\ RNext /\ UNCHANGED <<schemaVars, indexVars, clusterVars, copyVars>>
  \/ RInit /\ ToolsIdle /\ OpenNext /\ UNCHANGED <<reads, indexVars, clusterVars, copyVars>>
  \/ /\ RInit /\ FilesIdle /\ UNCHANGED <<reads, schemaVars>>
     /\ \/ ClusterInit /\ CopyInit /\ IndexNext /\ UNCHANGED <<clusterVars, copyVars>>
        \/ IndexInit /\ CopyInit /\ ClusterNext /\ UNCHANGED <<indexVars, copyVars>>
        \/ IndexInit /\ ClusterInit /\ CopyNext /\ UNCHANGED <<indexVars, clusterVars>>

SessionSpec ==
  SessionInit /\ [][SessionNext]_<<reads, schemaVars, indexVars, clusterVars, copyVars>>
=============================================================================
