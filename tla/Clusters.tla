------------------------------ MODULE Clusters ------------------------------
(***************************************************************************)
(* cmd/observe: clusterPages (cluster.go), which groups the pages of a     *)
(* workspace by single linkage with a union-find over the pairs of similar *)
(* pages, in the order of their similarity, and lists each group.          *)
(***************************************************************************)
EXTENDS Naturals, Sequences, FiniteSets, FiniteSetsExt, SequencesExt

CONSTANTS
  PagesRead,   \* physical pages with text, each in one file
  TextChoice   \* text[p]: the words of page p, without stopwords

ASSUME ClustersAssumption == PagesRead \in SUBSET Nat /\ IsFiniteSet(PagesRead)

VARIABLES
  step,     \* "idle", "compare", "pair", "done"
  text,     \* the text of the pages
  similar,  \* pairs of pages above the threshold
  pairs,    \* those not yet united
  parent,   \* the union-find; a root has no parent
  clusters  \* [pages, shared], as they are presented

clusterVars == <<step, text, similar, pairs, parent, clusters>>

ClusterInit ==
  /\ step = "idle"
  /\ text = <<>> /\ similar = {} /\ pairs = {} /\ parent = <<>> /\ clusters = {}

PagesWith(w, among) == {p \in among : w \in text[p]}

\* The vector of a page: words on at least two pages and at most half of them.
Vector(p) ==
  {w \in text[p] : LET df == Cardinality(PagesWith(w, PagesRead))
                   IN df >= 2 /\ 2 * df <= Cardinality(PagesRead)}

\* A cosine above 0 takes a word in common; the counts decide how far above.
ReadPages ==
  /\ step = "idle"
  /\ text' \in TextChoice
  /\ step' = "compare"
  /\ UNCHANGED <<similar, pairs, parent, clusters>>

ComparePages ==
  /\ step = "compare"
  /\ \E found \in SUBSET {s \in kSubset(2, PagesRead) : \E p, q \in s : p # q /\ Vector(p) \cap Vector(q) # {}} :
       similar' = found /\ pairs' = found
  /\ step' = "pair"
  /\ UNCHANGED <<text, parent, clusters>>

\* find, and the pages on the way to the root of x
Chain(par, x) ==
  LET chain[y \in PagesRead] == IF y \in DOMAIN par THEN <<y>> \o chain[par[y]] ELSE <<y>>
  IN chain[x]

find(par, x) == Last(Chain(par, x))

\* find hangs every page it comes by under the root.
Compressed(par, x) ==
  [y \in DOMAIN par |-> IF y \in Range(Chain(par, x)) THEN find(par, x) ELSE par[y]]

Hang(par, x, y) == [z \in DOMAIN par \cup {x} |-> IF z = x THEN y ELSE par[z]]

\* Mutated union: page a moves, not its root.
MoveOne(par, a, b) ==
  LET found == Compressed(Compressed(par, a), b)
  IN IF find(par, a) = find(par, b) THEN found ELSE Hang(found, a, find(par, b))

union(par, a, b) ==
  LET found == Compressed(Compressed(par, a), b)
  IN IF find(par, a) = find(par, b) THEN found ELSE Hang(found, find(par, a), find(par, b))

\* By falling similarity: any order.
UnitePair ==
  /\ step = "pair"
  /\ \E s \in pairs :
       /\ parent' = union(parent, Min(s), Max(s))
       /\ pairs' = pairs \ {s}
  /\ UNCHANGED <<step, text, similar, clusters>>

\* Words on half of the pages, but on two at least.
Shared(group) ==
  {w \in UNION {Vector(p) : p \in group} :
     Cardinality({p \in group : w \in Vector(p)}) >= Max({Cardinality(group) \div 2, 2})}

\* sort.Ints: position i gets the i-th least page.
sortInts(group) ==
  [i \in 1..Cardinality(group) |-> CHOOSE p \in group : Cardinality({q \in group : q <= p}) = i]

\* Single pages are left out.
CollectClusters ==
  /\ step = "pair" /\ pairs = {}
  /\ LET groups == {{q \in PagesRead : find(parent, q) = find(parent, p)} : p \in PagesRead}
     IN clusters' = {[pages |-> sortInts(g), shared |-> Shared(g)] :
                       g \in {h \in groups : Cardinality(h) >= 2}}
  /\ step' = "done"
  /\ UNCHANGED <<text, similar, pairs, parent>>

\* formatPageList: the runs of consecutive pages as <<start, end>>.
formatPageList(list) ==
  FoldLeft(LAMBDA runs, p : IF runs # <<>> /\ p = Last(runs)[2] + 1
                            THEN Append(Front(runs), <<Last(runs)[1], p>>)
                            ELSE Append(runs, <<p, p>>),
           <<>>, list)

ClusterNext == ReadPages \/ ComparePages \/ UnitePair \/ CollectClusters

ClusterSpec == ClusterInit /\ [][ClusterNext]_clusterVars

----------------------------------------------------------------------------
(* Properties *)

\* The pages that chains of the pairs lead to from p.
Linked(p, links) ==
  LET Grow(pages, n) == pages \cup UNION {s \in links : s \cap pages # {}}
  IN FoldLeft(Grow, {p}, [n \in 1..Cardinality(PagesRead) |-> n])

\* In whatever order the pairs come and however the paths were compressed:
\* two pages have the same root when a chain of the pairs so far joins them
\* and only then; the clusters are these classes, each listed as runs of
\* pages that hold its pages and no others; and a cluster of up to five pages
\* has a word to show for it.
ClustersExact ==
  /\ step # "idle" =>
       \A p \in PagesRead :
         {q \in PagesRead : find(parent, q) = find(parent, p)} = Linked(p, similar \ pairs)
  /\ \A c \in clusters :
       /\ Range(c.pages) = Linked(c.pages[1], similar)
       /\ UNION {r[1]..r[2] : r \in Range(formatPageList(c.pages))} = Range(c.pages)
       /\ Len(c.pages) <= 5 => c.shared # {}
=============================================================================
