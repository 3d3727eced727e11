------------------------------ MODULE IndexTool ------------------------------
(***************************************************************************)
(* cmd/ingest-index: the stages main runs over the generated entries, as   *)
(* far as they choose among them: the three greedy reductions (greedy.go,  *)
(* weighted.go, background.go) and the subtraction pipeline (subtract.go), *)
(* with the signals that the stages store as quads for it (signals.go,     *)
(* contention.go, aboutness.go).                                           *)
(*                                                                         *)
(* The stages in between (prediction, structure, tuning) neither choose    *)
(* among the entries nor write what these read.                            *)
(*                                                                         *)
(* Maps are iterated in any order.  AddBatch is one transaction; when it   *)
(* fails a stage prints the error and main goes on.                        *)
(***************************************************************************)
EXTENDS Integers, Sequences, FiniteSets, FiniteSetsExt, Functions

CONSTANTS
  Entry,           \* subjects with a "term" quad
  PageNo,          \* numbers of pages; page:0 is no page to background.go
  Words,           \* Words[e]: the words of e's term
  Dismissed,       \* terms too short, all numbers, or all geographic
  WeightChoice,    \* the weights of the entries' pages, all positive
  Foreground,      \* Foreground[e] in quarters, for a term not on every page
  BookPages,       \* 68
  AtomLimit,       \* 5: terms a single word may subsume
  BroadLimit,      \* 10: terms several words may subsume
  RedundantLimit,  \* 50: other entries on an average page
  LongTerm,        \* 4 words
  MaxErrors        \* bound: batches of signals that are not stored

ASSUME IndexAssumption ==
  /\ IsFiniteSet(Entry) /\ IsFiniteSet(PageNo)
  /\ \A weight \in WeightChoice : \A e \in Entry : \A p \in PageNo : weight[e][p] \in Nat \ {0}
  /\ \A e \in Entry : Foreground[e] \in Nat
  /\ AtomLimit \in Nat \ {0} /\ BroadLimit \in Nat \ {0} /\ RedundantLimit \in Nat \ {0}

VARIABLES
  stage,     \* the stage of main
  pages,     \* pages[e]: the "has-page" quads of e
  stored,    \* labels of the signals in the store
  errors,    \* labels of the signals that could not be stored, or computed
  about,     \* entries that some page is about
  value,     \* the weights, or the foregroundness, of the greedy reduction
  covered,   \* pages covered so far
  remaining, \* entries to select from
  picks,     \* the entries selected: [entry, gain, new]
  survivors  \* of the subtraction

indexVars == <<stage, pages, stored, errors, about, value, covered, remaining, picks, survivors>>

IndexInit ==
  /\ stage = "idle"
  /\ pages = [e \in Entry |-> {}]
  /\ stored = {} /\ errors = {} /\ about = {} /\ survivors = {}
  /\ value = <<>> /\ covered = {} /\ remaining = {} /\ picks = <<>>

WithPages == {e \in Entry : pages[e] # {}}

reduction == <<value, covered, remaining, picks>>

\* A stage computes signals and adds them as one batch, which may fail.
StoreSignals(signals, next, else) ==
  \/ stored' = stored \cup {signals} /\ stage' = next /\ UNCHANGED errors
  \/ /\ Cardinality(errors) < MaxErrors
     /\ errors' = errors \cup {signals} /\ stage' = else /\ UNCHANGED stored

\* The workspace is loaded: any entries on any pages.
LoadEntries ==
  /\ stage = "idle"
  /\ pages' \in [Entry -> SUBSET PageNo]
  /\ stage' = "signals"
  /\ UNCHANGED <<stored, errors, about, survivors, reduction>>

----------------------------------------------------------------------------
(* Greedy reductions: select the entry of the greatest gain until none is  *)
(* left with a gain, one action per selection                              *)

Gather(entries, val) ==
  value' = val /\ covered' = {} /\ remaining' = entries /\ picks' = <<>>

\* computeSignals, then greedyReduce begins.
ComputeSignals ==
  /\ stage = "signals"
  /\ StoreSignals("signals", "greedy", "greedy")
  /\ Gather(WithPages, <<>>)
  /\ UNCHANGED <<pages, about, survivors>>

Best(gain(_), e) == gain(e) > 0 /\ \A other \in remaining : gain(other) <= gain(e)

Pick(gain(_), on(_)) ==
  \E e \in remaining :
    /\ Best(gain, e)
    /\ covered' = covered \cup on(e)
    /\ remaining' = remaining \ {e}
    /\ picks' = Append(picks, [entry |-> e, gain |-> gain(e), new |-> Cardinality(on(e) \ covered)])
    /\ UNCHANGED <<stage, pages, stored, errors, about, value, survivors>>

\* The loop ends; what was selected is printed.
Selected(gain(_), next) ==
  /\ \A e \in remaining : gain(e) <= 0
  /\ stage' = next
  /\ Gather({}, <<>>)
  /\ UNCHANGED <<pages, stored, errors, about, survivors>>

On(e) == pages[e]

\* Mutated newPages: all the pages of e, covered before or not.
pagesAgain(e) == Cardinality(On(e))

newPages(e) == Cardinality(On(e) \ covered)

greedyReduce == stage = "greedy" /\ (Pick(newPages, On) \/ Selected(newPages, "weights"))

weightGain(e) == MapThenSumSet(LAMBDA p : value[e][p], On(e) \ covered)

\* Without a page, or when the weights are not stored, no reduction.
computeWeightedEdges ==
  /\ stage = "weights"
  /\ \E weight \in WeightChoice : Gather(WithPages, weight)
  /\ IF WithPages = {} THEN stage' = "background" /\ UNCHANGED <<stored, errors>>
     ELSE StoreSignals("weighted", "weighted", "background")
  /\ UNCHANGED <<pages, about, survivors>>

weightedGreedyReduce ==
  stage = "weighted" /\ (Pick(weightGain, On) \/ Selected(weightGain, "background"))

\* background.go skips page:0.
Numbered(e) == pages[e] \ {0}

Extent ==
  LET all == UNION {Numbered(e) : e \in Entry}
  IN IF all = {} THEN {} ELSE Min(all)..Max(all)

\* Backgroundness is 1, exactly, for a term on every page of the book, and
\* less for any other.
foregroundness(e) == IF Numbered(e) = Extent THEN 0 ELSE Foreground[e]

\* fgScore: each result goes to one of the entries with its term, and the
\* results come by falling foregroundness.
Lookups ==
  LET results == {e \in Entry : Numbered(e) # {}}
      SameTerm(r) == {e \in Entry : Words[e] = Words[r]}
      Give(to) == [e \in Entry |-> LET given == {foregroundness(r) : r \in {s \in results : to[s] = e}}
                                   IN IF given = {} THEN 0 ELSE Min(given)]
  IN {Give(to) : to \in {t \in [results -> Entry] : \A r \in results : t[r] \in SameTerm(r)}}

\* Mutated foregroundScore: the score 0 is one.
scoreWithoutDefault(e) == Cardinality(Numbered(e) \ covered) * value[e]

\* An entry without a score, or with the score 0, counts one half.
foregroundScore(e) ==
  Cardinality(Numbered(e) \ covered) * IF value[e] = 0 THEN 2 ELSE value[e]

computeBackgroundRate ==
  /\ stage = "background"
  /\ IF Extent = {}
     THEN stage' = "contention" /\ UNCHANGED <<stored, errors, reduction>>
     ELSE /\ \E fgScore \in Lookups : Gather({e \in Entry : Numbered(e) # {}}, fgScore)
          /\ StoreSignals("background", "foreground", "contention")
  /\ UNCHANGED <<pages, about, survivors>>

foregroundGreedy ==
  stage = "foreground" /\ (Pick(foregroundScore, Numbered) \/ Selected(foregroundScore, "contention"))

----------------------------------------------------------------------------
(* Subtraction *)

analyzeContentions ==
  /\ stage = "contention"
  /\ StoreSignals("contention", "pages", "pages")
  /\ Gather({}, <<>>)
  /\ UNCHANGED <<pages, about, survivors>>

\* Mutated ingestPageContent: the subtraction comes before the aboutness.
subtractTooSoon ==
  /\ stage = "pages"
  /\ StoreSignals("pages", "subtract", "subtract")
  /\ UNCHANGED <<pages, about, survivors, reduction>>

\* When the page text cannot be stored, main skips the aboutness.
ingestPageContent ==
  /\ stage = "pages"
  /\ StoreSignals("pages", "aboutness", "subtract")
  /\ UNCHANGED <<pages, about, survivors, reduction>>

\* What text the pages have decides whether they are about a term of theirs.
computeAboutness ==
  /\ stage = "aboutness"
  /\ about' \in SUBSET {e \in Entry : Numbered(e) # {}}
  /\ StoreSignals("aboutness", "subtract", "subtract")
  /\ UNCHANGED <<pages, survivors, reduction>>

\* How many terms contain the term of e.  (The code looks for a substring,
\* signals.go:158; here terms are sets of words.)
subsumes(e) == Cardinality({o \in Entry : Words[e] \subseteq Words[o] /\ Words[e] # Words[o]})

\* The other entries on e's pages, over all of its pages.
others(e) == MapThenSumSet(LAMBDA p : Cardinality({o \in Entry : p \in pages[o]}) - 1, pages[e])

\* The tests of the pipeline on entry e, given the signals it reads; a signal
\* that is not in the store reads as 0.
Dropped(e, signals, aboutOf) ==
  LET Read(label, sig) == IF label \in signals THEN sig ELSE 0
      subsumed == Read("signals", subsumes(e))
  IN \/ pages[e] = {}
     \/ e \in Dismissed
     \/ Cardinality(Words[e]) = 1 /\ subsumed >= AtomLimit
     \/ Cardinality(Words[e]) >= 2 /\ subsumed >= BroadLimit
     \/ Read("contention", others(e)) >= RedundantLimit * Cardinality(pages[e])
     \/ 4 * Cardinality(pages[e]) > BookPages
     \/ Cardinality(Words[e]) >= LongTerm
     \/ "aboutness" \notin signals \/ e \notin aboutOf

subtractToIndex ==
  /\ stage = "subtract"
  /\ survivors' = {e \in Entry : ~Dropped(e, stored, about)}
  /\ stage' = "done"
  /\ UNCHANGED <<pages, stored, errors, about, reduction>>

IndexNext ==
  \/ LoadEntries
  \/ ComputeSignals \/ greedyReduce
  \/ computeWeightedEdges \/ weightedGreedyReduce
  \/ computeBackgroundRate \/ foregroundGreedy
  \/ analyzeContentions \/ ingestPageContent \/ computeAboutness
  \/ subtractToIndex

IndexSpec == IndexInit /\ [][IndexNext]_indexVars

----------------------------------------------------------------------------
(* Properties *)

PagesOf(e) == IF stage = "foreground" THEN Numbered(e) ELSE On(e)

Gain(e) ==
  CASE stage = "greedy"     -> newPages(e)
    [] stage = "weighted"   -> weightGain(e)
    [] stage = "foreground" -> foregroundScore(e)

Reducing == stage \in {"greedy", "weighted", "foreground"}

\* Each of the three reductions ranks by falling gain, counts each page once
\* though entries share them, and ends with every page covered, whichever
\* entry of equal gain the map order brings up and whichever of two entries
\* with one term the foregroundness went to.
CurveReachesAll ==
  Reducing =>
    /\ \A i, j \in DOMAIN picks : i < j => picks[i].gain >= picks[j].gain
    /\ SumFunction([i \in DOMAIN picks |-> picks[i].new]) = Cardinality(covered)
    /\ (\A e \in remaining : Gain(e) <= 0) => covered = UNION {PagesOf(e) : e \in Entry}

\* b to the power n.
Power(b, n) ==
  LET pow[i \in Nat] == IF i = 0 THEN 1 ELSE b * pow[i - 1]
  IN pow[n]

\* The promise of a ranking by marginal coverage: the first k entries cover
\* at least 1 - (1 - 1/k)^k of what the best k entries could.
GreedyNearBest ==
  stage = "greedy" /\ picks # <<>> =>
    LET k == Len(picks)
    IN \A chosen \in kSubset(k, Entry) :
         Cardinality(covered) * Power(k, k) >=
           Cardinality(UNION {pages[e] : e \in chosen}) * (Power(k, k) - Power(k - 1, k))

\* When no stage reported an error, every signal the tests read is there
\* before the subtraction, and the survivors are the entries that pass every
\* test on the signals of the whole run; a lost signal only keeps
\* entries that a test would have dropped, but without the aboutness, or the
\* page text it is computed from, nothing survives.
RemovedWithCause ==
  stage = "done" =>
    LET passing == {e \in Entry : ~Dropped(e, {"signals", "contention", "aboutness"}, about)}
    IN /\ errors \cap {"signals", "contention", "pages", "aboutness"} = {} =>
            /\ {"signals", "contention", "aboutness"} \subseteq stored
            /\ survivors = passing
       /\ errors \cap {"pages", "aboutness"} = {} => passing \subseteq survivors
       /\ errors \cap {"pages", "aboutness"} # {} => survivors = {}
=============================================================================
