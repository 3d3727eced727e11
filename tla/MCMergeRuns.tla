---------------------------- MODULE MCMergeRuns ----------------------------
(* Instances of MergeRuns for TLC: all ways to fill up to MaxRuns runs. *)
EXTENDS MergeRuns

CONSTANTS MaxRuns, MaxRunLength

SortedRuns == {s \in BoundedSeq(Key, MaxRunLength) : Sorted(s)}

AllRuns == BoundedSeq(SortedRuns, MaxRuns)
=============================================================================
