------------------------- MODULE MCEntrySubmission -------------------------
(* Instances of EntrySubmission for TLC: two runs of the same two targets.   *)
EXTENDS EntrySubmission, TLC

CONSTANTS r1, r2, n1, n2

TwoRuns == {r1, r2}
OneRun == {r1}
TwoNames == {n1, n2}
OneName == {n1}
Interchangeable == Permutations(TwoRuns) \cup Permutations(TwoNames)

\* Once no run is left to act, orders only fill, lapse and are sold: nothing that
\* the properties are about can change, and TLC goes no further.
Underway == \E r \in Runs : phase[r] \notin {"ended", "crashed"}
=============================================================================
