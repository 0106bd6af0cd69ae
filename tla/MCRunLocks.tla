----------------------------- MODULE MCRunLocks -----------------------------
(* Instances of RunLocks for TLC: two consoles, one run of each scope and a *)
(* second backtest, four process numbers.                                   *)
EXTENDS RunLocks, TLC

CONSTANTS a1, a2, w, b1, b2, d, p1, p2, p3, p4

TwoApps  == {a1, a2}
ThePids  == {p1, p2, p3}
FourPids == {p1, p2, p3, p4}
OneWorkflow == {w}
OneWriter   == {b1}
TwoWriters  == {b1, b2}
OneReader   == {d}
NoReader    == {}
Interchangeable == Permutations(TwoApps) \cup Permutations(FourPids) \cup Permutations(TwoWriters)
=============================================================================
