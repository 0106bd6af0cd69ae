------------------------- MODULE MCOptionsAttempts -------------------------
(* Instances of OptionsAttempts for TLC: two risk runs, two or three executions. *)
EXTENDS OptionsAttempts, TLC

CONSTANTS r1, r2, e1, e2, e3

TwoRisks == {r1, r2}
TwoExecs == {e1, e2}
ThreeExecs == {e1, e2, e3}
AllButLast == {r1, r2, e1}
Interchangeable == Permutations(TwoRisks)
=============================================================================
