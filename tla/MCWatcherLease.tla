--------------------------- MODULE MCWatcherLease ---------------------------
(* Instances of WatcherLease for TLC: three services, some of them remote. *)
EXTENDS WatcherLease, TLC

CONSTANTS s1, s2, s3

Trio == {s1, s2, s3}
Pair == {s1, s2}
Here == {s1}
Interchangeable == Permutations(Trio)
=============================================================================
