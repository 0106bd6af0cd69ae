------------------------ MODULE MCDirectionalStops ------------------------
(* Instances of DirectionalStops for TLC.                                  *)
EXTENDS DirectionalStops

CONSTANTS s1, s2, t1

TwoStops == {s1, s2}
OneTrail == {t1}
=============================================================================
