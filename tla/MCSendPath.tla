----------------------------- MODULE MCSendPath -----------------------------
(* SendPath on small sets of model values.                                 *)
EXTENDS SendPath

CONSTANTS s1, w1, a1, a2

OneSession  == {s1}
OneWorker   == {w1}
OneSender   == {a1}
TwoSenders  == {a1, a2}
=============================================================================
