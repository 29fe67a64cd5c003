--------------------------- MODULE MCReceiveFlow ---------------------------
(* ReceiveFlow on small sets of model values.                              *)
EXTENDS ReceiveFlow, TLC

CONSTANTS s1, w1, w2, j1, j2, c1

OneSession    == {s1}
OneWorker     == {w1}
TwoWorkers    == {w1, w2}
OneJobWorker  == {j1}
TwoJobWorkers == {j1, j2}
OneCloser     == {c1}
NoCloser      == {}

ThreadSymmetry == Permutations(Workers) \cup Permutations(JobWorkers)
=============================================================================
