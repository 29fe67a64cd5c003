------------------------ MODULE MCSessionLifecycle ------------------------
(* Instances of SessionLifecycle for TLC.                                  *)
EXTENDS SessionLifecycle, TLC

CONSTANTS s1, w1, w2, a1, h1

OneSession   == {s1}
OneWorker    == {w1}
TwoWorkers   == {w1, w2}
NoThreads    == {}
OneSender    == {a1}
OneReaper    == {h1}

WorkerSymmetry == Permutations(Workers)

(* A session whose reset overtook a thread is followed to the end of its   *)
(* first connection; what it does when it is leased again is left out.     *)
FollowOvertaken == \A s \in overtaken : lease[s] = 1
=============================================================================
