----------------------------- MODULE MCRecvRing -----------------------------
(* RecvRing with numbers for its sizes: a header of two bytes, packets of   *)
(* up to four, claims on either side of the rules.                         *)
EXTENDS RecvRing

SmallClaims == {1, 3, 4, 5}
=============================================================================
