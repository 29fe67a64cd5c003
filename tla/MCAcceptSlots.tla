---------------------------- MODULE MCAcceptSlots ----------------------------
(* AcceptSlots for TLC.                                                    *)
EXTENDS AcceptSlots

CONSTANTS w1, w2, hb, main, c1, none

MCWorkers  == {w1, w2}
MCSessions == {c1}
MCSlots2   == 1 .. 2
=============================================================================
