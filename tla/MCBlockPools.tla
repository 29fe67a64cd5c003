---------------------------- MODULE MCBlockPools ----------------------------
(* BlockPools on small caches, segments and sizes.                          *)
EXTENDS BlockPools, TLC

CONSTANTS u1, u2, main, slot1

TwoUsers == {u1, u2}
NoSlotThenFirst == <<{NoSlot}, {slot1}>>
OneSlot == <<{slot1}>>
Nothing == [b \in Bins |-> 0]
=============================================================================
