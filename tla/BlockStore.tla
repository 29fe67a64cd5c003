----------------------------- MODULE BlockStore -----------------------------
(***************************************************************************)
(* What the callers of a memory pool rely on.  Blocks lie on memory that   *)
(* is mapped; a block is handed out to one caller at a time and stays      *)
(* mapped as long as he has it.                                            *)
(***************************************************************************)
EXTENDS FiniteSets

VARIABLES
    mapped,   \* the blocks whose segment the process has
    out       \* the blocks that callers have

Init == mapped = {} /\ out = {}

(* The pool maps memory when it starts or grows.                           *)
Map ==
    /\ mapped \subseteq mapped'
    /\ UNCHANGED out

(* A caller gets a block that nobody has.                                  *)
HandOut(b) ==
    /\ b \in mapped \ out
    /\ out' = out \cup {b}
    /\ UNCHANGED mapped

(* A caller gives his block up.                                            *)
GiveBack(b) ==
    /\ out' = out \ {b}
    /\ UNCHANGED mapped

(* The pool returns memory to the system, never under a block in use.      *)
Unmap ==
    /\ mapped' \subseteq mapped
    /\ out \subseteq mapped'
    /\ UNCHANGED out

Next ==
    \/ Map \/ Unmap
    \/ \E b \in mapped : HandOut(b)
    \/ \E b \in out : GiveBack(b)

Spec == Init /\ [][Next]_<<mapped, out>>
=============================================================================
