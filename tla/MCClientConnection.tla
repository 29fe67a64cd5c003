------------------------- MODULE MCClientConnection -------------------------
(***************************************************************************)
(* Instance of ClientConnection: two workers, as the client demands at     *)
(* least, a queue that pauses the receive with its first job, and an idle  *)
(* timeout of two ticks, so that a pause can be longer than it.            *)
(***************************************************************************)
EXTENDS ClientConnection
=============================================================================
