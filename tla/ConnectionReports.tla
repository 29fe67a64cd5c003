-------------------------- MODULE ConnectionReports --------------------------
(***************************************************************************)
(* What a client promises its service about one connection: either it      *)
(* could not be made, or it was made, perhaps established, and ended; each *)
(* is reported once, in this order, and nothing is reported in between.    *)
(***************************************************************************)

VARIABLE told  \* the last callback of the service

(* A client that starts again has told nothing yet; it never starts again  *)
(* while the service believes in a connection.                             *)
Init == told = "nothing"

Start       == told \in {"refused", "ended"} /\ told' = "nothing"
Refused     == told = "nothing" /\ told' = "refused"      \* OnConnectFailed
Connected   == told = "nothing" /\ told' = "connected"    \* OnClientConnect
Established == told = "connected" /\ told' = "established"
Ended       == told \in {"connected", "established"} /\ told' = "ended"

Next == Start \/ Refused \/ Connected \/ Established \/ Ended

Spec == Init /\ [][Next]_told
=============================================================================
