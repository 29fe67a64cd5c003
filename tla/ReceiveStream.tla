--------------------------- MODULE ReceiveStream ---------------------------
(***************************************************************************)
(* What the receive ring of a session promises: a queue of bytes between   *)
(* the peer and the packet handlers.  The bytes a connection delivers are  *)
(* taken in order; a packet is handed over when all of it is there, with   *)
(* exactly its own bytes; when the connection is over, what is left of it  *)
(* is gone before the first byte of the next one.                          *)
(*                                                                         *)
(* A byte is a record: the packet it belongs to, its place in the packet   *)
(* and the size the header of that packet claims.                          *)
(***************************************************************************)
EXTENDS Naturals, Sequences

CONSTANTS
    HeaderSize,     \* sizeof(PACKET_HEADER)
    MaxPacketSize,  \* SessionBufferConfig::maxRecvPacketSize
    Claims          \* the sizes a peer may write into a header

VARIABLES
    queue,          \* the bytes received and not yet handed over
    next,           \* the byte the peer sends next
    packet          \* the packet handed over last

vars == <<queue, next, packet>>

\* A peer sends a whole header even when it claims less.
SentLength(claim) == IF claim < HeaderSize THEN HeaderSize ELSE claim

FirstBytes(k) == {[pkt |-> k, pos |-> 1, claim |-> c] : c \in Claims}

\* The bytes that may follow byte b on the wire.
After(b) ==
    IF b.pos < SentLength(b.claim)
    THEN {[b EXCEPT !.pos = @ + 1]}
    ELSE FirstBytes(b.pkt + 1)

Init ==
    /\ queue = <<>>
    /\ next \in FirstBytes(1)
    /\ packet = <<>>

\* A byte arrives.
Arrive ==
    /\ queue' = Append(queue, next)
    /\ next' \in After(next)
    /\ UNCHANGED packet

\* The packet at the head of the queue is complete and is handed over.
Deliver ==
    /\ Len(queue) >= HeaderSize
    /\ LET size == queue[1].claim
       IN  /\ size \in HeaderSize..MaxPacketSize
           /\ size <= Len(queue)
           /\ packet' = SubSeq(queue, 1, size)
           /\ queue' = SubSeq(queue, size + 1, Len(queue))
    /\ UNCHANGED next

\* The connection is over; the next one begins with a packet of its own.
Restart ==
    /\ queue' = <<>>
    /\ next' \in FirstBytes(next.pkt + 1)
    /\ UNCHANGED packet

Next == Arrive \/ Deliver \/ Restart

Spec == Init /\ [][Next]_vars
=============================================================================
