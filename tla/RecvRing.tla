------------------------------ MODULE RecvRing ------------------------------
(***************************************************************************)
(* The receive ring of a session (RecvPacketBuffer), between the WSARecv   *)
(* that fills it and the packet loop of HandleRecv that empties it.        *)
(*                                                                         *)
(* PostReceive lends one contiguous piece of the ring to the kernel; the   *)
(* kernel fills it from the front; the completion commits what arrived and *)
(* the packet loop takes whole packets out.  Stored bytes may lie across   *)
(* the end of the ring, the piece lent to the kernel may not.              *)
(*                                                                         *)
(* One thread at a time has the ring: the receive, once posted, passes it  *)
(* on to the worker that handles its completion.  How the receive is       *)
(* paused and resumed is the matter of ReceiveFlow and makes no difference *)
(* to the ring.  A byte is a record, as in ReceiveStream; stale bytes stay *)
(* in the buffer until they are written over.                              *)
(***************************************************************************)
EXTENDS Naturals, Sequences

CONSTANTS
    Capacity,       \* SessionBufferConfig::recvRingSize
    MaxPacketSize,  \* SessionBufferConfig::maxRecvPacketSize
    HeaderSize,     \* sizeof(PACKET_HEADER)
    Claims,         \* the sizes a peer may write into a header
    MaxPackets      \* bound: packets of the peer, over all connections

\* Initialize refuses anything else.  That the code also wants a power of
\* two is for the mask it computes positions with.
ASSUME SizesAssumption ==
    /\ Capacity \in Nat /\ MaxPacketSize \in Nat /\ HeaderSize \in Nat
    /\ 1 <= HeaderSize /\ HeaderSize <= MaxPacketSize
    /\ Capacity >= 2 * MaxPacketSize
ASSUME ClaimsAssumption == Claims \subseteq Nat /\ MaxPackets \in Nat

VARIABLES
    buffer,      \* m_buffer
    writePos,    \* m_writePos
    readPos,     \* m_readPos
    storedSize,  \* m_storedSize
    recv,        \* m_recvOverlapped: where, how much, how much has arrived
    phase,       \* who has the ring
    next,        \* the byte the peer sends next
    packet       \* the packet handed to OnReceive last

vars == <<buffer, writePos, readPos, storedSize, recv, phase, next, packet>>
positions == <<writePos, readPos, storedSize>>

Offsets == 0..(Capacity - 1)
Bytes == [pkt: Nat, pos: Nat, claim: Nat]
Nothing == [ptr |-> 0, len |-> 0, got |-> 0]

(*************************** RecvPacketBuffer ******************************)

\* m_capacityMask: positions are counted round the ring.
Wrap(pos) == pos % Capacity

\* The n bytes from readPos on, in two copies when they cross the end.
Gather(n) == [i \in 1..n |-> buffer[Wrap(readPos + i - 1)]]

IsFull == storedSize = Capacity
IsEmpty == storedSize = 0

\* The contiguous free space from position w on.
WriteableSize(w, r, stored) ==
    IF stored = Capacity THEN 0
    ELSE IF w >= r
         THEN IF Capacity - w < Capacity - stored
              THEN Capacity - w ELSE Capacity - stored
         ELSE r - w

GetWriteableSize == WriteableSize(writePos, readPos, storedSize)

CommitWrite(n) ==
    /\ writePos' = Wrap(writePos + n)
    /\ storedSize' = storedSize + n

\* The size a header claims.  One that is not the header of a single packet
\* can read as anything.
PeekHeader(header) ==
    IF \A i \in 1..HeaderSize : header[i] = [header[1] EXCEPT !.pos = i]
    THEN {header[1].claim}
    ELSE Claims

\* Stored bytes move to the front; the copy does not overlap itself wrongly.
Compact ==
    /\ buffer' = [o \in Offsets |->
                    IF o < storedSize THEN buffer[readPos + o] ELSE buffer[o]]
    /\ readPos' = 0
    /\ writePos' = storedSize
    /\ UNCHANGED storedSize

\* Faulty variant: the fragment is left where it is.
PrepareWriteInPlace ==
    /\ IF IsEmpty THEN readPos' = 0 /\ writePos' = 0
                  ELSE UNCHANGED <<readPos, writePos>>
    /\ UNCHANGED <<buffer, storedSize>>

PrepareWrite ==
    \/ /\ IsEmpty
       /\ readPos' = 0 /\ writePos' = 0
       /\ UNCHANGED <<buffer, storedSize>>
    \/ /\ ~IsEmpty
       /\ \/ readPos + storedSize > Capacity
          \/ Capacity - writePos >= MaxPacketSize
       /\ UNCHANGED <<buffer, positions>>
    \/ /\ ~IsEmpty
       /\ readPos + storedSize <= Capacity
       /\ Capacity - writePos < MaxPacketSize
       /\ Compact

Reset == writePos' = 0 /\ readPos' = 0 /\ storedSize' = 0

\* What has arrived, committed or not, is the queue of the abstract ring.
Received == [i \in 1..recv.got |-> buffer[recv.ptr + i - 1]]
Stream == INSTANCE ReceiveStream
              WITH queue <- Gather(storedSize) \o Received

(******************************* the session *******************************)

\* PostReceive.  Without room, or when BeginIO or WSARecv fails, the session
\* is released; the ring stays as PrepareWrite left it.
PostReceive ==
    /\ phase = "posting"
    /\ PrepareWrite
    /\ LET len == WriteableSize(writePos', readPos', storedSize')
       IN  \/ /\ len > 0
              /\ recv' = [ptr |-> writePos', len |-> len, got |-> 0]
              /\ phase' = "posted"
           \/ /\ recv' = Nothing
              /\ phase' = "closed"
    /\ UNCHANGED <<next, packet>>

\* The kernel copies a byte into the piece it was lent.
KernelWrites ==
    /\ phase = "posted"
    /\ recv.got < recv.len
    /\ next.pkt <= MaxPackets
    /\ buffer' = [buffer EXCEPT ![recv.ptr + recv.got] = next]
    /\ recv' = [recv EXCEPT !.got = @ + 1]
    /\ next' \in Stream!After(next)
    /\ UNCHANGED <<positions, phase, packet>>

\* Faulty variant: the position runs over the end of the ring.
HandleRecvUnmasked ==
    /\ phase = "posted"
    /\ recv.got > 0
    /\ writePos' = writePos + recv.got
    /\ storedSize' = storedSize + recv.got
    /\ phase' = "parsing"
    /\ recv' = Nothing
    /\ UNCHANGED <<buffer, readPos, next, packet>>

\* The receive completes; CommitWrite takes over what has arrived.  When it
\* cannot, the handler only drops its count: nobody has the ring any more.
HandleRecv ==
    /\ phase = "posted"
    /\ recv.got > 0
    /\ IF recv.got <= GetWriteableSize
       THEN /\ CommitWrite(recv.got)
            /\ phase' = "parsing"
       ELSE /\ UNCHANGED <<writePos, storedSize>>
            /\ phase' = "lost"
    /\ recv' = Nothing
    /\ UNCHANGED <<buffer, readPos, next, packet>>

\* It ends without a byte: the peer closed, the receive failed or was
\* cancelled.
HandleDisconnect ==
    /\ phase = "posted"
    /\ recv.got = 0
    /\ recv' = Nothing
    /\ phase' = "closed"
    /\ UNCHANGED <<buffer, positions, next, packet>>

\* Faulty variant: a size outside the rules counts as a packet not yet there.
NeedMoreDataAlways ==
    /\ phase = "parsing"
    /\ \/ storedSize < HeaderSize
       \/ \E size \in PeekHeader(Gather(HeaderSize)) :
             size \notin HeaderSize..MaxPacketSize \/ storedSize < size
    /\ phase' = "posting"
    /\ UNCHANGED <<buffer, positions, recv, next, packet>>

\* ReadPacket says NeedMoreData, or the ring is empty: the loop ends and the
\* receive is posted again, unless a release is pending.
NeedMoreData ==
    /\ phase = "parsing"
    /\ \/ storedSize < HeaderSize
       \/ \E size \in PeekHeader(Gather(HeaderSize)) :
             size \in HeaderSize..MaxPacketSize /\ storedSize < size
    /\ phase' \in {"posting", "closed"}
    /\ UNCHANGED <<buffer, positions, recv, next, packet>>

\* ReadPacket copies a packet out; OnReceive and the handlers of system
\* packets take it, or find that the session must go.
TakePacket ==
    /\ phase = "parsing"
    /\ storedSize >= HeaderSize
    /\ \E size \in PeekHeader(Gather(HeaderSize)) :
          /\ size \in HeaderSize..MaxPacketSize
          /\ size <= storedSize
          /\ packet' = Gather(size)
          /\ readPos' = Wrap(readPos + size)
          /\ storedSize' = storedSize - size
    /\ phase' \in {"parsing", "closed"}
    /\ UNCHANGED <<buffer, writePos, recv, next>>

\* The header claims a size outside the rules, or the packet pool is
\* exhausted: the session is released with the bytes still in the ring.
RefuseStream ==
    /\ phase = "parsing"
    /\ storedSize >= HeaderSize
    /\ \E size \in PeekHeader(Gather(HeaderSize)) :
          size \in HeaderSize..MaxPacketSize => size <= storedSize
    /\ phase' = "closed"
    /\ UNCHANGED <<buffer, positions, recv, next, packet>>

\* Faulty variant: the ring keeps what the last connection left in it.
ResetSessionKeepingRing ==
    /\ phase = "closed"
    /\ next.pkt <= MaxPackets
    /\ phase' = "posting"
    /\ next' \in Stream!FirstBytes(next.pkt + 1)
    /\ UNCHANGED <<buffer, positions, recv, packet>>

\* ResetSession, then the slot is leased to the next connection.
ResetSession ==
    /\ phase = "closed"
    /\ next.pkt <= MaxPackets
    /\ Reset
    /\ phase' = "posting"
    /\ next' \in Stream!FirstBytes(next.pkt + 1)
    /\ UNCHANGED <<buffer, recv, packet>>

Init ==
    /\ buffer = [o \in Offsets |-> [pkt |-> 0, pos |-> 0, claim |-> 0]]
    /\ writePos = 0 /\ readPos = 0 /\ storedSize = 0
    /\ recv = Nothing
    /\ phase = "posting"
    /\ next \in Stream!FirstBytes(1)
    /\ packet = <<>>

Next ==
    \/ PostReceive \/ KernelWrites \/ HandleRecv \/ HandleDisconnect
    \/ NeedMoreData \/ TakePacket \/ RefuseStream \/ ResetSession

Spec == Init /\ [][Next]_vars

(******************************* properties ********************************)

\* The positions are offsets into the ring and agree with the number of
\* stored bytes; what the kernel has been lent lies inside the ring.
TypeOK ==
    /\ buffer \in [Offsets -> Bytes]
    /\ writePos \in Offsets /\ readPos \in Offsets
    /\ storedSize \in 0..Capacity
    /\ writePos = Wrap(readPos + storedSize)
    /\ recv \in [ptr: Offsets, len: 0..Capacity, got: 0..Capacity]
    /\ recv.got <= recv.len /\ recv.ptr + recv.len <= Capacity
    /\ phase \in {"posting", "posted", "parsing", "closed"}
    /\ next \in Bytes
    /\ packet \in Seq(Bytes)

\* RecvPacketBuffer.cpp:44-45, RecvPacketBuffer.h:71-72: whatever fragment is
\* left in the ring, and wherever it lies, a posted receive has room for a
\* whole packet in one piece, and that piece is behind the fragment.
RoomForPacket ==
    phase = "posted" =>
        /\ recv.len >= MaxPacketSize
        /\ recv.ptr = writePos
        /\ storedSize + recv.len <= Capacity
        /\ storedSize < MaxPacketSize

\* RecvPacketBuffer.cpp:215-216: a receive is out only while the fragment in
\* the ring really lacks bytes.  A header that claims a size outside the
\* rules, or a packet that is complete, never waits for the next receive.
WaitsForMore ==
    phase = "posted" /\ storedSize >= HeaderSize =>
        \A size \in PeekHeader(Gather(HeaderSize)) :
            size \in HeaderSize..MaxPacketSize /\ size > storedSize

\* The ring is the queue of bytes ReceiveStream promises: every packet is
\* handed over with exactly its own bytes, in the order the peer sent them,
\* although the ring wraps, is compacted and is reused; nothing of one
\* connection is left for the next.
IsStream == Stream!Spec
=============================================================================
