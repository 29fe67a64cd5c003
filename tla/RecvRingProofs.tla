--------------------------- MODULE RecvRingProofs ---------------------------
(* Proofs about RecvRing, for every size of ring, packet and header and    *)
(* every set of sizes a peer may claim.  RingInv places the pieces of the  *)
(* ring; StreamInv adds that what they hold is a stretch of the wire; the  *)
(* refinement of ReceiveStream reads each step off both.                   *)
EXTENDS RecvRing, Integers, TLAPS

-----------------------------------------------------------------------------
(* Positions                                                               *)

(* A position passes the end of the ring at most once.                     *)
LEMMA Wrapped ==
    ASSUME NEW p \in Nat, p < 2 * Capacity
    PROVE  /\ Wrap(p) = IF p < Capacity THEN p ELSE p - Capacity
           /\ Wrap(p) \in Offsets
  <1>1. Wrap(p) = IF p < Capacity THEN p ELSE p - Capacity
    BY SizesAssumption DEF Wrap
  <1>. QED
    BY <1>1, SizesAssumption DEF Offsets

(* PrepareWrite leaves a contiguous piece for a whole packet behind a      *)
(* fragment that is shorter than a packet: the reason for the ring to be   *)
(* twice as long as a packet.                                              *)
LEMMA Room ==
    ASSUME NEW w \in Offsets, NEW r \in Offsets, NEW n \in 0..Capacity,
           w = Wrap(r + n), n < MaxPacketSize,
           n = 0 => w = 0 /\ r = 0,
           r + n > Capacity \/ Capacity - w >= MaxPacketSize
    PROVE  /\ WriteableSize(w, r, n) \in MaxPacketSize..Capacity
           /\ n + WriteableSize(w, r, n) <= Capacity
           /\ w + WriteableSize(w, r, n) <= Capacity
  <1>1. w = IF r + n < Capacity THEN r + n ELSE r + n - Capacity
    BY Wrapped, SizesAssumption DEF Offsets
  <1>. QED
    BY <1>1, SizesAssumption DEF Offsets, WriteableSize

LEMMA GatherType ==
    ASSUME TypeOK, NEW n \in 0..Capacity
    PROVE  Gather(n) \in Seq(Bytes)
  <1>1. ASSUME NEW i \in 1..n
        PROVE  buffer[Wrap(readPos + i - 1)] \in Bytes
    <2>1. readPos + i - 1 \in Nat /\ readPos + i - 1 < 2 * Capacity
      BY SizesAssumption DEF TypeOK, Offsets
    <2>2. Wrap(readPos + i - 1) \in Offsets
      BY <2>1, Wrapped
    <2>. QED
      BY <2>2 DEF TypeOK
  <1>2. Gather(n) \in [1..n -> Bytes]
    BY <1>1 DEF Gather
  <1>. QED
    BY <1>2, SizesAssumption

LEMMA NextType ==
    ASSUME TypeOK
    PROVE  /\ \A b \in Stream!After(next) : b \in Bytes
           /\ \A b \in Stream!FirstBytes(next.pkt + 1) : b \in Bytes
  <1>0. next \in [pkt: Nat, pos: Nat, claim: Nat]
    BY DEF TypeOK, Bytes
  <1>1. /\ next \in [pkt: Nat, pos: Nat, claim: Nat]
        /\ next.pkt + 1 \in Nat /\ next.pos + 1 \in Nat
    BY <1>0
  <1>2. ASSUME NEW b \in Stream!FirstBytes(next.pkt + 1)
        PROVE  b \in Bytes
    <2>1. PICK c \in Claims :
             b = [pkt |-> next.pkt + 1, pos |-> 1, claim |-> c]
      BY DEF Stream!FirstBytes
    <2>2. c \in Nat
      BY ClaimsAssumption
    <2>. QED
      BY <1>1, <2>1, <2>2 DEF Bytes
  <1>3. [next EXCEPT !.pos = @ + 1] \in Bytes
    BY <1>1 DEF Bytes
  <1>. QED
    BY <1>2, <1>3 DEF Stream!After

-----------------------------------------------------------------------------
(* The inductive invariant: what is known of the ring in each phase.       *)

RingInv ==
    /\ TypeOK
    /\ phase \in {"posting", "posted"} => storedSize < MaxPacketSize
    /\ phase = "posted" =>
          /\ recv.ptr = writePos
          /\ recv.len = GetWriteableSize
          /\ recv.len >= MaxPacketSize
          /\ storedSize + recv.len <= Capacity
    /\ phase # "posted" => recv = Nothing

LEMMA NothingType ==
    /\ Nothing \in [ptr: Offsets, len: 0..Capacity, got: 0..Capacity]
    /\ Nothing.got <= Nothing.len /\ Nothing.ptr + Nothing.len <= Capacity
  BY SizesAssumption DEF Nothing, Offsets

LEMMA RingInit == Init => RingInv
  <1>. SUFFICES ASSUME Init PROVE RingInv
    OBVIOUS
  <1>1. Wrap(0) = 0
    BY Wrapped, SizesAssumption
  <1>2. next \in Bytes
    <2>1. PICK c \in Claims : next = [pkt |-> 1, pos |-> 1, claim |-> c]
      BY DEF Init, Stream!FirstBytes
    <2>2. c \in Nat
      BY ClaimsAssumption
    <2>. QED
      BY <2>1, <2>2 DEF Bytes
  <1>3. buffer \in [Offsets -> Bytes]
    BY DEF Init, Bytes
  <1>. QED
    BY <1>1, <1>2, <1>3, NothingType, SizesAssumption
    DEF Init, RingInv, TypeOK, Offsets

LEMMA RingPost ==
    ASSUME RingInv, PostReceive
    PROVE  RingInv'
  <1>. USE SizesAssumption
  <1>1. /\ storedSize \in 0..Capacity /\ storedSize < MaxPacketSize
        /\ recv = Nothing /\ TypeOK
    BY DEF RingInv, PostReceive, TypeOK
  <1>2. /\ buffer' \in [Offsets -> Bytes]
        /\ writePos' \in Offsets /\ readPos' \in Offsets
        /\ storedSize' = storedSize
        /\ writePos' = Wrap(readPos' + storedSize)
        /\ storedSize = 0 => writePos' = 0 /\ readPos' = 0
        /\ \/ readPos' + storedSize > Capacity
           \/ Capacity - writePos' >= MaxPacketSize
    <2>1. CASE IsEmpty /\ readPos' = 0 /\ writePos' = 0
               /\ UNCHANGED <<buffer, storedSize>>
      <3>1. Wrap(0) = 0
        BY Wrapped
      <3>. QED
        BY <1>1, <2>1, <3>1 DEF TypeOK, Offsets, IsEmpty
    <2>2. CASE /\ ~IsEmpty
               /\ \/ readPos + storedSize > Capacity
                  \/ Capacity - writePos >= MaxPacketSize
               /\ UNCHANGED <<buffer, positions>>
      BY <1>1, <2>2 DEF TypeOK, IsEmpty, positions
    <2>3. CASE /\ ~IsEmpty
               /\ readPos + storedSize <= Capacity
               /\ Capacity - writePos < MaxPacketSize
               /\ Compact
      <3>1. Wrap(storedSize) = storedSize
        BY <1>1, Wrapped
      <3>2. buffer' \in [Offsets -> Bytes]
        BY <1>1, <2>3 DEF TypeOK, Offsets, Compact
      <3>. QED
        BY <1>1, <2>3, <3>1, <3>2 DEF TypeOK, Offsets, Compact, IsEmpty
    <2>. QED
      BY <2>1, <2>2, <2>3 DEF PostReceive, PrepareWrite
  <1>. DEFINE len == WriteableSize(writePos', readPos', storedSize')
  <1>3. /\ len \in MaxPacketSize..Capacity
        /\ storedSize' + len <= Capacity
        /\ writePos' + len <= Capacity
    BY <1>1, <1>2, Room
  <1>4. next' = next /\ packet' = packet
    BY DEF PostReceive
  <1>. HIDE DEF len
  <1>5. CASE /\ recv' = [ptr |-> writePos', len |-> len, got |-> 0]
             /\ phase' = "posted"
    <2>1. TypeOK'
      BY <1>1, <1>2, <1>3, <1>4, <1>5 DEF TypeOK, Offsets
    <2>. QED
      BY <1>1, <1>2, <1>3, <1>5, <2>1 DEF RingInv, GetWriteableSize, len
  <1>6. CASE recv' = Nothing /\ phase' = "closed"
    <2>1. TypeOK'
      BY <1>1, <1>2, <1>4, <1>6, NothingType DEF TypeOK
    <2>. QED
      BY <1>6, <2>1 DEF RingInv
  <1>. QED
    BY <1>5, <1>6 DEF PostReceive, len

LEMMA RingKernel ==
    ASSUME RingInv, KernelWrites
    PROVE  RingInv'
  <1>. USE SizesAssumption
  <1>1. TypeOK /\ phase = "posted" /\ recv.got < recv.len
    BY DEF RingInv, KernelWrites
  <1>2. next \in Bytes /\ next' \in Bytes
    BY <1>1, NextType DEF KernelWrites, TypeOK
  <1>3. buffer' \in [Offsets -> Bytes]
    BY <1>1, <1>2 DEF KernelWrites, TypeOK
  <1>4. /\ recv' \in [ptr: Offsets, len: 0..Capacity, got: 0..Capacity]
        /\ recv'.ptr = recv.ptr /\ recv'.len = recv.len
        /\ recv'.got = recv.got + 1 /\ recv'.got <= recv'.len
    BY <1>1 DEF KernelWrites, TypeOK
  <1>5. UNCHANGED <<positions, phase, packet>>
    BY DEF KernelWrites
  <1>6. TypeOK'
    BY <1>1, <1>2, <1>3, <1>4, <1>5 DEF TypeOK, positions
  <1>. QED
    BY <1>1, <1>4, <1>5, <1>6 DEF RingInv, positions, GetWriteableSize

LEMMA RingHandle ==
    ASSUME RingInv, HandleRecv
    PROVE  RingInv'
  <1>. USE SizesAssumption
  <1>1. /\ TypeOK /\ phase = "posted"
        /\ recv.got \in Nat /\ recv.got <= GetWriteableSize
        /\ storedSize + recv.got <= Capacity
    BY DEF RingInv, HandleRecv, TypeOK
  <1>2. /\ writePos' = Wrap(writePos + recv.got)
        /\ storedSize' = storedSize + recv.got
        /\ phase' = "parsing" /\ recv' = Nothing
        /\ UNCHANGED <<buffer, readPos, next, packet>>
    BY <1>1 DEF HandleRecv, CommitWrite
  <1>3. /\ writePos' \in Offsets
        /\ writePos' = Wrap(readPos + storedSize')
    <2>1. /\ writePos \in Offsets /\ readPos \in Offsets
          /\ storedSize \in 0..Capacity /\ writePos = Wrap(readPos + storedSize)
          /\ recv.got <= Capacity
      BY <1>1 DEF TypeOK
    <2>2. writePos = IF readPos + storedSize < Capacity
                     THEN readPos + storedSize
                     ELSE readPos + storedSize - Capacity
      BY <2>1, Wrapped DEF Offsets
    <2>3. /\ writePos' = IF writePos + recv.got < Capacity
                         THEN writePos + recv.got
                         ELSE writePos + recv.got - Capacity
          /\ writePos' \in Offsets
      BY <1>1, <1>2, <2>1, Wrapped DEF Offsets
    <2>4. Wrap(readPos + storedSize')
             = IF readPos + storedSize' < Capacity
               THEN readPos + storedSize'
               ELSE readPos + storedSize' - Capacity
      BY <1>1, <1>2, <2>1, Wrapped DEF Offsets
    <2>. QED
      BY <1>1, <1>2, <2>1, <2>2, <2>3, <2>4 DEF Offsets
  <1>4. TypeOK'
    BY <1>1, <1>2, <1>3, NothingType DEF TypeOK
  <1>. QED
    BY <1>2, <1>4 DEF RingInv

LEMMA RingTake ==
    ASSUME RingInv, TakePacket
    PROVE  RingInv'
  <1>. USE SizesAssumption
  <1>1. TypeOK /\ phase = "parsing" /\ recv = Nothing
    BY DEF RingInv, TakePacket
  <1>2. PICK size \in HeaderSize..MaxPacketSize :
           /\ size <= storedSize
           /\ packet' = Gather(size)
           /\ readPos' = Wrap(readPos + size)
           /\ storedSize' = storedSize - size
    BY DEF TakePacket
  <1>3. /\ phase' \in {"parsing", "closed"}
        /\ UNCHANGED <<buffer, writePos, recv, next>>
    BY DEF TakePacket
  <1>4. packet' \in Seq(Bytes)
    BY <1>1, <1>2, GatherType DEF TypeOK
  <1>5. /\ readPos' \in Offsets /\ storedSize' \in 0..Capacity
        /\ writePos = Wrap(readPos' + storedSize')
    <2>1. /\ readPos \in Offsets /\ storedSize \in 0..Capacity
          /\ writePos = Wrap(readPos + storedSize)
      BY <1>1 DEF TypeOK
    <2>2. /\ readPos' = IF readPos + size < Capacity
                        THEN readPos + size ELSE readPos + size - Capacity
          /\ readPos' \in Offsets
      BY <1>2, <2>1, Wrapped DEF Offsets
    <2>3. Wrap(readPos + storedSize)
             = IF readPos + storedSize < Capacity
               THEN readPos + storedSize
               ELSE readPos + storedSize - Capacity
      BY <2>1, Wrapped DEF Offsets
    <2>4. Wrap(readPos' + storedSize')
             = IF readPos' + storedSize' < Capacity
               THEN readPos' + storedSize'
               ELSE readPos' + storedSize' - Capacity
      BY <1>2, <2>1, <2>2, Wrapped DEF Offsets
    <2>. QED
      BY <1>2, <2>1, <2>2, <2>3, <2>4 DEF Offsets
  <1>6. TypeOK'
    BY <1>1, <1>3, <1>4, <1>5 DEF TypeOK
  <1>. QED
    BY <1>1, <1>3, <1>6 DEF RingInv

LEMMA RingNeedMore ==
    ASSUME RingInv, NeedMoreData
    PROVE  RingInv'
  <1>1. TypeOK /\ recv = Nothing
    BY DEF RingInv, NeedMoreData
  <1>2. storedSize < MaxPacketSize
    BY <1>1, SizesAssumption DEF NeedMoreData, TypeOK
  <1>3. /\ phase' \in {"posting", "closed"}
        /\ UNCHANGED <<buffer, positions, recv, next, packet>>
    BY DEF NeedMoreData
  <1>4. TypeOK'
    BY <1>1, <1>3 DEF TypeOK, positions
  <1>. QED
    BY <1>1, <1>2, <1>3, <1>4 DEF RingInv, positions

LEMMA RingReset ==
    ASSUME RingInv, ResetSession
    PROVE  RingInv'
  <1>1. TypeOK /\ recv = Nothing
    BY DEF RingInv, ResetSession
  <1>2. /\ writePos' = 0 /\ readPos' = 0 /\ storedSize' = 0
        /\ phase' = "posting"
        /\ UNCHANGED <<buffer, recv, packet>>
    BY DEF ResetSession, Reset
  <1>3. next' \in Bytes
    BY <1>1, NextType DEF ResetSession
  <1>4. Wrap(0) = 0
    BY Wrapped, SizesAssumption
  <1>5. TypeOK'
    BY <1>1, <1>2, <1>3, <1>4, SizesAssumption DEF TypeOK, Offsets
  <1>. QED
    BY <1>1, <1>2, <1>5, SizesAssumption DEF RingInv

LEMMA RingStep == RingInv /\ [Next]_vars => RingInv'
  <1>. SUFFICES ASSUME RingInv, [Next]_vars PROVE RingInv'
    OBVIOUS
  <1>1. CASE PostReceive
    BY <1>1, RingPost
  <1>2. CASE KernelWrites
    BY <1>2, RingKernel
  <1>3. CASE HandleRecv
    BY <1>3, RingHandle
  <1>4. CASE HandleDisconnect
    <2>1. TypeOK'
      BY <1>4, NothingType DEF HandleDisconnect, RingInv, TypeOK, positions
    <2>. QED
      BY <1>4, <2>1 DEF HandleDisconnect, RingInv
  <1>5. CASE NeedMoreData
    BY <1>5, RingNeedMore
  <1>6. CASE TakePacket
    BY <1>6, RingTake
  <1>7. CASE RefuseStream
    <2>1. TypeOK'
      BY <1>7 DEF RefuseStream, RingInv, TypeOK, positions
    <2>. QED
      BY <1>7, <2>1 DEF RefuseStream, RingInv
  <1>8. CASE ResetSession
    BY <1>8, RingReset
  <1>9. CASE UNCHANGED vars
    <2>1. TypeOK'
      BY <1>9 DEF RingInv, TypeOK, vars
    <2>. QED
      BY <1>9, <2>1 DEF RingInv, vars, GetWriteableSize
  <1>. QED
    BY <1>1, <1>2, <1>3, <1>4, <1>5, <1>6, <1>7, <1>8, <1>9 DEF Next

LEMMA RingInvariant == Spec => []RingInv
  BY RingInit, RingStep, PTL DEF Spec

-----------------------------------------------------------------------------
(* Positions and room                                                      *)

(* The positions of the ring always agree with the number of bytes in it,  *)
(* and what the kernel has been lent lies inside the ring; in particular   *)
(* CommitWrite never refuses what a receive brings.                        *)
THEOREM RingTyped == Spec => []TypeOK
  <1>1. RingInv => TypeOK
    BY DEF RingInv
  <1>. QED
    BY <1>1, RingInvariant, PTL

(* Whatever the peer claims and wherever the fragment lies, each posted    *)
(* receive has room for a whole packet in one piece, behind a fragment     *)
(* shorter than a packet: a ring twice as long as a packet is enough.      *)
THEOREM AlwaysRoom == Spec => []RoomForPacket
  <1>1. RingInv => RoomForPacket
    BY DEF RingInv, RoomForPacket
  <1>. QED
    BY <1>1, RingInvariant, PTL
-----------------------------------------------------------------------------
(* Bytes on the wire                                                       *)

(* The bytes that belong to the packet of b and come after b.              *)
Left(b) == Stream!SentLength(b.claim) - b.pos

(* The byte k places behind b in its packet.                               *)
Moved(b, k) == [b EXCEPT !.pos = b.pos + k]

(* m bytes that follow each other on the wire, the first of which starts a *)
(* packet.  Said of any two of them, not of neighbours, so that no         *)
(* induction is needed: j is as far into the packet of i as it is behind i,*)
(* and who comes behind the last byte of a packet starts one.              *)
Follows(x, i, j) ==
    /\ j - i <= Left(x[i]) => x[j] = Moved(x[i], j - i)
    /\ j - i = Left(x[i]) + 1 => x[j].pos = 1

Wire(x, m) ==
    /\ m \in Nat \ {0} /\ x \in [1..m -> Bytes]
    /\ x[1].pos = 1
    /\ \A i \in 1..m : x[i].pos >= 1 /\ Left(x[i]) >= 0
    /\ \A i, j \in 1..m : i <= j => Follows(x, i, j)

LEMMA SentLengthType ==
    ASSUME NEW b \in Bytes
    PROVE  /\ b.pos \in Nat /\ b.claim \in Nat /\ b.pkt \in Nat
           /\ Stream!SentLength(b.claim) \in Nat
           /\ Stream!SentLength(b.claim) >= HeaderSize
           /\ b.claim >= HeaderSize => Stream!SentLength(b.claim) = b.claim
           /\ Left(b) \in Int
           /\ Left(b) = Stream!SentLength(b.claim) - b.pos
  BY SizesAssumption DEF Bytes, Stream!SentLength, Left

LEMMA FirstByte ==
    ASSUME NEW k \in Nat, NEW b \in Stream!FirstBytes(k)
    PROVE  b \in Bytes /\ b.pos = 1 /\ Left(b) >= 0
  <1>1. PICK c \in Claims : b = [pkt |-> k, pos |-> 1, claim |-> c]
    BY DEF Stream!FirstBytes
  <1>2. c \in Nat
    BY ClaimsAssumption
  <1>3. b \in Bytes /\ b.pos = 1
    BY <1>1, <1>2 DEF Bytes
  <1>. QED
    BY <1>3, SentLengthType, SizesAssumption

LEMMA NextByte ==
    ASSUME NEW a \in Bytes, a.pos >= 1, Left(a) >= 0, NEW b \in Stream!After(a)
    PROVE  /\ b \in Bytes /\ b.pos >= 1 /\ Left(b) >= 0
           /\ Left(a) > 0 => b = Moved(a, 1)
           /\ Left(a) = 0 => b.pos = 1
  <1>1. /\ a.pos \in Nat /\ a.pkt \in Nat /\ a.claim \in Nat
        /\ Stream!SentLength(a.claim) \in Nat
        /\ Left(a) = Stream!SentLength(a.claim) - a.pos
    BY SentLengthType
  <1>2. CASE Left(a) > 0
    <2>1. a.pos < Stream!SentLength(a.claim)
      BY <1>1, <1>2
    <2>2. b = Moved(a, 1)
      BY <2>1 DEF Stream!After, Moved
    <2>3. b \in Bytes /\ b.pos = a.pos + 1 /\ b.claim = a.claim
      BY <1>1, <2>2 DEF Bytes, Moved
    <2>4. Left(b) = Stream!SentLength(a.claim) - (a.pos + 1)
      BY <2>3 DEF Left
    <2>. QED
      BY <1>1, <1>2, <2>1, <2>2, <2>3, <2>4
  <1>3. CASE Left(a) = 0
    <2>1. ~(a.pos < Stream!SentLength(a.claim))
      BY <1>1, <1>3
    <2>2. b \in Stream!FirstBytes(a.pkt + 1)
      BY <2>1 DEF Stream!After
    <2>. QED
      BY <1>1, <1>3, <2>2, FirstByte
  <1>. QED
    BY <1>1, <1>2, <1>3

(* A byte of one packet moved k places on.                                 *)
LEMMA MovedByte ==
    ASSUME NEW a \in Bytes, NEW k \in Nat
    PROVE  /\ Moved(a, k) \in Bytes
           /\ Moved(a, k).pos = a.pos + k
           /\ Left(Moved(a, k)) = Left(a) - k
           /\ Moved(Moved(a, k), 1) = Moved(a, k + 1)
           /\ Moved(a, 0) = a
  <1>1. /\ a.pos \in Nat /\ Stream!SentLength(a.claim) \in Nat
        /\ Left(a) = Stream!SentLength(a.claim) - a.pos
    BY SentLengthType
  <1>2. /\ Moved(a, k) \in Bytes
        /\ Moved(a, k).pos = a.pos + k /\ Moved(a, k).claim = a.claim
    BY DEF Bytes, Moved
  <1>3. Left(Moved(a, k)) = Stream!SentLength(a.claim) - (a.pos + k)
    BY <1>2 DEF Left
  <1>4. a.pos + k + 1 = a.pos + (k + 1)
    BY <1>1
  <1>5. Moved(Moved(a, k), 1) = Moved(a, k + 1)
    BY <1>4 DEF Bytes, Moved
  <1>6. Moved(a, 0) = a
    BY <1>1 DEF Bytes, Moved
  <1>. QED
    BY <1>1, <1>2, <1>3, <1>5, <1>6

LEMMA WireStarts ==
    ASSUME NEW k \in Nat, NEW b \in Stream!FirstBytes(k)
    PROVE  Wire([i \in 1..1 |-> b], 1)
  <1>1. b \in Bytes /\ b.pos = 1 /\ Left(b) >= 0
    BY FirstByte
  <1>. DEFINE x == [i \in 1..1 |-> b]
  <1>2. x \in [1..1 -> Bytes] /\ x[1] = b
    BY <1>1
  <1>3. ASSUME NEW i \in 1..1, NEW j \in 1..1
        PROVE  Follows(x, i, j)
    <2>1. i = 1 /\ j = 1 /\ j - i = 0
      OBVIOUS
    <2>2. Moved(b, 0) = b
      BY <1>1, MovedByte
    <2>3. Left(b) \in Int
      BY <1>1, SentLengthType
    <2>. QED
      BY <1>1, <1>2, <2>1, <2>2, <2>3 DEF Follows
  <1>4. \A i \in 1..1 : x[i].pos >= 1 /\ Left(x[i]) >= 0
    BY <1>1
  <1>. HIDE DEF x
  <1>5. Wire(x, 1)
    BY <1>1, <1>2, <1>3, <1>4 DEF Wire
  <1>. QED
    BY <1>5 DEF x

LEMMA WireGrows ==
    ASSUME NEW m, NEW x, Wire(x, m), NEW b \in Stream!After(x[m]),
           NEW y, y = [i \in 1..m + 1 |-> IF i <= m THEN x[i] ELSE b]
    PROVE  Wire(y, m + 1)
  <1>1. /\ m \in Nat \ {0} /\ x \in [1..m -> Bytes] /\ x[1].pos = 1
        /\ \A i \in 1..m : x[i].pos >= 1 /\ Left(x[i]) >= 0
        /\ \A i, j \in 1..m : i <= j => Follows(x, i, j)
    BY DEF Wire
  <1>2. /\ b \in Bytes /\ b.pos >= 1 /\ Left(b) >= 0
        /\ Left(x[m]) > 0 => b = Moved(x[m], 1)
        /\ Left(x[m]) = 0 => b.pos = 1
    BY <1>1, NextByte
  <1>3. /\ m + 1 \in Nat \ {0}
        /\ y \in [1..m + 1 -> Bytes]
        /\ y[m + 1] = b
        /\ \A i \in 1..m : y[i] = x[i]
        /\ y[1] = x[1]
    BY <1>1, <1>2
  <1>4. ASSUME NEW i \in 1..m + 1
        PROVE  y[i].pos >= 1 /\ Left(y[i]) >= 0
    BY <1>1, <1>2, <1>3
  <1>5. ASSUME NEW i \in 1..m + 1, NEW j \in 1..m + 1, i <= j
        PROVE  Follows(y, i, j)
    <2>1. CASE j <= m
      BY <1>1, <1>3, <1>5, <2>1 DEF Follows
    <2>2. CASE i = m + 1
      <3>1. j = m + 1 /\ j - i = 0 /\ y[i] = b /\ y[j] = b
        BY <1>1, <1>3, <1>5, <2>2
      <3>2. Moved(b, 0) = b
        BY <1>2, MovedByte
      <3>3. Left(b) \in Int
        BY <1>2, SentLengthType
      <3>. QED
        BY <1>2, <3>1, <3>2, <3>3 DEF Follows
    <2>3. CASE j = m + 1 /\ i <= m
      <3>. DEFINE k == m - i
      <3>1. /\ i \in 1..m /\ m \in 1..m /\ k \in Nat /\ j - i = k + 1
            /\ y[i] = x[i] /\ y[j] = b /\ x[i] \in Bytes
        BY <1>1, <1>3, <2>3
      <3>2. Left(x[i]) \in Int /\ Left(x[m]) \in Int
        BY <1>1, <3>1, SentLengthType
      <3>3. k <= Left(x[i]) => x[m] = Moved(x[i], k)
        BY <1>1, <3>1 DEF Follows
      <3>. HIDE DEF k
      <3>4. ASSUME k <= Left(x[i])
            PROVE  /\ Left(x[m]) = Left(x[i]) - k
                   /\ Moved(x[m], 1) = Moved(x[i], k + 1)
        BY <3>1, <3>3, <3>4, MovedByte
      <3>5. ASSUME j - i <= Left(y[i])
            PROVE  y[j] = Moved(y[i], j - i)
        <4>1. k <= Left(x[i]) /\ Left(x[i]) - k > 0
          BY <3>1, <3>2, <3>5
        <4>. QED
          BY <1>2, <3>1, <3>4, <4>1
      <3>6. ASSUME j - i = Left(y[i]) + 1
            PROVE  y[j].pos = 1
        <4>1. k <= Left(x[i]) /\ Left(x[i]) - k = 0
          BY <3>1, <3>2, <3>6
        <4>. QED
          BY <1>2, <3>1, <3>4, <4>1
      <3>. QED
        BY <3>5, <3>6 DEF Follows
    <2>. QED
      BY <1>1, <2>1, <2>2, <2>3
  <1>. QED
    BY <1>1, <1>3, <1>4, <1>5 DEF Wire

(* Without its first packet a wire is one still.                           *)
LEMMA WireCut ==
    ASSUME NEW m, NEW x, Wire(x, m), NEW size \in Nat, size < m,
           size = x[1].claim, size >= HeaderSize,
           NEW y, y = [i \in 1..m - size |-> x[i + size]]
    PROVE  Wire(y, m - size)
  <1>1. /\ m \in Nat \ {0} /\ x \in [1..m -> Bytes] /\ x[1].pos = 1
        /\ \A i \in 1..m : x[i].pos >= 1 /\ Left(x[i]) >= 0
        /\ \A i, j \in 1..m : i <= j => Follows(x, i, j)
    BY DEF Wire
  <1>2. /\ m - size \in Nat \ {0}
        /\ \A i \in 1..m - size : i + size \in 1..m /\ y[i] = x[i + size]
    BY <1>1
  <1>3. y \in [1..m - size -> Bytes]
    BY <1>1, <1>2
  <1>4. y[1].pos = 1
    <2>1. 1 \in 1..m /\ 1 + size \in 1..m /\ 1 <= 1 + size
      BY <1>1
    <2>2. Left(x[1]) = size - 1
      BY <1>1, <2>1, SentLengthType
    <2>3. (1 + size) - 1 = Left(x[1]) + 1
      BY <2>2
    <2>4. x[1 + size].pos = 1
      BY <1>1, <2>1, <2>3 DEF Follows
    <2>. QED
      BY <1>2, <2>4
  <1>5. ASSUME NEW i \in 1..m - size, NEW j \in 1..m - size, i <= j
        PROVE  Follows(y, i, j)
    <2>0. i \in Int /\ j \in Int /\ size \in Int
      BY <1>1
    <2>1. /\ i + size \in 1..m /\ j + size \in 1..m
          /\ i + size <= j + size
          /\ (j + size) - (i + size) = j - i
      <3>1. i + size \in 1..m /\ j + size \in 1..m
        BY <1>2
      <3>2. i + size <= j + size /\ (j + size) - (i + size) = j - i
        BY <1>5, <2>0
      <3>. QED
        BY <3>1, <3>2
    <2>2. Follows(x, i + size, j + size)
      BY <1>1, <2>1
    <2>3. y[i] = x[i + size] /\ y[j] = x[j + size]
      BY <1>2
    <2>4. Follows(y, i, j) <=> Follows(x, i + size, j + size)
      BY <2>1, <2>3 DEF Follows
    <2>. QED
      BY <2>2, <2>4
  <1>. QED
    BY <1>1, <1>2, <1>3, <1>4, <1>5 DEF Wire

(* The first HeaderSize bytes are the header of one packet.                *)
LEMMA WireHeader ==
    ASSUME NEW m, NEW x, Wire(x, m), HeaderSize < m
    PROVE  \A i \in 1..HeaderSize : x[i] = [x[1] EXCEPT !.pos = i]
  <1>. TAKE i \in 1..HeaderSize
  <1>1. /\ m \in Nat /\ x \in [1..m -> Bytes] /\ x[1].pos = 1
        /\ \A j \in 1..m : 1 <= j => Follows(x, 1, j)
    BY DEF Wire
  <1>2. i \in 1..m /\ 1 \in 1..m
    BY <1>1, SizesAssumption
  <1>3. i - 1 <= Left(x[1])
    BY <1>1, <1>2, SentLengthType, SizesAssumption
  <1>4. x[i] = Moved(x[1], i - 1)
    BY <1>1, <1>2, <1>3 DEF Follows
  <1>5. x[1].pos + (i - 1) = i
    BY <1>1, <1>2
  <1>. QED
    BY <1>4, <1>5 DEF Moved
-----------------------------------------------------------------------------
(* The ring as a stretch of the wire                                       *)

(* The i-th byte of the queue, and how many there are, committed or not.   *)
At(i) == buffer[Wrap(readPos + i - 1)]
Count == storedSize + recv.got

(* The queue, and the byte the peer sends next.                            *)
Window == [i \in 1..Count + 1 |-> IF i <= Count THEN At(i) ELSE next]

(* The receive is posted, or about to be, for bytes that are missing.      *)
Waits ==
    phase \in {"posting", "posted"} /\ storedSize >= HeaderSize =>
        At(1).claim \in HeaderSize..MaxPacketSize /\ At(1).claim > storedSize

(* The second inductive invariant.                                         *)
StreamInv == RingInv /\ Wire(Window, Count + 1) /\ Waits

LEMMA Places ==
    ASSUME RingInv
    PROVE  /\ Count \in 0..Capacity /\ Count >= storedSize
           /\ storedSize \in Nat /\ recv.got \in Nat
           /\ phase # "posted" => recv.got = 0
           /\ \A i \in 1..Count : At(i) \in Bytes
  <1>1. /\ buffer \in [Offsets -> Bytes] /\ readPos \in Offsets
        /\ storedSize \in 0..Capacity
        /\ recv \in [ptr: Offsets, len: 0..Capacity, got: 0..Capacity]
        /\ recv.got <= recv.len
    BY DEF RingInv, TypeOK
  <1>2. phase # "posted" => recv.got = 0
    BY DEF RingInv, Nothing
  <1>3. phase = "posted" => storedSize + recv.len <= Capacity
    BY DEF RingInv
  <1>4. Count \in 0..Capacity /\ Count >= storedSize
    BY <1>1, <1>2, <1>3, SizesAssumption DEF Count
  <1>5. ASSUME NEW i \in 1..Count
        PROVE  At(i) \in Bytes
    <2>1. readPos + i - 1 \in Nat /\ readPos + i - 1 < 2 * Capacity
      BY <1>1, <1>4, SizesAssumption DEF Offsets
    <2>2. Wrap(readPos + i - 1) \in Offsets
      BY <2>1, Wrapped
    <2>. QED
      BY <1>1, <2>2 DEF At
  <1>. QED
    BY <1>1, <1>2, <1>4, <1>5

LEMMA Joined ==
    ASSUME NEW S, NEW a \in Seq(S), NEW b \in Seq(S)
    PROVE  a \o b = [i \in 1..Len(a) + Len(b) |->
                        IF i <= Len(a) THEN a[i] ELSE b[i - Len(a)]]
  <1>1. a \o b \in Seq(S) /\ Len(a \o b) = Len(a) + Len(b)
    OBVIOUS
  <1>2. /\ \A i \in 1..Len(a) : (a \o b)[i] = a[i]
        /\ \A i \in 1..Len(b) : (a \o b)[Len(a) + i] = b[i]
    OBVIOUS
  <1>0. Len(a) \in Nat /\ Len(b) \in Nat
    OBVIOUS
  <1>3. a \o b = [i \in 1..Len(a) + Len(b) |-> (a \o b)[i]]
    <2>. DEFINE c == a \o b
    <2>1. c \in Seq(S) /\ Len(c) = Len(a) + Len(b)
      BY <1>1
    <2>. HIDE DEF c
    <2>2. c \in [1..Len(c) -> S]
      BY <2>1
    <2>3. c = [i \in 1..Len(c) |-> c[i]]
      BY <2>2
    <2>. QED
      BY <2>1, <2>3 DEF c
  <1>4. ASSUME NEW i \in 1..Len(a) + Len(b)
        PROVE  (a \o b)[i] = IF i <= Len(a) THEN a[i] ELSE b[i - Len(a)]
    <2>1. CASE i <= Len(a)
      BY <1>0, <1>2, <2>1
    <2>2. CASE ~(i <= Len(a))
      <3>1. i - Len(a) \in 1..Len(b) /\ Len(a) + (i - Len(a)) = i
        BY <1>0, <2>2
      <3>. QED
        BY <1>2, <2>2, <3>1
    <2>. QED
      BY <2>1, <2>2
  <1>. QED
    BY <1>0, <1>3, <1>4

(* What a receive has brought lies behind what is stored, also before it   *)
(* is committed.                                                           *)
LEMMA QueueBytes ==
    ASSUME RingInv
    PROVE  /\ Gather(storedSize) \o Received = [i \in 1..Count |-> At(i)]
           /\ \A n \in 0..Count : Gather(n) = [i \in 1..n |-> At(i)]
  <1>1. \A n \in 0..Count : Gather(n) = [i \in 1..n |-> At(i)]
    BY DEF Gather, At
  <1>2. /\ storedSize \in Nat /\ recv.got \in Nat /\ Count = storedSize + recv.got
        /\ Count <= Capacity
    BY Places DEF Count
  <1>3. ASSUME NEW i \in 1..recv.got
        PROVE  buffer[recv.ptr + i - 1] = At(storedSize + i)
    <2>1. phase = "posted"
      BY <1>2, <1>3, Places
    <2>2. /\ recv.ptr = writePos /\ writePos = Wrap(readPos + storedSize)
          /\ readPos \in Offsets /\ writePos \in Offsets
          /\ recv.ptr + recv.len <= Capacity
          /\ recv.got <= recv.len /\ recv.len \in Nat
      BY <2>1 DEF RingInv, TypeOK
    <2>3. writePos = IF readPos + storedSize < Capacity THEN readPos + storedSize
                     ELSE readPos + storedSize - Capacity
      BY <1>2, <2>2, Wrapped, SizesAssumption DEF Offsets
    <2>. DEFINE p == readPos + (storedSize + i) - 1
    <2>4. p \in Nat /\ p < 2 * Capacity
      BY <1>2, <2>2, SizesAssumption DEF Offsets
    <2>5. Wrap(p) = IF p < Capacity THEN p ELSE p - Capacity
      BY <2>4, Wrapped
    <2>6. Wrap(p) = recv.ptr + i - 1
      BY <1>2, <2>2, <2>3, <2>5, SizesAssumption DEF Offsets
    <2>. QED
      BY <2>6 DEF At
  <1>4. Received = [i \in 1..recv.got |-> At(storedSize + i)]
    BY <1>3 DEF Received
  <1>5. Gather(storedSize) = [i \in 1..storedSize |-> At(i)]
    BY <1>1, <1>2
  <1>. DEFINE a == [i \in 1..storedSize |-> At(i)]
              b == [i \in 1..recv.got |-> At(storedSize + i)]
  <1>6. a \o b = [i \in 1..Count |-> At(i)]
    <2>1. /\ a \in Seq(Bytes) /\ b \in Seq(Bytes)
          /\ Len(a) = storedSize /\ Len(b) = recv.got
      BY <1>2, Places
    <2>. HIDE DEF a, b
    <2>2. a \o b = [i \in 1..Count |-> IF i <= storedSize THEN a[i]
                                       ELSE b[i - storedSize]]
      <3>1. a \o b = [i \in 1..Len(a) + Len(b) |->
                        IF i <= Len(a) THEN a[i] ELSE b[i - Len(a)]]
        BY <2>1, Joined
      <3>. QED
        BY <1>2, <2>1, <3>1
    <2>3. \A i \in 1..Count :
             At(i) = IF i <= storedSize THEN a[i] ELSE b[i - storedSize]
      BY <1>2 DEF a, b
    <2>. QED
      BY <2>2, <2>3
  <1>. QED
    BY <1>1, <1>4, <1>5, <1>6

(* Two bytes of the queue lie in different places.                         *)
LEMMA Apart ==
    ASSUME NEW r \in Offsets, NEW i \in 1..Capacity, NEW j \in 1..Capacity, i # j
    PROVE  Wrap(r + i - 1) # Wrap(r + j - 1)
  <1>. DEFINE p == r + i - 1
              q == r + j - 1
  <1>1. p \in Nat /\ p < 2 * Capacity /\ q \in Nat /\ q < 2 * Capacity
    BY SizesAssumption DEF Offsets
  <1>2. /\ Wrap(p) = IF p < Capacity THEN p ELSE p - Capacity
        /\ Wrap(q) = IF q < Capacity THEN q ELSE q - Capacity
    <2>. HIDE DEF p, q
    <2>. QED
      BY <1>1, Wrapped
  <1>. QED
    BY <1>2, SizesAssumption DEF Offsets

(* A header is read as what its packet claims.                             *)
LEMMA HeaderRead ==
    ASSUME StreamInv, storedSize >= HeaderSize
    PROVE  PeekHeader(Gather(HeaderSize)) = {At(1).claim}
  <1>1. /\ RingInv /\ Wire(Window, Count + 1)
        /\ Count \in Nat /\ HeaderSize <= Count /\ 1 <= HeaderSize /\ HeaderSize \in Nat
    BY Places, SizesAssumption DEF StreamInv
  <1>2. \A i \in 1..HeaderSize : Window[i] = [Window[1] EXCEPT !.pos = i]
    <2>. DEFINE x == Window
                m == Count + 1
    <2>1. Wire(x, m) /\ HeaderSize < m
      BY <1>1
    <2>. HIDE DEF x, m
    <2>2. \A i \in 1..HeaderSize : x[i] = [x[1] EXCEPT !.pos = i]
      BY <2>1, WireHeader
    <2>. QED
      BY <2>2 DEF x
  <1>3. \A i \in 1..HeaderSize : Window[i] = At(i)
    BY <1>1 DEF Window
  <1>4. Gather(HeaderSize) = [i \in 1..HeaderSize |-> At(i)]
    BY <1>1, QueueBytes
  <1>5. 1 \in 1..HeaderSize
    BY <1>1
  <1>6. \A i \in 1..HeaderSize : Gather(HeaderSize)[i] = At(i)
    BY <1>4
  <1>7. \A i \in 1..HeaderSize :
           Gather(HeaderSize)[i] = [Gather(HeaderSize)[1] EXCEPT !.pos = i]
    BY <1>2, <1>3, <1>5, <1>6
  <1>. QED
    BY <1>5, <1>6, <1>7 DEF PeekHeader

(* What a step does to the queue: most leave it as it is.                  *)
QueueKept ==
    /\ Count' = Count /\ next' = next
    /\ \A i \in 1..Count : At(i)' = At(i)

QueueGrown ==
    /\ Count' = Count + 1 /\ next' \in Stream!After(next)
    /\ \A i \in 1..Count + 1 :
          At(i)' = IF i <= Count THEN At(i) ELSE next

QueueCut(size) ==
    /\ size \in HeaderSize..MaxPacketSize /\ size <= Count
    /\ size = At(1).claim
    /\ Count' = Count - size /\ next' = next
    /\ \A i \in 1..Count - size : At(i)' = At(i + size)

LEMMA PostKeeps ==
    ASSUME RingInv, PostReceive
    PROVE  QueueKept
  <1>. USE SizesAssumption
  <1>1. /\ storedSize \in 0..Capacity /\ recv = Nothing /\ recv.got = 0
        /\ readPos \in Offsets /\ Count = storedSize
        /\ writePos = Wrap(readPos + storedSize)
    BY DEF RingInv, PostReceive, TypeOK, Count, Nothing
  <1>2. recv'.got = 0 /\ next' = next
    BY DEF PostReceive, Nothing
  <1>3. /\ storedSize' = storedSize
        /\ \A i \in 1..storedSize : At(i)' = At(i)
    <2>1. CASE IsEmpty /\ UNCHANGED <<buffer, storedSize>>
      BY <1>1, <2>1 DEF IsEmpty
    <2>2. CASE UNCHANGED <<buffer, positions>>
      BY <2>2 DEF At, positions
    <2>3. CASE readPos + storedSize <= Capacity /\ Compact
      <3>. SUFFICES ASSUME NEW i \in 1..storedSize
                    PROVE  At(i)' = At(i)
        BY <2>3 DEF Compact
      <3>1. /\ readPos + i - 1 \in Nat /\ readPos + i - 1 < Capacity
            /\ i - 1 \in Nat /\ i - 1 < storedSize /\ i - 1 < Capacity
            /\ 0 + i - 1 = i - 1 /\ readPos + (i - 1) = readPos + i - 1
        BY <1>1, <2>3 DEF Offsets
      <3>2. Wrap(readPos + i - 1) = readPos + i - 1 /\ Wrap(i - 1) = i - 1
        BY <3>1, Wrapped
      <3>3. At(i)' = buffer'[i - 1]
        BY <2>3, <3>1, <3>2 DEF At, Compact
      <3>4. buffer'[i - 1] = buffer[readPos + (i - 1)]
        BY <2>3, <3>1 DEF Compact, Offsets
      <3>. QED
        BY <2>3, <3>1, <3>2, <3>3, <3>4 DEF At, Compact
    <2>. QED
      BY <2>1, <2>2, <2>3 DEF PostReceive, PrepareWrite
  <1>. QED
    BY <1>1, <1>2, <1>3 DEF QueueKept, Count

LEMMA KernelGrows ==
    ASSUME RingInv, KernelWrites
    PROVE  QueueGrown
  <1>. USE SizesAssumption
  <1>1. /\ phase = "posted" /\ recv.got < recv.len
        /\ storedSize \in 0..Capacity /\ readPos \in Offsets
        /\ writePos = Wrap(readPos + storedSize)
        /\ recv.ptr = writePos /\ recv.ptr + recv.len <= Capacity
        /\ storedSize + recv.len <= Capacity
        /\ recv \in [ptr: Offsets, len: 0..Capacity, got: 0..Capacity]
        /\ buffer \in [Offsets -> Bytes]
    BY DEF RingInv, KernelWrites, TypeOK
  <1>2. /\ UNCHANGED <<writePos, readPos, storedSize>>
        /\ recv'.got = recv.got + 1
        /\ buffer' = [buffer EXCEPT ![recv.ptr + recv.got] = next]
        /\ next' \in Stream!After(next)
    BY <1>1 DEF KernelWrites, positions
  <1>3. /\ Count \in Nat /\ Count + 1 \in 1..Capacity /\ Count' = Count + 1
        /\ Count = storedSize + recv.got
    BY <1>1, <1>2 DEF Count
  <1>4. Wrap(readPos + (Count + 1) - 1) = recv.ptr + recv.got
    <2>. DEFINE p == readPos + (Count + 1) - 1
    <2>0. /\ Count \in Nat /\ Count < Capacity
          /\ readPos \in Nat /\ readPos < Capacity
      BY <1>1, <1>3 DEF Offsets
    <2>1. p \in Nat /\ p < 2 * Capacity
      BY <2>0
    <2>2. p = readPos + storedSize + recv.got
      BY <1>1, <1>3 DEF Offsets
    <2>. HIDE DEF p
    <2>3. Wrap(p) = IF p < Capacity THEN p ELSE p - Capacity
      BY <2>1, Wrapped
    <2>4. writePos = IF readPos + storedSize < Capacity THEN readPos + storedSize
                     ELSE readPos + storedSize - Capacity
      BY <1>1, Wrapped DEF Offsets
    <2>5. Wrap(p) = recv.ptr + recv.got
      BY <1>1, <2>2, <2>3, <2>4 DEF Offsets
    <2>. QED
      BY <2>5 DEF p
  <1>5. recv.ptr + recv.got \in Offsets
    BY <1>1 DEF Offsets
  <1>6. ASSUME NEW i \in 1..Count
        PROVE  At(i)' = At(i)
    <2>1. i \in 1..Capacity /\ i # Count + 1
      BY <1>3
    <2>2. Wrap(readPos + i - 1) # recv.ptr + recv.got
      BY <1>1, <1>3, <1>4, <2>1, Apart
    <2>3. readPos + i - 1 \in Nat /\ readPos + i - 1 < 2 * Capacity
      BY <1>1, <2>1 DEF Offsets
    <2>4. Wrap(readPos + i - 1) \in Offsets
      BY <2>3, Wrapped
    <2>. QED
      BY <1>1, <1>2, <2>2, <2>4 DEF At
  <1>7. ASSUME NEW i \in 1..Count + 1, ~(i <= Count)
        PROVE  At(i)' = next
    <2>1. i = Count + 1
      BY <1>3, <1>7
    <2>2. At(i)' = buffer'[recv.ptr + recv.got]
      BY <1>2, <1>4, <2>1 DEF At
    <2>. QED
      BY <1>1, <1>2, <1>5, <2>2
  <1>8. ASSUME NEW i \in 1..Count + 1
        PROVE  At(i)' = IF i <= Count THEN At(i) ELSE next
    BY <1>3, <1>6, <1>7
  <1>. QED
    BY <1>2, <1>3, <1>8 DEF QueueGrown

LEMMA HandleKeeps ==
    ASSUME RingInv, HandleRecv
    PROVE  QueueKept
  <1>1. /\ recv.got \in Nat /\ recv.got <= GetWriteableSize
        /\ storedSize \in Nat
    BY DEF RingInv, HandleRecv, TypeOK
  <1>2. /\ storedSize' = storedSize + recv.got
        /\ recv'.got = 0
        /\ UNCHANGED <<buffer, readPos, next>>
    BY <1>1 DEF HandleRecv, CommitWrite, Nothing
  <1>. QED
    BY <1>1, <1>2 DEF QueueKept, Count, At

LEMMA TakeCuts ==
    ASSUME StreamInv, TakePacket
    PROVE  \E size \in Nat :
              /\ QueueCut(size) /\ size <= storedSize
              /\ packet' = Gather(size)
  <1>. USE SizesAssumption
  <1>1. /\ RingInv /\ phase = "parsing" /\ recv = Nothing /\ recv.got = 0
        /\ storedSize \in 0..Capacity /\ readPos \in Offsets
        /\ storedSize >= HeaderSize
    BY DEF StreamInv, RingInv, TakePacket, TypeOK, Nothing
  <1>2. PICK size \in PeekHeader(Gather(HeaderSize)) :
           /\ size \in HeaderSize..MaxPacketSize
           /\ size <= storedSize
           /\ packet' = Gather(size)
           /\ readPos' = Wrap(readPos + size)
           /\ storedSize' = storedSize - size
    BY DEF TakePacket
  <1>3. UNCHANGED <<buffer, recv, next>>
    BY DEF TakePacket
  <1>4. size = At(1).claim
    BY <1>1, <1>2, HeaderRead
  <1>5. Count = storedSize /\ Count' = storedSize - size
    BY <1>1, <1>2, <1>3 DEF Count
  <1>6. ASSUME NEW i \in 1..Count - size
        PROVE  At(i)' = At(i + size)
    <2>1. size \in Nat /\ i \in Nat /\ i >= 1 /\ i + size <= Capacity
      BY <1>1, <1>2, <1>5
    <2>2. /\ readPos' = IF readPos + size < Capacity
                        THEN readPos + size ELSE readPos + size - Capacity
          /\ readPos' \in Offsets
      BY <1>1, <1>2, <2>1, Wrapped DEF Offsets
    <2>. DEFINE p == readPos' + i - 1
                q == readPos + (i + size) - 1
    <2>3. p \in Nat /\ p < 2 * Capacity /\ q \in Nat /\ q < 2 * Capacity
      BY <1>1, <2>1, <2>2 DEF Offsets
    <2>4. p = q \/ p = q - Capacity
      BY <1>1, <2>1, <2>2 DEF Offsets
    <2>. HIDE DEF p, q
    <2>5. /\ Wrap(p) = IF p < Capacity THEN p ELSE p - Capacity
          /\ Wrap(q) = IF q < Capacity THEN q ELSE q - Capacity
      BY <2>3, Wrapped
    <2>6. Wrap(p) = Wrap(q)
      BY <2>3, <2>4, <2>5
    <2>. QED
      BY <1>3, <2>6 DEF At, p, q
  <1>. QED
    BY <1>2, <1>3, <1>4, <1>5, <1>6 DEF QueueCut

OnWire == Wire(Window, Count + 1)

LEMMA KeptWire ==
    ASSUME StreamInv, QueueKept
    PROVE  OnWire' /\ (Count >= 1 => At(1)' = At(1))
  <1>1. Count \in Nat /\ OnWire
    BY Places DEF StreamInv, OnWire
  <1>2. Window' = Window /\ Count' = Count
    BY <1>1 DEF QueueKept, Window
  <1>3. OnWire'
    BY <1>1, <1>2 DEF OnWire
  <1>. QED
    BY <1>1, <1>3 DEF QueueKept

LEMMA GrownWire ==
    ASSUME StreamInv, QueueGrown
    PROVE  OnWire' /\ (Count >= 1 => At(1)' = At(1))
  <1>1. /\ Count \in Nat /\ Wire(Window, Count + 1)
        /\ Window = [i \in 1..Count + 1 |-> IF i <= Count THEN At(i) ELSE next]
    BY Places DEF StreamInv, Window
  <1>2. /\ Count' = Count + 1 /\ next' \in Stream!After(next)
        /\ \A i \in 1..Count + 1 :
              At(i)' = IF i <= Count THEN At(i) ELSE next
    BY DEF QueueGrown
  <1>. DEFINE x == Window
              m == Count + 1
              y == [i \in 1..m + 1 |-> IF i <= m THEN x[i] ELSE next']
  <1>3. x[m] = next /\ \A i \in 1..m : At(i)' = x[i]
    BY <1>1, <1>2
  <1>4. y = Window' /\ m + 1 = Count' + 1
    BY <1>1, <1>2, <1>3 DEF Window
  <1>5. Wire(y, m + 1)
    <2>1. Wire(x, m) /\ next' \in Stream!After(x[m])
      BY <1>1, <1>2, <1>3
    <2>. HIDE DEF x, m
    <2>. QED
      BY <2>1, WireGrows
  <1>. HIDE DEF x, y, m
  <1>6. OnWire'
    BY <1>4, <1>5 DEF OnWire
  <1>. QED
    BY <1>1, <1>2, <1>6

LEMMA CutWire ==
    ASSUME StreamInv, NEW size \in Nat, QueueCut(size)
    PROVE  OnWire'
  <1>1. /\ Count \in Nat /\ Wire(Window, Count + 1)
        /\ Window = [i \in 1..Count + 1 |-> IF i <= Count THEN At(i) ELSE next]
    BY Places DEF StreamInv, Window
  <1>2. /\ size \in HeaderSize..MaxPacketSize /\ size <= Count
        /\ size = At(1).claim /\ size >= 1
        /\ Count' = Count - size /\ next' = next
        /\ \A i \in 1..Count - size : At(i)' = At(i + size)
    BY SizesAssumption DEF QueueCut
  <1>. DEFINE x == Window
              m == Count + 1
              y == [i \in 1..m - size |-> x[i + size]]
  <1>3. size < m /\ size = x[1].claim /\ size >= HeaderSize
    BY <1>1, <1>2, SizesAssumption
  <1>4. y = Window' /\ m - size = Count' + 1
    <2>1. m - size = Count' + 1
      BY <1>1, <1>2
    <2>2. ASSUME NEW i \in 1..m - size
          PROVE  x[i + size] = IF i <= Count' THEN At(i)' ELSE next'
      BY <1>1, <1>2
    <2>. QED
      BY <2>1, <2>2 DEF Window
  <1>5. Wire(y, m - size)
    <2>1. Wire(x, m)
      BY <1>1
    <2>. HIDE DEF x, m
    <2>. QED
      BY <1>3, <2>1, WireCut
  <1>. HIDE DEF x, y, m
  <1>. QED
    BY <1>4, <1>5 DEF OnWire

LEMMA StreamInit == Init => StreamInv
  <1>. SUFFICES ASSUME Init PROVE StreamInv
    OBVIOUS
  <1>1. storedSize = 0 /\ Count = 0 /\ next \in Stream!FirstBytes(1)
    BY DEF Init, Count, Nothing
  <1>2. Wire([i \in 1..1 |-> next], 1)
    BY <1>1, WireStarts
  <1>3. Window = [i \in 1..1 |-> next] /\ Count + 1 = 1
    BY <1>1 DEF Window
  <1>4. Waits
    BY <1>1, SizesAssumption DEF Waits
  <1>. QED
    BY <1>2, <1>3, <1>4, RingInit DEF StreamInv

LEMMA ResetWire ==
    ASSUME RingInv, ResetSession
    PROVE  OnWire' /\ Count' = 0
  <1>1. /\ recv' = Nothing /\ storedSize' = 0
        /\ next' \in Stream!FirstBytes(next.pkt + 1)
    BY DEF ResetSession, Reset, RingInv
  <1>0. next.pkt + 1 \in Nat
    <2>1. next \in [pkt: Nat, pos: Nat, claim: Nat]
      BY DEF RingInv, TypeOK, Bytes
    <2>. QED
      BY <2>1
  <1>2. Count' = 0
    BY <1>1 DEF Count, Nothing
  <1>. DEFINE x == [i \in 1..1 |-> next']
  <1>3. Wire(x, 1)
    BY <1>0, <1>1, WireStarts
  <1>4. Window' = x /\ Count' + 1 = 1
    BY <1>2 DEF Window
  <1>. HIDE DEF x
  <1>. QED
    BY <1>2, <1>3, <1>4 DEF OnWire

(* The steps that concern neither the ring nor the peer.                   *)
LEMMA StutterKeeps ==
    ASSUME RingInv,
           \/ NeedMoreData \/ RefuseStream \/ HandleDisconnect
           \/ UNCHANGED vars
    PROVE  /\ QueueKept /\ UNCHANGED <<storedSize, packet>>
  <1>1. /\ UNCHANGED <<buffer, positions, next, packet>>
        /\ recv'.got = recv.got
    BY DEF NeedMoreData, RefuseStream, HandleDisconnect, vars, positions, Nothing
  <1>. QED
    BY <1>1 DEF QueueKept, At, Count, positions

(* A header that is complete has been looked at before the receive is      *)
(* posted.                                                                 *)
LEMMA MoreNeeded ==
    ASSUME StreamInv, NeedMoreData
    PROVE  storedSize >= HeaderSize =>
              At(1).claim \in HeaderSize..MaxPacketSize /\ At(1).claim > storedSize
  <1>1. CASE storedSize < HeaderSize
    BY <1>1, SizesAssumption DEF StreamInv, RingInv, TypeOK
  <1>2. CASE ~(storedSize < HeaderSize)
    <2>1. storedSize >= HeaderSize /\ storedSize \in Nat
      BY <1>2, SizesAssumption DEF StreamInv, RingInv, TypeOK
    <2>2. PICK size \in {At(1).claim} :
             size \in HeaderSize..MaxPacketSize /\ storedSize < size
      BY <1>2, <2>1, HeaderRead DEF NeedMoreData
    <2>. QED
      BY <2>1, <2>2, SizesAssumption
  <1>. QED
    BY <1>1, <1>2

LEMMA StreamStep == StreamInv /\ [Next]_vars => StreamInv'
  <1>. SUFFICES ASSUME StreamInv, [Next]_vars PROVE StreamInv'
    OBVIOUS
  <1>1. RingInv /\ RingInv' /\ Waits /\ storedSize \in Nat /\ Count \in Nat
        /\ Count >= storedSize
    BY RingStep, Places DEF StreamInv
  <1>2. CASE PostReceive
    <2>1. QueueKept /\ phase = "posting"
      BY <1>1, <1>2, PostKeeps DEF PostReceive
    <2>2. storedSize' = storedSize
      BY <1>2 DEF PostReceive, PrepareWrite, Compact, positions
    <2>3. Waits'
      BY <1>1, <2>1, <2>2, KeptWire, SizesAssumption DEF Waits
    <2>. QED
      BY <1>1, <2>1, <2>3, KeptWire DEF StreamInv, OnWire
  <1>3. CASE KernelWrites
    <2>1. QueueGrown /\ UNCHANGED <<storedSize, phase>>
      BY <1>1, <1>3, KernelGrows DEF KernelWrites, positions
    <2>2. Waits'
      BY <1>1, <2>1, GrownWire, SizesAssumption DEF Waits
    <2>. QED
      BY <1>1, <2>1, <2>2, GrownWire DEF StreamInv, OnWire
  <1>4. CASE HandleRecv
    <2>1. QueueKept
      BY <1>1, <1>4, HandleKeeps
    <2>2. Waits'
      BY <1>4 DEF HandleRecv, Waits
    <2>. QED
      BY <1>1, <2>1, <2>2, KeptWire DEF StreamInv, OnWire
  <1>5. CASE HandleDisconnect
    <2>1. QueueKept
      BY <1>1, <1>5, StutterKeeps
    <2>2. Waits'
      BY <1>5 DEF HandleDisconnect, Waits
    <2>. QED
      BY <1>1, <2>1, <2>2, KeptWire DEF StreamInv, OnWire
  <1>6. CASE NeedMoreData
    <2>1. QueueKept /\ UNCHANGED storedSize
      BY <1>1, <1>6, StutterKeeps
    <2>2. Waits'
      BY <1>1, <1>6, <2>1, KeptWire, MoreNeeded, SizesAssumption DEF Waits
    <2>. QED
      BY <1>1, <2>1, <2>2, KeptWire DEF StreamInv, OnWire
  <1>7. CASE TakePacket
    <2>1. PICK size \in Nat : QueueCut(size)
      BY <1>7, TakeCuts
    <2>2. Waits'
      BY <1>7 DEF TakePacket, Waits
    <2>. QED
      BY <1>1, <2>1, <2>2, CutWire DEF StreamInv, OnWire
  <1>8. CASE RefuseStream
    <2>1. QueueKept
      BY <1>1, <1>8, StutterKeeps
    <2>2. Waits'
      BY <1>8 DEF RefuseStream, Waits
    <2>. QED
      BY <1>1, <2>1, <2>2, KeptWire DEF StreamInv, OnWire
  <1>9. CASE ResetSession
    <2>1. Waits'
      BY <1>9, SizesAssumption DEF ResetSession, Reset, Waits
    <2>. QED
      BY <1>1, <1>9, <2>1, ResetWire DEF StreamInv, OnWire
  <1>10. CASE UNCHANGED vars
    <2>1. QueueKept /\ UNCHANGED <<storedSize, phase>>
      BY <1>1, <1>10, StutterKeeps DEF vars
    <2>2. Waits'
      BY <1>1, <2>1, KeptWire, SizesAssumption DEF Waits
    <2>. QED
      BY <1>1, <2>1, <2>2, KeptWire DEF StreamInv, OnWire
  <1>. QED
    BY <1>2, <1>3, <1>4, <1>5, <1>6, <1>7, <1>8, <1>9, <1>10 DEF Next

LEMMA StreamInvariant == Spec => []StreamInv
  BY StreamInit, StreamStep, PTL DEF Spec

(* A receive is out only while the ring really lacks bytes: the fragment   *)
(* in it is less than a header, or the first part of a packet whose header *)
(* keeps the rules.                                                        *)
THEOREM OnlyWaitsForMore == Spec => []WaitsForMore
  <1>1. ASSUME StreamInv
        PROVE  WaitsForMore
    <2>. SUFFICES ASSUME phase = "posted", storedSize >= HeaderSize
                  PROVE  \A size \in PeekHeader(Gather(HeaderSize)) :
                            size \in HeaderSize..MaxPacketSize /\ size > storedSize
      BY DEF WaitsForMore
    <2>1. PeekHeader(Gather(HeaderSize)) = {At(1).claim}
      BY <1>1, HeaderRead
    <2>2. At(1).claim \in HeaderSize..MaxPacketSize /\ At(1).claim > storedSize
      BY <1>1 DEF StreamInv, Waits
    <2>. QED
      BY <2>1, <2>2
  <1>. QED
    BY <1>1, StreamInvariant, PTL

-----------------------------------------------------------------------------
(* The ring implements ReceiveStream                                       *)

Queue == Gather(storedSize) \o Received
Bytewise == [i \in 1..Count |-> At(i)]

QueueRead == Queue = Bytewise

LEMMA QueueIs == RingInv => QueueRead
  BY QueueBytes DEF Queue, Bytewise, QueueRead

LEMMA QueueIsAfter == RingInv' => QueueRead'
  BY QueueIs, PTL

LEMMA SeqOf ==
    ASSUME NEW S, NEW n \in Nat, NEW f \in [1..n -> S]
    PROVE  f \in Seq(S) /\ Len(f) = n
  OBVIOUS

LEMMA Cut ==
    ASSUME NEW S, NEW n \in Nat, NEW f \in [1..n -> S], NEW k \in 0..n
    PROVE  /\ SubSeq(f, 1, k) = [i \in 1..k |-> f[i]]
           /\ SubSeq(f, k + 1, n) = [i \in 1..n - k |-> f[i + k]]
  <1>1. f \in Seq(S) /\ Len(f) = n
    BY SeqOf
  <1>. QED
    BY <1>1

LEMMA Appended ==
    ASSUME NEW S, NEW n \in Nat, NEW f \in [1..n -> S], NEW e \in S
    PROVE  Append(f, e) = [i \in 1..n + 1 |-> IF i <= n THEN f[i] ELSE e]
  <1>1. f \in Seq(S) /\ Len(f) = n
    BY SeqOf
  <1>. DEFINE c == Append(f, e)
  <1>2. /\ c \in Seq(S) /\ Len(c) = n + 1
        /\ \A i \in 1..n : c[i] = f[i]
        /\ c[n + 1] = e
    BY <1>1
  <1>. HIDE DEF c
  <1>3. c \in [1..n + 1 -> S]
    BY <1>2
  <1>4. \A i \in 1..n + 1 : c[i] = IF i <= n THEN f[i] ELSE e
    BY <1>2
  <1>5. c = [i \in 1..n + 1 |-> IF i <= n THEN f[i] ELSE e]
    BY <1>3, <1>4
  <1>. QED
    BY <1>5 DEF c

LEMMA RefinesInit == Init => Stream!Init
  <1>. SUFFICES ASSUME Init PROVE Stream!Init
    OBVIOUS
  <1>1. Count = 0 /\ Queue = Bytewise
    BY RingInit, QueueIs DEF Init, Count, Nothing, QueueRead
  <1>2. Queue = <<>>
    BY <1>1 DEF Bytewise
  <1>. QED
    BY <1>2 DEF Init, Stream!Init, Queue

LEMMA KeptStutters ==
    ASSUME RingInv, RingInv', QueueKept, packet' = packet
    PROVE  UNCHANGED Stream!vars
  <1>1. Queue = Bytewise /\ Queue' = Bytewise'
    BY QueueIs, QueueIsAfter DEF QueueRead
  <1>2. Bytewise' = Bytewise
    BY Places DEF QueueKept, Bytewise
  <1>3. Queue' = Queue /\ next' = next
    BY <1>1, <1>2 DEF QueueKept
  <1>. QED
    BY <1>3 DEF Stream!vars, Queue

LEMMA GrownArrives ==
    ASSUME RingInv, RingInv', QueueGrown, packet' = packet
    PROVE  Stream!Arrive
  <1>1. Queue = Bytewise /\ Queue' = Bytewise'
    BY QueueIs, QueueIsAfter DEF QueueRead
  <1>2. /\ Count \in Nat /\ next \in Bytes
        /\ \A i \in 1..Count : At(i) \in Bytes
    BY Places DEF RingInv, TypeOK
  <1>3. /\ Count' = Count + 1
        /\ \A i \in 1..Count + 1 : At(i)' = IF i <= Count THEN At(i) ELSE next
    BY DEF QueueGrown
  <1>4. Bytewise' = [i \in 1..Count + 1 |-> IF i <= Count THEN Bytewise[i] ELSE next]
    BY <1>2, <1>3 DEF Bytewise
  <1>5. Bytewise \in [1..Count -> Bytes]
    BY <1>2 DEF Bytewise
  <1>6. Append(Bytewise, next) = Bytewise'
    BY <1>2, <1>4, <1>5, Appended
  <1>. QED
    BY <1>1, <1>6 DEF Stream!Arrive, QueueGrown, Queue

LEMMA CutDelivers ==
    ASSUME RingInv, RingInv', NEW size \in Nat, QueueCut(size),
           size <= storedSize, packet' = Gather(size)
    PROVE  Stream!Deliver
  <1>1. Queue = Bytewise /\ Queue' = Bytewise'
    BY QueueIs, QueueIsAfter DEF QueueRead
  <1>2. /\ Count \in Nat /\ \A i \in 1..Count : At(i) \in Bytes
        /\ Gather(size) = [i \in 1..size |-> At(i)]
    BY Places, QueueBytes DEF QueueCut
  <1>3. /\ size \in HeaderSize..MaxPacketSize /\ size \in 0..Count /\ size >= 1
        /\ Count >= HeaderSize
        /\ size = At(1).claim
        /\ Count' = Count - size /\ next' = next
        /\ \A i \in 1..Count - size : At(i)' = At(i + size)
    BY <1>2, SizesAssumption DEF QueueCut
  <1>4. Bytewise \in [1..Count -> Bytes] /\ Bytewise[1] = At(1)
    BY <1>2, <1>3 DEF Bytewise
  <1>5. Len(Bytewise) = Count
    BY <1>2, <1>4, SeqOf
  <1>6. /\ SubSeq(Bytewise, 1, size) = [i \in 1..size |-> Bytewise[i]]
        /\ SubSeq(Bytewise, size + 1, Count)
              = [i \in 1..Count - size |-> Bytewise[i + size]]
    <2>. DEFINE f == Bytewise
                n == Count
    <2>1. n \in Nat /\ f \in [1..n -> Bytes] /\ size \in 0..n
      BY <1>2, <1>3, <1>4
    <2>. HIDE DEF f, n
    <2>2. SubSeq(f, 1, size) = [i \in 1..size |-> f[i]]
      BY <2>1, Cut
    <2>3. SubSeq(f, size + 1, n) = [i \in 1..n - size |-> f[i + size]]
      BY <2>1, Cut
    <2>. QED
      BY <2>2, <2>3 DEF f, n
  <1>7. [i \in 1..size |-> Bytewise[i]] = Gather(size)
    BY <1>2, <1>3 DEF Bytewise
  <1>8. [i \in 1..Count - size |-> Bytewise[i + size]] = Bytewise'
    BY <1>2, <1>3 DEF Bytewise
  <1>9. /\ packet' = SubSeq(Bytewise, 1, size)
        /\ Bytewise' = SubSeq(Bytewise, size + 1, Len(Bytewise))
        /\ Len(Bytewise) >= HeaderSize
        /\ Bytewise[1].claim = size
    BY <1>3, <1>4, <1>5, <1>6, <1>7, <1>8
  <1>10. /\ packet' = SubSeq(Queue, 1, size)
         /\ Queue' = SubSeq(Queue, size + 1, Len(Queue))
         /\ Len(Queue) >= HeaderSize /\ size <= Len(Queue)
         /\ Queue[1].claim = size
    BY <1>1, <1>3, <1>5, <1>9
  <1>. QED
    BY <1>3, <1>10 DEF Stream!Deliver, Queue

LEMMA ResetRestarts ==
    ASSUME RingInv, RingInv', ResetSession
    PROVE  Stream!Restart
  <1>1. Queue' = Bytewise' /\ Count' = 0
    BY QueueIsAfter, ResetWire DEF QueueRead
  <1>2. Bytewise' = <<>>
    BY <1>1 DEF Bytewise
  <1>3. Queue' = <<>>
    BY <1>1, <1>2
  <1>. QED
    BY <1>3 DEF Stream!Restart, ResetSession, Queue

LEMMA RefinesNext ==
    ASSUME StreamInv, StreamInv', [Next]_vars
    PROVE  [Stream!Next]_(Stream!vars)
  <1>1. RingInv /\ RingInv'
    BY DEF StreamInv
  <1>2. CASE PostReceive
    <2>1. packet' = packet
      BY <1>2 DEF PostReceive
    <2>. QED
      BY <1>1, <1>2, <2>1, PostKeeps, KeptStutters
  <1>3. CASE KernelWrites
    <2>1. packet' = packet
      BY <1>3 DEF KernelWrites
    <2>. QED
      BY <1>1, <1>3, <2>1, KernelGrows, GrownArrives DEF Stream!Next
  <1>4. CASE HandleRecv
    <2>1. packet' = packet
      BY <1>4 DEF HandleRecv
    <2>. QED
      BY <1>1, <1>4, <2>1, HandleKeeps, KeptStutters
  <1>5. CASE NeedMoreData \/ RefuseStream \/ HandleDisconnect \/ UNCHANGED vars
    BY <1>1, <1>5, StutterKeeps, KeptStutters
  <1>6. CASE TakePacket
    BY <1>1, <1>6, TakeCuts, CutDelivers DEF Stream!Next
  <1>7. CASE ResetSession
    BY <1>1, <1>7, ResetRestarts DEF Stream!Next
  <1>. QED
    BY <1>2, <1>3, <1>4, <1>5, <1>6, <1>7 DEF Next

(* The ring, with its wrapping, its moves to the front and its reuse, is   *)
(* the queue of bytes that ReceiveStream promises: each packet is handed   *)
(* over with exactly its own bytes, in the order the peer sent them, and   *)
(* nothing of one connection reaches the next.                             *)
THEOREM RingIsStream == Spec => IsStream
  <1>1. Init => Stream!Init
    BY RefinesInit
  <1>2. StreamInv /\ StreamInv' /\ [Next]_vars => [Stream!Next]_(Stream!vars)
    BY RefinesNext
  <1>3. Spec => Stream!Spec
    BY <1>1, <1>2, StreamInvariant, PTL DEF Spec, Stream!Spec
  <1>. QED
    BY <1>3 DEF IsStream
=============================================================================
