------------------------------ MODULE SendPath ------------------------------
(***************************************************************************)
(* The way of a packet from the service to the socket.                     *)
(*                                                                         *)
(* A sender puts a packet into the send queue of a session and tries to    *)
(* send.  m_sending is the token of the one thread, or the one operation   *)
(* in the kernel, that sends for the session: it takes the packet at the   *)
(* head (m_currentSendPacket), posts what is left of it, and on the        *)
(* completion posts the rest or goes on to the next packet.  A packet      *)
(* belongs to whoever holds it (the sender, the queue, the session); one   *)
(* that is broadcast is shared by reference count.                         *)
(*                                                                         *)
(* Senders are threads of the service, job workers, the heartbeat thread:  *)
(* they hold no count of the session.  Workers handle completions; they    *)
(* also answer system packets from within HandleRecv.  The release of a    *)
(* session is coarser here than in SessionLifecycle (cancel, reservation   *)
(* and the look at the count are one step), its reset is finer.            *)
(***************************************************************************)
EXTENDS Integers, Sequences, FiniteSets, Functions

CONSTANTS
    Sessions,     \* the ClientSession objects of the pool
    Workers,      \* IOCP worker threads
    Senders,      \* threads that send without holding a count
    QueueDepth,   \* SessionBufferConfig::sendQueueDepth
    PacketSize,   \* the size of a packet, in units of partial transfer
    MaxPackets,   \* bound: packets in all
    MaxLeases     \* bound: leases per session

Threads == Workers \cup Senders
Packets == 1..MaxPackets
NoPacket == 0

ASSUME SessionsAssumption == IsFiniteSet(Sessions) /\ Sessions # {}
ASSUME ThreadsAssumption ==
    IsFiniteSet(Threads) /\ Workers \cap Senders = {}
ASSUME DepthAssumption ==
    QueueDepth \in Nat \ {0} /\ PacketSize \in Nat \ {0}
ASSUME BoundsAssumption ==
    MaxPackets \in Nat /\ MaxLeases \in Nat

VARIABLES
    (* the pool and BaseSession *)
    poolState,    \* SessionNode::poolState
    open,         \* the socket is attached, the session established
    ioCount,      \* m_ioCount
    cancelIo,     \* m_cancelIo
    releasePending, \* m_releasePending
    live, dying,  \* operations issued: not cancelled, cancelled
    dead,         \* the connection is broken: nothing more is sent on it
    (* ClientSession *)
    queue,        \* m_sendPacketQueue
    sending,      \* m_sending
    current,      \* m_currentSendPacket
    offset,       \* m_sendOffset
    over,         \* the packet m_sendOverlapped points into
    (* packets *)
    refs,         \* SharedSendPacket::refCount; of any other packet 1 or 0
    made,         \* packets created so far
    (* ghosts *)
    lease,        \* how often the session has been leased
    accepted,     \* the packets queued in this lease
    wire,         \* the units sent in this lease, each by its packet
    short,        \* a post of this lease failed for want of buffers
    left,         \* it was once reset under the hands of another thread
    (* threads *)
    pc,           \* the step a thread is about to take
    ses,          \* the session it works on
    stack,        \* where the routines it is in return to
    pkt,          \* the packet it has to send
    todo          \* the sessions it has still to broadcast it to

leaseVars == <<poolState, open, lease, short, left>>
ioVars    == <<ioCount, cancelIo, releasePending>>
kernVars  == <<live, dying, dead, over, wire>>
sendVars  == <<sending, current, offset>>
queueVars == <<queue, accepted>>
pktVars   == <<refs, made>>
locals    == <<ses, pkt, todo>>
vars      == <<leaseVars, ioVars, kernVars, sendVars, queueVars, pktVars,
               pc, stack, locals>>

Kinds == {"recv", "send"}

(* What a thread does with a session ...                                   *)
SendPcs    == {"try", "dequeue", "setIdle", "recheck", "prepare", "begin",
               "gate", "issue", "dropCurrent", "dropToken", "sent"}
ReleasePcs == {"retire", "complete", "resetQueue", "resetCurrent", "free"}
(* ... and outside of it.                                                  *)
AwayPcs    == {"idle", "nextTarget", "discard", "dropOwn"}
Pcs        == {"canSend", "push", "repost", "finish"}
              \cup SendPcs \cup ReleasePcs \cup AwayPcs

TypeOK ==
    /\ poolState \in [Sessions -> {"FREE", "IN_USE", "RELEASING"}]
    /\ open \in [Sessions -> BOOLEAN]
    /\ ioCount \in [Sessions -> Int]
    /\ cancelIo \in [Sessions -> 0..1]
    /\ releasePending \in [Sessions -> 0..1]
    /\ live \in [Sessions -> [Kinds -> Nat]]
    /\ dying \in [Sessions -> [Kinds -> Nat]]
    /\ dead \in [Sessions -> BOOLEAN]
    /\ queue \in [Sessions -> Seq(Packets)]
    /\ \A s \in Sessions : Len(queue[s]) <= QueueDepth
    /\ sending \in [Sessions -> 0..1]
    /\ current \in [Sessions -> Packets \cup {NoPacket}]
    /\ offset \in [Sessions -> 0..PacketSize]
    /\ over \in [Sessions -> Packets \cup {NoPacket}]
    /\ refs \in [Packets -> Int]
    /\ made \in 0..MaxPackets
    /\ lease \in [Sessions -> Nat]
    /\ accepted \in [Sessions -> Seq(Packets)]
    /\ wire \in [Sessions -> Seq(Packets \cup {NoPacket})]
    /\ short \in [Sessions -> BOOLEAN]
    /\ left \in [Sessions -> BOOLEAN]
    /\ pc \in [Threads -> Pcs]
    /\ ses \in [Threads -> Sessions]
    /\ stack \in [Threads -> Seq(Pcs)]
    /\ pkt \in [Threads -> Packets \cup {NoPacket}]
    /\ todo \in [Threads -> SUBSET Sessions]

Init ==
    /\ poolState = [s \in Sessions |-> "FREE"]
    /\ open = [s \in Sessions |-> FALSE]
    /\ ioCount = [s \in Sessions |-> 0]
    /\ cancelIo = [s \in Sessions |-> 0]
    /\ releasePending = [s \in Sessions |-> 0]
    /\ live = [s \in Sessions |-> [k \in Kinds |-> 0]]
    /\ dying = [s \in Sessions |-> [k \in Kinds |-> 0]]
    /\ dead = [s \in Sessions |-> FALSE]
    /\ queue = [s \in Sessions |-> <<>>]
    /\ sending = [s \in Sessions |-> 0]
    /\ current = [s \in Sessions |-> NoPacket]
    /\ offset = [s \in Sessions |-> 0]
    /\ over = [s \in Sessions |-> NoPacket]
    /\ refs = [p \in Packets |-> 0]
    /\ made = 0
    /\ lease = [s \in Sessions |-> 0]
    /\ accepted = [s \in Sessions |-> <<>>]
    /\ wire = [s \in Sessions |-> <<>>]
    /\ short = [s \in Sessions |-> FALSE]
    /\ left = [s \in Sessions |-> FALSE]
    /\ pc = [t \in Threads |-> "idle"]
    /\ ses = [t \in Threads |-> CHOOSE s \in Sessions : TRUE]
    /\ stack = [t \in Threads |-> <<>>]
    /\ pkt = [t \in Threads |-> NoPacket]
    /\ todo = [t \in Threads |-> {}]

-----------------------------------------------------------------------------
(* Control flow *)

Goto(t, l) == pc' = [pc EXCEPT ![t] = l] /\ UNCHANGED stack

(* Go on at l; what l belongs to returns to the frames, one by one.        *)
Call(t, l, frames) ==
    /\ pc' = [pc EXCEPT ![t] = l]
    /\ stack' = [stack EXCEPT ![t] = frames \o @]

Return(t) ==
    /\ pc' = [pc EXCEPT ![t] =
                IF stack[t] = <<>> THEN "idle" ELSE Head(stack[t])]
    /\ stack' = [stack EXCEPT ![t] = IF @ = <<>> THEN @ ELSE Tail(@)]

Begin(t, s, l, frames) ==
    /\ pc[t] = "idle"
    /\ pc' = [pc EXCEPT ![t] = l]
    /\ ses' = [ses EXCEPT ![t] = s]
    /\ stack' = [stack EXCEPT ![t] = frames]

(* The threads at work on a session.                                       *)
On(s) == {t \in Threads : ses[t] = s /\ pc[t] \notin AwayPcs}

-----------------------------------------------------------------------------
(* Packets *)

(* A packet out of the pool, in the hands of thread t.                     *)
Create(t) ==
    /\ made < MaxPackets
    /\ made' = made + 1
    /\ refs' = [refs EXCEPT ![made + 1] = 1]
    /\ pkt' = [pkt EXCEPT ![t] = made + 1]

Queued(s, p) == Cardinality({i \in DOMAIN queue[s] : queue[s][i] = p})

(* SHARED_SEND_PACKET::Release and MEMORY_POOL::ReleasePacket              *)
Release(p) ==
    refs' = IF p = NoPacket THEN refs ELSE [refs EXCEPT ![p] = @ - 1]

-----------------------------------------------------------------------------
(* The release of the session *)

AbortOperations(s) ==
    /\ live' = [live EXCEPT ![s] = [k \in Kinds |-> 0]]
    /\ dying' = [dying EXCEPT ![s] =
                   [k \in Kinds |-> dying[s][k] + live[s][k]]]
    /\ UNCHANGED <<dead, over, wire>>

(* DecrementIO: the last count completes a release that is reserved.       *)
DecrementIO(t) ==
    LET s    == ses[t]
        last == ioCount[s] = 1 /\ releasePending[s] = 1
    IN
    /\ ioCount' = [ioCount EXCEPT ![s] = @ - 1]
    /\ releasePending' = IF last THEN [releasePending EXCEPT ![s] = 0]
                         ELSE releasePending
    /\ IF last THEN Goto(t, "complete") ELSE Return(t)
    /\ UNCHANGED <<leaseVars, cancelIo, kernVars, sendVars, queueVars, pktVars,
                   locals>>

Finish(t) == pc[t] = "finish" /\ DecrementIO(t)

(* ClientSessionPool::Release with CancelPendingIO and RequestRelease.     *)
Retire(t) ==
    LET s == ses[t] IN
    /\ pc[t] = "retire"
    /\ IF poolState[s] = "IN_USE"
       THEN /\ poolState' = [poolState EXCEPT ![s] = "RELEASING"]
            /\ cancelIo' = [cancelIo EXCEPT ![s] = 1]
            /\ AbortOperations(s)
            /\ IF ioCount[s] = 0
               THEN Goto(t, "complete") /\ UNCHANGED releasePending
               ELSE /\ Return(t)
                    /\ releasePending' = [releasePending EXCEPT ![s] = 1]
       ELSE /\ Return(t)
            /\ UNCHANGED <<poolState, cancelIo, releasePending, kernVars>>
    /\ UNCHANGED <<open, lease, short, left, ioCount, sendVars, queueVars,
                   pktVars, locals>>

(* CompleteRelease up to the first half of ResetSession: the socket goes,  *)
(* the gate opens, m_sending is cleared; ...                               *)
CompleteRelease(t) ==
    LET s == ses[t] IN
    /\ pc[t] = "complete"
    /\ open' = [open EXCEPT ![s] = FALSE]
    /\ AbortOperations(s)
    /\ cancelIo' = [cancelIo EXCEPT ![s] = 0]
    /\ releasePending' = [releasePending EXCEPT ![s] = 0]
    /\ sending' = [sending EXCEPT ![s] = 0]
    /\ left' = [left EXCEPT ![s] = @ \/ On(s) # {t}]
    /\ Goto(t, "resetQueue")
    /\ UNCHANGED <<poolState, lease, short, ioCount, current, offset,
                   queueVars, pktVars, locals>>

(* ... SendPacketQueue::Reset gives back what waits; ...                   *)
ResetQueue(t) ==
    LET s == ses[t] IN
    /\ pc[t] = "resetQueue"
    /\ refs' = [p \in Packets |-> refs[p] - Queued(s, p)]
    /\ queue' = [queue EXCEPT ![s] = <<>>]
    /\ Goto(t, "resetCurrent")
    /\ UNCHANGED <<leaseVars, ioVars, kernVars, sendVars, accepted, made,
                   locals>>

(* Faulty variant: the packet that was being sent is forgotten.            *)
ResetCurrentForgotten(t) ==
    /\ pc[t] = "resetCurrent"
    /\ Goto(t, "free")
    /\ UNCHANGED <<leaseVars, ioVars, kernVars, sendVars, queueVars, pktVars,
                   locals>>

(* ... the packet that was being sent is given back ...                    *)
ResetCurrent(t) ==
    /\ pc[t] = "resetCurrent"
    /\ Release(current[ses[t]])
    /\ Goto(t, "free")
    /\ UNCHANGED <<leaseVars, ioVars, kernVars, sendVars, queueVars, made,
                   locals>>

(* ... and forgotten; the node is FREE.                                    *)
Free(t) ==
    LET s == ses[t] IN
    /\ pc[t] = "free"
    /\ current' = [current EXCEPT ![s] = NoPacket]
    /\ offset' = [offset EXCEPT ![s] = 0]
    /\ poolState' = [poolState EXCEPT ![s] = "FREE"]
    /\ Return(t)
    /\ UNCHANGED <<open, lease, short, left, ioVars, kernVars, sending,
                   queueVars, pktVars, locals>>

ReleaseStep(t) ==
    \/ Finish(t) \/ Retire(t) \/ CompleteRelease(t) \/ ResetQueue(t)
    \/ ResetCurrent(t) \/ Free(t)

-----------------------------------------------------------------------------
(* TrySendNext *)

(* Faulty variant: the token is not looked at.                             *)
TrySendNextAlways(t) ==
    /\ pc[t] = "try"
    /\ sending' = [sending EXCEPT ![ses[t]] = 1]
    /\ Goto(t, "dequeue")
    /\ UNCHANGED <<leaseVars, ioVars, kernVars, current, offset, queueVars,
                   pktVars, locals>>

(* The token is taken, or somebody has it and will see to the packet.      *)
TrySendNext(t) ==
    LET s == ses[t] IN
    /\ pc[t] = "try"
    /\ sending' = [sending EXCEPT ![s] = 1]
    /\ IF sending[s] = 0 THEN Goto(t, "dequeue") ELSE Return(t)
    /\ UNCHANGED <<leaseVars, ioVars, kernVars, current, offset, queueVars,
                   pktVars, locals>>

Dequeue(t) ==
    LET s == ses[t] IN
    /\ pc[t] = "dequeue"
    /\ IF current[s] # NoPacket
       THEN Goto(t, "prepare") /\ UNCHANGED <<queue, current, offset>>
       ELSE IF queue[s] = <<>>
       THEN Goto(t, "setIdle") /\ UNCHANGED <<queue, current, offset>>
       ELSE /\ current' = [current EXCEPT ![s] = Head(queue[s])]
            /\ queue' = [queue EXCEPT ![s] = Tail(@)]
            /\ offset' = [offset EXCEPT ![s] = 0]
            /\ Goto(t, "prepare")
    /\ UNCHANGED <<leaseVars, ioVars, kernVars, sending, accepted, pktVars,
                   locals>>

(* Faulty variant: no second look at the queue.                            *)
SetIdleUnchecked(t) ==
    /\ pc[t] = "setIdle"
    /\ sending' = [sending EXCEPT ![ses[t]] = 0]
    /\ Return(t)
    /\ UNCHANGED <<leaseVars, ioVars, kernVars, current, offset, queueVars,
                   pktVars, locals>>

SetIdle(t) ==
    /\ pc[t] = "setIdle"
    /\ sending' = [sending EXCEPT ![ses[t]] = 0]
    /\ Goto(t, "recheck")
    /\ UNCHANGED <<leaseVars, ioVars, kernVars, current, offset, queueVars,
                   pktVars, locals>>

(* A packet that came while the token was held is nobody's: try again.     *)
Recheck(t) ==
    /\ pc[t] = "recheck"
    /\ IF queue[ses[t]] = <<>> THEN Return(t) ELSE Goto(t, "try")
    /\ UNCHANGED <<leaseVars, ioVars, kernVars, sendVars, queueVars, pktVars,
                   locals>>

-----------------------------------------------------------------------------
(* PostCurrentSend.  (A packet is longer than its header, and what was     *)
(* sent in full is not posted again: nothing left to send cannot be.)      *)

(* The overlapped structure is set; a cancel that has begun is respected.  *)
Prepare(t) ==
    LET s == ses[t] IN
    /\ pc[t] = "prepare"
    /\ IF current[s] = NoPacket
       THEN Return(t) /\ UNCHANGED over
       ELSE /\ over' = [over EXCEPT ![s] = current[s]]
            /\ Goto(t, IF cancelIo[s] = 1 THEN "dropCurrent" ELSE "begin")
    /\ UNCHANGED <<leaseVars, ioVars, live, dying, dead, wire, sendVars,
                   queueVars, pktVars, locals>>

BeginIO(t) ==
    /\ pc[t] = "begin"
    /\ ioCount' = [ioCount EXCEPT ![ses[t]] = @ + 1]
    /\ Goto(t, "gate")
    /\ UNCHANGED <<leaseVars, cancelIo, releasePending, kernVars, sendVars,
                   queueVars, pktVars, locals>>

(* Refused, the count is given back; packet and token are left to          *)
(* ResetSession.                                                           *)
Gate(t) ==
    /\ pc[t] = "gate"
    /\ Goto(t, IF cancelIo[ses[t]] = 0 THEN "issue" ELSE "finish")
    /\ UNCHANGED <<leaseVars, ioVars, kernVars, sendVars, queueVars, pktVars,
                   locals>>

IssueSucceeds(t) ==
    LET s == ses[t] IN
    /\ pc[t] = "issue"
    /\ open[s] /\ ~dead[s]
    /\ live' = [live EXCEPT ![s]["send"] = @ + 1]
    /\ Return(t)
    /\ UNCHANGED <<leaseVars, ioVars, dying, dead, over, wire, sendVars,
                   queueVars, pktVars, locals>>

(* HandleSocketError(SEND): the packet is given back, then the token; a    *)
(* dead connection is retired, a shortage of buffers only noted; the count *)
(* goes last.                                                              *)
IssueFails(t) ==
    LET s == ses[t] IN
    /\ pc[t] = "issue"
    /\ \/ /\ dead' = [dead EXCEPT ![s] = TRUE]
          /\ Call(t, "dropCurrent", <<"retire", "finish">>)
          /\ UNCHANGED short
       \/ /\ open[s] /\ ~dead[s]
          /\ short' = [short EXCEPT ![s] = TRUE]
          /\ Call(t, "dropCurrent", <<"finish">>)
          /\ UNCHANGED dead
    /\ UNCHANGED <<poolState, open, lease, left, ioVars, live, dying, over,
                   wire, sendVars, queueVars, pktVars, locals>>

(* ReleaseEntry of the current packet, ...                                 *)
DropCurrent(t) ==
    /\ pc[t] = "dropCurrent"
    /\ Release(current[ses[t]])
    /\ Goto(t, "dropToken")
    /\ UNCHANGED <<leaseVars, ioVars, kernVars, sendVars, queueVars, made,
                   locals>>

(* ... which is then forgotten, and the token.                             *)
DropToken(t) ==
    LET s == ses[t] IN
    /\ pc[t] = "dropToken"
    /\ current' = [current EXCEPT ![s] = NoPacket]
    /\ offset' = [offset EXCEPT ![s] = 0]
    /\ sending' = [sending EXCEPT ![s] = 0]
    /\ Return(t)
    /\ UNCHANGED <<leaseVars, ioVars, kernVars, queueVars, pktVars, locals>>

(* OnSendCompleted: post the rest of the packet, or go on to the next.     *)
OnSendCompleted(t) ==
    LET s == ses[t] IN
    /\ pc[t] = "sent"
    /\ IF current[s] = NoPacket THEN Return(t)
       ELSE IF offset[s] < PacketSize THEN Goto(t, "prepare")
       ELSE Call(t, "dropCurrent", <<"try">>)
    /\ UNCHANGED <<leaseVars, ioVars, kernVars, sendVars, queueVars, pktVars,
                   locals>>

SendStep(t) ==
    \/ TrySendNext(t) \/ Dequeue(t) \/ SetIdle(t) \/ Recheck(t)
    \/ Prepare(t) \/ BeginIO(t) \/ Gate(t) \/ IssueSucceeds(t) \/ IssueFails(t)
    \/ DropCurrent(t) \/ DropToken(t) \/ OnSendCompleted(t)

-----------------------------------------------------------------------------
(* EnqueueSendPacket and EnqueueSharedSendPacket *)

CanSendPacket(t) ==
    /\ pc[t] = "canSend"
    /\ Goto(t, IF open[ses[t]] THEN "push" ELSE "discard")
    /\ UNCHANGED <<leaseVars, ioVars, kernVars, sendVars, queueVars, pktVars,
                   locals>>

(* SendPacketQueue::PushBack: the packet is the queue's, or, if the queue  *)
(* is full, still the caller's.                                            *)
PushBack(t) ==
    LET s == ses[t] IN
    /\ pc[t] = "push"
    /\ IF Len(queue[s]) >= QueueDepth
       THEN Goto(t, "discard") /\ UNCHANGED queueVars
       ELSE /\ queue' = [queue EXCEPT ![s] = Append(@, pkt[t])]
            /\ accepted' = [accepted EXCEPT ![s] = Append(@, pkt[t])]
            /\ Goto(t, "try")
    /\ UNCHANGED <<leaseVars, ioVars, kernVars, sendVars, pktVars, locals>>

(* The caller gives back what it could not hand over.                      *)
Discard(t) ==
    /\ pc[t] = "discard"
    /\ Release(pkt[t])
    /\ Return(t)
    /\ UNCHANGED <<leaseVars, ioVars, kernVars, sendVars, queueVars, made,
                   locals>>

(* Faulty variant: no reference is added for the session.                  *)
BroadcastNextUnreferenced(t) ==
    /\ pc[t] = "nextTarget"
    /\ \E s \in todo[t] :
         /\ ses' = [ses EXCEPT ![t] = s]
         /\ todo' = [todo EXCEPT ![t] = @ \ {s}]
         /\ Call(t, "canSend", <<"nextTarget">>)
    /\ UNCHANGED <<leaseVars, ioVars, kernVars, sendVars, queueVars, pktVars,
                   pkt>>

(* Each session gets a reference of its own ...                            *)
BroadcastNext(t) ==
    /\ pc[t] = "nextTarget"
    /\ \E s \in todo[t] :
         /\ ses' = [ses EXCEPT ![t] = s]
         /\ todo' = [todo EXCEPT ![t] = @ \ {s}]
         /\ refs' = [refs EXCEPT ![pkt[t]] = @ + 1]
         /\ Call(t, "canSend", <<"nextTarget">>)
    /\ UNCHANGED <<leaseVars, ioVars, kernVars, sendVars, queueVars, made,
                   pkt>>

(* ... and at the end the broadcaster gives up its own.                    *)
BroadcastEnds(t) ==
    /\ pc[t] = "nextTarget"
    /\ todo[t] = {}
    /\ Release(pkt[t])
    /\ Return(t)
    /\ UNCHANGED <<leaseVars, ioVars, kernVars, sendVars, queueVars, made,
                   locals>>

EnqueueStep(t) ==
    \/ CanSendPacket(t) \/ PushBack(t) \/ Discard(t)
    \/ BroadcastNext(t) \/ BroadcastEnds(t)

(* A service sends to a session it knows of, or to all of them.            *)
Send(t, s) ==
    /\ open[s]
    /\ Begin(t, s, "canSend", <<>>)
    /\ Create(t)
    /\ UNCHANGED <<leaseVars, ioVars, kernVars, sendVars, queueVars, todo>>

Broadcast(t) ==
    /\ \E s \in Sessions : Begin(t, s, "nextTarget", <<>>)
    /\ Create(t)
    /\ todo' = [todo EXCEPT ![t] = {s \in Sessions : open[s]}]
    /\ todo'[t] # {}
    /\ UNCHANGED <<leaseVars, ioVars, kernVars, sendVars, queueVars>>

-----------------------------------------------------------------------------
(* Leases and completions *)

Lease(s) ==
    /\ poolState[s] = "FREE"
    /\ lease[s] < MaxLeases
    /\ poolState' = [poolState EXCEPT ![s] = "IN_USE"]
    /\ open' = [open EXCEPT ![s] = TRUE]
    /\ lease' = [lease EXCEPT ![s] = @ + 1]
    /\ live' = [live EXCEPT ![s]["recv"] = 1]
    /\ ioCount' = [ioCount EXCEPT ![s] = @ + 1]
    /\ accepted' = [accepted EXCEPT ![s] = <<>>]
    /\ wire' = [wire EXCEPT ![s] = <<>>]
    /\ dead' = [dead EXCEPT ![s] = FALSE]
    /\ short' = [short EXCEPT ![s] = FALSE]
    /\ UNCHANGED <<left, cancelIo, releasePending, dying, over, sendVars,
                   queue, pktVars, pc, stack, locals>>

(* HandleRecv of a system packet: the answer is sent from the handler,     *)
(* which holds the count of the receive.  The code ends the connection     *)
(* when the answer cannot be queued; here that is left to ConnectionEnds.  *)
RecvRequest(w, s) ==
    /\ live[s]["recv"] > 0
    /\ live' = [live EXCEPT ![s]["recv"] = @ - 1]
    /\ Begin(w, s, "canSend", <<"repost">>)
    /\ Create(w)
    /\ UNCHANGED <<leaseVars, ioVars, dying, dead, over, wire, sendVars,
                   queueVars, todo>>

(* The next receive takes a count of its own, the handler drops its one.   *)
Repost(w) ==
    LET s == ses[w] IN
    /\ pc[w] = "repost"
    /\ IF cancelIo[s] = 0
       THEN live' = [live EXCEPT ![s]["recv"] = @ + 1] /\ Return(w)
       ELSE Goto(w, "finish") /\ UNCHANGED live
    /\ UNCHANGED <<leaseVars, ioVars, dying, dead, over, wire, sendVars,
                   queueVars, pktVars, locals>>

(* The kernel has sent n units more of the packet.                         *)
SendDone(w, s) ==
    /\ live[s]["send"] > 0 /\ ~dead[s]
    /\ live' = [live EXCEPT ![s]["send"] = @ - 1]
    /\ \E n \in 1..(PacketSize - offset[s]) :
         /\ offset' = [offset EXCEPT ![s] = @ + n]
         /\ wire' = [wire EXCEPT ![s] = @ \o [i \in 1..n |-> over[s]]]
    /\ Begin(w, s, "sent", <<"finish">>)
    /\ UNCHANGED <<leaseVars, ioVars, dying, dead, over, sending, current,
                   queueVars, pktVars, pkt, todo>>

(* Zero bytes received (the peer may still read), or an error: the session *)
(* is retired.                                                             *)
ConnectionEnds(w, s, k) ==
    /\ live[s][k] > 0
    /\ live' = [live EXCEPT ![s][k] = @ - 1]
    /\ dead' = [dead EXCEPT ![s] = @ \/ k = "send"]
    /\ Begin(w, s, "retire", <<"finish">>)
    /\ UNCHANGED <<leaseVars, ioVars, dying, over, wire, sendVars, queueVars,
                   pktVars, pkt, todo>>

(* HandleRecvCancelled, HandleSendCancelled                                *)
IoCancelled(w, s, k) ==
    /\ dying[s][k] > 0
    /\ dying' = [dying EXCEPT ![s][k] = @ - 1]
    /\ Begin(w, s, "finish", <<>>)
    /\ UNCHANGED <<leaseVars, ioVars, live, dead, over, wire, sendVars,
                   queueVars, pktVars, pkt, todo>>

SendCompletes(w, s) ==
    \/ SendDone(w, s)
    \/ ConnectionEnds(w, s, "send")

Cancelled(w, s) == \E k \in Kinds : IoCancelled(w, s, k)

-----------------------------------------------------------------------------
Step(t) == SendStep(t) \/ EnqueueStep(t) \/ ReleaseStep(t) \/ Repost(t)

Next ==
    \/ \E s \in Sessions : Lease(s)
    \/ \E t \in Senders : Broadcast(t) \/ \E s \in Sessions : Send(t, s)
    \/ \E w \in Workers, s \in Sessions :
         \/ RecvRequest(w, s) \/ SendCompletes(w, s) \/ Cancelled(w, s)
         \/ ConnectionEnds(w, s, "recv")
    \/ \E t \in Threads : Step(t)

(* Threads that have begun go on; a peer reads what is sent to it, or the  *)
(* connection ends; what was cancelled completes.                          *)
Fairness ==
    /\ \A t \in Threads : WF_vars(Step(t))
    /\ \A s \in Sessions :
         /\ SF_vars(\E w \in Workers : SendCompletes(w, s))
         /\ SF_vars(\E w \in Workers : Cancelled(w, s))

Spec == Init /\ [][Next]_vars
FairSpec == Spec /\ Fairness

-----------------------------------------------------------------------------
(* Properties.  A session that was reset under the hands of a sender is no *)
(* longer Settled: NoDoubleRelease says what must not happen to its        *)
(* packets.  A Smooth one has not lost a packet to a shortage of buffers.  *)

Settled == {s \in Sessions : ~left[s]}
Smooth  == {s \in Settled : ~short[s]}

(* Who holds a reference to a packet: a thread that has not handed it      *)
(* over, a broadcaster, a place in a queue, and a session that is sending  *)
(* it, unless it was given back a moment ago.                              *)
InHand(p) == {t \in Threads : pkt[t] = p /\ pc[t] \in {"canSend", "push", "discard"}}

Broadcasting(p) ==
    {t \in Threads : pkt[t] = p /\ "nextTarget" \in {pc[t]} \cup Range(stack[t])}

InQueues(p) ==
    {place \in Sessions \X (1 .. QueueDepth) :
       LET q == queue[place[1]]
       IN  place[2] \in DOMAIN q /\ q[place[2]] = p}

BeingSent(p) ==
    {s \in Sessions : /\ current[s] = p
                      /\ \A t \in On(s) : pc[t] \notin {"dropToken", "free"}}

(* Every packet is referred to exactly as often as it is held: none leaks  *)
(* when a queue is full, a post fails or a connection goes, and none goes  *)
(* back to its pool while a session still has it queued.                   *)
RefsAreHolders ==
    Settled = Sessions =>
      \A p \in Packets :
        refs[p] = Cardinality(InHand(p)) + Cardinality(Broadcasting(p))
                  + Cardinality(InQueues(p)) + Cardinality(BeingSent(p))

(* No packet is given back twice: a thread that declines to post gives     *)
(* back the current packet because the session cannot be reset meanwhile.  *)
NoDoubleRelease == \A p \in Packets : refs[p] >= 0

(* A packet waits, and nobody is going to send it: no operation is in the  *)
(* kernel, no thread on its way through TrySendNext or about to retire.    *)
Stranded(s) ==
    /\ poolState[s] = "IN_USE"
    /\ queue[s] # <<>> \/ current[s] # NoPacket
    /\ live[s]["send"] = 0
    /\ \A t \in On(s) : pc[t] \notin SendPcs \cup {"retire"}

(* Whoever finds the token taken may rely on its holder to send the packet *)
(* just queued.                                                            *)
NoStrandedPacket == \A s \in Smooth : ~Stranded(s)

(* What goes over the wire is the packets of this connection, whole and in *)
(* the order they were queued in, whoever sent their parts.                *)
StreamIntact ==
    \A s \in Smooth : \A i \in DOMAIN wire[s] :
      \E n \in DOMAIN accepted[s], k \in 1 .. PacketSize :
         i = PacketSize * (n - 1) + k /\ wire[s][i] = accepted[s][n]

(* Every packet is sent or given back in the end, by the sender, the       *)
(* completion handler or the reset of the session.                         *)
PacketsGoHome ==
    \A p \in Packets : (refs[p] > 0) ~> (refs[p] <= 0 \/ Smooth # Sessions)
=============================================================================
