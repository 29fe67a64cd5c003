-------------------------- MODULE SessionLifecycle --------------------------
(***************************************************************************)
(* The life of a pooled server session: leased by HandleAccept, kept alive *)
(* by its I/O count, retired by whichever thread first decides so, and     *)
(* returned to the free list by the thread that drops the last count.      *)
(*                                                                         *)
(* Threads share the sessions without a lock of their own: every step      *)
(* below is one interlocked operation of BaseSession / ClientSession, or   *)
(* one critical section of ClientSessionPool.  Three kinds of thread run:  *)
(*                                                                         *)
(*   Workers  IOCP workers: they run the completion handlers, and hold one *)
(*            count of the session for as long as the handler lasts;       *)
(*   Senders  service and job threads that call EnqueueSendPacket on a     *)
(*            session the service has been told of.  They hold no count;   *)
(*   Reapers  the heartbeat thread's DisconnectZombieSessions pass.  It    *)
(*            holds no count either.                                       *)
(*                                                                         *)
(* The configuration modelled is the one without receive back-pressure     *)
(* (recvPauseJobDepth = 0), while the server is not shutting down.         *)
(***************************************************************************)
EXTENDS Integers, Sequences, FiniteSets, Functions

CONSTANTS
    Sessions,        \* the ClientSession objects of the pool
    Workers,         \* IOCP worker threads
    Senders,         \* threads that send without holding a count
    Reapers,         \* the heartbeat thread, or none
    MaxLeases,       \* bound: how often one session may be leased
    AcceptMayStarve  \* may PostAccept fail right after the socket is attached?

Threads == Workers \cup Senders \cup Reapers

ASSUME SessionsAssumption == IsFiniteSet(Sessions) /\ Sessions # {}
ASSUME ThreadsAssumption ==
    /\ IsFiniteSet(Threads)
    /\ Workers \cap Senders = {}
    /\ Workers \cap Reapers = {}
    /\ Senders \cap Reapers = {}
ASSUME BoundsAssumption == MaxLeases \in Nat /\ AcceptMayStarve \in BOOLEAN

VARIABLES
    (* ClientSessionPool *)
    poolState,       \* SessionNode::poolState
    freeList,        \* m_freeList, first the node Acquire hands out next
    (* BaseSession *)
    ioCount,         \* m_ioCount
    cancelIo,        \* m_cancelIo
    releasePending,  \* m_releasePending: the token of a deferred release
    closing,         \* m_closing
    socket,          \* m_clientSocket: the lease its connection came with, or 0
    state,           \* m_serverSessionState
    reason,          \* m_disconnectReason: the lease it was noted for, or 0
    (* ClientSession *)
    sending,         \* m_sending
    latch,           \* m_serviceConnectNotified
    (* the kernel: overlapped operations per session and kind *)
    live,            \* issued and not cancelled: the peer decides when they end
    dying,           \* issued and cancelled: their completion is on its way
    (* ghosts *)
    lease,           \* how often the session has been leased
    announced,       \* OnClientConnect minus OnClientDisconnect calls
    overtaken,       \* sessions whose reset a thread without a count missed,
                     \* see Overtakes and BeginIO
    (* threads *)
    pc,              \* the step a thread is about to take
    ses,             \* the session it works on
    ret,             \* where the routine it is in returns to
    task             \* what it is doing, see NoTask

poolVars   == <<poolState, freeList, lease, overtaken>>
ioVars     == <<ioCount, cancelIo, releasePending>>
kernelVars == <<live, dying>>
connVars   == <<closing, socket, state, reason, sending>>
svcVars    == <<latch, announced>>
vars       == <<poolVars, ioVars, kernelVars, connVars, svcVars,
                pc, ses, ret, task>>

Kinds == {"recv", "send"}

(* CONNECTED stands for CONNECTED, AUTH_PENDING and ESTABLISHED: nothing    *)
(* here tells the three apart.                                             *)
States == {"NONE", "CONNECT_READY", "CONNECTED", "HEARTBEAT_TIMEOUT",
           "DISCONNECTED"}

ReleasePcs  == {"cancel", "cancelIoEx", "reserve"}
CompletePcs == {"close", "notify", "disconnect", "resetBase", "resetClient",
                "pushFree"}
OwnerPcs    == ReleasePcs \cup CompletePcs
TokenPcs    == {"readCount", "claim", "token"}
HandlerPcs  == {"attach", "hold", "connect", "announce", "onConnect",
                "connectFailed", "parse", "checkPending", "recvNotPosted",
                "drop", "sendDone", "zombieNote", "zombieMark"}
IoPcs       == {"postRecv", "trySend", "sendGate", "begin", "gate", "post",
                "undoIO"}
Pcs         == {"idle", "finish", "release"} \cup OwnerPcs \cup TokenPcs
               \cup HandlerPcs \cup IoPcs

(* Where DecrementIO and Release return to.                                *)
ReturnPcs   == {"idle", "finish", "undoIO", "parse", "drop", "connectFailed",
                "recvNotPosted"}

Ops == {"none", "accept", "recv", "reject", "send", "enqueue", "zombie"}

(* op: the handler or call a thread executes; io: the operation it posts;  *)
(* lease: the lease the session was in when the thread took it up.         *)
NoTask == [op |-> "none", io |-> "recv", lease |-> 0]

TypeOK ==
    /\ poolState \in [Sessions -> {"FREE", "IN_USE", "RELEASING"}]
    /\ freeList \in Seq(Sessions)
    /\ ioCount \in [Sessions -> Int]
    /\ cancelIo \in [Sessions -> 0..1]
    /\ releasePending \in [Sessions -> 0..1]
    /\ closing \in [Sessions -> 0..1]
    /\ socket \in [Sessions -> Nat]
    /\ state \in [Sessions -> States]
    /\ reason \in [Sessions -> Nat]
    /\ sending \in [Sessions -> 0..1]
    /\ latch \in [Sessions -> 0..1]
    /\ live \in [Sessions -> [Kinds -> Nat]]
    /\ dying \in [Sessions -> [Kinds -> Nat]]
    /\ lease \in [Sessions -> Nat]
    /\ announced \in [Sessions -> Int]
    /\ overtaken \in SUBSET Sessions
    /\ pc \in [Threads -> Pcs]
    /\ ses \in [Threads -> Sessions]
    /\ ret \in [Threads -> ReturnPcs]
    /\ task \in [Threads -> [op : Ops, io : Kinds, lease : Nat]]

(* The constructor chains every node into the free list, in some order.    *)
Init ==
    /\ poolState = [s \in Sessions |-> "FREE"]
    /\ freeList \in Bijection(1..Cardinality(Sessions), Sessions)
    /\ ioCount = [s \in Sessions |-> 0]
    /\ cancelIo = [s \in Sessions |-> 0]
    /\ releasePending = [s \in Sessions |-> 0]
    /\ closing = [s \in Sessions |-> 0]
    /\ socket = [s \in Sessions |-> 0]
    /\ state = [s \in Sessions |-> "CONNECT_READY"]
    /\ reason = [s \in Sessions |-> 0]
    /\ sending = [s \in Sessions |-> 0]
    /\ latch = [s \in Sessions |-> 0]
    /\ live = [s \in Sessions |-> [k \in Kinds |-> 0]]
    /\ dying = [s \in Sessions |-> [k \in Kinds |-> 0]]
    /\ lease = [s \in Sessions |-> 0]
    /\ announced = [s \in Sessions |-> 0]
    /\ overtaken = {}
    /\ pc = [t \in Threads |-> "idle"]
    /\ ses = [t \in Threads |-> CHOOSE s \in Sessions : TRUE]
    /\ ret = [t \in Threads |-> "idle"]
    /\ task = [t \in Threads |-> NoTask]

-----------------------------------------------------------------------------
(* Control flow *)

(* IsTransportConnected, for a session in the server role.                 *)
TransportConnected(s) == state[s] \in {"CONNECTED", "HEARTBEAT_TIMEOUT"}

(* Go on at l; a thread that becomes idle forgets what it was doing.       *)
Jump(t, l) ==
    /\ pc' = [pc EXCEPT ![t] = l]
    /\ task' = IF l = "idle" THEN [task EXCEPT ![t] = NoTask] ELSE task

(* An idle thread takes up session s.                                      *)
Begin(t, s, op, n, l) ==
    /\ pc[t] = "idle"
    /\ pc' = [pc EXCEPT ![t] = l]
    /\ ses' = [ses EXCEPT ![t] = s]
    /\ task' = [task EXCEPT ![t] = [op |-> op, io |-> "recv", lease |-> n]]

(* Where a caller of PostReceive or TrySendNext goes on when the operation *)
(* was issued, and when it was not.                                        *)
AfterSend(t) == IF task[t].op = "recv" THEN "parse"
                ELSE IF task[t].op = "reject" THEN "drop"
                ELSE IF task[t].op = "send" THEN "finish" ELSE "idle"

Posted(t) == IF task[t].io = "send" THEN AfterSend(t)
             ELSE IF task[t].op = "accept" THEN "announce" ELSE "finish"

NotPosted(t) == IF task[t].io = "send" THEN AfterSend(t)
                ELSE IF task[t].op = "accept" THEN "connectFailed"
                     ELSE "recvNotPosted"

(* NoteDisconnectReason: the first reason wins.                            *)
NoteReason(t, s, n) ==
    reason' = [reason EXCEPT ![s] = IF @ = 0 THEN n ELSE @]

(* Call Release, to return to l.                                           *)
CallRelease(t, l) ==
    /\ ret' = [ret EXCEPT ![t] = l]
    /\ pc' = [pc EXCEPT ![t] = "release"]

-----------------------------------------------------------------------------
(* DecrementIO: drop one count, return to l.  Only the thread that reaches *)
(* zero goes on to look at the release token.                              *)
DecrementIO(t, l) ==
    LET s == ses[t] IN
    /\ ioCount' = [ioCount EXCEPT ![s] = @ - 1]
    /\ ret' = [ret EXCEPT ![t] = l]
    /\ Jump(t, IF ioCount[s] = 1 THEN "token" ELSE l)
    /\ UNCHANGED <<poolVars, kernelVars, connVars, svcVars,
                   cancelIo, releasePending, ses>>

(* The count of the handler itself, its last statement.                    *)
Finish(t) == pc[t] = "finish" /\ DecrementIO(t, "idle")

(* The count BeginIO took for an operation that was not issued: refused by *)
(* the gate, or failed at once (the last statement of HandleSocketError).  *)
UndoIO(t) == pc[t] = "undoIO" /\ DecrementIO(t, NotPosted(t))

(* The exchange of m_releasePending in DecrementIO: whoever turns 1 into 0 *)
(* completes the release.                                                  *)
TakeToken(t) ==
    LET s == ses[t] IN
    /\ pc[t] = "token"
    /\ releasePending' = [releasePending EXCEPT ![s] = 0]
    /\ Jump(t, IF releasePending[s] = 1 THEN "close" ELSE ret[t])
    /\ UNCHANGED <<poolVars, kernelVars, connVars, svcVars,
                   ioCount, cancelIo, ses, ret>>

-----------------------------------------------------------------------------
(* ClientSessionPool::Release *)

(* The kernel's part in CancelIoEx and closesocket: every operation issued *)
(* is going to complete, the peer has no say any more.                     *)
AbortOperations(s) ==
    /\ live' = [live EXCEPT ![s] = [k \in Kinds |-> 0]]
    /\ dying' = [dying EXCEPT ![s] =
                   [k \in Kinds |-> dying[s][k] + live[s][k]]]

(* Faulty variant: a node that is RELEASING already is released again.     *)
ReleaseCasAgain(t) ==
    LET s == ses[t] IN
    /\ pc[t] = "release"
    /\ IF poolState[s] # "FREE"
       THEN /\ poolState' = [poolState EXCEPT ![s] = "RELEASING"]
            /\ Jump(t, "cancel")
       ELSE /\ poolState' = poolState
            /\ Jump(t, ret[t])
    /\ UNCHANGED <<freeList, lease, overtaken, ioVars, kernelVars, connVars,
                   svcVars, ses, ret>>

(* The compare-exchange IN_USE -> RELEASING: losers return at once.        *)
ReleaseCas(t) ==
    LET s == ses[t] IN
    /\ pc[t] = "release"
    /\ IF poolState[s] = "IN_USE"
       THEN /\ poolState' = [poolState EXCEPT ![s] = "RELEASING"]
            /\ Jump(t, "cancel")
       ELSE /\ poolState' = poolState
            /\ Jump(t, ret[t])
    /\ UNCHANGED <<freeList, lease, overtaken, ioVars, kernelVars, connVars,
                   svcVars, ses, ret>>

(* CancelPendingIO: close the gate ...                                     *)
CancelPendingIO(t) ==
    LET s == ses[t]
        cancels == TransportConnected(s) /\ socket[s] # 0 /\ cancelIo[s] = 0 IN
    /\ pc[t] = "cancel"
    /\ cancelIo' = IF cancels THEN [cancelIo EXCEPT ![s] = 1] ELSE cancelIo
    /\ Jump(t, IF cancels THEN "cancelIoEx" ELSE "reserve")
    /\ UNCHANGED <<poolVars, kernelVars, connVars, svcVars,
                   ioCount, releasePending, ses, ret>>

(* ... then CancelIoEx: what is issued by now is cancelled.                *)
CancelIoEx(t) ==
    /\ pc[t] = "cancelIoEx"
    /\ AbortOperations(ses[t])
    /\ Jump(t, "reserve")
    /\ UNCHANGED <<poolVars, ioVars, connVars, svcVars, ses, ret>>

(* RequestRelease: set the token, then read the count, then claim.         *)
Reserve(t) ==
    /\ pc[t] = "reserve"
    /\ releasePending' = [releasePending EXCEPT ![ses[t]] = 1]
    /\ Jump(t, "readCount")
    /\ UNCHANGED <<poolVars, kernelVars, connVars, svcVars,
                   ioCount, cancelIo, ses, ret>>

(* Faulty variant: the caller discounts the count of its own handler.      *)
ReadCountButMine(t) ==
    /\ pc[t] = "readCount"
    /\ Jump(t, IF ioCount[ses[t]] > 1 THEN ret[t] ELSE "claim")
    /\ UNCHANGED <<poolVars, ioVars, kernelVars, connVars, svcVars, ses, ret>>

ReadCount(t) ==
    /\ pc[t] = "readCount"
    /\ Jump(t, IF ioCount[ses[t]] # 0 THEN ret[t] ELSE "claim")
    /\ UNCHANGED <<poolVars, ioVars, kernelVars, connVars, svcVars, ses, ret>>

(* Faulty variant: a count of zero is taken for the right to complete.     *)
ClaimAlways(t) ==
    /\ pc[t] = "claim"
    /\ releasePending' = [releasePending EXCEPT ![ses[t]] = 0]
    /\ Jump(t, "close")
    /\ UNCHANGED <<poolVars, kernelVars, connVars, svcVars,
                   ioCount, cancelIo, ses, ret>>

Claim(t) ==
    LET s == ses[t] IN
    /\ pc[t] = "claim"
    /\ releasePending' = [releasePending EXCEPT ![s] = 0]
    /\ Jump(t, IF releasePending[s] = 1 THEN "close" ELSE ret[t])
    /\ UNCHANGED <<poolVars, kernelVars, connVars, svcVars,
                   ioCount, cancelIo, ses, ret>>

(* Faulty variant: RequestRelease reads the count before it sets the token. *)
ReadCountFirst(t) ==
    LET busy == ioCount[ses[t]] # 0 IN
    /\ pc[t] = "reserve"
    /\ releasePending' = IF busy THEN releasePending
                         ELSE [releasePending EXCEPT ![ses[t]] = 1]
    /\ Jump(t, IF busy THEN "readCount" ELSE "claim")
    /\ UNCHANGED <<poolVars, kernelVars, connVars, svcVars,
                   ioCount, cancelIo, ses, ret>>

ReserveLate(t) ==
    /\ pc[t] = "readCount"
    /\ releasePending' = [releasePending EXCEPT ![ses[t]] = 1]
    /\ Jump(t, ret[t])
    /\ UNCHANGED <<poolVars, kernelVars, connVars, svcVars,
                   ioCount, cancelIo, ses, ret>>

ReleaseStepReadsFirst(t) ==
    \/ ReleaseCas(t) \/ CancelPendingIO(t) \/ CancelIoEx(t)
    \/ ReadCountFirst(t) \/ ReserveLate(t) \/ Claim(t)

ReleaseStep(t) ==
    \/ ReleaseCas(t) \/ CancelPendingIO(t) \/ CancelIoEx(t)
    \/ Reserve(t) \/ ReadCount(t) \/ Claim(t)

-----------------------------------------------------------------------------
(* ClientSessionPool::CompleteRelease *)

(* closesocket(DetachSocket()): whatever is still issued is aborted.       *)
CloseSocket(t) ==
    LET s == ses[t] IN
    /\ pc[t] = "close"
    /\ socket' = [socket EXCEPT ![s] = 0]
    /\ AbortOperations(s)
    /\ Jump(t, "notify")
    /\ UNCHANGED <<poolVars, ioVars, svcVars, closing, state, reason, sending,
                   ses, ret>>

(* Faulty variant: every end is notified, announced or not.                *)
NotifyServiceAlways(t) ==
    LET s == ses[t] IN
    /\ pc[t] = "notify"
    /\ latch' = [latch EXCEPT ![s] = 0]
    /\ announced' = [announced EXCEPT ![s] = @ - 1]
    /\ Jump(t, "disconnect")
    /\ UNCHANGED <<poolVars, ioVars, kernelVars, connVars, ses, ret>>

(* NotifyServiceDisconnect: only a session whose connect was announced.    *)
NotifyService(t) ==
    LET s == ses[t] IN
    /\ pc[t] = "notify"
    /\ latch' = [latch EXCEPT ![s] = 0]
    /\ announced' = [announced EXCEPT ![s] = @ - latch[s]]
    /\ Jump(t, "disconnect")
    /\ UNCHANGED <<poolVars, ioVars, kernelVars, connVars, ses, ret>>

OnDisconnect(t) ==
    LET s == ses[t] IN
    /\ pc[t] = "disconnect"
    /\ closing' = [closing EXCEPT ![s] = 1]
    /\ state' = [state EXCEPT ![s] =
                   IF closing[s] = 0 THEN "DISCONNECTED" ELSE @]
    /\ Jump(t, "resetBase")
    /\ UNCHANGED <<poolVars, ioVars, kernelVars, svcVars, socket, reason,
                   sending, ses, ret>>

(* A thread that holds no count is still at work on the session t resets:  *)
(* a sender, the heartbeat thread, or a worker whose DecrementIO reached   *)
(* zero and is about to look at the token.                                 *)
Overtakes(t) ==
    \E u \in Threads \ {t} :
        /\ pc[u] # "idle" /\ ses[u] = ses[t]
        /\ u \notin Workers \/ pc[u] = "token"

(* The ghost only notes what happened, no step looks at it.                *)
NoteOvertaken(t, happens) ==
    overtaken' = IF happens THEN overtaken \cup {ses[t]} ELSE overtaken

(* Faulty variant: the reason of the last connection is left in place.     *)
ResetBaseKeepsReason(t) ==
    LET s == ses[t] IN
    /\ pc[t] = "resetBase"
    /\ state' = [state EXCEPT ![s] = "NONE"]
    /\ closing' = [closing EXCEPT ![s] = 0]
    /\ cancelIo' = [cancelIo EXCEPT ![s] = 0]
    /\ releasePending' = [releasePending EXCEPT ![s] = 0]
    /\ NoteOvertaken(t, Overtakes(t))
    /\ Jump(t, "resetClient")
    /\ UNCHANGED <<poolState, freeList, lease, kernelVars, svcVars, ioCount,
                   socket, reason, sending, ses, ret>>

(* BaseSession::ResetSession: it does not touch the count.  Its stores are *)
(* one step here.                                                          *)
ResetBase(t) ==
    LET s == ses[t] IN
    /\ pc[t] = "resetBase"
    /\ state' = [state EXCEPT ![s] = "NONE"]
    /\ reason' = [reason EXCEPT ![s] = 0]
    /\ closing' = [closing EXCEPT ![s] = 0]
    /\ cancelIo' = [cancelIo EXCEPT ![s] = 0]
    /\ releasePending' = [releasePending EXCEPT ![s] = 0]
    /\ NoteOvertaken(t, Overtakes(t))
    /\ Jump(t, "resetClient")
    /\ UNCHANGED <<poolState, freeList, lease, kernelVars, svcVars, ioCount,
                   socket, sending, ses, ret>>

(* Faulty variant: m_sending is not reset (it is still set when a cancel    *)
(* slips in between the two checks of PostCurrentSend).                    *)
ResetClientKeepsSending(t) ==
    LET s == ses[t] IN
    /\ pc[t] = "resetClient"
    /\ state' = [state EXCEPT ![s] = "CONNECT_READY"]
    /\ latch' = [latch EXCEPT ![s] = 0]
    /\ Jump(t, "pushFree")
    /\ UNCHANGED <<poolVars, ioVars, kernelVars, closing, socket, reason,
                   sending, announced, ses, ret>>

(* The rest of ClientSession::ResetSession, its stores one step.           *)
ResetClient(t) ==
    LET s == ses[t] IN
    /\ pc[t] = "resetClient"
    /\ state' = [state EXCEPT ![s] = "CONNECT_READY"]
    /\ sending' = [sending EXCEPT ![s] = 0]
    /\ latch' = [latch EXCEPT ![s] = 0]
    /\ Jump(t, "pushFree")
    /\ UNCHANGED <<poolVars, ioVars, kernelVars, closing, socket, reason,
                   announced, ses, ret>>

(* The critical section that puts the node back.                           *)
PushFree(t) ==
    LET s == ses[t] IN
    /\ pc[t] = "pushFree"
    /\ freeList' = <<s>> \o freeList
    /\ poolState' = [poolState EXCEPT ![s] = "FREE"]
    /\ Jump(t, ret[t])
    /\ UNCHANGED <<lease, overtaken, ioVars, kernelVars, connVars, svcVars,
                   ses, ret>>

CompleteReleaseStep(t) ==
    \/ CloseSocket(t) \/ NotifyService(t) \/ OnDisconnect(t)
    \/ ResetBase(t) \/ ResetClient(t) \/ PushFree(t)

-----------------------------------------------------------------------------
(* Issuing an operation: PostReceive and PostCurrentSend *)

(* A full receive ring (only possible once data has come) also refuses.    *)
PostReceive(t) ==
    /\ pc[t] = "postRecv"
    /\ \E ringFull \in IF task[t].op = "recv" THEN BOOLEAN ELSE {FALSE} :
         Jump(t, IF TransportConnected(ses[t]) /\ ~ringFull
                 THEN "begin" ELSE NotPosted(t))
    /\ UNCHANGED <<poolVars, ioVars, kernelVars, connVars, svcVars, ses, ret>>

(* BeginIO: count first (a thread without a count may find it at zero: the *)
(* release is being completed, and does not wait for this operation) ...   *)
BeginIO(t) ==
    /\ pc[t] = "begin"
    /\ ioCount' = [ioCount EXCEPT ![ses[t]] = @ + 1]
    /\ NoteOvertaken(t, t \notin Workers /\ ioCount[ses[t]] = 0)
    /\ Jump(t, "gate")
    /\ UNCHANGED <<poolState, freeList, lease, kernelVars, connVars, svcVars,
                   cancelIo, releasePending, ses, ret>>

(* ... then look whether a cancel has closed the gate.                     *)
Gate(t) ==
    /\ pc[t] = "gate"
    /\ Jump(t, IF cancelIo[ses[t]] = 0 THEN "post" ELSE "undoIO")
    /\ UNCHANGED <<poolVars, ioVars, kernelVars, connVars, svcVars, ses, ret>>

(* WSARecv / WSASend accepted the operation.                               *)
PostSucceeds(t) ==
    LET s == ses[t] IN
    /\ pc[t] = "post"
    /\ socket[s] # 0
    /\ live' = [live EXCEPT ![s][task[t].io] = @ + 1]
    /\ Jump(t, Posted(t))
    /\ UNCHANGED <<poolVars, ioVars, connVars, svcVars, dying, ses, ret>>

(* Faulty variant: the count is forgotten when only resources were short.  *)
PostFailsCountLeaks(t) ==
    LET s == ses[t] IN
    /\ pc[t] = "post"
    /\ sending' = IF task[t].io = "send" THEN [sending EXCEPT ![s] = 0]
                  ELSE sending
    /\ \/ /\ NoteReason(t, s, task[t].lease)
          /\ CallRelease(t, "undoIO")
          /\ task' = task
       \/ /\ socket[s] # 0
          /\ Jump(t, NotPosted(t))
          /\ UNCHANGED <<reason, ret>>
    /\ UNCHANGED <<poolVars, ioVars, kernelVars, svcVars, closing, socket,
                   state, ses>>

(* It failed at once: HandleSocketError.  A failed send gives m_sending    *)
(* back; a dead connection is retired, a shortage of system resources is   *)
(* only logged.  Either way the count is dropped last.                     *)
PostFails(t) ==
    LET s == ses[t] IN
    /\ pc[t] = "post"
    /\ sending' = IF task[t].io = "send" THEN [sending EXCEPT ![s] = 0]
                  ELSE sending
    /\ \/ /\ NoteReason(t, s, task[t].lease)
          /\ CallRelease(t, "undoIO")
       \/ /\ socket[s] # 0
          /\ pc' = [pc EXCEPT ![t] = "undoIO"]
          /\ UNCHANGED <<reason, ret>>
    /\ UNCHANGED <<poolVars, ioVars, kernelVars, svcVars, closing, socket,
                   state, ses, task>>

(* TrySendNext: only the thread that turns m_sending from 0 to 1 goes on,  *)
(* and only when the queue holds a packet.                                 *)
TrySendNext(t) ==
    LET s == ses[t] IN
    /\ pc[t] = "trySend"
    /\ \E packetQueued \in BOOLEAN :
         LET wins == sending[s] = 0 /\ packetQueued IN
         /\ sending' = IF wins THEN [sending EXCEPT ![s] = 1] ELSE sending
         /\ Jump(t, IF wins THEN "sendGate" ELSE AfterSend(t))
    /\ UNCHANGED <<poolVars, ioVars, kernelVars, svcVars, closing, socket,
                   state, reason, ses, ret>>

(* PostCurrentSend: give the entry back when a cancel is under way.        *)
SendGate(t) ==
    LET s == ses[t] IN
    /\ pc[t] = "sendGate"
    /\ IF cancelIo[s] = 1
       THEN /\ sending' = [sending EXCEPT ![s] = 0]
            /\ Jump(t, AfterSend(t))
       ELSE /\ sending' = sending
            /\ pc' = [pc EXCEPT ![t] = "begin"]
            /\ task' = [task EXCEPT ![t].io = "send"]
    /\ UNCHANGED <<poolVars, ioVars, kernelVars, svcVars, closing, socket,
                   state, reason, ses, ret>>

IoStep(t) ==
    \/ PostReceive(t) \/ BeginIO(t) \/ Gate(t) \/ PostSucceeds(t)
    \/ PostFails(t) \/ TrySendNext(t) \/ SendGate(t) \/ UndoIO(t)

-----------------------------------------------------------------------------
(* IOCPServer::HandleAccept, from the lease of the client session on *)

(* ClientSessionPool::Acquire.  A node that is not FREE is dropped from    *)
(* the list and nothing is leased.                                         *)
Acquire(w) ==
    /\ freeList # <<>>
    /\ LET s == Head(freeList) IN
       /\ lease[s] < MaxLeases
       /\ freeList' = Tail(freeList)
       /\ IF poolState[s] = "FREE"
          THEN /\ poolState' = [poolState EXCEPT ![s] = "IN_USE"]
               /\ lease' = [lease EXCEPT ![s] = @ + 1]
               /\ Begin(w, s, "accept", lease[s] + 1, "attach")
          ELSE /\ pc[w] = "idle"
               /\ UNCHANGED <<poolState, lease, pc, ses, task>>
    /\ UNCHANGED <<overtaken, ioVars, kernelVars, connVars, svcVars, ret>>

AttachSocket(w) ==
    /\ pc[w] = "attach"
    /\ socket' = [socket EXCEPT ![ses[w]] = task[w].lease]
    /\ Jump(w, "hold")
    /\ UNCHANGED <<poolVars, ioVars, kernelVars, svcVars, closing, state,
                   reason, sending, ses, ret>>

(* The next AcceptEx is posted, and the session is held by a count for the *)
(* connect sequence.                                                       *)
HoldForConnect(w) ==
    /\ pc[w] = "hold"
    /\ ioCount' = [ioCount EXCEPT ![ses[w]] = @ + 1]
    /\ Jump(w, "connect")
    /\ UNCHANGED <<poolVars, kernelVars, connVars, svcVars, cancelIo,
                   releasePending, ses, ret>>

(* The next AcceptEx could not be posted: the handler returns here.        *)
AcceptStarved(w) ==
    /\ AcceptMayStarve
    /\ pc[w] = "hold"
    /\ Jump(w, "idle")
    /\ UNCHANGED <<poolVars, ioVars, kernelVars, connVars, svcVars, ses, ret>>

(* RunAcceptedConnectSequence: the socket options and the registration,    *)
(* then OnConnect, whose last act is the first PostReceive.                *)
Connect(w) ==
    LET s == ses[w] IN
    /\ pc[w] = "connect"
    /\ \/ /\ state' = [state EXCEPT ![s] = "CONNECTED"]
          /\ Jump(w, "postRecv")
       \/ /\ state' = state
          /\ Jump(w, "connectFailed")
    /\ UNCHANGED <<poolVars, ioVars, kernelVars, svcVars, closing, socket,
                   reason, sending, ses, ret>>

(* MarkServiceConnectNotified comes before the callback ...                *)
MarkNotified(w) ==
    /\ pc[w] = "announce"
    /\ latch' = [latch EXCEPT ![ses[w]] = 1]
    /\ Jump(w, "onConnect")
    /\ UNCHANGED <<poolVars, ioVars, kernelVars, connVars, announced, ses, ret>>

(* ... OnClientConnect.                                                    *)
OnClientConnect(w) ==
    /\ pc[w] = "onConnect"
    /\ announced' = [announced EXCEPT ![ses[w]] = @ + 1]
    /\ Jump(w, "finish")
    /\ UNCHANGED <<poolVars, ioVars, kernelVars, connVars, latch, ses, ret>>

ConnectFailed(w) ==
    /\ pc[w] = "connectFailed"
    /\ NoteReason(w, ses[w], task[w].lease)
    /\ CallRelease(w, "finish")
    /\ UNCHANGED <<poolVars, ioVars, kernelVars, svcVars, closing, socket,
                   state, sending, ses, task>>

AcceptStep(w) ==
    \/ AttachSocket(w) \/ HoldForConnect(w) \/ AcceptStarved(w)
    \/ Connect(w) \/ MarkNotified(w) \/ OnClientConnect(w)
    \/ ConnectFailed(w)

-----------------------------------------------------------------------------
(* Completions: HandleRecv, HandleSend, HandleSocketError *)

(* GetQueuedCompletionStatus hands worker w a completion of kind k of s.   *)
(* A cancelled operation may still have completed in any way.              *)
Dequeue(w, s, k, l) ==
    /\ \/ /\ live[s][k] > 0
          /\ live' = [live EXCEPT ![s][k] = @ - 1]
          /\ dying' = dying
       \/ /\ dying[s][k] > 0
          /\ dying' = [dying EXCEPT ![s][k] = @ - 1]
          /\ live' = live
    /\ Begin(w, s, k, lease[s], l)

RecvData(w, s) ==
    /\ Dequeue(w, s, "recv", "parse")
    /\ UNCHANGED <<poolVars, ioVars, connVars, svcVars, ret>>

SendDone(w, s) ==
    /\ Dequeue(w, s, "send", "sendDone")
    /\ UNCHANGED <<poolVars, ioVars, connVars, svcVars, ret>>

(* Faulty variant: the count is dropped before the release is asked for.   *)
ConnectionEndsCountFirst(w, s, k) ==
    /\ Dequeue(w, s, k, "release")
    /\ NoteReason(w, s, lease[s])
    /\ ioCount' = [ioCount EXCEPT ![s] = @ - 1]
    /\ ret' = [ret EXCEPT ![w] = "idle"]
    /\ UNCHANGED <<poolVars, svcVars, cancelIo, releasePending, closing, socket,
                   state, sending>>

(* Zero bytes received, or an error that is no cancellation: the reason is *)
(* noted, the release requested, the count dropped last.                   *)
ConnectionEnds(w, s, k) ==
    /\ Dequeue(w, s, k, "release")
    /\ NoteReason(w, s, lease[s])
    /\ ret' = [ret EXCEPT ![w] = "finish"]
    /\ UNCHANGED <<poolVars, ioVars, svcVars, closing, socket, state, sending>>

(* ERROR_OPERATION_ABORTED: HandleRecvCancelled, HandleSendCancelled.      *)
IoCancelled(w, s, k) ==
    /\ dying[s][k] > 0
    /\ dying' = [dying EXCEPT ![s][k] = @ - 1]
    /\ Begin(w, s, k, lease[s], "finish")
    /\ UNCHANGED <<poolVars, ioVars, live, connVars, svcVars, ret>>

(* The parse loop of HandleRecv: the packets at hand are dispatched ...    *)
ParseDone(w) ==
    /\ pc[w] = "parse"
    /\ Jump(w, "checkPending")
    /\ UNCHANGED <<poolVars, ioVars, kernelVars, connVars, svcVars, ses, ret>>

(* ... a system packet is answered, and the loop goes on ...               *)
ParseReply(w) ==
    /\ pc[w] = "parse"
    /\ Jump(w, "trySend")
    /\ UNCHANGED <<poolVars, ioVars, kernelVars, connVars, svcVars, ses, ret>>

(* ... an authentication is refused: answered, then the session dropped... *)
ParseReject(w) ==
    /\ pc[w] = "parse"
    /\ NoteReason(w, ses[w], task[w].lease)
    /\ pc' = [pc EXCEPT ![w] = "trySend"]
    /\ task' = [task EXCEPT ![w].op = "reject"]
    /\ UNCHANGED <<poolVars, ioVars, kernelVars, svcVars, closing, socket,
                   state, sending, ses, ret>>

(* ... or the stream is unusable and the session dropped.                  *)
ParseBad(w) ==
    /\ pc[w] = "parse"
    /\ NoteReason(w, ses[w], task[w].lease)
    /\ CallRelease(w, "finish")
    /\ UNCHANGED <<poolVars, ioVars, kernelVars, svcVars, closing, socket,
                   state, sending, ses, task>>

DropRejected(w) ==
    /\ pc[w] = "drop"
    /\ CallRelease(w, "finish")
    /\ UNCHANGED <<poolVars, ioVars, kernelVars, connVars, svcVars, ses, task>>

(* The next receive is posted unless a release is already reserved.        *)
CheckPending(w) ==
    /\ pc[w] = "checkPending"
    /\ IF releasePending[ses[w]] = 1
       THEN Jump(w, "finish")
       ELSE /\ pc' = [pc EXCEPT ![w] = "postRecv"]
            /\ task' = [task EXCEPT ![w].io = "recv"]
    /\ UNCHANGED <<poolVars, ioVars, kernelVars, connVars, svcVars, ses, ret>>

(* PostReceiveOrPause failed: a cancel under way takes care of the session *)
(* already, otherwise it is released here.                                 *)
RecvNotPosted(w) ==
    LET s == ses[w] IN
    /\ pc[w] = "recvNotPosted"
    /\ IF cancelIo[s] = 1
       THEN /\ Jump(w, "finish")
            /\ UNCHANGED <<reason, ret>>
       ELSE /\ NoteReason(w, s, task[w].lease)
            /\ CallRelease(w, "finish")
            /\ task' = task
    /\ UNCHANGED <<poolVars, ioVars, kernelVars, svcVars, closing, socket,
                   state, sending, ses>>

(* OnSendCompleted: post the rest of the packet, or give m_sending back    *)
(* and look for the next packet.  (Its return without a current packet is  *)
(* SendPath's business, which knows the packets.)                          *)
SendRest(w) ==
    /\ pc[w] = "sendDone"
    /\ Jump(w, "sendGate")
    /\ UNCHANGED <<poolVars, ioVars, kernelVars, connVars, svcVars, ses, ret>>

SendNext(w) ==
    /\ pc[w] = "sendDone"
    /\ sending' = [sending EXCEPT ![ses[w]] = 0]
    /\ Jump(w, "trySend")
    /\ UNCHANGED <<poolVars, ioVars, kernelVars, svcVars, closing, socket,
                   state, reason, ses, ret>>

HandlerStep(w) ==
    \/ ParseDone(w) \/ ParseReply(w) \/ ParseReject(w) \/ ParseBad(w)
    \/ DropRejected(w) \/ CheckPending(w) \/ RecvNotPosted(w)
    \/ SendRest(w) \/ SendNext(w)

Complete(w) ==
    \E s \in Sessions :
        \/ RecvData(w, s)
        \/ SendDone(w, s)
        \/ \E k \in Kinds : ConnectionEnds(w, s, k) \/ IoCancelled(w, s, k)

-----------------------------------------------------------------------------
(* Threads without a count *)

(* EnqueueSendPacket on a session the service was told of; CanSendPacket.  *)
EnqueueSend(t, s) ==
    /\ announced[s] > 0
    /\ TransportConnected(s)
    /\ Begin(t, s, "enqueue", lease[s], "trySend")
    /\ UNCHANGED <<poolVars, ioVars, kernelVars, connVars, svcVars, ret>>

(* DisconnectZombieSessions, one session: the checks ...                   *)
FindZombie(t, s) ==
    /\ TransportConnected(s)
    /\ socket[s] # 0
    /\ Begin(t, s, "zombie", lease[s], "zombieNote")
    /\ UNCHANGED <<poolVars, ioVars, kernelVars, connVars, svcVars, ret>>

(* ... the reason ...                                                      *)
NoteZombie(t) ==
    /\ pc[t] = "zombieNote"
    /\ NoteReason(t, ses[t], task[t].lease)
    /\ Jump(t, "zombieMark")
    /\ UNCHANGED <<poolVars, ioVars, kernelVars, svcVars, closing, socket,
                   state, sending, ses, ret>>

(* ... MarkHeartbeatTimeout, a plain store, and the release.               *)
MarkZombie(t) ==
    /\ pc[t] = "zombieMark"
    /\ state' = [state EXCEPT ![ses[t]] = "HEARTBEAT_TIMEOUT"]
    /\ CallRelease(t, "idle")
    /\ UNCHANGED <<poolVars, ioVars, kernelVars, svcVars, closing, socket,
                   reason, sending, ses, task>>

-----------------------------------------------------------------------------
Step(t) ==
    \/ Finish(t) \/ TakeToken(t) \/ ReleaseStep(t) \/ CompleteReleaseStep(t)
    \/ IoStep(t) \/ AcceptStep(t) \/ HandlerStep(t)
    \/ NoteZombie(t) \/ MarkZombie(t)

Next ==
    \/ \E w \in Workers : Acquire(w) \/ Complete(w)
    \/ \E t \in Senders, s \in Sessions : EnqueueSend(t, s)
    \/ \E t \in Reapers, s \in Sessions : FindZombie(t, s)
    \/ \E t \in Threads : Step(t)

(* A thread that has begun goes on, the parse loop ends (the ring holds a  *)
(* finite number of packets), and the completion of a cancelled operation  *)
(* is delivered.  Nothing is assumed of the peer: an operation that nobody *)
(* cancels may stay issued for ever.                                       *)
Fairness ==
    /\ \A t \in Threads : WF_vars(Step(t)) /\ SF_vars(ParseDone(t))
    /\ \A s \in Sessions, k \in Kinds :
         SF_vars(\E w \in Workers : IoCancelled(w, s, k))

Spec == Init /\ [][Next]_vars
FairSpec == Spec /\ Fairness

-----------------------------------------------------------------------------
(* Properties *)

Outstanding(s, k) == live[s][k] + dying[s][k]

(* The count a handler holds for itself, from its completion (or from      *)
(* HoldForConnect) to its last statement, and the one BeginIO took for an  *)
(* operation that is not issued yet.                                       *)
HandlerHolds(t, s) ==
    /\ pc[t] # "idle" /\ ses[t] = s
    /\ task[t].op \in {"accept", "recv", "reject", "send"}
    /\ pc[t] \notin {"attach", "hold"}
    /\ ~(pc[t] \in {"token"} \cup CompletePcs /\ ret[t] = "idle")

IoHolds(t, s) ==
    /\ ses[t] = s
    /\ \/ pc[t] \in {"gate", "post", "undoIO"}
       \/ /\ pc[t] \in {"release", "readCount", "claim"} \cup OwnerPcs
          /\ ret[t] = "undoIO"

(* The count of a session is what its threads hold and its operations      *)
(* carry, in every interleaving, across releases and leases: no path drops *)
(* a count it does not own (BaseSession::DecrementIO, "an                  *)
(* Increment/Decrement pair is unbalanced") and none is forgotten.         *)
CountIsHeld ==
    \A s \in Sessions :
        ioCount[s] = Outstanding(s, "recv") + Outstanding(s, "send")
                     + Cardinality({t \in Threads : HandlerHolds(t, s)})
                     + Cardinality({t \in Threads : IoHolds(t, s)})

Owns(t, s) == pc[t] \in OwnerPcs /\ ses[t] = s

(* A release belongs to exactly one party at a time: to one thread that    *)
(* won it, or to the token m_releasePending, and only while the node is    *)
(* RELEASING.  So CompleteRelease never runs twice for one lease, whatever *)
(* paths ask for the release at once (ClientSessionPool::Release).         *)
TokenOnlyWhileReleasing ==
    \A s \in Sessions : releasePending[s] = 1 => poolState[s] = "RELEASING"

OwnerHasNoRival ==
    \A t \in Threads : pc[t] \in OwnerPcs =>
        /\ poolState[ses[t]] = "RELEASING"
        /\ releasePending[ses[t]] = 0
        /\ \A u \in Threads : Owns(u, ses[t]) => u = t

ReleasingHasOwner ==
    \A s \in Sessions : poolState[s] = "RELEASING" =>
        releasePending[s] = 1 \/ \E t \in Threads : Owns(t, s)

ReleaseHasOneOwner ==
    TokenOnlyWhileReleasing /\ OwnerHasNoRival /\ ReleasingHasOwner

(* A reserved release whose last count is gone still has a thread that     *)
(* will look at the token: RequestRelease and the last DecrementIO cannot  *)
(* both leave it to the other.                                             *)
NoStrandedRelease ==
    \A s \in Sessions : releasePending[s] = 1 /\ ioCount[s] = 0 =>
        \E t \in Threads : pc[t] \in TokenPcs /\ ses[t] = s

(* The free list holds every FREE node once and no other: no session is    *)
(* handed out twice, and none is lost (the self-loop ClientSessionPool.cpp *)
(* describes at the compare-exchange of Release).                          *)
FreeListIsExact ==
    /\ \A i, j \in 1..Len(freeList) : freeList[i] = freeList[j] => i = j
    /\ \A s \in Sessions : poolState[s] = "FREE" <=> s \in Range(freeList)

(* The promises below are made of every session that no thread without a   *)
(* count has been overtaken on so far; on the others the code breaks them, *)
(* as HandedOutAsNew shows.  Senders and the heartbeat thread are welcome  *)
(* on a settled session, at any step but the two that overtake them.       *)
Settled(s) == s \notin overtaken

(* HandleAccept gets a settled session as new: detached, ready to connect, *)
(* its gate open, and no operation of an earlier connection still to       *)
(* complete on it ("was handed out but is not clean").                     *)
HandedOutClean ==
    \A w \in Workers : pc[w] = "attach" /\ Settled(ses[w]) =>
        LET s == ses[w] IN
        /\ socket[s] = 0 /\ state[s] = "CONNECT_READY"
        /\ cancelIo[s] = 0 /\ sending[s] = 0
        /\ \A k \in Kinds : Outstanding(s, k) = 0

(* A session is reset only when its count is zero and its socket detached  *)
(* (both violations BaseSession::ResetSession reports), unless a thread    *)
(* without a count raised the count from zero: whoever began an operation  *)
(* before is waited for, sender or handler.                                *)
ResetIsQuiet ==
    \A t \in Threads : pc[t] = "resetBase" /\ Settled(ses[t]) =>
        ioCount[ses[t]] = 0 /\ socket[ses[t]] = 0

(* The service hears of the end of each connection it was told of, once,   *)
(* before the settled session can be leased again; and of no other's.      *)
NotificationsPair ==
    \A s \in Sessions : Settled(s) =>
        /\ announced[s] \in 0..1
        /\ poolState[s] = "FREE" => announced[s] = 0 /\ latch[s] = 0

(* The reason a connection is reported to have ended for was noted during  *)
(* that connection, by a handler, a sender or the heartbeat thread; no     *)
(* path to a release forgets to note one.                                  *)
ReasonIsOwn ==
    \A t \in Threads : pc[t] = "notify" /\ Settled(ses[t]) =>
        reason[ses[t]] = lease[ses[t]]

(* A thread retires the connection it decided to retire: a settled session *)
(* has not gone back to the pool and out to the next connection between    *)
(* the decision and the release, so that nobody's connection is cut in     *)
(* another's place (HandleRecv keeps its count to the end for this).       *)
EndsOwnConnection ==
    [][\A t \in Threads :
          pc[t] = "release" /\ pc'[t] = "cancel" /\ Settled(ses[t])
             => task[t].lease = lease[ses[t]]]_vars

(* What HandleAccept checks of every session it is handed, settled or not: *)
(* detached and ready to connect, or "the session was handed out but is    *)
(* not clean".  The code does not keep it: MarkHeartbeatTimeout may store  *)
(* its state into a session that has been reset in the meantime.           *)
HandedOutAsNew ==
    \A w \in Workers : pc[w] = "attach" =>
        socket[ses[w]] = 0 /\ state[ses[w]] = "CONNECT_READY"

=============================================================================
