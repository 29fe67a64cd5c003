---------------------------- MODULE AcceptSlots ----------------------------
(***************************************************************************)
(* How the server takes connections (IOCPServer, AcceptSession and their   *)
(* pools).                                                                 *)
(*                                                                         *)
(* An accept slot is an AcceptSession with at most one AcceptEx.  A worker *)
(* that dequeues a completed one decides about the connection, leases a    *)
(* client session for it or closes it, and posts the next AcceptEx on the  *)
(* same slot.  When that fails the slot is empty: m_slotOwned is given up, *)
(* and the heartbeat thread, which claims unowned slots in every cycle,    *)
(* fills it again.  StopServer closes the slots' sockets under their feet  *)
(* and waits for the I/O count of each to reach 0 before it goes on.       *)
(*                                                                         *)
(* A step is one access to shared memory, or several of which no order can *)
(* be told from another.  All connections come from one address.  Left     *)
(* out: the event by which the wait is woken (the waiter reads the count   *)
(* as well), m_cancelIo and m_closing, which nothing here depends on, the  *)
(* alarm for having no AcceptEx, what StopServer does with the client      *)
(* sessions, and what becomes of a connection after its connect sequence:  *)
(* it ends some time.                                                      *)
(***************************************************************************)
EXTENDS Integers, FiniteSets

CONSTANTS
    Slots,         \* 1 .. number of accept sessions
    Workers,       \* threads of the completion port
    Heartbeat,     \* the heartbeat thread
    Main,          \* the thread that calls StopServer
    Sessions,      \* client sessions
    NoSession,
    MaxPerAddress, \* ConnectionPolicyConfig, 0 for no limit
    MaxFailures    \* bound: calls of WSASocket and AcceptEx, and AcceptEx
                   \* operations, that fail

Threads == Workers \cup {Heartbeat, Main}
NoSlot == 0

ASSUME SlotsAssumption ==
    /\ IsFiniteSet(Slots) /\ Slots = 1 .. Cardinality(Slots) /\ Slots # {}
    /\ IsFiniteSet(Workers)
    /\ Heartbeat # Main /\ {Heartbeat, Main} \cap Workers = {}
    /\ NoSession \notin Sessions
    /\ MaxPerAddress \in Nat /\ MaxFailures \in Nat

VARIABLES
    (* IOCPServer *)
    shutdown, \* m_serverShutdownRequested
    posted,   \* m_postedAcceptCount
    (* AcceptSession *)
    owned,    \* m_slotOwned
    socket,   \* m_clientSocket is valid
    state,    \* AcceptSessionState
    ioCount,  \* m_ioCount
    (* the kernel: how many AcceptEx of a slot are in which state *)
    io,
    (* ClientSessionPool *)
    pool,     \* "free", "leased", "attached" (socket and address), "open"
    (* threads *)
    pc, slot, session,
    next,     \* what a worker does once its slot is posted again
    (* bounds and ghosts *)
    failures,
    strays    \* slots released by a thread that does not own them

server  == <<shutdown, posted>>
slots   == <<owned, socket, state, ioCount>>
threads == <<pc, slot, session, next>>
vars    == <<server, slots, io, pool, threads, failures, strays>>

States == {"ready", "wait", "complete", "aborted", "disconnected"}
Phases == {"pending", "accepted", "cancelled"}

WorkerPCs == {"idle", "accepted", "count", "full", "acquire", "refuse",
              "reset", "attach", "drop", "finish",
              "cancelled", "bail", "bailCount", "bailReset", "cancelCount"}
PostPCs   == {"post", "decline", "create", "raise", "recheck", "wait", "issue",
              "lower", "abort", "withdraw", "counted", "vacate"}
OtherPCs  == {"claim", "running", "join", "cancel", "await", "listen",
              "stop", "ended"}

TypeOK ==
    /\ shutdown \in BOOLEAN /\ posted \in Int
    /\ owned \in [Slots -> BOOLEAN] /\ socket \in [Slots -> BOOLEAN]
    /\ state \in [Slots -> States] /\ ioCount \in [Slots -> Int]
    /\ io \in [Slots -> [Phases -> Nat]]
    /\ pool \in [Sessions -> {"free", "leased", "attached", "open"}]
    /\ pc \in [Threads -> WorkerPCs \cup PostPCs \cup OtherPCs]
    /\ slot \in [Threads -> Slots \cup {NoSlot}]
    /\ session \in [Threads -> Sessions \cup {NoSession}]
    /\ next \in [Threads -> {"idle", "done", "connect"}]
    /\ failures \in 0 .. MaxFailures /\ strays \subseteq Slots

(* StartServer has posted an AcceptEx on every slot (PrepareAccept).       *)
Init ==
    /\ shutdown = FALSE /\ posted = Cardinality(Slots)
    /\ owned = [s \in Slots |-> TRUE] /\ socket = [s \in Slots |-> TRUE]
    /\ state = [s \in Slots |-> "wait"] /\ ioCount = [s \in Slots |-> 1]
    /\ io = [s \in Slots |-> [p \in Phases |-> IF p = "pending" THEN 1 ELSE 0]]
    /\ pool = [c \in Sessions |-> "free"]
    /\ pc = [t \in Threads |-> IF t = Main THEN "running" ELSE "idle"]
    /\ slot = [t \in Threads |-> NoSlot]
    /\ session = [t \in Threads |-> NoSession]
    /\ next = [t \in Threads |-> "idle"]
    /\ failures = 0 /\ strays = {}

-----------------------------------------------------------------------------
(* Building blocks.                                                        *)

Goto(t, to) == pc' = [pc EXCEPT ![t] = to]

Put(f, s, value) == [f EXCEPT ![s] = value]

Moved(s, from, to) == [io EXCEPT ![s][from] = @ - 1, ![s][to] = @ + 1]

(* Closing an accept socket cancels the AcceptEx that is pending on it.    *)
CloseAborts(s) ==
    io' = [io EXCEPT ![s].cancelled = @ + io[s].pending, ![s].pending = 0]

(* DetachSocket, CloseSocketHandle.  The state that OnDisconnect gives.    *)
DetachSocket(s) ==
    /\ socket' = Put(socket, s, FALSE)
    /\ CloseAborts(s)

OnDisconnect(s) ==
    IF state[s] = "aborted" THEN state ELSE Put(state, s, "disconnected")

CanFail == failures < MaxFailures
Fails == CanFail /\ failures' = failures + 1

-----------------------------------------------------------------------------
(* The kernel and the peers.                                               *)

(* A peer connects; or its connection is gone before it was accepted.      *)
PeerConnects(s) ==
    /\ io[s].pending > 0
    /\ io' = Moved(s, "pending", "accepted")
    /\ UNCHANGED <<server, slots, pool, threads, failures, strays>>

AcceptFails(s) ==
    /\ io[s].pending > 0 /\ Fails
    /\ io' = Moved(s, "pending", "cancelled")
    /\ UNCHANGED <<server, slots, pool, threads, strays>>

(* A connection ends, on whichever side, and its session is free again.    *)
SessionEnds(c) ==
    /\ pool[c] = "open"
    /\ pool' = Put(pool, c, "free")
    /\ UNCHANGED <<server, slots, io, threads, failures, strays>>

-----------------------------------------------------------------------------
(* Workers.                                                                *)

(* GetQueuedCompletionStatus.                                              *)
Dequeue(w) ==
    /\ pc[w] = "idle"
    /\ \E s \in Slots, phase \in {"accepted", "cancelled"} :
          /\ io[s][phase] > 0
          /\ io' = [io EXCEPT ![s][phase] = @ - 1]
          /\ slot' = Put(slot, w, s)
          /\ Goto(w, phase)
    /\ UNCHANGED <<server, slots, pool, session, next, failures, strays>>

(* HandleAcceptIOCancelled: the completion of a cancelled AcceptEx, or of  *)
(* one that failed.  The count goes down, then the slot is given up; the   *)
(* socket stays where it is.                                               *)
HandleAcceptIOCancelled(w) ==
    LET s == slot[w] IN
    /\ pc[w] = "cancelled"
    /\ state' = Put(state, s, "aborted")
    /\ posted' = posted - 1
    /\ Goto(w, "cancelCount")
    /\ next' = Put(next, w, "done")
    /\ UNCHANGED <<shutdown, owned, socket, ioCount, io, pool, slot,
                   session, failures, strays>>

(* The head of HandleAccept: OnAccept, one AcceptEx less is posted, and is *)
(* the server stopping?                                                    *)
HandleAccept(w) ==
    /\ pc[w] = "accepted"
    /\ state' = Put(state, slot[w], "complete")
    /\ posted' = posted - 1
    /\ Goto(w, IF shutdown THEN "bail"
               ELSE IF MaxPerAddress > 0 THEN "count" ELSE "full")
    /\ UNCHANGED <<shutdown, owned, socket, ioCount, io, pool, slot,
                   session, next, failures, strays>>

(* Sessions of the peer's address that are not free.                       *)
CountClientSessionsFromAddress ==
    Cardinality({c \in Sessions : pool[c] \in {"attached", "open"}})

CheckAddress(w) ==
    /\ pc[w] = "count"
    /\ Goto(w, IF CountClientSessionsFromAddress >= MaxPerAddress
               THEN "refuse" ELSE "full")
    /\ next' = Put(next, w, "idle")
    /\ UNCHANGED <<server, slots, io, pool, slot, session, failures,
                   strays>>

Free == {c \in Sessions : pool[c] = "free"}

(* IsClientSessionFull.                                                    *)
CheckFull(w) ==
    /\ pc[w] = "full"
    /\ Goto(w, IF Free = {} THEN "refuse" ELSE "acquire")
    /\ next' = Put(next, w, "idle")
    /\ UNCHANGED <<server, slots, io, pool, slot, session, failures,
                   strays>>

(* AcquireClientSession.  Another worker may have been faster.             *)
Acquire(w) ==
    /\ pc[w] = "acquire"
    /\ \/ \E c \in Free :
             /\ pool' = Put(pool, c, "leased")
             /\ session' = Put(session, w, c)
             /\ Goto(w, "attach")
             /\ next' = Put(next, w, "connect")
       \/ /\ Free = {}
          /\ Goto(w, "refuse")
          /\ next' = Put(next, w, "idle")
          /\ UNCHANGED <<pool, session>>
    /\ UNCHANGED <<server, slots, io, slot, failures, strays>>

(* The connection is closed: the slot gives its socket up, and is reset.   *)
Refuse(w) ==
    /\ pc[w] = "refuse"
    /\ DetachSocket(slot[w])
    /\ state' = OnDisconnect(slot[w])
    /\ Goto(w, "reset")
    /\ UNCHANGED <<server, owned, ioCount, pool, slot, session, next,
                   failures, strays>>

(* ResetForRepost, on the way into PostAccept and on every way out of it   *)
(* that has taken the socket away.                                         *)
ResetForRepost(t) ==
    /\ \/ pc[t] = "reset"    /\ Goto(t, "post")
       \/ pc[t] = "withdraw" /\ Goto(t, "vacate")
    /\ state' = Put(state, slot[t], "ready")
    /\ UNCHANGED <<server, owned, socket, ioCount, io, pool, slot, session, next, failures, strays>>

(* AttachSocket, SetRemoteAddress: the socket is the session's.  There is  *)
(* none if StopServer took it meanwhile.                                   *)
Attach(w) ==
    /\ pc[w] = "attach"
    /\ socket' = Put(socket, slot[w], FALSE)
    /\ pool' = Put(pool, session[w], "attached")
    /\ Goto(w, "post")
    /\ UNCHANGED <<server, owned, state, ioCount, io, slot, session, next, failures, strays>>

(* HandleAccept while the server stops: nothing is posted any more.        *)
Bail(w) ==
    /\ pc[w] = "bail"
    /\ DetachSocket(slot[w])
    /\ state' = OnDisconnect(slot[w])
    /\ Goto(w, "bailCount")
    /\ next' = Put(next, w, "done")
    /\ UNCHANGED <<server, owned, ioCount, pool, slot, session,
                   failures, strays>>

(* Faulty variant: the share of an accepted connection is not dropped.     *)
DecrementIOUnlessAttached(w) ==
    /\ \/ pc[w] = "bailCount"   /\ Goto(w, "bailReset")
       \/ pc[w] = "cancelCount" /\ Goto(w, "vacate")
       \/ pc[w] = "drop"        /\ Goto(w, "finish")
    /\ ioCount' = IF next[w] = "connect" THEN ioCount
                  ELSE Put(ioCount, slot[w], ioCount[slot[w]] - 1)
    /\ UNCHANGED <<server, owned, socket, state, io, pool, slot, session, next,
                   failures, strays>>

(* Faulty variant: the slot of a failed AcceptEx is not given up.          *)
DecrementIOKeepingSlot(w) ==
    /\ \/ pc[w] = "bailCount"   /\ Goto(w, "bailReset")
       \/ pc[w] = "cancelCount" /\ Goto(w, "finish")
       \/ pc[w] = "drop"        /\ Goto(w, "finish")
    /\ ioCount' = Put(ioCount, slot[w], ioCount[slot[w]] - 1)
    /\ UNCHANGED <<server, owned, socket, state, io, pool, slot, session, next,
                   failures, strays>>

(* DecrementIO of the completed AcceptEx: before ResetSession when the     *)
(* server stops, before ReleaseSlot when the AcceptEx was cancelled, after *)
(* the next AcceptEx has been posted otherwise.                            *)
DecrementIO(w) ==
    /\ \/ pc[w] = "bailCount"   /\ Goto(w, "bailReset")
       \/ pc[w] = "cancelCount" /\ Goto(w, "vacate")
       \/ pc[w] = "drop"        /\ Goto(w, "finish")
    /\ ioCount' = Put(ioCount, slot[w], ioCount[slot[w]] - 1)
    /\ UNCHANGED <<server, owned, socket, state, io, pool, slot, session, next, failures, strays>>

ResetSession(w) ==
    /\ pc[w] = "bailReset"
    /\ state' = Put(state, slot[w], "ready")
    /\ Goto(w, "vacate")
    /\ UNCHANGED <<server, owned, socket, ioCount, io, pool, slot, session, next, failures, strays>>

(* The end of HandleAccept.  With a session, and the slot posted again:    *)
(* RunAcceptedConnectSequence, which may fail, and fails when the server   *)
(* stops.  The session is then released.  Otherwise there is nothing to do *)
(* but for a check that complains when no session was left.                *)
Finish(w) ==
    /\ pc[w] = "finish"
    /\ \/ /\ next[w] = "connect" /\ ~shutdown
          /\ pool' = Put(pool, session[w], "open")
       \/ /\ next[w] = "connect"
          /\ pool' = Put(pool, session[w], "free")
       \/ /\ next[w] # "connect"
          /\ UNCHANGED pool
    /\ Goto(w, "idle")
    /\ slot' = Put(slot, w, NoSlot) /\ session' = Put(session, w, NoSession)
    /\ next' = Put(next, w, "idle")
    /\ UNCHANGED <<server, slots, io, failures, strays>>

-----------------------------------------------------------------------------
(* PostAccept, by a worker or by the heartbeat thread.                     *)

PostAccept(t) ==
    /\ pc[t] = "post"
    /\ Goto(t, IF shutdown THEN "decline" ELSE "create")
    /\ UNCHANGED <<server, slots, io, pool, slot, session, next,
                   failures, strays>>

Decline(t) ==
    /\ pc[t] = "decline"
    /\ DetachSocket(slot[t])
    /\ state' = OnDisconnect(slot[t])
    /\ Goto(t, "withdraw")
    /\ UNCHANGED <<server, owned, ioCount, pool, slot, session, next,
                   failures, strays>>

(* WSASocket, SetClientSocket.                                             *)
CreateSocket(t) ==
    /\ pc[t] = "create"
    /\ \/ /\ socket' = Put(socket, slot[t], TRUE)
          /\ Goto(t, "raise")
          /\ UNCHANGED failures
       \/ /\ Fails
          /\ Goto(t, "vacate")
          /\ UNCHANGED socket
    /\ UNCHANGED <<server, owned, state, ioCount, io, pool, slot, session, next, strays>>

(* The count goes up first, the shutdown flag is read again after it.      *)
IncrementIO(t) ==
    /\ pc[t] = "raise"
    /\ ioCount' = Put(ioCount, slot[t], ioCount[slot[t]] + 1)
    /\ Goto(t, "recheck")
    /\ UNCHANGED <<server, owned, socket, state, io, pool, slot, session, next, failures, strays>>

(* Faulty variant: the flag is not read again.                             *)
RecheckNothing(t) ==
    /\ pc[t] = "recheck"
    /\ Goto(t, "wait")
    /\ UNCHANGED <<server, slots, io, pool, slot, session, next,
                   failures, strays>>

RecheckShutdown(t) ==
    /\ pc[t] = "recheck"
    /\ Goto(t, IF shutdown THEN "lower" ELSE "wait")
    /\ UNCHANGED <<server, slots, io, pool, slot, session, next,
                   failures, strays>>

SetStateWait(t) ==
    /\ pc[t] = "wait"
    /\ state' = Put(state, slot[t], "wait")
    /\ Goto(t, "issue")
    /\ UNCHANGED <<server, owned, socket, ioCount, io, pool, slot, session, next, failures, strays>>

Listening == pc[Main] \notin {"stop", "ended"}

(* AcceptEx.  It fails for want of resources, or because StopServer has    *)
(* closed one of the two sockets.                                          *)
AcceptEx(t) ==
    LET s == slot[t] IN
    /\ pc[t] = "issue"
    /\ \/ /\ socket[s] /\ Listening
          /\ io' = [io EXCEPT ![s].pending = @ + 1]
          /\ Goto(t, "counted")
          /\ UNCHANGED failures
       \/ /\ IF socket[s] /\ Listening THEN Fails ELSE UNCHANGED failures
          /\ Goto(t, "lower")
          /\ UNCHANGED io
    /\ UNCHANGED <<server, slots, pool, slot, session, next, strays>>

(* Faulty variant: the count of the AcceptEx that failed stays.            *)
LowerNothing(t) ==
    /\ pc[t] = "lower"
    /\ Goto(t, "abort")
    /\ UNCHANGED <<server, slots, io, pool, slot, session, next, failures,
                   strays>>

(* AcceptEx was not called, or failed: DecrementIO, then the rest.         *)
Lower(t) ==
    /\ pc[t] = "lower"
    /\ ioCount' = Put(ioCount, slot[t], ioCount[slot[t]] - 1)
    /\ Goto(t, "abort")
    /\ UNCHANGED <<server, owned, socket, state, io, pool, slot, session, next, failures, strays>>

Abort(t) ==
    /\ pc[t] = "abort"
    /\ state' = Put(state, slot[t], "aborted")
    /\ DetachSocket(slot[t])
    /\ Goto(t, "withdraw")
    /\ UNCHANGED <<server, owned, ioCount, pool, slot, session, next,
                   failures, strays>>

EndOfRefill == Goto(Heartbeat, "idle") /\ slot' = Put(slot, Heartbeat, NoSlot)

(* The heartbeat thread goes to the next slot, or ends its cycle.          *)
NextClaim ==
    IF slot[Heartbeat] = Cardinality(Slots)
    THEN EndOfRefill
    ELSE /\ Goto(Heartbeat, "claim")
         /\ slot' = Put(slot, Heartbeat, slot[Heartbeat] + 1)

(* AcceptEx is under way, and may have completed already.                  *)
CountPosted(t) ==
    /\ pc[t] = "counted"
    /\ posted' = posted + 1
    /\ IF t = Heartbeat
       THEN NextClaim
       ELSE Goto(t, "drop") /\ UNCHANGED slot
    /\ UNCHANGED <<shutdown, slots, io, pool, session, next, failures,
                   strays>>

(* ReleaseSlot.  The heartbeat thread ends its cycle; a worker that was    *)
(* cancelled or stops is done; another has only its count to drop, for     *)
(* HandleAccept returns then, with the session it may have attached.       *)
ReleaseSlot(t) ==
    LET s == slot[t] IN
    /\ pc[t] = "vacate"
    /\ owned' = Put(owned, s, FALSE)
    /\ strays' = strays \cup {x \in {s} : ~owned[x]}
    /\ \/ t = Heartbeat /\ EndOfRefill
       \/ /\ t \in Workers
          /\ Goto(t, IF next[t] = "done" THEN "finish" ELSE "drop")
          /\ UNCHANGED slot
    /\ next' = Put(next, t, "idle")
    /\ UNCHANGED <<server, socket, state, ioCount, io, pool, session, failures>>

-----------------------------------------------------------------------------
(* The heartbeat thread: RefillAcceptSlots.                                *)

RefillAcceptSlots ==
    /\ pc[Heartbeat] = "idle" /\ ~shutdown
    /\ slot' = Put(slot, Heartbeat, 1)
    /\ Goto(Heartbeat, "claim")
    /\ UNCHANGED <<server, slots, io, pool, session, next, failures, strays>>

(* Faulty variant: a slot is free when its state is ACCEPT_READY.          *)
TryAcquireSlotByState ==
    LET s == slot[Heartbeat] IN
    /\ pc[Heartbeat] = "claim"
    /\ IF state[s] # "ready"
       THEN NextClaim /\ UNCHANGED owned
       ELSE /\ owned' = Put(owned, s, TRUE)
            /\ Goto(Heartbeat, "post")
            /\ UNCHANGED slot
    /\ UNCHANGED <<server, socket, state, ioCount, io, pool, session, next,
                   failures, strays>>

TryAcquireSlot ==
    LET s == slot[Heartbeat] IN
    /\ pc[Heartbeat] = "claim"
    /\ IF owned[s]
       THEN NextClaim /\ UNCHANGED owned
       ELSE /\ owned' = Put(owned, s, TRUE)
            /\ Goto(Heartbeat, "post")
            /\ UNCHANGED slot
    /\ UNCHANGED <<server, socket, state, ioCount, io, pool, session, next, failures, strays>>

-----------------------------------------------------------------------------
(* StopServer.                                                             *)

StopServer ==
    /\ pc[Main] = "running"
    /\ shutdown' = TRUE
    /\ Goto(Main, "join")
    /\ UNCHANGED <<posted, slots, io, pool, slot, session, next, failures, strays>>

(* The heartbeat thread is joined.                                         *)
JoinHeartbeat ==
    /\ pc[Main] = "join" /\ pc[Heartbeat] = "idle"
    /\ pc' = [pc EXCEPT ![Main] = "cancel", ![Heartbeat] = "ended"]
    /\ slot' = Put(slot, Main, 1)
    /\ UNCHANGED <<server, slots, io, pool, session, next, failures,
                   strays>>

(* Main goes through the slots, and through them again.                    *)
NextOfMain(again, then) ==
    IF slot[Main] = Cardinality(Slots)
    THEN Goto(Main, then) /\ slot' = Put(slot, Main, 1)
    ELSE Goto(Main, again) /\ slot' = Put(slot, Main, slot[Main] + 1)

(* RequestAllAcceptIOCancel: the socket of a slot that has one is closed,  *)
(* in one step with the CancelIoEx before it.                              *)
RequestAcceptIOCancel ==
    /\ pc[Main] = "cancel"
    /\ IF socket[slot[Main]]
       THEN DetachSocket(slot[Main])
       ELSE UNCHANGED <<socket, io>>
    /\ NextOfMain("cancel", "await")
    /\ UNCHANGED <<server, owned, state, ioCount, pool, session, next,
                   failures, strays>>

(* WaitForAllAcceptIOCancelComplete, which passes over a slot that looks   *)
(* ready.  Its time limit is left out.                                     *)
AwaitAcceptIOCancel ==
    LET s == slot[Main] IN
    /\ pc[Main] = "await"
    /\ state[s] = "ready" \/ ioCount[s] = 0
    /\ state' = Put(state, s, "ready")
    /\ NextOfMain("await", "listen")
    /\ UNCHANGED <<server, owned, socket, ioCount, io, pool, session, next, failures, strays>>

(* CancelAllAcceptIO, DestroyListenSocket: what is still pending ends.     *)
CloseListenSocket ==
    /\ pc[Main] = "listen"
    /\ io' = [s \in Slots |-> [io[s] EXCEPT !.cancelled = @ + io[s].pending,
                                            !.pending = 0]]
    /\ Goto(Main, "stop")
    /\ UNCHANGED <<server, slots, pool, slot, session, next, failures,
                   strays>>

(* IOCPCore::Stop: the workers are joined.                                 *)
JoinWorkers ==
    /\ pc[Main] = "stop" /\ \A w \in Workers : pc[w] = "idle"
    /\ pc' = [t \in Threads |-> "ended"]
    /\ UNCHANGED <<server, slots, io, pool, slot, session, next,
                   failures, strays>>

-----------------------------------------------------------------------------

PostSteps(t) ==
    \/ ResetForRepost(t) \/ PostAccept(t) \/ Decline(t) \/ CreateSocket(t)
    \/ IncrementIO(t) \/ RecheckShutdown(t) \/ SetStateWait(t) \/ AcceptEx(t)
    \/ Lower(t) \/ Abort(t) \/ CountPosted(t) \/ ReleaseSlot(t)

WorkerSteps(w) ==
    \/ Dequeue(w) \/ HandleAcceptIOCancelled(w) \/ HandleAccept(w)
    \/ CheckAddress(w) \/ CheckFull(w) \/ Acquire(w)
    \/ Refuse(w) \/ Attach(w) \/ Bail(w) \/ DecrementIO(w) \/ ResetSession(w)
    \/ Finish(w) \/ PostSteps(w)

HeartbeatSteps ==
    RefillAcceptSlots \/ TryAcquireSlot \/ PostSteps(Heartbeat)

StopSteps ==
    \/ JoinHeartbeat \/ RequestAcceptIOCancel \/ AwaitAcceptIOCancel
    \/ CloseListenSocket \/ JoinWorkers

Environment ==
    \/ \E s \in Slots : PeerConnects(s) \/ AcceptFails(s)
    \/ \E c \in Sessions : SessionEnds(c)

Next ==
    \/ \E w \in Workers : WorkerSteps(w)
    \/ HeartbeatSteps
    \/ StopServer \/ StopSteps
    \/ Environment

Spec == Init /\ [][Next]_vars

(* What a worker or the heartbeat can go on with, by where it is.          *)
WorkerGoesOn(w) ==
    IF pc[w] = "idle" THEN Dequeue(w)
    ELSE IF pc[w] \in PostPCs \cup {"reset"} THEN PostSteps(w) ELSE WorkerSteps(w)

HeartbeatGoesOn ==
    IF pc[Heartbeat] \in PostPCs THEN PostSteps(Heartbeat) ELSE HeartbeatSteps

(* Threads are scheduled.  Nobody has to connect, or to stop the server.   *)
Fairness ==
    /\ \A w \in Workers : WF_vars(WorkerGoesOn(w))
    /\ WF_vars(HeartbeatGoesOn)
    /\ WF_vars(StopSteps)

FairSpec == Spec /\ Fairness

-----------------------------------------------------------------------------
(* Properties.                                                             *)

Outstanding(s) == io[s].pending + io[s].accepted + io[s].cancelled

(* Threads that handle slot s at one of the given points.                  *)
At(s, points) == {t \in Threads \ {Main} : slot[t] = s /\ pc[t] \in points}

Handling == {"accepted", "count", "full", "acquire", "refuse", "reset",
             "attach", "cancelled", "bail", "bailCount", "bailReset",
             "cancelCount"}
Posting  == PostPCs \ {"counted"}

(* m_slotOwned says what it is for: a slot is owned exactly while one      *)
(* AcceptEx of it is outstanding or one thread is in charge of it, never   *)
(* both and never two; and nobody gives up a slot that is not owned        *)
(* (the check in AcceptSession::ReleaseSlot).  Workers and the heartbeat   *)
(* thread can otherwise post on one OVERLAPPED together, or leave a slot   *)
(* that nobody fills again.                                                *)
SlotHasOwner ==
    /\ \A s \in Slots :
          Outstanding(s) + Cardinality(At(s, Handling \cup Posting))
              = IF owned[s] THEN 1 ELSE 0
    /\ strays = {}

(* The I/O count of a slot is what StopServer waits for: the AcceptEx that *)
(* are outstanding, and the shares of the threads that still handle a      *)
(* completion or are about to post.  m_postedAcceptCount is the number of  *)
(* outstanding AcceptEx, but for the threads that are about to count.      *)
CountsAreHeld ==
    /\ \A s \in Slots :
          ioCount[s] = Outstanding(s)
              + Cardinality(At(s, (Handling \cup PostPCs \cup {"drop"})
                                  \ {"bailReset"})
                            \ ({Heartbeat} \cup {w \in Workers :
                                  pc[w] = "vacate" /\ next[w] = "done"}))
              + Cardinality(At(s, {"recheck", "wait", "issue", "lower"}))
    /\ posted = Cardinality({s \in Slots : Outstanding(s) > 0})
              - Cardinality({t \in Threads : pc[t] = "counted"})
              + Cardinality({w \in Workers : pc[w] \in {"accepted", "cancelled"}})

(* Once StopServer is done waiting no AcceptEx is outstanding, although    *)
(* the wait passes over a slot that looks ready while a worker is still    *)
(* posting on it: the slot's memory is deleted soon after.                 *)
NoAcceptAfterStop ==
    pc[Main] \in {"listen", "stop", "ended"} => \A s \in Slots : Outstanding(s) = 0

(* StopServer comes to an end, without the time limit of its wait: every   *)
(* count it waits for goes back to 0 by itself.                            *)
StopEnds == shutdown ~> pc[Main] = "ended"

(* A slot without an AcceptEx has one again some time, whatever failed on  *)
(* the way: this is what PostAccept counts on when it gives up at once     *)
(* instead of trying again.                                                *)
SlotsComeBack == \A s \in Slots : Outstanding(s) = 0 ~> (Outstanding(s) = 1 \/ shutdown)

(* PostAccept never writes a new socket over one that is still open, whose *)
(* handle would be lost: the reason AcceptSession.h gives for m_slotOwned. *)
NoHandleIsOverwritten ==
    [][\A t \in Threads :
          pc[t] = "create" /\ pc'[t] = "raise" => ~socket[slot[t]]]_vars
=============================================================================
