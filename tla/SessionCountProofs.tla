-------------------------- MODULE SessionCountProofs --------------------------
(* Proofs about the count of SessionLifecycle, for any threads: it is what *)
(* is held; and what it keeps apart on a settled session: a connection,    *)
(* its release and the next connection of the same session.                *)
EXTENDS SessionLifecycleProofs

USE DEF poolVars, ioVars, kernelVars, connVars, svcVars

-----------------------------------------------------------------------------
(* What a thread does, where it is and where it returns to fit together.   *)

Handlers == {"accept", "recv", "reject", "send"}

(* Step l is one that a thread with task k comes through.                  *)
Fits(l, k) ==
    /\ l \in {"attach", "hold", "connect", "announce", "onConnect",
              "connectFailed"} => k.op = "accept"
    /\ l \in {"parse", "checkPending", "recvNotPosted"} => k.op = "recv"
    /\ l = "drop" => k.op = "reject"
    /\ l = "sendDone" => k.op = "send"
    /\ l \in {"zombieNote", "zombieMark"} => k.op = "zombie"
    /\ l = "finish" => k.op \in Handlers
    /\ l \in {"trySend", "sendGate"} =>
         k.op \in {"recv", "reject", "send", "enqueue"}
    /\ l = "postRecv" => k.op \in {"accept", "recv"} /\ k.io = "recv"
    /\ l \in {"begin", "gate", "post", "undoIO"} =>
         \/ k.io = "send" /\ k.op \in {"recv", "reject", "send", "enqueue"}
         \/ k.io = "recv" /\ k.op \in {"accept", "recv"}

(* The steps of Release, and those of a thread that is about to complete a *)
(* release, or does.                                                       *)
InRelease  == {"release", "readCount", "claim"} \cup ReleasePcs
InComplete == {"token"} \cup CompletePcs

TaskFits(t) ==
    /\ Fits(pc[t], task[t])
    /\ task[t].op = "accept" => task[t].io = "recv"
    /\ pc[t] \in InRelease \cup InComplete => Fits(ret[t], task[t])
    /\ pc[t] \in InRelease =>
         \/ ret[t] \in {"finish", "undoIO"}
         \/ ret[t] = "idle" /\ task[t].op = "zombie"
    /\ pc[t] = "token" => ret[t] # "undoIO"

TasksFit == \A t \in Threads : TaskFits(t)

(* The holders of a count, whatever the session they work on.              *)
HasCount(t) ==
    /\ pc[t] # "idle" /\ task[t].op \in Handlers
    /\ pc[t] \notin {"attach", "hold"}
    /\ ~(pc[t] \in InComplete /\ ret[t] = "idle")

HasIoCount(t) ==
    \/ pc[t] \in {"gate", "post", "undoIO"}
    \/ pc[t] \in InRelease \cup CompletePcs /\ ret[t] = "undoIO"

Weight(t, s) == (IF HandlerHolds(t, s) THEN 1 ELSE 0)
                + (IF IoHolds(t, s) THEN 1 ELSE 0)

Operations(s) == Outstanding(s, "recv") + Outstanding(s, "send")

(* What a step of t does to a count, it does to what is held.              *)
Balanced(t) ==
    /\ \A u \in Threads \ {t} : /\ pc'[u] = pc[u] /\ ses'[u] = ses[u]
                                 /\ ret'[u] = ret[u] /\ task'[u] = task[u]
    /\ TaskFits(t)'
    /\ \A s \in Sessions :
         ioCount'[s] = ioCount[s] + Operations(s)' - Operations(s)
                                  + Weight(t, s)' - Weight(t, s)

LEMMA CountChange ==
    ASSUME NEW A \in SUBSET Threads, NEW B \in SUBSET Threads,
           NEW t \in Threads, \A u \in Threads \ {t} : u \in A <=> u \in B
    PROVE  /\ Cardinality(A) \in Nat /\ Cardinality(B) \in Nat
           /\ Cardinality(B) = Cardinality(A) + (IF t \in B THEN 1 ELSE 0)
                                             - (IF t \in A THEN 1 ELSE 0)
  <1>1. IsFiniteSet(A) /\ IsFiniteSet(B)
    BY ThreadsAssumption, FS_Subset
  <1>2. Cardinality(A) \in Nat /\ Cardinality(B) \in Nat
    BY <1>1, FS_CardinalityType
  <1>3. CASE t \in A /\ t \notin B
    <2>1. B = A \ {t}
      BY <1>3
    <2>. QED
      BY <1>1, <1>2, <1>3, <2>1, FS_RemoveElement
  <1>4. CASE t \notin A /\ t \in B
    <2>1. B = A \cup {t}
      BY <1>4
    <2>. QED
      BY <1>1, <1>2, <1>4, <2>1, FS_AddElement
  <1>5. CASE t \in A <=> t \in B
    <2>1. A = B
      BY <1>5
    <2>. QED
      BY <1>2, <2>1
  <1>. QED
    BY <1>3, <1>4, <1>5

LEMMA Holders ==
    ASSUME NEW t \in Threads, NEW s \in Sessions
    PROVE  /\ HandlerHolds(t, s) <=> ses[t] = s /\ HasCount(t)
           /\ IoHolds(t, s) <=> ses[t] = s /\ HasIoCount(t)
           /\ HandlerHolds(t, s)' <=> ses'[t] = s /\ HasCount(t)'
           /\ IoHolds(t, s)' <=> ses'[t] = s /\ HasIoCount(t)'
  BY DEF HandlerHolds, IoHolds, HasCount, HasIoCount, Handlers, InRelease,
         InComplete, OwnerPcs

LEMMA OperationsType ==
    ASSUME TypeOK, NEW s \in Sessions
    PROVE  Operations(s) \in Int
  <1>. "recv" \in Kinds /\ "send" \in Kinds
    BY DEF Kinds
  <1>1. live[s] \in [Kinds -> Nat] /\ dying[s] \in [Kinds -> Nat]
    BY DEF TypeOK
  <1>. QED
    BY <1>1 DEF Operations, Outstanding

LEMMA Balance ==
    ASSUME TypeOK, TypeOK', TasksFit, CountIsHeld, NEW t \in Threads,
           Balanced(t)
    PROVE  TasksFit' /\ CountIsHeld'
  <1>1. TasksFit'
    BY DEF Balanced, TasksFit, TaskFits
  <1>2. ASSUME NEW s \in Sessions
        PROVE  ioCount'[s] = Outstanding(s, "recv")' + Outstanding(s, "send")'
                   + Cardinality({u \in Threads : HandlerHolds(u, s)})'
                   + Cardinality({u \in Threads : IoHolds(u, s)})'
    <2>. DEFINE H == {u \in Threads : HandlerHolds(u, s)}
                I == {u \in Threads : IoHolds(u, s)}
    <2>1. \A u \in Threads \ {t} :
             /\ HandlerHolds(u, s)' <=> HandlerHolds(u, s)
             /\ IoHolds(u, s)' <=> IoHolds(u, s)
      <3>. SUFFICES ASSUME NEW u \in Threads \ {t}
                    PROVE  /\ HandlerHolds(u, s)' <=> HandlerHolds(u, s)
                           /\ IoHolds(u, s)' <=> IoHolds(u, s)
        BY DEF HandlerHolds, IoHolds
      <3>1. /\ pc'[u] = pc[u] /\ ses'[u] = ses[u]
            /\ ret'[u] = ret[u] /\ task'[u] = task[u]
        BY DEF Balanced
      <3>. QED
        BY <3>1 DEF HandlerHolds, IoHolds
    <2>a. /\ H \in SUBSET Threads /\ H' \in SUBSET Threads
          /\ I \in SUBSET Threads /\ I' \in SUBSET Threads
          /\ \A u \in Threads \ {t} : /\ u \in H <=> u \in H'
                                      /\ u \in I <=> u \in I'
      BY <2>1 DEF HandlerHolds, IoHolds
    <2>4. /\ Weight(t, s) = (IF t \in H THEN 1 ELSE 0)
                            + (IF t \in I THEN 1 ELSE 0)
          /\ Weight(t, s)' = (IF t \in H' THEN 1 ELSE 0)
                             + (IF t \in I' THEN 1 ELSE 0)
      BY DEF Weight
    <2>. HIDE DEF H, I
    <2>2. /\ Cardinality(H) \in Nat /\ Cardinality(H') \in Nat
          /\ Cardinality(H') = Cardinality(H) + (IF t \in H' THEN 1 ELSE 0)
                                              - (IF t \in H THEN 1 ELSE 0)
      BY <2>a, CountChange
    <2>3. /\ Cardinality(I) \in Nat /\ Cardinality(I') \in Nat
          /\ Cardinality(I') = Cardinality(I) + (IF t \in I' THEN 1 ELSE 0)
                                              - (IF t \in I THEN 1 ELSE 0)
      BY <2>a, CountChange
    <2>5. Cardinality(H') - Cardinality(H) + Cardinality(I') - Cardinality(I)
            = Weight(t, s)' - Weight(t, s)
      BY <2>2, <2>3, <2>4
    <2>6. ioCount[s] = Operations(s) + Cardinality(H) + Cardinality(I)
      BY DEF CountIsHeld, H, I, Operations
    <2>7. ioCount'[s] = ioCount[s] + Operations(s)' - Operations(s)
                        + Weight(t, s)' - Weight(t, s)
      BY DEF Balanced
    <2>8. /\ Operations(s) \in Int /\ ioCount[s] \in Int
          /\ Weight(t, s) \in Int /\ Weight(t, s)' \in Int
          /\ Operations(s)' \in Int
      <3>. "recv" \in Kinds /\ "send" \in Kinds
        BY DEF Kinds
      <3>1. /\ live[s] \in [Kinds -> Nat] /\ dying[s] \in [Kinds -> Nat]
            /\ live'[s] \in [Kinds -> Nat] /\ dying'[s] \in [Kinds -> Nat]
            /\ ioCount[s] \in Int
        BY DEF TypeOK
      <3>2. Operations(s) \in Int /\ Operations(s)' \in Int
        BY <3>1 DEF Operations, Outstanding
      <3>3. Weight(t, s) \in Int /\ Weight(t, s)' \in Int
        BY DEF Weight
      <3>. QED
        BY <3>1, <3>2, <3>3
    <2>9. ioCount'[s] = Operations(s)' + Cardinality(H') + Cardinality(I')
      BY <2>2, <2>3, <2>5, <2>6, <2>7, <2>8
    <2>. QED
      BY <2>9 DEF H, I, Operations
  <1>. QED
    BY <1>1, <1>2 DEF CountIsHeld

(* A step of t stays with t and with the session t works on.               *)
Local(t) ==
    /\ ses' = ses /\ lease' = lease
    /\ \A u \in Threads \ {t} :
         pc'[u] = pc[u] /\ ret'[u] = ret[u] /\ task'[u] = task[u]
    /\ \A x \in Sessions \ {ses[t]} :
         /\ poolState'[x] = poolState[x] /\ ioCount'[x] = ioCount[x]
         /\ cancelIo'[x] = cancelIo[x] /\ socket'[x] = socket[x]
         /\ state'[x] = state[x] /\ reason'[x] = reason[x]
         /\ sending'[x] = sending[x] /\ latch'[x] = latch[x]
         /\ announced'[x] = announced[x]
         /\ live'[x] = live[x] /\ dying'[x] = dying[x]
         /\ x \in overtaken' <=> x \in overtaken
    /\ overtaken \subseteq overtaken'

LEMMA LocalRelease ==
    ASSUME TypeOK, NEW t \in Threads, ReleaseStep(t)
    PROVE  Local(t)
  <1>. USE DEF TypeOK, Local, Jump
  <1>1. CASE ReleaseCas(t)
    BY <1>1 DEF ReleaseCas
  <1>2. CASE CancelPendingIO(t)
    BY <1>2 DEF CancelPendingIO
  <1>3. CASE CancelIoEx(t)
    BY <1>3 DEF CancelIoEx, AbortOperations
  <1>4. CASE Reserve(t)
    BY <1>4 DEF Reserve
  <1>5. CASE ReadCount(t)
    BY <1>5 DEF ReadCount
  <1>6. CASE Claim(t)
    BY <1>6 DEF Claim
  <1>. QED
    BY <1>1, <1>2, <1>3, <1>4, <1>5, <1>6 DEF ReleaseStep

LEMMA LocalComplete ==
    ASSUME TypeOK, NEW t \in Threads, CompleteReleaseStep(t)
    PROVE  Local(t)
  <1>. USE DEF TypeOK, Local, Jump
  <1>1. CASE CloseSocket(t)
    BY <1>1 DEF CloseSocket, AbortOperations
  <1>2. CASE NotifyService(t)
    BY <1>2 DEF NotifyService
  <1>3. CASE OnDisconnect(t)
    BY <1>3 DEF OnDisconnect
  <1>4. CASE ResetBase(t)
    BY <1>4 DEF ResetBase, NoteOvertaken
  <1>5. CASE ResetClient(t)
    BY <1>5 DEF ResetClient
  <1>6. CASE PushFree(t)
    BY <1>6 DEF PushFree
  <1>. QED
    BY <1>1, <1>2, <1>3, <1>4, <1>5, <1>6 DEF CompleteReleaseStep

LEMMA LocalIo ==
    ASSUME TypeOK, NEW t \in Threads, IoStep(t)
    PROVE  Local(t)
  <1>. USE DEF TypeOK, Local, Jump
  <1>1. CASE PostReceive(t)
    BY <1>1 DEF PostReceive
  <1>2. CASE BeginIO(t)
    BY <1>2 DEF BeginIO, NoteOvertaken
  <1>3. CASE Gate(t)
    BY <1>3 DEF Gate
  <1>4. CASE PostSucceeds(t)
    BY <1>4 DEF PostSucceeds
  <1>5. CASE PostFails(t)
    BY <1>5 DEF PostFails, NoteReason, CallRelease
  <1>6. CASE TrySendNext(t)
    BY <1>6 DEF TrySendNext
  <1>7. CASE SendGate(t)
    BY <1>7 DEF SendGate
  <1>8. CASE UndoIO(t)
    BY <1>8 DEF UndoIO, DecrementIO
  <1>. QED
    BY <1>1, <1>2, <1>3, <1>4, <1>5, <1>6, <1>7, <1>8 DEF IoStep

LEMMA LocalAccept ==
    ASSUME TypeOK, NEW t \in Threads, AcceptStep(t)
    PROVE  Local(t)
  <1>. USE DEF TypeOK, Local, Jump
  <1>1. CASE AttachSocket(t)
    BY <1>1 DEF AttachSocket
  <1>2. CASE HoldForConnect(t)
    BY <1>2 DEF HoldForConnect
  <1>3. CASE AcceptStarved(t)
    BY <1>3 DEF AcceptStarved
  <1>4. CASE Connect(t)
    BY <1>4 DEF Connect
  <1>5. CASE MarkNotified(t)
    BY <1>5 DEF MarkNotified
  <1>6. CASE OnClientConnect(t)
    BY <1>6 DEF OnClientConnect
  <1>7. CASE ConnectFailed(t)
    BY <1>7 DEF ConnectFailed, NoteReason, CallRelease
  <1>. QED
    BY <1>1, <1>2, <1>3, <1>4, <1>5, <1>6, <1>7 DEF AcceptStep

LEMMA LocalHandler ==
    ASSUME TypeOK, NEW t \in Threads, HandlerStep(t)
    PROVE  Local(t)
  <1>. USE DEF TypeOK, Local, Jump
  <1>1. CASE ParseDone(t)
    BY <1>1 DEF ParseDone
  <1>2. CASE ParseReply(t)
    BY <1>2 DEF ParseReply
  <1>3. CASE ParseReject(t)
    BY <1>3 DEF ParseReject, NoteReason
  <1>4. CASE ParseBad(t)
    BY <1>4 DEF ParseBad, NoteReason, CallRelease
  <1>5. CASE DropRejected(t)
    BY <1>5 DEF DropRejected, CallRelease
  <1>6. CASE CheckPending(t)
    BY <1>6 DEF CheckPending
  <1>7. CASE RecvNotPosted(t)
    BY <1>7 DEF RecvNotPosted, NoteReason, CallRelease
  <1>8. CASE SendRest(t)
    BY <1>8 DEF SendRest
  <1>9. CASE SendNext(t)
    BY <1>9 DEF SendNext
  <1>. QED
    BY <1>1, <1>2, <1>3, <1>4, <1>5, <1>6, <1>7, <1>8, <1>9 DEF HandlerStep

LEMMA LocalStep ==
    ASSUME TypeOK, NEW t \in Threads, Step(t)
    PROVE  Local(t)
  <1>1. CASE Finish(t)
    BY <1>1 DEF TypeOK, Local, Jump, Finish, DecrementIO
  <1>2. CASE TakeToken(t)
    BY <1>2 DEF TypeOK, Local, Jump, TakeToken
  <1>3. CASE NoteZombie(t) \/ MarkZombie(t)
    BY <1>3 DEF TypeOK, Local, Jump, NoteZombie, MarkZombie, NoteReason,
       CallRelease
  <1>. QED
    BY <1>1, <1>2, <1>3, LocalRelease, LocalComplete, LocalIo, LocalAccept,
       LocalHandler DEF Step

(* Most steps leave what their thread holds as it is.                      *)
Keeps(t) ==
    /\ TaskFits(t)'
    /\ HasCount(t)' <=> HasCount(t)
    /\ HasIoCount(t)' <=> HasIoCount(t)

LEMMA KeepsBalance ==
    ASSUME TypeOK, NEW t \in Threads, Local(t), Keeps(t), ioCount' = ioCount,
           \A s \in Sessions : Operations(s)' = Operations(s)
    PROVE  Balanced(t)
  <1>1. ASSUME NEW s \in Sessions
        PROVE  ioCount'[s] = ioCount[s] + Operations(s)' - Operations(s)
                               + Weight(t, s)' - Weight(t, s)
    <2>1. Weight(t, s)' = Weight(t, s) /\ Weight(t, s) \in Int
      <3>1. ses' = ses
        BY DEF Local
      <3>2. /\ HandlerHolds(t, s)' <=> HandlerHolds(t, s)
            /\ IoHolds(t, s)' <=> IoHolds(t, s)
        BY <3>1, Holders DEF Keeps
      <3>. QED
        BY <3>2 DEF Weight
    <2>2. Operations(s)' = Operations(s) /\ ioCount' = ioCount
      OBVIOUS
    <2>3. Operations(s) \in Int /\ ioCount[s] \in Int
      BY OperationsType DEF TypeOK
    <2>. QED
      BY <2>1, <2>2, <2>3
  <1>. QED
    BY <1>1 DEF Balanced, Local, Keeps

LEMMA AbortKeeps ==
    ASSUME TypeOK, NEW s \in Sessions, AbortOperations(s)
    PROVE  \A x \in Sessions : Operations(x)' = Operations(x)
  <1>. TAKE x \in Sessions
  <1>. "recv" \in Kinds /\ "send" \in Kinds
    BY DEF Kinds
  <1>1. /\ live[x] \in [Kinds -> Nat] /\ dying[x] \in [Kinds -> Nat]
    BY DEF TypeOK
  <1>2. \A k \in Kinds : live'[x][k] + dying'[x][k] = live[x][k] + dying[x][k]
    <2>1. live \in [Sessions -> [Kinds -> Nat]]
          /\ dying \in [Sessions -> [Kinds -> Nat]]
      BY DEF TypeOK
    <2>. QED
      BY <1>1, <2>1 DEF AbortOperations
  <1>. QED
    BY <1>2 DEF Operations, Outstanding

LEMMA JumpTo ==
    ASSUME TypeOK, NEW t \in Threads, NEW l \in Pcs, Jump(t, l)
    PROVE  /\ pc'[t] = l
           /\ \/ task'[t] = task[t]
              \/ l = "idle" /\ task'[t].op = "none"
  <1>1. pc \in [Threads -> Pcs] /\ DOMAIN task = Threads
    BY DEF TypeOK
  <1>2. pc'[t] = l
    BY <1>1 DEF Jump
  <1>3. CASE l = "idle"
    BY <1>1, <1>2, <1>3 DEF Jump, NoTask
  <1>4. CASE l # "idle"
    <2>1. task' = task
      BY <1>4 DEF Jump
    <2>. QED
      BY <1>2, <2>1
  <1>. QED
    BY <1>3, <1>4

(* Going on with a release, completing it, and returning from either.      *)
LEMMA JumpInRelease ==
    ASSUME TypeOK, NEW t \in Threads, TaskFits(t), pc[t] \in InRelease,
           NEW l \in InRelease, Jump(t, l), ret' = ret
    PROVE  Keeps(t)
  <1>. USE DEF TypeOK, Keeps, TaskFits, Fits, Handlers, HasCount, HasIoCount,
       InRelease, InComplete, ReleasePcs, CompletePcs, ReturnPcs
  <1>1. l \in Pcs /\ l # "idle"
    BY Steps DEF Pcs, OwnerPcs, TokenPcs
  <1>2. pc'[t] = l /\ task'[t] = task[t]
    BY <1>1, JumpTo
  <1>. QED
    BY <1>2

LEMMA JumpToComplete ==
    ASSUME TypeOK, NEW t \in Threads, TaskFits(t),
           \/ pc[t] = "claim" \/ pc[t] \in InComplete,
           NEW l \in CompletePcs, Jump(t, l), ret' = ret
    PROVE  Keeps(t)
  <1>. USE DEF TypeOK, Keeps, TaskFits, Fits, Handlers, HasCount, HasIoCount,
       InRelease, InComplete, ReleasePcs, CompletePcs, ReturnPcs
  <1>1. l \in Pcs /\ l # "idle"
    BY Steps DEF Pcs, OwnerPcs
  <1>2. pc'[t] = l /\ task'[t] = task[t]
    BY <1>1, JumpTo
  <1>3. CASE pc[t] = "claim"
    BY <1>2, <1>3
  <1>4. CASE pc[t] \in InComplete
    BY <1>2, <1>4
  <1>. QED
    BY <1>3, <1>4

LEMMA JumpBack ==
    ASSUME TypeOK, NEW t \in Threads, TaskFits(t),
           pc[t] \in InRelease \cup InComplete, Jump(t, ret[t]), ret' = ret
    PROVE  Keeps(t)
  <1>. USE DEF TypeOK, Keeps, TaskFits, Fits, Handlers, HasCount, HasIoCount,
       InRelease, InComplete, ReleasePcs, CompletePcs, ReturnPcs
  <1>1. ret[t] \in Pcs /\ ret[t] \in ReturnPcs
    BY Steps
  <1>2. /\ pc'[t] = ret[t]
        /\ \/ task'[t] = task[t]
           \/ ret[t] = "idle" /\ task'[t].op = "none"
    BY <1>1, JumpTo
  <1>3. CASE ret[t] = "idle"
    BY <1>2, <1>3
  <1>4. CASE ret[t] # "idle"
    BY <1>1, <1>2, <1>4
  <1>. QED
    BY <1>3, <1>4

LEMMA KeepsRelease ==
    ASSUME TypeOK, TasksFit, NEW t \in Threads,
           \/ ReleaseStep(t) \/ CompleteReleaseStep(t) \/ TakeToken(t)
    PROVE  Keeps(t)
  <1>0. TaskFits(t)
    BY DEF TasksFit
  <1>1. {"cancel", "cancelIoEx", "reserve", "readCount", "claim", "release"}
           \subseteq InRelease
    BY DEF InRelease, ReleasePcs
  <1>2. /\ {"close", "notify", "disconnect", "resetBase", "resetClient",
            "pushFree"} \subseteq CompletePcs
        /\ {"token"} \cup CompletePcs \subseteq InComplete
    BY DEF CompletePcs, InComplete
  <1>. USE <1>0, <1>1, <1>2, JumpInRelease, JumpToComplete, JumpBack
  <1>3. CASE ReleaseStep(t)
    <2>1. CASE ReleaseCas(t) \/ CancelPendingIO(t) \/ CancelIoEx(t)
      BY <2>1 DEF ReleaseCas, CancelPendingIO, CancelIoEx
    <2>2. CASE Reserve(t) \/ ReadCount(t) \/ Claim(t)
      BY <2>2 DEF Reserve, ReadCount, Claim
    <2>. QED
      BY <1>3, <2>1, <2>2 DEF ReleaseStep
  <1>4. CASE CompleteReleaseStep(t)
    <2>1. CASE CloseSocket(t) \/ NotifyService(t) \/ OnDisconnect(t)
      BY <2>1 DEF CloseSocket, NotifyService, OnDisconnect
    <2>2. CASE ResetBase(t) \/ ResetClient(t) \/ PushFree(t)
      BY <2>2 DEF ResetBase, ResetClient, PushFree
    <2>. QED
      BY <1>4, <2>1, <2>2 DEF CompleteReleaseStep
  <1>5. CASE TakeToken(t)
    BY <1>5 DEF TakeToken
  <1>. QED
    BY <1>3, <1>4, <1>5

(* Leaving TrySendNext.                                                    *)
LEMMA JumpAfterSend ==
    ASSUME TypeOK, NEW t \in Threads, TaskFits(t),
           pc[t] \in {"trySend", "sendGate"}, Jump(t, AfterSend(t)), ret' = ret
    PROVE  Keeps(t)
  <1>. USE DEF TypeOK, Keeps, TaskFits, Fits, Handlers, HasCount, HasIoCount,
       InRelease, InComplete, ReleasePcs, CompletePcs, ReturnPcs
  <1>1. /\ pc'[t] = AfterSend(t)
        /\ \/ task'[t] = task[t]
           \/ AfterSend(t) = "idle" /\ task'[t].op = "none"
    BY Returns, JumpTo
  <1>2. CASE AfterSend(t) = "idle"
    BY <1>1, <1>2 DEF AfterSend
  <1>3. CASE AfterSend(t) # "idle"
    BY <1>1, <1>3 DEF AfterSend
  <1>. QED
    BY <1>2, <1>3

LEMMA KeepsIo ==
    ASSUME TypeOK, TasksFit, NEW t \in Threads,
           \/ PostReceive(t) \/ Gate(t) \/ PostFails(t)
           \/ TrySendNext(t) \/ SendGate(t)
    PROVE  Keeps(t)
  <1>0. TaskFits(t) /\ pc[t] \in Pcs /\ ret[t] \in ReturnPcs
    BY DEF TypeOK, TasksFit
  <1>. USE <1>0 DEF TypeOK, Keeps, TaskFits, Fits, Handlers, HasCount, HasIoCount,
       InRelease, InComplete, ReleasePcs, CompletePcs, ReturnPcs, Jump
  <1>1. CASE PostReceive(t)
    BY <1>1 DEF PostReceive, NotPosted, AfterSend
  <1>2. CASE Gate(t)
    BY <1>2 DEF Gate
  <1>3. CASE PostFails(t)
    BY <1>3 DEF PostFails, CallRelease
  <1>4. CASE TrySendNext(t)
    <2>1. Jump(t, "sendGate") \/ Jump(t, AfterSend(t))
      BY <1>4 DEF TrySendNext
    <2>2. CASE Jump(t, "sendGate")
      <3>1. pc[t] = "trySend" /\ pc'[t] = "sendGate" /\ task' = task
        BY <1>4, <2>2 DEF TrySendNext
      <3>. QED
        BY <1>4, <3>1 DEF TrySendNext
    <2>. QED
      BY <1>0, <1>4, <2>1, <2>2, JumpAfterSend DEF TrySendNext
  <1>5. CASE SendGate(t)
    <2>1. CASE Jump(t, AfterSend(t))
      BY <1>0, <1>5, <2>1, JumpAfterSend DEF SendGate
    <2>2. CASE /\ pc' = [pc EXCEPT ![t] = "begin"]
               /\ task' = [task EXCEPT ![t].io = "send"]
      <3>1. /\ pc[t] = "sendGate" /\ pc'[t] = "begin"
            /\ task'[t].op = task[t].op /\ task'[t].io = "send"
        BY <1>5, <2>2 DEF SendGate
      <3>. QED
        BY <3>1
    <2>. QED
      BY <1>5, <2>1, <2>2 DEF SendGate
  <1>. QED
    BY <1>1, <1>2, <1>3, <1>4, <1>5

LEMMA KeepsAccept ==
    ASSUME TypeOK, TasksFit, NEW t \in Threads,
           \/ AttachSocket(t) \/ AcceptStarved(t) \/ Connect(t)
           \/ MarkNotified(t) \/ OnClientConnect(t) \/ ConnectFailed(t)
    PROVE  Keeps(t)
  <1>0. TaskFits(t) /\ pc[t] \in Pcs /\ ret[t] \in ReturnPcs
    BY DEF TypeOK, TasksFit
  <1>. USE <1>0 DEF TypeOK, Keeps, TaskFits, Fits, Handlers, HasCount, HasIoCount,
       InRelease, InComplete, ReleasePcs, CompletePcs, ReturnPcs, Jump
  <1>1. CASE AttachSocket(t)
    BY <1>1 DEF AttachSocket
  <1>2. CASE AcceptStarved(t)
    <2>1. /\ pc[t] = "hold" /\ pc'[t] = "idle" /\ task'[t].op = "none"
          /\ ret' = ret
      BY <1>2 DEF AcceptStarved, NoTask
    <2>. QED
      BY <2>1
  <1>3. CASE Connect(t)
    <2>1. CASE Jump(t, "postRecv")
      BY <1>3, <2>1 DEF Connect
    <2>2. CASE Jump(t, "connectFailed")
      BY <1>3, <2>2 DEF Connect
    <2>. QED
      BY <1>3, <2>1, <2>2 DEF Connect
  <1>4. CASE MarkNotified(t)
    BY <1>4 DEF MarkNotified
  <1>5. CASE OnClientConnect(t)
    BY <1>5 DEF OnClientConnect
  <1>6. CASE ConnectFailed(t)
    BY <1>6 DEF ConnectFailed, CallRelease
  <1>. QED
    BY <1>1, <1>2, <1>3, <1>4, <1>5, <1>6

LEMMA KeepsHandler ==
    ASSUME TypeOK, TasksFit, NEW t \in Threads,
           \/ ParseDone(t) \/ ParseReply(t) \/ ParseReject(t)
           \/ ParseBad(t) \/ DropRejected(t) \/ CheckPending(t)
           \/ RecvNotPosted(t) \/ SendRest(t) \/ SendNext(t)
           \/ NoteZombie(t) \/ MarkZombie(t)
    PROVE  Keeps(t)
  <1>0. TaskFits(t) /\ pc[t] \in Pcs /\ ret[t] \in ReturnPcs
    BY DEF TypeOK, TasksFit
  <1>. USE <1>0 DEF TypeOK, Keeps, TaskFits, Fits, Handlers, HasCount, HasIoCount,
       InRelease, InComplete, ReleasePcs, CompletePcs, ReturnPcs, Jump
  <1>1. CASE ParseDone(t)
    BY <1>1 DEF ParseDone
  <1>2. CASE ParseReply(t)
    BY <1>2 DEF ParseReply
  <1>3. CASE ParseReject(t)
    BY <1>3 DEF ParseReject
  <1>4. CASE ParseBad(t)
    BY <1>4 DEF ParseBad, CallRelease
  <1>5. CASE DropRejected(t)
    BY <1>5 DEF DropRejected, CallRelease
  <1>6. CASE CheckPending(t)
    <2>1. CASE Jump(t, "finish")
      BY <1>6, <2>1 DEF CheckPending
    <2>2. CASE /\ pc' = [pc EXCEPT ![t] = "postRecv"]
               /\ task' = [task EXCEPT ![t].io = "recv"]
      <3>1. /\ pc[t] = "checkPending" /\ pc'[t] = "postRecv"
            /\ task'[t].op = task[t].op /\ task'[t].io = "recv"
        BY <1>6, <2>2 DEF CheckPending
      <3>. QED
        BY <3>1
    <2>. QED
      BY <1>6, <2>1, <2>2 DEF CheckPending
  <1>7. CASE RecvNotPosted(t)
    <2>1. CASE Jump(t, "finish") /\ ret' = ret
      <3>1. pc[t] = "recvNotPosted" /\ pc'[t] = "finish" /\ task' = task
        BY <1>7, <2>1 DEF RecvNotPosted
      <3>. QED
        BY <2>1, <3>1
    <2>2. CASE CallRelease(t, "finish") /\ task' = task
      <3>1. /\ pc[t] = "recvNotPosted" /\ pc'[t] = "release"
            /\ ret'[t] = "finish"
        BY <1>7, <2>2 DEF RecvNotPosted, CallRelease
      <3>. QED
        BY <2>2, <3>1
    <2>. QED
      BY <1>7, <2>1, <2>2 DEF RecvNotPosted
  <1>8. CASE SendRest(t)
    BY <1>8 DEF SendRest
  <1>9. CASE SendNext(t)
    BY <1>9 DEF SendNext
  <1>10. CASE NoteZombie(t)
    BY <1>10 DEF NoteZombie
  <1>11. CASE MarkZombie(t)
    BY <1>11 DEF MarkZombie, CallRelease
  <1>. QED
    BY <1>1, <1>2, <1>3, <1>4, <1>5, <1>6, <1>7, <1>8, <1>9, <1>10, <1>11

-----------------------------------------------------------------------------
(* The steps that move a count.                                            *)

LEMMA LocalBalance ==
    ASSUME TypeOK, NEW t \in Threads, NEW s \in Sessions, s = ses[t],
           Local(t), TaskFits(t)',
           ioCount'[s] = ioCount[s] + Operations(s)' - Operations(s)
                           + Weight(t, s)' - Weight(t, s)
    PROVE  Balanced(t)
  <1>1. ses' = ses
    BY DEF Local
  <1>2. ASSUME NEW x \in Sessions \ {s}
        PROVE  ioCount'[x] = ioCount[x] + Operations(x)' - Operations(x)
                               + Weight(t, x)' - Weight(t, x)
    <2>1. Weight(t, x)' = 0 /\ Weight(t, x) = 0
      BY <1>1, Holders DEF Weight
    <2>2. Operations(x)' = Operations(x) /\ ioCount'[x] = ioCount[x]
      BY DEF Local, Operations, Outstanding
    <2>3. Operations(x) \in Int /\ ioCount[x] \in Int
      BY OperationsType DEF TypeOK
    <2>. QED
      BY <2>1, <2>2, <2>3
  <1>3. \A x \in Sessions :
           ioCount'[x] = ioCount[x] + Operations(x)' - Operations(x)
                           + Weight(t, x)' - Weight(t, x)
    BY <1>2
  <1>. QED
    BY <1>1, <1>3 DEF Balanced, Local

LEMMA BalanceBegin ==
    ASSUME TypeOK, TasksFit, NEW t \in Threads, BeginIO(t)
    PROVE  Balanced(t)
  <1>. PICK s \in Sessions : s = ses[t]
    BY DEF TypeOK
  <1>1. Local(t)
    BY LocalIo DEF IoStep
  <1>2. /\ pc[t] = "begin" /\ pc'[t] = "gate" /\ task' = task /\ ret' = ret
        /\ ses' = ses /\ ioCount'[s] = ioCount[s] + 1
        /\ live' = live /\ dying' = dying
    BY DEF BeginIO, Jump, TypeOK
  <1>3. /\ TaskFits(t)' /\ HasIoCount(t)' /\ ~HasIoCount(t)
        /\ HasCount(t)' <=> HasCount(t)
    BY <1>2 DEF TasksFit, TaskFits, Fits, HasIoCount, HasCount, InRelease,
       InComplete, ReleasePcs, CompletePcs
  <1>4. Weight(t, s)' = Weight(t, s) + 1 /\ Weight(t, s) \in Int
    BY <1>2, <1>3, Holders DEF Weight
  <1>5. /\ Operations(s)' = Operations(s)
        /\ Operations(s) \in Int /\ ioCount[s] \in Int
    BY <1>2, OperationsType DEF TypeOK, Operations, Outstanding
  <1>6. ioCount'[s] = ioCount[s] + Operations(s)' - Operations(s)
                        + Weight(t, s)' - Weight(t, s)
    BY <1>2, <1>4, <1>5
  <1>. QED
    BY <1>1, <1>3, <1>6, LocalBalance

LEMMA BalancePost ==
    ASSUME TypeOK, TasksFit, NEW t \in Threads, PostSucceeds(t)
    PROVE  Balanced(t)
  <1>. PICK s \in Sessions : s = ses[t]
    BY DEF TypeOK
  <1>1. Local(t)
    BY LocalIo DEF IoStep
  <1>2. /\ pc[t] = "post" /\ ret' = ret /\ ses' = ses /\ ioCount' = ioCount
        /\ Jump(t, Posted(t)) /\ dying' = dying
        /\ live' = [live EXCEPT ![s][task[t].io] = @ + 1]
    BY DEF PostSucceeds
  <1>3. /\ pc'[t] = Posted(t)
        /\ \/ task'[t] = task[t]
           \/ Posted(t) = "idle" /\ task'[t].op = "none"
    BY <1>2, Returns, JumpTo
  <1>4. \/ task[t].op \in Handlers /\ Posted(t) # "idle"
        \/ task[t].op = "enqueue" /\ Posted(t) = "idle"
    BY <1>2 DEF TasksFit, TaskFits, Fits, Posted, AfterSend, Handlers
  <1>5. TaskFits(t)' /\ ~HasIoCount(t)' /\ (HasCount(t)' <=> HasCount(t))
    <2>1. CASE task[t].op = "enqueue" /\ Posted(t) = "idle"
      BY <1>2, <1>3, <2>1 DEF TasksFit, TaskFits, Fits, HasIoCount, HasCount,
         InRelease, InComplete, ReleasePcs, CompletePcs, Handlers
    <2>2. CASE task[t].op \in Handlers /\ Posted(t) # "idle"
      <3>1. task'[t] = task[t]
        BY <1>3, <2>2
      <3>2. /\ pc'[t] \in {"announce", "finish", "parse", "drop"}
            /\ Fits(pc'[t], task[t])
        BY <1>2, <1>3, <2>2 DEF TasksFit, TaskFits, Fits, Posted, AfterSend,
           Handlers
      <3>3. TaskFits(t)'
        BY <1>2, <3>1, <3>2 DEF TasksFit, TaskFits, InRelease, InComplete,
           ReleasePcs, CompletePcs
      <3>. QED
        BY <1>2, <3>1, <3>2, <3>3, <2>2 DEF HasIoCount, HasCount,
           InRelease, InComplete, ReleasePcs, CompletePcs
    <2>. QED
      BY <1>4, <2>1, <2>2
  <1>6. HasIoCount(t)
    BY <1>2 DEF HasIoCount
  <1>7. Weight(t, s)' = Weight(t, s) - 1 /\ Weight(t, s) \in Int
    BY <1>2, <1>5, <1>6, Holders DEF Weight
  <1>8. Operations(s)' = Operations(s) + 1
    <2>1. /\ live \in [Sessions -> [Kinds -> Nat]] /\ task[t].io \in Kinds
          /\ dying[s] \in [Kinds -> Nat]
          /\ "recv" \in Kinds /\ "send" \in Kinds
      BY DEF TypeOK, Kinds
    <2>2. /\ live[s]["recv"] \in Nat /\ live[s]["send"] \in Nat
          /\ dying[s]["recv"] \in Nat /\ dying[s]["send"] \in Nat
      BY <2>1
    <2>3. \/ /\ live'[s]["recv"] = live[s]["recv"] + 1
             /\ live'[s]["send"] = live[s]["send"]
          \/ /\ live'[s]["recv"] = live[s]["recv"]
             /\ live'[s]["send"] = live[s]["send"] + 1
      BY <1>2, <2>1 DEF Kinds
    <2>. QED
      BY <1>2, <2>2, <2>3 DEF Operations, Outstanding
  <1>9. Operations(s) \in Int /\ ioCount[s] \in Int /\ ioCount'[s] = ioCount[s]
    BY <1>2, OperationsType DEF TypeOK
  <1>10. ioCount'[s] = ioCount[s] + Operations(s)' - Operations(s)
                         + Weight(t, s)' - Weight(t, s)
    BY <1>7, <1>8, <1>9
  <1>. QED
    BY <1>1, <1>5, <1>10, LocalBalance

LEMMA BalanceHold ==
    ASSUME TypeOK, TasksFit, NEW t \in Threads, HoldForConnect(t)
    PROVE  Balanced(t)
  <1>. PICK s \in Sessions : s = ses[t]
    BY DEF TypeOK
  <1>1. Local(t)
    BY LocalAccept DEF AcceptStep
  <1>2. /\ pc[t] = "hold" /\ pc'[t] = "connect" /\ task' = task /\ ret' = ret
        /\ ses' = ses /\ ioCount'[s] = ioCount[s] + 1
        /\ live' = live /\ dying' = dying
    BY DEF HoldForConnect, Jump, TypeOK
  <1>3. /\ TaskFits(t)' /\ ~HasIoCount(t)' /\ ~HasIoCount(t)
        /\ HasCount(t)' /\ ~HasCount(t)
    BY <1>2 DEF TasksFit, TaskFits, Fits, HasIoCount, HasCount, InRelease,
       InComplete, ReleasePcs, CompletePcs, Handlers
  <1>4. Weight(t, s)' = Weight(t, s) + 1 /\ Weight(t, s) \in Int
    BY <1>2, <1>3, Holders DEF Weight
  <1>5. /\ Operations(s)' = Operations(s)
        /\ Operations(s) \in Int /\ ioCount[s] \in Int
    BY <1>2, OperationsType DEF TypeOK, Operations, Outstanding
  <1>6. ioCount'[s] = ioCount[s] + Operations(s)' - Operations(s)
                        + Weight(t, s)' - Weight(t, s)
    BY <1>2, <1>4, <1>5
  <1>. QED
    BY <1>1, <1>3, <1>6, LocalBalance

(* The two places that drop a count: the handler's own, and the one of an  *)
(* operation that was not issued.                                          *)
LEMMA BalanceDrop ==
    ASSUME TypeOK, TasksFit, NEW t \in Threads, Finish(t) \/ UndoIO(t)
    PROVE  Balanced(t)
  <1>. PICK s \in Sessions : s = ses[t]
    BY DEF TypeOK
  <1>1. Local(t)
    BY LocalStep DEF Step, IoStep
  <1>2. PICK l \in ReturnPcs :
          /\ DecrementIO(t, l)
          /\ \/ pc[t] = "finish" /\ l = "idle"
             \/ pc[t] = "undoIO" /\ l = NotPosted(t)
    BY Returns, Steps DEF Finish, UndoIO
  <1>3. /\ ret'[t] = l /\ ses' = ses /\ ioCount'[s] = ioCount[s] - 1
        /\ live' = live /\ dying' = dying
        /\ Jump(t, "token") \/ Jump(t, l)
    BY <1>2 DEF DecrementIO, TypeOK
  <1>4. /\ pc'[t] \in {"token", l}
        /\ \/ task'[t] = task[t]
           \/ pc'[t] = "idle" /\ task'[t].op = "none"
    BY <1>3, JumpTo, Steps
  <1>5. \/ /\ pc[t] = "finish" /\ l = "idle" /\ task[t].op \in Handlers
        \/ /\ pc[t] = "undoIO" /\ l = "idle" /\ task[t].op = "enqueue"
        \/ /\ pc[t] = "undoIO" /\ task[t].op \in Handlers
           /\ l \in {"parse", "drop", "finish", "connectFailed",
                     "recvNotPosted"}
           /\ Fits(l, task[t])
    BY <1>2 DEF TasksFit, TaskFits, Fits, NotPosted, AfterSend, Handlers
  <1>6. /\ TaskFits(t)' /\ ~HasIoCount(t)'
        /\ \/ HasCount(t) /\ ~HasCount(t)' /\ ~HasIoCount(t)
           \/ (HasCount(t)' <=> HasCount(t)) /\ HasIoCount(t)
    <2>0. task[t].op = "accept" => task[t].io = "recv"
      BY DEF TasksFit, TaskFits
    <2>. USE <1>3, <1>4, <2>0 DEF TaskFits, Fits, HasIoCount,
             HasCount, InRelease, InComplete, ReleasePcs, CompletePcs, Handlers
    <2>1. CASE /\ pc[t] = "finish" /\ l = "idle" /\ task[t].op \in Handlers
      BY <2>1
    <2>2. CASE /\ pc[t] = "undoIO" /\ l = "idle" /\ task[t].op = "enqueue"
      BY <2>2
    <2>3. CASE /\ pc[t] = "undoIO" /\ task[t].op \in Handlers
               /\ l \in {"parse", "drop", "finish", "connectFailed",
                         "recvNotPosted"}
               /\ Fits(l, task[t])
      <3>1. task'[t] = task[t]
        BY <2>3
      <3>. QED
        BY <2>3, <3>1
    <2>. QED
      BY <1>5, <2>1, <2>2, <2>3
  <1>7. Weight(t, s)' = Weight(t, s) - 1 /\ Weight(t, s) \in Int
    BY <1>3, <1>6, Holders DEF Weight
  <1>8. /\ Operations(s)' = Operations(s)
        /\ Operations(s) \in Int /\ ioCount[s] \in Int
    BY <1>3, OperationsType DEF TypeOK, Operations, Outstanding
  <1>9. ioCount'[s] = ioCount[s] + Operations(s)' - Operations(s)
                        + Weight(t, s)' - Weight(t, s)
    BY <1>3, <1>7, <1>8
  <1>. QED
    BY <1>1, <1>6, <1>9, LocalBalance

(* A thread that takes up a session: with the count of a completion, or    *)
(* with none.                                                              *)
LEMMA BalanceTakeUp ==
    ASSUME TypeOK, NEW t \in Threads, NEW s \in Sessions, pc[t] = "idle",
           ses' = [ses EXCEPT ![t] = s], ioCount' = ioCount,
           \A u \in Threads \ {t} : /\ pc'[u] = pc[u] /\ ret'[u] = ret[u]
                                    /\ task'[u] = task[u],
           TaskFits(t)', ~HasIoCount(t)',
           \A x \in Sessions \ {s} : Operations(x)' = Operations(x),
           Operations(s)' = Operations(s) - (IF HasCount(t)' THEN 1 ELSE 0)
    PROVE  Balanced(t)
  <1>1. /\ \A u \in Threads \ {t} : ses'[u] = ses[u]
        /\ ses'[t] = s
    BY DEF TypeOK
  <1>2. ~HasCount(t) /\ ~HasIoCount(t)
    BY DEF HasCount, HasIoCount, InRelease, ReleasePcs, CompletePcs
  <1>3. ASSUME NEW x \in Sessions
        PROVE  ioCount'[x] = ioCount[x] + Operations(x)' - Operations(x)
                               + Weight(t, x)' - Weight(t, x)
    <2>1. /\ Weight(t, x) = 0
          /\ Weight(t, x)' = IF x = s /\ HasCount(t)' THEN 1 ELSE 0
      BY <1>1, <1>2, Holders DEF Weight
    <2>2. Operations(x) \in Int /\ ioCount[x] \in Int
      BY OperationsType DEF TypeOK
    <2>3. CASE x = s
      BY <2>1, <2>2, <2>3
    <2>4. CASE x # s
      BY <2>1, <2>2, <2>4
    <2>. QED
      BY <2>3, <2>4
  <1>. QED
    BY <1>1, <1>3 DEF Balanced

LEMMA TakesUp ==
    ASSUME TypeOK, NEW t \in Threads, NEW s, NEW op, NEW n, NEW l,
           Begin(t, s, op, n, l)
    PROVE  /\ pc[t] = "idle" /\ pc'[t] = l /\ ses'[t] = s
           /\ task'[t] = [op |-> op, io |-> "recv", lease |-> n]
           /\ \A u \in Threads \ {t} : /\ pc'[u] = pc[u] /\ ses'[u] = ses[u]
                                       /\ task'[u] = task[u]
  <1>1. /\ pc \in [Threads -> Pcs] /\ ses \in [Threads -> Sessions]
        /\ DOMAIN task = Threads
    BY DEF TypeOK
  <1>. QED
    BY <1>1 DEF Begin

LEMMA BalanceComplete ==
    ASSUME TypeOK, TasksFit, NEW t \in Threads, NEW s \in Sessions,
           NEW k \in Kinds,
           \/ RecvData(t, s) \/ SendDone(t, s)
           \/ ConnectionEnds(t, s, k) \/ IoCancelled(t, s, k)
    PROVE  Balanced(t)
  <1>1. PICK m \in Kinds, l \in {"parse", "sendDone", "release", "finish"} :
          /\ Begin(t, s, m, lease[s], l)
          /\ l = "parse" => m = "recv"
          /\ l = "sendDone" => m = "send"
          /\ IF l = "release" THEN ret' = [ret EXCEPT ![t] = "finish"]
                              ELSE ret' = ret
          /\ ioCount' = ioCount
          /\ \/ /\ live[s][m] > 0
                /\ live' = [live EXCEPT ![s][m] = @ - 1]
                /\ dying' = dying
             \/ /\ dying[s][m] > 0
                /\ dying' = [dying EXCEPT ![s][m] = @ - 1]
                /\ live' = live
    <2>1. "recv" \in Kinds /\ "send" \in Kinds
      BY DEF Kinds
    <2>2. CASE RecvData(t, s)
      BY <2>1, <2>2 DEF RecvData, Dequeue
    <2>3. CASE SendDone(t, s)
      BY <2>1, <2>3 DEF SendDone, Dequeue
    <2>4. CASE ConnectionEnds(t, s, k)
      BY <2>4 DEF ConnectionEnds, Dequeue
    <2>5. CASE IoCancelled(t, s, k)
      BY <2>5 DEF IoCancelled
    <2>. QED
      BY <2>2, <2>3, <2>4, <2>5
  <1>2. /\ pc[t] = "idle" /\ pc'[t] = l /\ task'[t].op = m
        /\ task'[t].io = "recv"
        /\ l = "release" => ret'[t] = "finish"
        /\ ses' = [ses EXCEPT ![t] = s]
        /\ \A u \in Threads \ {t} : /\ pc'[u] = pc[u] /\ ret'[u] = ret[u]
                                    /\ task'[u] = task[u]
    <2>1. /\ l = "release" => ret'[t] = "finish"
          /\ \A u \in Threads \ {t} : ret'[u] = ret[u]
      <3>1. ret \in [Threads -> ReturnPcs]
        BY DEF TypeOK
      <3>. QED
        BY <1>1, <3>1
    <2>2. /\ pc[t] = "idle" /\ pc'[t] = l
          /\ task'[t] = [op |-> m, io |-> "recv", lease |-> lease[s]]
          /\ \A u \in Threads \ {t} : pc'[u] = pc[u] /\ task'[u] = task[u]
      BY <1>1, TakesUp
    <2>3. ses' = [ses EXCEPT ![t] = s]
      BY <1>1 DEF Begin
    <2>. QED
      BY <2>1, <2>2, <2>3
  <1>3. TaskFits(t)' /\ ~HasIoCount(t)' /\ HasCount(t)'
    BY <1>1, <1>2 DEF TaskFits, Fits, HasIoCount, HasCount, InRelease,
       InComplete, ReleasePcs, CompletePcs, Handlers, Kinds
  <1>4. /\ live \in [Sessions -> [Kinds -> Nat]]
        /\ dying \in [Sessions -> [Kinds -> Nat]]
    BY DEF TypeOK
  <1>5. \A x \in Sessions \ {s} : Operations(x)' = Operations(x)
    <2>1. \A x \in Sessions \ {s} : live'[x] = live[x] /\ dying'[x] = dying[x]
      BY <1>1, <1>4
    <2>. QED
      BY <2>1 DEF Operations, Outstanding
  <1>6. Operations(s)' = Operations(s) - 1
    <2>1. /\ live[s]["recv"] \in Nat /\ live[s]["send"] \in Nat
          /\ dying[s]["recv"] \in Nat /\ dying[s]["send"] \in Nat
      BY <1>4 DEF Kinds
    <2>2. CASE m = "recv"
      BY <1>1, <1>4, <2>1, <2>2 DEF Operations, Outstanding, Kinds
    <2>3. CASE m = "send"
      BY <1>1, <1>4, <2>1, <2>3 DEF Operations, Outstanding, Kinds
    <2>. QED
      BY <2>2, <2>3 DEF Kinds
  <1>. QED
    BY <1>1, <1>2, <1>3, <1>5, <1>6, BalanceTakeUp

LEMMA BalanceLease ==
    ASSUME TypeOK, TasksFit, NEW t \in Threads, Acquire(t)
    PROVE  Balanced(t)
  <1>1. Head(freeList) \in Sessions
    BY HeadTailProperties DEF TypeOK, Acquire
  <1>2. PICK s \in Sessions : s = Head(freeList)
    BY <1>1
  <1>3. /\ ret' = ret /\ live' = live /\ dying' = dying /\ ioCount' = ioCount
        /\ \A x \in Sessions : Operations(x)' = Operations(x)
    BY DEF Acquire, Operations, Outstanding
  <1>4. \A x \in Sessions : Operations(x) \in Int /\ ioCount[x] \in Int
    BY OperationsType DEF TypeOK
  <1>5. CASE poolState[s] = "FREE"
    <2>1. Begin(t, s, "accept", lease[s] + 1, "attach")
      BY <1>2, <1>5 DEF Acquire
    <2>2. /\ pc[t] = "idle" /\ pc'[t] = "attach" /\ task'[t].op = "accept"
          /\ task'[t].io = "recv" /\ ses' = [ses EXCEPT ![t] = s]
          /\ \A u \in Threads \ {t} : /\ pc'[u] = pc[u] /\ ret'[u] = ret[u]
                                      /\ task'[u] = task[u]
      <3>1. ses' = [ses EXCEPT ![t] = s]
        BY <2>1 DEF Begin
      <3>2. /\ pc[t] = "idle" /\ pc'[t] = "attach"
            /\ task'[t] = [op |-> "accept", io |-> "recv",
                           lease |-> lease[s] + 1]
            /\ \A u \in Threads \ {t} : pc'[u] = pc[u] /\ task'[u] = task[u]
        BY <2>1, TakesUp
      <3>3. ret' = ret
        BY <1>3
      <3>. QED
        BY <3>1, <3>2, <3>3
    <2>3. TaskFits(t)' /\ ~HasIoCount(t)' /\ ~HasCount(t)'
      BY <2>2 DEF TaskFits, Fits, HasIoCount, HasCount, InRelease,
         InComplete, ReleasePcs, CompletePcs, Handlers
    <2>4. Operations(s)' = Operations(s) - (IF HasCount(t)' THEN 1 ELSE 0)
      BY <1>2, <1>1, <1>3, <1>4, <2>3
    <2>. QED
      BY <1>3, <2>2, <2>3, <2>4, BalanceTakeUp
  <1>6. CASE poolState[s] # "FREE"
    <2>1. UNCHANGED <<pc, ses, task>>
      BY <1>2, <1>6 DEF Acquire
    <2>2. /\ TaskFits(t)'
          /\ \A x \in Sessions : Weight(t, x)' = Weight(t, x)
                                 /\ Weight(t, x) \in Int
      BY <1>3, <2>1
         DEF TasksFit, TaskFits, Weight, HandlerHolds, IoHolds
    <2>. QED
      BY <1>3, <1>4, <2>1, <2>2 DEF Balanced
  <1>. QED
    BY <1>5, <1>6

LEMMA BalanceUncounted ==
    ASSUME TypeOK, TasksFit, NEW t \in Threads, NEW s \in Sessions,
           EnqueueSend(t, s) \/ FindZombie(t, s)
    PROVE  Balanced(t)
  <1>1. /\ ret' = ret /\ live' = live /\ dying' = dying /\ ioCount' = ioCount
        /\ \A x \in Sessions : Operations(x)' = Operations(x)
    BY DEF EnqueueSend, FindZombie, Operations, Outstanding
  <1>2. \A x \in Sessions : Operations(x) \in Int
    BY OperationsType
  <1>3. /\ pc[t] = "idle" /\ ses' = [ses EXCEPT ![t] = s]
        /\ \/ pc'[t] = "trySend" /\ task'[t].op = "enqueue"
           \/ pc'[t] = "zombieNote" /\ task'[t].op = "zombie"
        /\ \A u \in Threads \ {t} : /\ pc'[u] = pc[u] /\ ret'[u] = ret[u]
                                    /\ task'[u] = task[u]
    <2>1. \/ Begin(t, s, "enqueue", lease[s], "trySend")
          \/ Begin(t, s, "zombie", lease[s], "zombieNote")
      BY DEF EnqueueSend, FindZombie
    <2>2. ses' = [ses EXCEPT ![t] = s]
      BY <2>1 DEF Begin
    <2>3. /\ pc[t] = "idle"
          /\ \/ /\ pc'[t] = "trySend"
                /\ task'[t] = [op |-> "enqueue", io |-> "recv",
                               lease |-> lease[s]]
             \/ /\ pc'[t] = "zombieNote"
                /\ task'[t] = [op |-> "zombie", io |-> "recv",
                               lease |-> lease[s]]
          /\ \A u \in Threads \ {t} : pc'[u] = pc[u] /\ task'[u] = task[u]
      BY <2>1, TakesUp
    <2>4. ret' = ret
      BY <1>1
    <2>. QED
      BY <2>2, <2>3, <2>4
  <1>4. TaskFits(t)' /\ ~HasIoCount(t)' /\ ~HasCount(t)'
    BY <1>3 DEF TaskFits, Fits, HasIoCount, HasCount, InRelease,
       InComplete, ReleasePcs, CompletePcs, Handlers
  <1>5. Operations(s)' = Operations(s) - (IF HasCount(t)' THEN 1 ELSE 0)
    BY <1>1, <1>2, <1>4
  <1>. QED
    BY <1>1, <1>3, <1>4, <1>5, BalanceTakeUp

LEMMA BalanceStep ==
    ASSUME TypeOK, TasksFit, NEW t \in Threads, Step(t)
    PROVE  Balanced(t)
  <1>1. Local(t)
    BY LocalStep
  <1>2. CASE ReleaseStep(t) \/ CompleteReleaseStep(t) \/ TakeToken(t)
    <2>1. ioCount' = ioCount
      BY <1>2 DEF ReleaseStep, ReleaseCas, CancelPendingIO, CancelIoEx,
         Reserve, ReadCount, Claim, CompleteReleaseStep, CloseSocket,
         NotifyService, OnDisconnect, ResetBase, ResetClient, PushFree,
         TakeToken
    <2>2. AbortOperations(ses[t]) \/ UNCHANGED kernelVars
      BY <1>2 DEF ReleaseStep, ReleaseCas, CancelPendingIO, CancelIoEx,
         Reserve, ReadCount, Claim, CompleteReleaseStep, CloseSocket,
         NotifyService, OnDisconnect, ResetBase, ResetClient, PushFree,
         TakeToken
    <2>3. \A x \in Sessions : Operations(x)' = Operations(x)
      <3>1. CASE UNCHANGED kernelVars
        BY <3>1 DEF Operations, Outstanding
      <3>2. CASE AbortOperations(ses[t])
        BY <3>2, TaskType, AbortKeeps
      <3>. QED
        BY <2>2, <3>1, <3>2
    <2>. QED
      BY <1>1, <1>2, <2>1, <2>3, KeepsRelease, KeepsBalance
  <1>3. CASE \/ PostReceive(t) \/ Gate(t) \/ PostFails(t)
             \/ TrySendNext(t) \/ SendGate(t)
    <2>1. ioCount' = ioCount /\ live' = live /\ dying' = dying
      BY <1>3 DEF PostReceive, Gate, PostFails, TrySendNext, SendGate
    <2>2. \A x \in Sessions : Operations(x)' = Operations(x)
      BY <2>1 DEF Operations, Outstanding
    <2>. QED
      BY <1>1, <1>3, <2>1, <2>2, KeepsIo, KeepsBalance
  <1>4. CASE \/ AttachSocket(t) \/ AcceptStarved(t) \/ Connect(t)
             \/ MarkNotified(t) \/ OnClientConnect(t) \/ ConnectFailed(t)
    <2>1. ioCount' = ioCount /\ live' = live /\ dying' = dying
      BY <1>4 DEF AttachSocket, AcceptStarved, Connect, MarkNotified,
         OnClientConnect, ConnectFailed
    <2>2. \A x \in Sessions : Operations(x)' = Operations(x)
      BY <2>1 DEF Operations, Outstanding
    <2>. QED
      BY <1>1, <1>4, <2>1, <2>2, KeepsAccept, KeepsBalance
  <1>5. CASE HandlerStep(t) \/ NoteZombie(t) \/ MarkZombie(t)
    <2>1. ioCount' = ioCount /\ live' = live /\ dying' = dying
      BY <1>5 DEF HandlerStep, ParseDone, ParseReply, ParseReject, ParseBad,
         DropRejected, CheckPending, RecvNotPosted, SendRest, SendNext,
         NoteZombie, MarkZombie
    <2>2. \A x \in Sessions : Operations(x)' = Operations(x)
      BY <2>1 DEF Operations, Outstanding
    <2>3. Keeps(t)
      BY <1>5, KeepsHandler DEF HandlerStep
    <2>. QED
      BY <1>1, <2>1, <2>2, <2>3, KeepsBalance
  <1>6. CASE \/ Finish(t) \/ UndoIO(t) \/ BeginIO(t) \/ PostSucceeds(t)
             \/ HoldForConnect(t)
    BY <1>6, BalanceDrop, BalanceBegin, BalancePost, BalanceHold
  <1>. QED
    BY <1>2, <1>3, <1>4, <1>5, <1>6 DEF Step, IoStep, AcceptStep

LEMMA CountInit == Init => TasksFit /\ CountIsHeld
  <1>. SUFFICES ASSUME Init PROVE TasksFit /\ CountIsHeld
    OBVIOUS
  <1>1. TasksFit
    BY DEF Init, TasksFit, TaskFits, Fits, NoTask, InRelease, InComplete,
       ReleasePcs, CompletePcs
  <1>2. ASSUME NEW s \in Sessions
        PROVE  ioCount[s] = Outstanding(s, "recv") + Outstanding(s, "send")
                     + Cardinality({t \in Threads : HandlerHolds(t, s)})
                     + Cardinality({t \in Threads : IoHolds(t, s)})
    <2>1. /\ {t \in Threads : HandlerHolds(t, s)} = {}
          /\ {t \in Threads : IoHolds(t, s)} = {}
      BY DEF Init, HandlerHolds, IoHolds, OwnerPcs, ReleasePcs, CompletePcs
    <2>2. ioCount[s] = 0 /\ \A k \in Kinds : live[s][k] = 0 /\ dying[s][k] = 0
      BY DEF Init
    <2>3. Outstanding(s, "recv") = 0 /\ Outstanding(s, "send") = 0
      BY <2>2 DEF Outstanding, Kinds
    <2>. QED
      BY <2>1, <2>2, <2>3, FS_EmptySet
  <1>. QED
    BY <1>1, <1>2 DEF CountIsHeld

CountInv == TypeOK /\ TasksFit /\ CountIsHeld

LEMMA CountStep == CountInv /\ [Next]_vars => CountInv'
  <1>. SUFFICES ASSUME TypeOK, TasksFit, CountIsHeld, [Next]_vars
                PROVE  TypeOK' /\ TasksFit' /\ CountIsHeld'
    BY DEF CountInv
  <1>0. TypeOK'
    BY TypeStep
  <1>1. CASE UNCHANGED vars
    <2>1. TasksFit'
      BY <1>1 DEF vars, TasksFit, TaskFits
    <2>2. CountIsHeld'
      BY <1>1 DEF vars, CountIsHeld, Outstanding, HandlerHolds, IoHolds
    <2>. QED
      BY <1>0, <2>1, <2>2
  <1>2. ASSUME NEW w \in Workers, Acquire(w) \/ Complete(w)
        PROVE  \E t \in Threads : Balanced(t)
    <2>1. w \in Threads /\ "recv" \in Kinds
      BY DEF Threads, Kinds
    <2>. QED
      BY <1>2, <2>1, BalanceLease, BalanceComplete DEF Complete
  <1>3. ASSUME NEW t \in Threads, NEW s \in Sessions,
               EnqueueSend(t, s) \/ FindZombie(t, s)
        PROVE  Balanced(t)
    BY <1>3, BalanceUncounted
  <1>4. ASSUME NEW t \in Threads, Step(t)
        PROVE  Balanced(t)
    BY <1>4, BalanceStep
  <1>5. Next => \E t \in Threads : Balanced(t)
    BY <1>2, <1>3, <1>4 DEF Next, Threads
  <1>. QED
    BY <1>0, <1>1, <1>5, Balance

(* For any threads, sessions and leases, the count of a session is what    *)
(* its handlers hold, what BeginIO took for an operation not issued yet,   *)
(* and one for each operation issued: IncrementIO and DecrementIO are      *)
(* balanced on every path, and the count is never negative.                *)
THEOREM CountHeld == Spec => []CountIsHeld
  <1>1. Init => CountInv
    BY TypeInit, CountInit DEF CountInv
  <1>2. CountInv => CountIsHeld
    BY DEF CountInv
  <1>. QED
    BY <1>1, <1>2, CountStep, PTL DEF Spec
-----------------------------------------------------------------------------
(* No release is left without a thread that looks at its token             *)

LEMMA NeverNegative ==
    ASSUME CountInv
    PROVE  \A s \in Sessions : ioCount[s] \in Nat
  <1>. TAKE s \in Sessions
  <1>. DEFINE H == {t \in Threads : HandlerHolds(t, s)}
              I == {t \in Threads : IoHolds(t, s)}
  <1>1. H \in SUBSET Threads /\ I \in SUBSET Threads
    OBVIOUS
  <1>2. ioCount[s] = Outstanding(s, "recv") + Outstanding(s, "send")
                     + Cardinality(H) + Cardinality(I)
    BY DEF CountInv, CountIsHeld
  <1>. HIDE DEF H, I
  <1>3. Cardinality(H) \in Nat /\ Cardinality(I) \in Nat
    BY <1>1, ThreadsAssumption, FS_Subset, FS_CardinalityType
  <1>4. Outstanding(s, "recv") \in Nat /\ Outstanding(s, "send") \in Nat
    <2>1. /\ live[s] \in [Kinds -> Nat] /\ dying[s] \in [Kinds -> Nat]
          /\ "recv" \in Kinds /\ "send" \in Kinds
      BY DEF CountInv, TypeOK, Kinds
    <2>. QED
      BY <2>1 DEF Outstanding
  <1>. QED
    BY <1>2, <1>3, <1>4

(* t is about to look at the token of s.                                   *)
Looks(t, s) == pc[t] \in TokenPcs /\ ses[t] = s

(* A step of t that sets a token, or drops the last count, leaves t to     *)
(* look at the token; and t turns from a token only when it took it, or    *)
(* found a count.                                                          *)
Watches(t) ==
    /\ \A u \in Threads \ {t}, s \in Sessions : Looks(u, s)' <=> Looks(u, s)
    /\ \A s \in Sessions : releasePending'[s] = 1 =>
         releasePending[s] = 1 \/ Looks(t, s)'
    /\ \A s \in Sessions : ioCount'[s] = 0 =>
         ioCount[s] \notin Nat \ {0} \/ Looks(t, s)'
    /\ \A s \in Sessions : Looks(t, s) =>
         \/ releasePending'[s] # 1 \/ ioCount'[s] # 0 \/ Looks(t, s)'

LEMMA WatchesStranded ==
    ASSUME CountInv, NoStrandedRelease, NEW t \in Threads, Watches(t)
    PROVE  NoStrandedRelease'
  <1>. SUFFICES ASSUME NEW s \in Sessions, releasePending'[s] = 1,
                       ioCount'[s] = 0
                PROVE  \E u \in Threads : Looks(u, s)'
    BY DEF NoStrandedRelease, Looks
  <1>1. CASE Looks(t, s)'
    BY <1>1
  <1>2. CASE ~Looks(t, s)'
    <2>1. releasePending[s] = 1 /\ ioCount[s] = 0
      BY <1>2, NeverNegative DEF Watches
    <2>2. PICK u \in Threads : Looks(u, s)
      BY <2>1 DEF NoStrandedRelease, Looks
    <2>3. u # t
      BY <1>2, <2>2 DEF Watches
    <2>. QED
      BY <2>2, <2>3 DEF Watches
  <1>. QED
    BY <1>1, <1>2

(* Most steps are concerned with no token.                                 *)
LEMMA AloofWatches ==
    ASSUME TypeOK, NEW t \in Threads, pc[t] \notin TokenPcs, Balanced(t),
           ioCount' = ioCount, releasePending' = releasePending
    PROVE  Watches(t)
  <1>1. \A u \in Threads \ {t}, s \in Sessions : Looks(u, s)' <=> Looks(u, s)
    BY DEF Balanced, Looks
  <1>2. \A s \in Sessions : ~Looks(t, s)
    BY DEF Looks
  <1>. QED
    BY <1>1, <1>2 DEF Watches

LEMMA WatchesRelease ==
    ASSUME TypeOK, TasksFit, NEW t \in Threads,
           \/ ReleaseStep(t) \/ CompleteReleaseStep(t) \/ TakeToken(t)
    PROVE  Watches(t)
  <1>. PICK x \in Sessions : x = ses[t]
    BY DEF TypeOK
  <1>0. Balanced(t)
    BY BalanceStep DEF Step
  <1>1. /\ ses[t] \in Sessions /\ releasePending \in [Sessions -> 0..1]
        /\ pc \in [Threads -> Pcs] /\ ret[t] \in ReturnPcs
        /\ \A s \in Sessions : ioCount[s] \in Int
    BY DEF TypeOK
  <1>2. \A u \in Threads \ {t}, s \in Sessions : Looks(u, s)' <=> Looks(u, s)
    BY <1>0 DEF Balanced, Looks
  <1>3. CASE \/ ReleaseCas(t) \/ CancelPendingIO(t) \/ CancelIoEx(t)
             \/ CloseSocket(t) \/ NotifyService(t) \/ OnDisconnect(t)
             \/ ResetClient(t) \/ PushFree(t)
    <2>1. /\ pc[t] \notin TokenPcs /\ ioCount' = ioCount
          /\ releasePending' = releasePending
      BY <1>3 DEF ReleaseCas, CancelPendingIO, CancelIoEx, CloseSocket,
         NotifyService, OnDisconnect, ResetClient, PushFree, TokenPcs
    <2>. QED
      BY <1>0, <2>1, AloofWatches
  <1>4. CASE Reserve(t)
    <2>1. /\ Looks(t, x)' /\ ioCount' = ioCount
          /\ \A s \in Sessions : ~Looks(t, s)
          /\ releasePending' = [releasePending EXCEPT ![x] = 1]
      BY <1>1, <1>4 DEF Reserve, Jump, Looks, TokenPcs
    <2>. QED
      BY <1>1, <1>2, <2>1 DEF Watches
  <1>5. CASE ReadCount(t)
    <2>1. /\ ioCount' = ioCount /\ releasePending' = releasePending
          /\ \/ ioCount'[x] # 0
             \/ Looks(t, x)'
      BY <1>1, <1>5 DEF ReadCount, Jump, Looks, TokenPcs
    <2>2. \A s \in Sessions : Looks(t, s) => s = x
      BY DEF Looks
    <2>. QED
      BY <1>1, <1>2, <2>1, <2>2 DEF Watches
  <1>6. CASE Claim(t) \/ TakeToken(t) \/ ResetBase(t)
    <2>1. /\ ioCount' = ioCount
          /\ releasePending' = [releasePending EXCEPT ![x] = 0]
      BY <1>6 DEF Claim, TakeToken, ResetBase
    <2>2. \A s \in Sessions : Looks(t, s) => s = x
      BY DEF Looks
    <2>. QED
      BY <1>1, <1>2, <2>1, <2>2 DEF Watches
  <1>. QED
    BY <1>3, <1>4, <1>5, <1>6 DEF ReleaseStep, CompleteReleaseStep

LEMMA WatchesCount ==
    ASSUME TypeOK, TasksFit, NEW t \in Threads,
           \/ Finish(t) \/ UndoIO(t) \/ BeginIO(t) \/ HoldForConnect(t)
    PROVE  Watches(t)
  <1>0. Balanced(t)
    BY BalanceStep DEF Step, IoStep, AcceptStep
  <1>1. /\ ses[t] \in Sessions /\ ioCount \in [Sessions -> Int]
        /\ pc \in [Threads -> Pcs]
    BY DEF TypeOK
  <1>2. /\ \A u \in Threads \ {t}, s \in Sessions : Looks(u, s)' <=> Looks(u, s)
        /\ \A s \in Sessions : ~Looks(t, s)
    BY <1>0 DEF Balanced, Looks, TokenPcs, Finish, UndoIO, BeginIO,
       HoldForConnect
  <1>3. CASE Finish(t) \/ UndoIO(t)
    <2>1. /\ releasePending' = releasePending /\ ses' = ses
          /\ ioCount' = [ioCount EXCEPT ![ses[t]] = @ - 1]
          /\ ioCount[ses[t]] = 1 => Jump(t, "token")
      BY <1>3 DEF Finish, UndoIO, DecrementIO
    <2>2. ioCount[ses[t]] = 1 => Looks(t, ses[t])'
      BY <1>1, <2>1 DEF Jump, Looks, TokenPcs
    <2>. QED
      BY <1>1, <1>2, <2>1, <2>2 DEF Watches
  <1>4. CASE BeginIO(t) \/ HoldForConnect(t)
    <2>1. /\ releasePending' = releasePending
          /\ ioCount' = [ioCount EXCEPT ![ses[t]] = @ + 1]
      BY <1>4 DEF BeginIO, HoldForConnect
    <2>. QED
      BY <1>1, <1>2, <2>1 DEF Watches
  <1>. QED
    BY <1>3, <1>4

LEMMA WatchesOthers ==
    ASSUME TypeOK, TasksFit, NEW t \in Threads,
           \/ PostReceive(t) \/ Gate(t) \/ PostSucceeds(t) \/ PostFails(t)
           \/ TrySendNext(t) \/ SendGate(t)
           \/ AttachSocket(t) \/ AcceptStarved(t) \/ Connect(t)
           \/ MarkNotified(t) \/ OnClientConnect(t) \/ ConnectFailed(t)
           \/ HandlerStep(t) \/ NoteZombie(t) \/ MarkZombie(t)
    PROVE  Watches(t)
  <1>0. Balanced(t)
    BY BalanceStep DEF Step, IoStep, AcceptStep
  <1>1. CASE \/ PostReceive(t) \/ Gate(t) \/ PostSucceeds(t) \/ PostFails(t)
             \/ TrySendNext(t) \/ SendGate(t)
    <2>1. /\ pc[t] \notin TokenPcs /\ ioCount' = ioCount
          /\ releasePending' = releasePending
      BY <1>1 DEF PostReceive, Gate, PostSucceeds, PostFails, TrySendNext,
         SendGate, TokenPcs
    <2>. QED
      BY <1>0, <2>1, AloofWatches
  <1>2. CASE \/ AttachSocket(t) \/ AcceptStarved(t) \/ Connect(t)
             \/ MarkNotified(t) \/ OnClientConnect(t) \/ ConnectFailed(t)
    <2>1. /\ pc[t] \notin TokenPcs /\ ioCount' = ioCount
          /\ releasePending' = releasePending
      BY <1>2 DEF AttachSocket, AcceptStarved, Connect, MarkNotified,
         OnClientConnect, ConnectFailed, TokenPcs
    <2>. QED
      BY <1>0, <2>1, AloofWatches
  <1>3. CASE HandlerStep(t) \/ NoteZombie(t) \/ MarkZombie(t)
    <2>1. /\ pc[t] \notin TokenPcs /\ ioCount' = ioCount
          /\ releasePending' = releasePending
      BY <1>3 DEF HandlerStep, ParseDone, ParseReply, ParseReject, ParseBad,
         DropRejected, CheckPending, RecvNotPosted, SendRest, SendNext,
         NoteZombie, MarkZombie, TokenPcs
    <2>. QED
      BY <1>0, <2>1, AloofWatches
  <1>. QED
    BY <1>1, <1>2, <1>3

LEMMA WatchesBegin ==
    ASSUME TypeOK, TasksFit, NEW t \in Threads,
           \/ Acquire(t)
           \/ \E s \in Sessions :
                \/ EnqueueSend(t, s) \/ FindZombie(t, s)
                \/ RecvData(t, s) \/ SendDone(t, s)
                \/ \E k \in Kinds : ConnectionEnds(t, s, k) \/ IoCancelled(t, s, k)
    PROVE  Watches(t)
  <1>0. Balanced(t)
    BY BalanceLease, BalanceComplete, BalanceUncounted DEF Kinds
  <1>1. pc[t] = "idle" /\ ioCount' = ioCount /\ releasePending' = releasePending
    BY DEF Acquire, EnqueueSend, FindZombie, RecvData, SendDone,
       ConnectionEnds, IoCancelled, Dequeue, Begin
  <1>. QED
    BY <1>0, <1>1, AloofWatches DEF TokenPcs

LEMMA StrandedStep ==
    CountInv /\ NoStrandedRelease /\ [Next]_vars => NoStrandedRelease'
  <1>. SUFFICES ASSUME CountInv, NoStrandedRelease, [Next]_vars
                PROVE  NoStrandedRelease'
    OBVIOUS
  <1>0. TypeOK /\ TasksFit
    BY DEF CountInv
  <1>1. CASE UNCHANGED vars
    BY <1>1 DEF vars, NoStrandedRelease
  <1>2. ASSUME NEW w \in Workers, Acquire(w) \/ Complete(w)
        PROVE  Watches(w) /\ w \in Threads
    BY <1>0, <1>2, WatchesBegin DEF Complete, Threads
  <1>3. ASSUME NEW t \in Threads, NEW s \in Sessions,
               EnqueueSend(t, s) \/ FindZombie(t, s)
        PROVE  Watches(t)
    BY <1>0, <1>3, WatchesBegin
  <1>4. ASSUME NEW t \in Threads, Step(t)
        PROVE  Watches(t)
    BY <1>0, <1>4, WatchesRelease, WatchesCount, WatchesOthers
       DEF Step, IoStep, AcceptStep
  <1>5. Next => \E t \in Threads : Watches(t)
    BY <1>2, <1>3, <1>4 DEF Next, Threads
  <1>. QED
    BY <1>1, <1>5, WatchesStranded

(* For any threads: when a release is reserved and the count of the        *)
(* session is gone, some thread is about to look at the token.  The        *)
(* RequestRelease that read a count and the DecrementIO that dropped it    *)
(* never both leave the session to the other.                              *)
THEOREM NoReleaseStranded == Spec => []NoStrandedRelease
  <1>1. Init => CountInv /\ NoStrandedRelease
    BY TypeInit, CountInit DEF CountInv, Init, NoStrandedRelease
  <1>. QED
    BY <1>1, CountStep, StrandedStep, PTL DEF Spec

-----------------------------------------------------------------------------
(* Proofs about settled sessions, for any threads: what a session promises *)
(* as long as no thread without a count was overtaken on it.  A count      *)
(* keeps the release away; a thread without one meets a release on its     *)
(* way, but the reset only if it is overtaken.                             *)

-----------------------------------------------------------------------------
(* The inductive invariant                                                 *)

(* t is at a step that is taken with a count of zero: it just leased its   *)
(* session, or it may complete the release, or does.                       *)
Loose(t) == pc[t] \in {"attach", "hold", "claim"} \cup InComplete

(* t is at a step for which the session must be its own.                   *)
Solo(t) == pc[t] \in {"attach", "hold", "resetClient", "pushFree"}

(* No other thread is at work on the session of t.                         *)
Alone(t) == \A u \in Threads \ {t} : pc[u] # "idle" => ses[u] # ses[t]

(* t works for the connection it was called for; who completes a release   *)
(* has nothing to return to.                                               *)
Handles(t) ==
    /\ pc[t] # "idle" => task[t].lease = lease[ses[t]]
    /\ pc[t] \in {"claim"} \cup InComplete => ret[t] = "idle"

LooseIsLast(t) == Loose(t) => ioCount[ses[t]] = 0

SoloIsAlone(t) == Solo(t) => Alone(t)

(* A session as HandleAccept wants it.                                     *)
New(s) ==
    /\ socket[s] = 0 /\ state[s] = "CONNECT_READY"
    /\ cancelIo[s] = 0 /\ sending[s] = 0 /\ reason[s] = 0
    /\ latch[s] = 0 /\ announced[s] = 0

(* What is in order before a step: for the socket of a new connection, and *)
(* for each step of CompleteRelease what the steps before it have tidied.  *)
Tidied(t) ==
    LET s == ses[t] IN
    /\ pc[t] = "attach" => New(s)
    /\ pc[t] = "hold" => state[s] = "CONNECT_READY"
    /\ pc[t] \in CompletePcs \ {"close"} => socket[s] = 0
    /\ pc[t] \in CompletePcs \ {"close", "notify"} =>
         latch[s] = 0 /\ announced[s] = 0
    /\ pc[t] \in {"resetClient", "pushFree"} =>
         /\ cancelIo[s] = 0 /\ reason[s] = 0
         /\ state[s] \in {"NONE", "CONNECT_READY"}
    /\ pc[t] = "pushFree" => state[s] = "CONNECT_READY" /\ sending[s] = 0

Accepts(t) == pc[t] # "idle" /\ task[t].op = "accept"

(* Until the connect sequence tells the service, nobody has.               *)
Tells(t) ==
    Accepts(t) =>
        /\ pc[t] \notin {"onConnect", "finish"} \cup InComplete =>
             latch[ses[t]] = 0 /\ announced[ses[t]] = 0
        /\ pc[t] = "onConnect" => latch[ses[t]] = 1 /\ announced[ses[t]] = 0

(* Who asks for a release, or is going to, has noted the reason.           *)
Asks(t) ==
    /\ pc[t] # "idle"
    /\ \/ pc[t] \in {"release", "zombieMark"}
       \/ task[t].op = "reject" /\ pc[t] \notin {"resetClient", "pushFree"}

HasReason(t) == Asks(t) => reason[ses[t]] = lease[ses[t]]

ThreadOk(t) ==
    /\ Handles(t) /\ LooseIsLast(t) /\ SoloIsAlone(t)
    /\ Tidied(t) /\ Tells(t) /\ HasReason(t)

(* Nobody is at work on a free session.                                    *)
NewIfFree(s) ==
    poolState[s] = "FREE" =>
        /\ New(s) /\ ioCount[s] = 0
        /\ \A t \in Threads : pc[t] # "idle" => ses[t] # s

(* The latch and the service agree, but for the one thread between the two *)
(* steps of telling it.                                                    *)
Told(s) ==
    /\ announced[s] \in 0..1
    /\ announced[s] # latch[s] =>
         \E t \in Threads : pc[t] = "onConnect" /\ ses[t] = s

Reasoned(s) ==
    /\ reason[s] \in {0, lease[s]}
    /\ poolState[s] = "RELEASING" /\ reason[s] # lease[s] =>
         \E t \in Threads : pc[t] \in {"resetClient", "pushFree"} /\ ses[t] = s

OneAccepts(s) ==
    \A t, u \in Threads :
        Accepts(t) /\ Accepts(u) /\ ses[t] = s /\ ses[u] = s => t = u

SessionOk(s) == NewIfFree(s) /\ Told(s) /\ Reasoned(s)

(* Workers run handlers, and nothing else.                                 *)
WorkersHandle ==
    \A t \in Workers : pc[t] # "idle" => task[t].op \in Handlers

SettledInv ==
    /\ \A t \in Threads : Settled(ses[t]) => ThreadOk(t)
    /\ \A s \in Sessions : Settled(s) => SessionOk(s) /\ OneAccepts(s)
    /\ WorkersHandle

USE DEF Settled

-----------------------------------------------------------------------------
(* Counts and presence                                                     *)

LEMMA CountBounds ==
    ASSUME CountInv, NEW t \in Threads, HasCount(t) \/ HasIoCount(t)
    PROVE  /\ ioCount[ses[t]] \in Nat /\ ioCount[ses[t]] > 0
           /\ HasCount(t) /\ HasIoCount(t) => ioCount[ses[t]] > 1
           /\ \A u \in Threads \ {t} :
                HasCount(t) /\ HasCount(u) /\ ses[u] = ses[t]
                    => ioCount[ses[t]] > 1
  <1>. PICK s \in Sessions : s = ses[t]
    BY DEF CountInv, TypeOK
  <1>. DEFINE H == {u \in Threads : HandlerHolds(u, s)}
              I == {u \in Threads : IoHolds(u, s)}
  <1>1. ioCount[s] = Operations(s) + Cardinality(H) + Cardinality(I)
    BY DEF CountInv, CountIsHeld, Operations
  <1>2. /\ HasCount(t) => t \in H
        /\ HasIoCount(t) => t \in I
        /\ \A u \in Threads : HasCount(u) /\ ses[u] = s => u \in H
    BY Holders
  <1>3. IsFiniteSet(H) /\ IsFiniteSet(I)
    BY ThreadsAssumption, FS_Subset
  <1>. HIDE DEF H, I
  <1>4. /\ Cardinality(H) \in Nat /\ Cardinality(I) \in Nat
        /\ HasCount(t) => Cardinality(H) # 0
        /\ HasIoCount(t) => Cardinality(I) # 0
    BY <1>2, <1>3, FS_CardinalityType, FS_EmptySet
  <1>5. Operations(s) \in Nat
    <2>1. /\ live[s] \in [Kinds -> Nat] /\ dying[s] \in [Kinds -> Nat]
          /\ "recv" \in Kinds /\ "send" \in Kinds
      BY DEF CountInv, TypeOK, Kinds
    <2>. QED
      BY <2>1 DEF Operations, Outstanding
  <1>6. ASSUME NEW u \in Threads \ {t}, HasCount(t), HasCount(u), ses[u] = s
        PROVE  Cardinality(H) > 1
    <2>1. IsFiniteSet(H \ {t}) /\ Cardinality(H \ {t}) = Cardinality(H) - 1
      BY <1>2, <1>3, <1>6, FS_RemoveElement
    <2>2. Cardinality(H \ {t}) \in Nat /\ Cardinality(H \ {t}) # 0
      <3>1. u \in H \ {t} /\ H \ {t} # {}
        BY <1>2, <1>6
      <3>. QED
        BY <2>1, <3>1, FS_CardinalityType, FS_EmptySet
    <2>. QED
      BY <1>4, <2>1, <2>2
  <1>. QED
    BY <1>1, <1>4, <1>5, <1>6

LEMMA OperationCounts ==
    ASSUME CountInv, NEW s \in Sessions, NEW k \in Kinds,
           live[s][k] > 0 \/ dying[s][k] > 0
    PROVE  ioCount[s] > 0
  <1>. DEFINE H == {u \in Threads : HandlerHolds(u, s)}
              I == {u \in Threads : IoHolds(u, s)}
  <1>1. ioCount[s] = Operations(s) + Cardinality(H) + Cardinality(I)
    BY DEF CountInv, CountIsHeld, Operations
  <1>2. IsFiniteSet(H) /\ IsFiniteSet(I)
    BY ThreadsAssumption, FS_Subset
  <1>. HIDE DEF H, I
  <1>3. Cardinality(H) \in Nat /\ Cardinality(I) \in Nat
    BY <1>2, FS_CardinalityType
  <1>4. Operations(s) \in Nat /\ Operations(s) > 0
    <2>1. /\ live[s] \in [Kinds -> Nat] /\ dying[s] \in [Kinds -> Nat]
          /\ "recv" \in Kinds /\ "send" \in Kinds
      BY DEF CountInv, TypeOK, Kinds
    <2>. QED
      BY <2>1 DEF Operations, Outstanding, Kinds
  <1>. QED
    BY <1>1, <1>3, <1>4

(* What is known of a thread at work on a settled session.                 *)
LEMMA Here ==
    ASSUME CountInv, SettledInv, NEW t \in Threads, pc[t] # "idle",
           Settled(ses[t])
    PROVE  /\ TypeOK /\ TaskFits(t) /\ ses[t] \in Sessions /\ ThreadOk(t)
           /\ SessionOk(ses[t]) /\ OneAccepts(ses[t])
           /\ poolState[ses[t]] # "FREE"
           /\ Loose(t) => ~HasCount(t) /\ ~HasIoCount(t)
           /\ \A u \in Threads \ {t} : ses[u] = ses[t] => ~Solo(u)
  <1>1. TypeOK /\ TaskFits(t) /\ ses[t] \in Sessions
    BY DEF CountInv, TypeOK, TasksFit
  <1>2. ThreadOk(t) /\ SessionOk(ses[t]) /\ OneAccepts(ses[t])
    BY <1>1 DEF SettledInv
  <1>3. poolState[ses[t]] # "FREE"
    BY <1>2 DEF SessionOk, NewIfFree
  <1>4. Loose(t) => ~HasCount(t) /\ ~HasIoCount(t)
    BY <1>2, CountBounds DEF ThreadOk, LooseIsLast
  <1>5. \A u \in Threads \ {t} : ses[u] = ses[t] => ~Solo(u)
    BY DEF SettledInv, ThreadOk, SoloIsAlone, Alone
  <1>. QED
    BY <1>1, <1>2, <1>3, <1>4, <1>5

(* The connect sequence holds its count until it is over.                  *)
LEMMA AcceptorCounts ==
    ASSUME NEW t \in Threads, Accepts(t),
           pc[t] \notin {"attach", "hold"} \cup InComplete
    PROVE  HasCount(t)
  BY DEF Accepts, HasCount, Handlers

(* A step of t says nothing of a thread elsewhere, and of other sessions.  *)
LEMMA ElsewhereOk ==
    ASSUME TypeOK, SettledInv, NEW t \in Threads, Local(t), pc[t] # "idle",
           NEW u \in Threads \ {t}, pc[u] = "idle" \/ ses[u] # ses[t],
           ses[u] \notin overtaken'
    PROVE  ThreadOk(u)'
  <1>1. /\ pc'[u] = pc[u] /\ ret'[u] = ret[u] /\ task'[u] = task[u]
        /\ ses' = ses /\ lease' = lease
        /\ \A v \in Threads \ {t} : pc'[v] = pc[v]
    BY DEF Local
  <1>2. ThreadOk(u)
    BY <1>1 DEF SettledInv, Local
  <1>3. CASE pc[u] = "idle"
    <2>1. /\ ~Loose(u)' /\ ~Solo(u)' /\ ~Accepts(u)' /\ ~Asks(u)'
      BY <1>1, <1>3 DEF Loose, Solo, InComplete, CompletePcs, Accepts, Asks
    <2>2. Handles(u)'
      BY <1>1, <1>3 DEF Handles, InComplete, CompletePcs
    <2>3. Tidied(u)'
      BY <1>1, <1>3 DEF Tidied, CompletePcs
    <2>. QED
      BY <2>1, <2>2, <2>3
         DEF ThreadOk, LooseIsLast, SoloIsAlone, Tells, HasReason
  <1>4. CASE ses[u] # ses[t]
    <2>. PICK x \in Sessions \ {ses[t]} : x = ses[u]
      BY <1>4 DEF TypeOK
    <2>1. /\ poolState'[x] = poolState[x] /\ ioCount'[x] = ioCount[x]
          /\ cancelIo'[x] = cancelIo[x] /\ socket'[x] = socket[x]
          /\ state'[x] = state[x] /\ reason'[x] = reason[x]
          /\ sending'[x] = sending[x] /\ latch'[x] = latch[x]
          /\ announced'[x] = announced[x]
      BY DEF Local
    <2>2. Handles(u)'
      BY <1>1, <1>2 DEF ThreadOk, Handles
    <2>3. LooseIsLast(u)' /\ SoloIsAlone(u)'
      <3>1. Alone(u) => Alone(u)'
        BY <1>1, <1>4 DEF Alone
      <3>. QED
        BY <1>1, <1>2, <2>1, <3>1
           DEF ThreadOk, LooseIsLast, SoloIsAlone, Loose, Solo
    <2>4. Tidied(u)'
      BY <1>1, <1>2, <2>1 DEF ThreadOk, Tidied, New
    <2>5. Tells(u)' /\ HasReason(u)'
      BY <1>1, <1>2, <2>1 DEF ThreadOk, Tells, HasReason, Accepts, Asks
    <2>. QED
      BY <2>2, <2>3, <2>4, <2>5 DEF ThreadOk
  <1>. QED
    BY <1>3, <1>4

LEMMA OtherSessionOk ==
    ASSUME TypeOK, SettledInv, NEW t \in Threads, Local(t), pc[t] # "idle",
           NEW x \in Sessions \ {ses[t]}, x \notin overtaken'
    PROVE  SessionOk(x)' /\ OneAccepts(x)'
  <1>1. /\ poolState'[x] = poolState[x] /\ ioCount'[x] = ioCount[x]
        /\ cancelIo'[x] = cancelIo[x] /\ socket'[x] = socket[x]
        /\ state'[x] = state[x] /\ reason'[x] = reason[x]
        /\ sending'[x] = sending[x] /\ latch'[x] = latch[x]
        /\ announced'[x] = announced[x] /\ lease' = lease /\ ses' = ses
        /\ \A v \in Threads : ses[v] = x => pc'[v] = pc[v] /\ task'[v] = task[v]
    BY DEF Local
  <1>2. SessionOk(x) /\ OneAccepts(x)
    BY DEF SettledInv, Local
  <1>3. NewIfFree(x)'
    BY <1>1, <1>2 DEF SessionOk, NewIfFree, New
  <1>4. Told(x)' /\ Reasoned(x)'
    BY <1>1, <1>2 DEF SessionOk, Told, Reasoned
  <1>5. OneAccepts(x)'
    BY <1>1, <1>2 DEF OneAccepts, Accepts
  <1>. QED
    BY <1>3, <1>4, <1>5 DEF SessionOk

-----------------------------------------------------------------------------
(* A step of a thread among others at its session                          *)

Noted(t) ==
    reason'[ses[t]] = IF reason[ses[t]] = 0 THEN task[t].lease
                      ELSE reason[ses[t]]

(* The step of the connect sequence that tells the service, or is about to. *)
Telling(t) ==
    /\ Accepts(t) /\ announced[ses[t]] \in Int
    /\ \/ /\ pc[t] = "announce" /\ pc'[t] = "onConnect"
          /\ latch'[ses[t]] = 1 /\ announced'[ses[t]] = announced[ses[t]]
       \/ /\ pc[t] = "onConnect" /\ pc'[t] = "finish"
          /\ latch'[ses[t]] = latch[ses[t]]
          /\ announced'[ses[t]] = announced[ses[t]] + 1

(* t goes on with its task, or is done with it.                            *)
TaskKept(t) ==
    \/ pc'[t] = "idle"
    \/ /\ task'[t].lease = task[t].lease
       /\ \/ task'[t].op = task[t].op
          \/ task[t].op = "recv" /\ task'[t].op = "reject"

(* What a step of t may do to a session others are at work on.             *)
Gentle(t) ==
    LET s == ses[t] IN
    /\ poolState'[s] # "FREE"
    /\ ioCount[s] = 0 => ioCount'[s] = 0
    /\ socket'[s] \in {socket[s], 0}
    /\ \/ latch'[s] = latch[s] /\ announced'[s] = announced[s]
       \/ Telling(t)
       \/ ioCount[s] = 0 /\ latch'[s] = 0 /\ announced'[s] = 0
    /\ reason[s] = lease[s] => reason'[s] = lease[s]

LEMMA NearOk ==
    ASSUME CountInv, SettledInv, NEW t \in Threads, Local(t), pc[t] # "idle",
           Gentle(t), Settled(ses[t]),
           NEW u \in Threads \ {t}, pc[u] # "idle", ses[u] = ses[t]
    PROVE  ThreadOk(u)'
  <1>. PICK s \in Sessions : s = ses[t] /\ s = ses[u]
    BY DEF CountInv, TypeOK
  <1>1. /\ ThreadOk(u) /\ OneAccepts(s) /\ ~Solo(u)
        /\ Loose(u) => ~HasCount(u) /\ ~HasIoCount(u)
        /\ HasCount(u) => ioCount[s] # 0
        /\ HasCount(t) => ioCount[s] # 0
    BY Here, CountBounds
  <1>2. /\ pc'[u] = pc[u] /\ ret'[u] = ret[u] /\ task'[u] = task[u]
        /\ ses' = ses /\ lease' = lease
    BY DEF Local
  <1>3. Handles(u)' /\ LooseIsLast(u)' /\ SoloIsAlone(u)'
    BY <1>1, <1>2
       DEF ThreadOk, Handles, LooseIsLast, SoloIsAlone, Loose, Solo, Gentle
  <1>4. Telling(t) => ioCount[s] # 0
    BY <1>1, AcceptorCounts DEF Telling, InComplete, CompletePcs
  <1>5. Tidied(u)'
    <2>1. pc[u] \notin {"attach", "hold", "resetClient", "pushFree"}
      BY <1>1 DEF Solo
    <2>2. CASE pc[u] \in CompletePcs
      <3>1. ioCount[s] = 0
        BY <1>1, <2>2 DEF ThreadOk, LooseIsLast, Loose, InComplete
      <3>. QED
        BY <1>1, <1>2, <1>4, <2>1, <3>1 DEF ThreadOk, Tidied, Gentle
    <2>3. CASE pc[u] \notin CompletePcs
      BY <1>2, <2>1, <2>3 DEF Tidied
    <2>. QED
      BY <2>2, <2>3
  <1>6. Tells(u)'
    <2>1. CASE Accepts(u) /\ pc[u] \notin {"finish"} \cup InComplete
      <3>1. HasCount(u)
        BY <1>1, <2>1, AcceptorCounts DEF Solo
      <3>2. ~Telling(t)
        BY <2>1, <1>1 DEF Telling, OneAccepts
      <3>3. latch'[s] = latch[s] /\ announced'[s] = announced[s]
        BY <1>1, <3>1, <3>2 DEF Gentle
      <3>. QED
        BY <1>1, <1>2, <3>3 DEF ThreadOk, Tells, Accepts
    <2>2. CASE ~Accepts(u) \/ pc[u] \in {"finish"} \cup InComplete
      BY <1>2, <2>2 DEF Tells, Accepts, InComplete, CompletePcs
    <2>. QED
      BY <2>1, <2>2
  <1>7. HasReason(u)'
    BY <1>1, <1>2 DEF ThreadOk, HasReason, Asks, Gentle
  <1>. QED
    BY <1>3, <1>5, <1>6, <1>7 DEF ThreadOk

LEMMA WorkersKept ==
    ASSUME WorkersHandle, NEW t \in Threads, pc[t] # "idle",
           t \in Workers => TaskKept(t),
           \A u \in Threads \ {t} : pc'[u] = pc[u] /\ task'[u] = task[u]
    PROVE  WorkersHandle'
  <1>1. Workers \subseteq Threads
    BY DEF Threads
  <1>. QED
    BY <1>1 DEF WorkersHandle, TaskKept, Handlers

(* Once its own part is shown, a step of t keeps the invariant.            *)
LEMMA StepOk ==
    ASSUME CountInv, SettledInv, NEW t \in Threads, Local(t), pc[t] # "idle",
           TaskKept(t),
           ses[t] \notin overtaken' =>
               ThreadOk(t)' /\ SessionOk(ses[t])' /\ (Alone(t) \/ Gentle(t))
    PROVE  SettledInv'
  <1>. PICK s \in Sessions : s = ses[t]
    BY DEF CountInv, TypeOK
  <1>0. /\ TypeOK /\ ses' = ses
        /\ s \notin overtaken' => Settled(s)
        /\ \A u \in Threads \ {t} : pc'[u] = pc[u] /\ task'[u] = task[u]
    BY DEF CountInv, Local
  <1>1. ASSUME NEW u \in Threads, ses[u] \notin overtaken'
        PROVE  ThreadOk(u)'
    <2>1. CASE u = t
      BY <1>0, <1>1, <2>1
    <2>2. CASE u # t /\ (pc[u] = "idle" \/ ses[u] # s)
      BY <1>0, <1>1, <2>2, ElsewhereOk
    <2>3. CASE u # t /\ pc[u] # "idle" /\ ses[u] = s
      <3>1. Settled(s) /\ s \notin overtaken'
        BY <1>0, <1>1, <2>3
      <3>2. Gentle(t)
        BY <1>0, <2>3, <3>1 DEF Alone
      <3>. QED
        BY <2>3, <3>1, <3>2, NearOk
    <2>. QED
      BY <2>1, <2>2, <2>3
  <1>2. ASSUME NEW x \in Sessions, x \notin overtaken'
        PROVE  SessionOk(x)' /\ OneAccepts(x)'
    <2>1. CASE x = s
      <3>1. SessionOk(x)'
        BY <1>0, <1>2, <2>1
      <3>2. OneAccepts(x)
        BY <1>0, <1>2, <2>1 DEF SettledInv
      <3>3. \A u \in Threads : Accepts(u)' => Accepts(u)
        BY <1>0 DEF TaskKept, Accepts
      <3>. QED
        BY <1>0, <3>1, <3>2, <3>3 DEF OneAccepts
    <2>2. CASE x # s
      BY <1>0, <1>2, <2>2, OtherSessionOk
    <2>. QED
      BY <2>1, <2>2
  <1>3. WorkersHandle'
    BY <1>0, WorkersKept DEF SettledInv
  <1>4. /\ \A u \in Threads : ses'[u] \notin overtaken' => ThreadOk(u)'
        /\ \A x \in Sessions :
             x \notin overtaken' => SessionOk(x)' /\ OneAccepts(x)'
    BY <1>0, <1>1, <1>2
  <1>. QED
    BY <1>3, <1>4 DEF SettledInv

(* A step between two that are taken with a count.                         *)
Mild(t) ==
    LET s == ses[t] IN
    /\ ~Loose(t) /\ pc'[t] \notin {"attach", "hold", "claim"} \cup InComplete
    /\ \/ poolState'[s] = poolState[s]
       \/ pc[t] = "release" /\ poolState'[s] = "RELEASING"
    /\ ioCount[s] = 0 => ioCount'[s] = 0
    /\ socket'[s] = socket[s]
    /\ reason'[s] = reason[s] \/ Noted(t)
    /\ Asks(t)' => Noted(t) \/ Asks(t)

Quiet(t) ==
    /\ pc[t] \notin {"announce", "onConnect"} /\ pc'[t] # "onConnect"
    /\ pc[t] = "finish" => pc'[t] = "idle"
    /\ latch'[ses[t]] = latch[ses[t]]
    /\ announced'[ses[t]] = announced[ses[t]]

LEMMA MildReason ==
    ASSUME CountInv, SettledInv, NEW t \in Threads, Local(t), pc[t] # "idle",
           Settled(ses[t]), Mild(t), NEW s \in Sessions, s = ses[t]
    PROVE  /\ reason'[s] \in {0, lease'[s]}
           /\ reason[s] = lease[s] => reason'[s] = lease'[s]
           /\ Noted(t) => reason'[s] = lease'[s]
  <1>1. /\ task[t].lease = lease[s] /\ lease' = lease
        /\ reason[s] \in {0, lease[s]}
    BY Here DEF ThreadOk, Handles, SessionOk, Reasoned, Local
  <1>. QED
    BY <1>1 DEF Mild, Noted

LEMMA MildTells ==
    ASSUME TypeOK, NEW t \in Threads, Local(t), pc[t] # "idle", TaskKept(t),
           Tells(t), Mild(t), Quiet(t) \/ Telling(t)
    PROVE  Tells(t)'
  <1>1. ses' = ses
    BY DEF Local
  <1>2. CASE ~Accepts(t)'
    BY <1>2 DEF Tells
  <1>3. CASE Accepts(t)'
    <2>1. Accepts(t) /\ pc'[t] # "idle"
      BY <1>3 DEF TaskKept, Accepts
    <2>2. CASE Quiet(t)
      BY <1>1, <2>1, <2>2 DEF Tells, Quiet, Mild, Loose
    <2>3. CASE Telling(t)
      BY <1>1, <2>1, <2>3 DEF Tells, Telling, InComplete, CompletePcs
    <2>. QED
      BY <2>2, <2>3
  <1>. QED
    BY <1>2, <1>3

LEMMA MildHere ==
    ASSUME CountInv, SettledInv, NEW t \in Threads, Local(t), pc[t] # "idle",
           TaskKept(t), Settled(ses[t]), Mild(t), Quiet(t) \/ Telling(t)
    PROVE  ThreadOk(t)'
  <1>. PICK s \in Sessions : s = ses[t]
    BY DEF CountInv, TypeOK
  <1>0. TypeOK /\ ThreadOk(t) /\ ses' = ses /\ lease' = lease
    BY Here DEF Local
  <1>1. ~Loose(t)' /\ ~Solo(t)' /\ pc'[t] \notin CompletePcs
    BY DEF Mild, Loose, Solo, InComplete, CompletePcs
  <1>2. Handles(t)'
    BY <1>0 DEF Mild, ThreadOk, Handles, TaskKept
  <1>3. LooseIsLast(t)' /\ SoloIsAlone(t)' /\ Tidied(t)'
    BY <1>1 DEF LooseIsLast, SoloIsAlone, Solo, Tidied, CompletePcs
  <1>4. Tells(t)'
    BY <1>0, MildTells DEF ThreadOk
  <1>5. HasReason(t)'
    <2>1. /\ reason[s] = lease[s] => reason'[s] = lease'[s]
          /\ Noted(t) => reason'[s] = lease'[s]
      BY MildReason
    <2>2. Asks(t)' => Noted(t) \/ reason[s] = lease[s]
      BY <1>0 DEF Mild, ThreadOk, HasReason
    <2>. QED
      BY <1>0, <2>1, <2>2 DEF HasReason
  <1>. QED
    BY <1>2, <1>3, <1>4, <1>5 DEF ThreadOk

LEMMA MildSession ==
    ASSUME CountInv, SettledInv, NEW t \in Threads, Local(t), pc[t] # "idle",
           Settled(ses[t]), Mild(t), Quiet(t) \/ Telling(t),
           NEW s \in Sessions, s = ses[t]
    PROVE  SessionOk(s)'
  <1>0. /\ TypeOK /\ ThreadOk(t) /\ SessionOk(s) /\ ses' = ses /\ lease' = lease
        /\ \A u \in Threads \ {t} : pc'[u] = pc[u]
    BY Here DEF Local
  <1>1. /\ poolState[s] # "FREE"
        /\ \A u \in Threads :
             pc[u] \in {"resetClient", "pushFree"} => ses[u] # s
    BY Here DEF Mild, Loose, InComplete, CompletePcs, Solo
  <1>2. NewIfFree(s)'
    BY <1>1 DEF Mild, NewIfFree
  <1>3. Told(s)'
    <2>1. CASE Quiet(t)
      <3>1. \A u \in Threads : pc[u] = "onConnect" => pc'[u] = "onConnect"
        BY <1>0, <2>1 DEF Quiet
      <3>. QED
        BY <1>0, <2>1, <3>1 DEF Quiet, SessionOk, Told
    <2>2. CASE Telling(t)
      <3>1. Tells(t) /\ pc[t] \in {"announce", "onConnect"}
        BY <1>0, <2>2 DEF ThreadOk, Telling
      <3>2. CASE pc[t] = "announce"
        <4>1. announced'[s] = 0 /\ latch'[s] = 1 /\ pc'[t] = "onConnect"
          BY <2>2, <3>1, <3>2 DEF Telling, Tells, InComplete, CompletePcs
        <4>. QED
          BY <1>0, <4>1 DEF Told
      <3>3. CASE pc[t] = "onConnect"
        <4>1. announced'[s] = 1 /\ latch'[s] = 1
          BY <2>2, <3>1, <3>3 DEF Telling, Tells
        <4>. QED
          BY <4>1 DEF Told
      <3>. QED
        BY <3>1, <3>2, <3>3
    <2>. QED
      BY <2>1, <2>2
  <1>4. Reasoned(s)'
    <2>1. /\ reason'[s] \in {0, lease'[s]}
          /\ reason[s] = lease[s] => reason'[s] = lease'[s]
      BY MildReason
    <2>2. poolState'[s] = "RELEASING" => reason[s] = lease[s]
      <3>1. CASE poolState'[s] = poolState[s]
        BY <1>0, <1>1, <3>1 DEF SessionOk, Reasoned
      <3>2. CASE pc[t] = "release"
        BY <1>0, <3>2 DEF ThreadOk, HasReason, Asks
      <3>. QED
        BY <3>1, <3>2 DEF Mild
    <2>. QED
      BY <2>1, <2>2 DEF Reasoned
  <1>. QED
    BY <1>2, <1>3, <1>4 DEF SessionOk

LEMMA MildGentle ==
    ASSUME CountInv, SettledInv, NEW t \in Threads, Local(t), pc[t] # "idle",
           Settled(ses[t]), Mild(t), Quiet(t) \/ Telling(t)
    PROVE  Gentle(t)
  <1>. PICK s \in Sessions : s = ses[t]
    BY DEF CountInv, TypeOK
  <1>1. poolState'[s] # "FREE"
    BY Here DEF Mild
  <1>2. reason[s] = lease[s] => reason'[s] = lease[s]
    BY MildReason DEF Local
  <1>. QED
    BY <1>1, <1>2 DEF Gentle, Mild, Quiet

LEMMA MildStep ==
    ASSUME CountInv, SettledInv, NEW t \in Threads, Local(t), pc[t] # "idle",
           TaskKept(t),
           ses[t] \notin overtaken' => Mild(t) /\ (Quiet(t) \/ Telling(t))
    PROVE  SettledInv'
  <1>1. ses[t] \in Sessions
    BY DEF CountInv, TypeOK
  <1>2. ASSUME ses[t] \notin overtaken'
        PROVE  ThreadOk(t)' /\ SessionOk(ses[t])' /\ Gentle(t)
    <2>1. Settled(ses[t]) /\ ses' = ses
      BY <1>2 DEF Local
    <2>2. ThreadOk(t)' /\ Gentle(t)
      BY <1>2, <2>1, MildHere, MildGentle
    <2>3. PICK s \in Sessions : s = ses[t]
      BY <1>1
    <2>4. SessionOk(s)'
      BY <1>2, <2>1, <2>3, MildSession
    <2>. QED
      BY <2>1, <2>2, <2>3, <2>4
  <1>. QED
    BY <1>2, StepOk

-----------------------------------------------------------------------------
(* A step that leaves its session as it is, but for the count.             *)

LEMMA StillStep ==
    ASSUME CountInv, SettledInv, NEW t \in Threads, Local(t), TaskKept(t),
           pc[t] \notin {"idle", "onConnect", "resetClient", "pushFree"},
           UNCHANGED <<poolState, socket, reason, latch, announced>>,
           ioCount[ses[t]] = 0 => ioCount'[ses[t]] = 0,
           ses[t] \notin overtaken' => ThreadOk(t)'
    PROVE  SettledInv'
  <1>1. ASSUME ses[t] \notin overtaken'
        PROVE  SessionOk(ses[t])' /\ Gentle(t)
    <2>. PICK s \in Sessions : s = ses[t]
      BY DEF CountInv, TypeOK
    <2>1. /\ SessionOk(s) /\ poolState[s] # "FREE"
          /\ ses' = ses /\ lease' = lease
          /\ \A u \in Threads \ {t} : pc'[u] = pc[u]
      BY <1>1, Here DEF Local
    <2>2. NewIfFree(s)' /\ Told(s)' /\ Reasoned(s)'
      BY <2>1 DEF SessionOk, NewIfFree, Told, Reasoned
    <2>3. Gentle(t)
      BY <2>1 DEF Gentle
    <2>. QED
      BY <2>1, <2>2, <2>3 DEF SessionOk
  <1>. QED
    BY <1>1, StepOk

LEMMA IdleOk ==
    ASSUME NEW t \in Threads, pc'[t] = "idle"
    PROVE  ThreadOk(t)'
  BY DEF ThreadOk, Handles, LooseIsLast, SoloIsAlone, Tidied, Tells, HasReason,
         Loose, Solo, Accepts, Asks, InComplete, CompletePcs

-----------------------------------------------------------------------------
(* Which steps are mild.                                                   *)

Onward == Pcs \ ({"attach", "hold", "claim", "release", "onConnect",
                  "zombieMark"} \cup InComplete)

(* t is between two steps that tell the service nothing.                   *)
Working(t) == pc[t] \notin {"idle", "announce", "onConnect"} /\ ~Loose(t)

(* Every step goes on with its task.                                       *)
LEMMA StepKeepsTask ==
    ASSUME CountInv, NEW t \in Threads, Step(t)
    PROVE  pc[t] # "idle" /\ TaskKept(t)
  <1>0. TypeOK /\ TaskFits(t) /\ pc \in [Threads -> Pcs] /\ DOMAIN task = Threads
    BY DEF CountInv, TypeOK, TasksFit
  <1>1. ASSUME NEW l, Jump(t, l)
        PROVE  TaskKept(t)
    BY <1>0, <1>1 DEF Jump, TaskKept
  <1>2. ASSUME task'[t].lease = task[t].lease, task'[t].op = task[t].op
        PROVE  TaskKept(t)
    BY <1>2 DEF TaskKept
  <1>3. CASE Finish(t) \/ TakeToken(t)
    BY <1>1, <1>3 DEF Finish, DecrementIO, TakeToken
  <1>4. CASE ReleaseStep(t)
    BY <1>1, <1>4 DEF ReleaseStep, ReleaseCas, CancelPendingIO, CancelIoEx,
       Reserve, ReadCount, Claim
  <1>5. CASE CompleteReleaseStep(t)
    BY <1>1, <1>5 DEF CompleteReleaseStep, CloseSocket, NotifyService,
       OnDisconnect, ResetBase, ResetClient, PushFree
  <1>6. CASE IoStep(t)
    <2>1. CASE PostFails(t)
      BY <1>2, <2>1 DEF PostFails
    <2>2. CASE SendGate(t)
      <3>1. task' = [task EXCEPT ![t].io = "send"] =>
              task'[t].lease = task[t].lease /\ task'[t].op = task[t].op
        BY <1>0
      <3>. QED
        BY <1>1, <1>2, <2>2, <3>1 DEF SendGate
    <2>. QED
      BY <1>1, <1>6, <2>1, <2>2 DEF IoStep, PostReceive, BeginIO, Gate,
         PostSucceeds, TrySendNext, UndoIO, DecrementIO
  <1>7. CASE AcceptStep(t)
    BY <1>1, <1>2, <1>7 DEF AcceptStep, AttachSocket, HoldForConnect,
       AcceptStarved, Connect, MarkNotified, OnClientConnect, ConnectFailed
  <1>8. CASE HandlerStep(t)
    <2>1. CASE ParseReject(t)
      <3>1. /\ pc[t] = "parse" /\ task'[t].op = "reject"
            /\ task'[t].lease = task[t].lease
        BY <1>0, <2>1 DEF ParseReject
      <3>2. task[t].op = "recv"
        BY <1>0, <3>1 DEF TaskFits, Fits
      <3>. QED
        BY <3>1, <3>2 DEF TaskKept
    <2>2. CASE CheckPending(t)
      <3>1. task' = [task EXCEPT ![t].io = "recv"] =>
              task'[t].lease = task[t].lease /\ task'[t].op = task[t].op
        BY <1>0
      <3>. QED
        BY <1>1, <1>2, <2>2, <3>1 DEF CheckPending
    <2>. QED
      BY <1>1, <1>2, <1>8, <2>1, <2>2 DEF HandlerStep, ParseDone, ParseReply,
         ParseBad, DropRejected, RecvNotPosted, SendRest, SendNext
  <1>9. CASE NoteZombie(t) \/ MarkZombie(t)
    BY <1>1, <1>2, <1>9 DEF NoteZombie, MarkZombie
  <1>10. pc[t] # "idle"
    BY DEF Step, Finish, TakeToken, ReleaseStep, ReleaseCas, CancelPendingIO,
       CancelIoEx, Reserve, ReadCount, Claim, CompleteReleaseStep, CloseSocket,
       NotifyService, OnDisconnect, ResetBase, ResetClient, PushFree, IoStep,
       PostReceive, BeginIO, Gate, PostSucceeds, PostFails, TrySendNext,
       SendGate, UndoIO, AcceptStep, AttachSocket, HoldForConnect,
       AcceptStarved, Connect, MarkNotified, OnClientConnect, ConnectFailed,
       HandlerStep, ParseDone, ParseReply, ParseReject, ParseBad, DropRejected,
       CheckPending, RecvNotPosted, SendRest, SendNext, NoteZombie, MarkZombie
  <1>. QED
    BY <1>3, <1>4, <1>5, <1>6, <1>7, <1>8, <1>9, <1>10 DEF Step

LEMMA Onwards ==
    ASSUME CountInv, NEW t \in Threads
    PROVE  /\ {"idle", "finish", "cancel", "cancelIoEx", "reserve", "readCount",
               "connect", "announce", "connectFailed", "parse", "checkPending",
               "recvNotPosted", "drop", "sendDone", "postRecv", "trySend",
               "sendGate", "begin", "gate", "post", "undoIO"} \subseteq Onward
           /\ AfterSend(t) \in Onward /\ Posted(t) \in Onward
           /\ NotPosted(t) \in Onward
           /\ pc[t] \in InRelease => ret[t] \in Onward
  <1>1. {"idle", "finish", "cancel", "cancelIoEx", "reserve", "readCount",
         "connect", "announce", "connectFailed", "parse", "checkPending",
         "recvNotPosted", "drop", "sendDone", "postRecv", "trySend",
         "sendGate", "begin", "gate", "post", "undoIO"} \subseteq Onward
    BY Steps DEF Onward, InComplete, CompletePcs
  <1>2. /\ AfterSend(t) \in Onward /\ Posted(t) \in Onward
        /\ NotPosted(t) \in Onward
    BY <1>1 DEF AfterSend, Posted, NotPosted
  <1>3. pc[t] \in InRelease => ret[t] \in {"idle", "finish", "undoIO"}
    BY DEF CountInv, TasksFit, TaskFits
  <1>. QED
    BY <1>1, <1>2, <1>3

(* Going on with the same task,  ...                                       *)
LEMMA GoesOn ==
    ASSUME NEW t \in Threads, Working(t), TaskKept(t),
           pc'[t] \in Onward, pc[t] = "finish" => pc'[t] = "idle",
           pc'[t] = "idle" \/ task'[t].op = task[t].op,
           UNCHANGED <<poolState, socket, reason, latch, announced>>,
           ioCount[ses[t]] = 0 => ioCount'[ses[t]] = 0
    PROVE  Mild(t) /\ Quiet(t)
  <1>1. Asks(t)' => Asks(t)
    BY DEF Asks, Working, Onward, Loose, InComplete, CompletePcs
  <1>2. Mild(t)
    BY <1>1 DEF Mild, Working, Onward
  <1>3. Quiet(t)
    BY DEF Quiet, Working, Onward
  <1>. QED
    BY <1>2, <1>3

LEMMA JumpsOn ==
    ASSUME TypeOK, NEW t \in Threads, Working(t), NEW l \in Onward,
           Jump(t, l), pc[t] = "finish" => l = "idle", TaskKept(t),
           UNCHANGED <<poolState, socket, reason, latch, announced>>,
           ioCount[ses[t]] = 0 => ioCount'[ses[t]] = 0
    PROVE  Mild(t) /\ Quiet(t)
  <1>1. /\ pc'[t] = l
        /\ task'[t] = task[t] \/ l = "idle"
    BY JumpTo DEF Onward
  <1>. QED
    BY <1>1, GoesOn

(* ... and calling Release, with a reason.                                 *)
LEMMA CallsOn ==
    ASSUME TypeOK, NEW t \in Threads, Working(t), pc[t] # "finish",
           pc'[t] = "release", task'[t] = task[t],
           \/ Noted(t)
           \/ reason' = reason /\ (task[t].op = "reject" \/ pc[t] = "zombieMark"),
           UNCHANGED <<poolState, ioCount, socket, latch, announced>>
    PROVE  Mild(t) /\ Quiet(t)
  <1>1. Asks(t)' => Noted(t) \/ Asks(t)
    BY DEF Asks, Working, Loose, InComplete, CompletePcs
  <1>2. Mild(t)
    BY <1>1 DEF Mild, Working, InComplete, CompletePcs
  <1>3. Quiet(t)
    BY DEF Quiet, Working
  <1>. QED
    BY <1>2, <1>3

LEMMA NoteNotes ==
    ASSUME TypeOK, NEW t \in Threads, NoteReason(t, ses[t], task[t].lease)
    PROVE  Noted(t)
  <1>1. reason \in [Sessions -> Nat] /\ ses[t] \in Sessions
    BY DEF TypeOK
  <1>. QED
    BY <1>1 DEF NoteReason, Noted

LEMMA CallTo ==
    ASSUME TypeOK, NEW t \in Threads, NEW l, CallRelease(t, l)
    PROVE  pc'[t] = "release"
  <1>1. pc \in [Threads -> Pcs]
    BY DEF TypeOK
  <1>. QED
    BY <1>1 DEF CallRelease

LEMMA ReleaseOk ==
    ASSUME CountInv, SettledInv, NEW t \in Threads, Local(t), TaskKept(t),
           \/ ReleaseCas(t) \/ CancelPendingIO(t) \/ CancelIoEx(t)
           \/ Reserve(t)
    PROVE  SettledInv'
  <1>0. TypeOK
    BY DEF CountInv
  <1>1. /\ pc[t] \in {"release", "cancel", "cancelIoEx", "reserve"}
        /\ Working(t) /\ pc[t] # "finish" /\ pc[t] # "idle"
    BY DEF ReleaseCas, CancelPendingIO, CancelIoEx, Reserve, Working, Loose,
       InComplete, CompletePcs
  <1>2. ret[t] \in Onward
    BY <1>1, Onwards DEF InRelease, ReleasePcs
  <1>3. CASE CancelPendingIO(t) \/ CancelIoEx(t) \/ Reserve(t)
    <2>1. /\ UNCHANGED <<poolState, ioCount, socket, reason, latch, announced>>
          /\ \/ Jump(t, "cancelIoEx") \/ Jump(t, "reserve")
             \/ Jump(t, "readCount")
      BY <1>3 DEF CancelPendingIO, CancelIoEx, Reserve
    <2>2. {"cancelIoEx", "reserve", "readCount"} \subseteq Onward
      BY Onwards
    <2>3. Mild(t) /\ Quiet(t)
      BY <1>0, <1>1, <2>1, <2>2, JumpsOn
    <2>. QED
      BY <1>1, <2>3, MildStep
  <1>4. CASE ReleaseCas(t) /\ poolState[ses[t]] # "IN_USE"
    <2>1. /\ Jump(t, ret[t])
          /\ UNCHANGED <<poolState, ioCount, socket, reason, latch, announced>>
      BY <1>4 DEF ReleaseCas
    <2>2. Mild(t) /\ Quiet(t)
      BY <1>0, <1>1, <1>2, <2>1, JumpsOn
    <2>. QED
      BY <1>1, <2>2, MildStep
  <1>5. CASE ReleaseCas(t) /\ poolState[ses[t]] = "IN_USE"
    <2>1. /\ pc[t] = "release" /\ pc'[t] = "cancel" /\ task' = task
          /\ poolState'[ses[t]] = "RELEASING"
          /\ UNCHANGED <<ioCount, socket, reason, latch, announced>>
      BY <1>0, <1>5 DEF ReleaseCas, Jump, TypeOK
    <2>2. Asks(t)' => Asks(t)
      BY <2>1 DEF Asks
    <2>3. Mild(t) /\ Quiet(t)
      BY <1>1, <2>1, <2>2
         DEF Mild, Quiet, Working, InComplete, CompletePcs
    <2>. QED
      BY <1>1, <2>3, MildStep
  <1>. QED
    BY <1>3, <1>4, <1>5

(* RequestRelease finds the count at zero: no handler is at work.          *)
LEMMA ReadCountOk ==
    ASSUME CountInv, SettledInv, NEW t \in Threads, Local(t), TaskKept(t),
           ReadCount(t)
    PROVE  SettledInv'
  <1>0. TypeOK /\ TaskFits(t) /\ "claim" \in Pcs
    BY Steps DEF CountInv, TasksFit, Pcs, TokenPcs
  <1>1. /\ pc[t] = "readCount"
        /\ UNCHANGED <<poolState, ioCount, socket, reason, latch, announced,
                       lease, ses, ret>>
    BY DEF ReadCount
  <1>2. CASE ioCount[ses[t]] # 0
    <2>1. Jump(t, ret[t]) /\ ret[t] \in Onward
      BY <1>1, <1>2, Onwards DEF ReadCount, InRelease
    <2>2. Mild(t) /\ Quiet(t)
      BY <1>0, <1>1, <2>1, JumpsOn
         DEF Working, Loose, InComplete, CompletePcs
    <2>. QED
      BY <1>1, <2>2, MildStep
  <1>3. CASE ioCount[ses[t]] = 0
    <2>1. pc'[t] = "claim" /\ task'[t] = task[t]
      BY <1>0, <1>3, JumpTo DEF ReadCount
    <2>2. ~HasCount(t) /\ ~HasIoCount(t)
      BY <1>3, CountBounds
    <2>3. ret[t] = "idle" /\ task[t].op = "zombie"
      BY <1>0, <1>1, <2>2
         DEF TaskFits, Fits, HasCount, HasIoCount, InRelease, InComplete,
             CompletePcs
    <2>4. ASSUME ses[t] \notin overtaken'
          PROVE  ThreadOk(t)'
      <3>1. task[t].lease = lease[ses[t]]
        BY <1>1, <2>4, Here DEF ThreadOk, Handles, Local
      <3>2. Handles(t)' /\ LooseIsLast(t)'
        BY <1>1, <1>3, <2>1, <2>3, <3>1 DEF Handles, LooseIsLast
      <3>3. SoloIsAlone(t)' /\ Tidied(t)'
        BY <2>1 DEF SoloIsAlone, Solo, Tidied, CompletePcs
      <3>4. Tells(t)' /\ HasReason(t)'
        BY <2>1, <2>3 DEF Tells, HasReason, Accepts, Asks
      <3>. QED
        BY <3>2, <3>3, <3>4 DEF ThreadOk
    <2>. QED
      BY <1>1, <2>4, StillStep
  <1>. QED
    BY <1>2, <1>3

(* Whoever takes the token completes the release, the others are done.     *)
LEMMA TokenOk ==
    ASSUME CountInv, SettledInv, NEW t \in Threads, Local(t), TaskKept(t),
           Claim(t) \/ TakeToken(t)
    PROVE  SettledInv'
  <1>0. TypeOK /\ {"close", "idle"} \subseteq Pcs
    BY Steps DEF CountInv, Pcs, OwnerPcs, CompletePcs
  <1>1. /\ pc[t] \in {"claim", "token"} /\ pc[t] # "idle"
        /\ Loose(t) /\ pc[t] \in {"claim"} \cup InComplete
        /\ UNCHANGED <<poolState, ioCount, socket, reason, latch, announced,
                       lease, ses, ret>>
        /\ Jump(t, "close") \/ Jump(t, ret[t])
    BY DEF Claim, TakeToken, Loose, InComplete
  <1>2. ASSUME ses[t] \notin overtaken'
        PROVE  ThreadOk(t)'
    <2>1. ThreadOk(t) /\ ret[t] = "idle" /\ ioCount[ses[t]] = 0
      BY <1>1, <1>2, Here DEF ThreadOk, Handles, LooseIsLast, Local
    <2>2. CASE pc'[t] = "idle"
      BY <2>2, IdleOk
    <2>3. CASE pc'[t] = "close" /\ task'[t] = task[t]
      <3>1. Handles(t)' /\ LooseIsLast(t)'
        BY <1>1, <2>1, <2>3 DEF ThreadOk, Handles, LooseIsLast
      <3>2. SoloIsAlone(t)' /\ Tidied(t)' /\ Tells(t)'
        BY <2>3
           DEF SoloIsAlone, Solo, Tidied, Tells, InComplete, CompletePcs
      <3>3. HasReason(t)'
        BY <1>1, <2>1, <2>3 DEF ThreadOk, HasReason, Asks
      <3>. QED
        BY <3>1, <3>2, <3>3 DEF ThreadOk
    <2>. QED
      BY <1>0, <1>1, <2>1, <2>2, <2>3, JumpTo
  <1>. QED
    BY <1>1, <1>2, StillStep

(* DecrementIO: only the thread that reaches zero looks at the token.      *)
LEMMA DropOk ==
    ASSUME CountInv, SettledInv, NEW t \in Threads, Local(t), TaskKept(t),
           Finish(t) \/ UndoIO(t)
    PROVE  SettledInv'
  <1>0. /\ TypeOK /\ TaskFits(t) /\ "token" \in Pcs /\ ses[t] \in Sessions
        /\ pc[t] \in {"finish", "undoIO"} /\ Working(t) /\ pc[t] # "idle"
    BY Steps DEF CountInv, TasksFit, TypeOK, Pcs, TokenPcs, Finish, UndoIO,
       Working, Loose, InComplete, CompletePcs
  <1>. PICK l \in Onward :
         /\ l = IF pc[t] = "finish" THEN "idle" ELSE NotPosted(t)
         /\ DecrementIO(t, l)
    BY Onwards DEF Finish, UndoIO
  <1>1. /\ UNCHANGED <<poolState, socket, reason, latch, announced, lease, ses>>
        /\ ioCount'[ses[t]] = ioCount[ses[t]] - 1 /\ ret'[t] = l
        /\ Jump(t, IF ioCount[ses[t]] = 1 THEN "token" ELSE l)
    BY <1>0 DEF DecrementIO, TypeOK
  <1>2. HasCount(t) \/ HasIoCount(t)
    BY <1>0 DEF HasCount, HasIoCount, TaskFits, Fits, InComplete, CompletePcs
  <1>3. ioCount[ses[t]] # 0
    BY <1>2, CountBounds
  <1>4. CASE ioCount[ses[t]] # 1
    <2>1. Mild(t) /\ Quiet(t)
      BY <1>0, <1>1, <1>3, <1>4, JumpsOn
    <2>. QED
      BY <1>0, <2>1, MildStep
  <1>5. CASE ioCount[ses[t]] = 1
    <2>1. pc'[t] = "token" /\ task'[t] = task[t]
      BY <1>0, <1>1, <1>5, JumpTo
    <2>2. l = "idle"
      <3>1. CASE pc[t] = "undoIO"
        <4>1. ~HasCount(t)
          BY <1>5, <3>1, CountBounds DEF HasIoCount
        <4>2. task[t].op = "enqueue" /\ task[t].io = "send"
          BY <1>0, <3>1, <4>1
             DEF HasCount, TaskFits, Fits, Handlers, InComplete, CompletePcs
        <4>. QED
          BY <3>1, <4>2 DEF NotPosted, AfterSend
      <3>. QED
        BY <1>0, <3>1
    <2>3. ASSUME ses[t] \notin overtaken'
          PROVE  ThreadOk(t)'
      <3>1. ThreadOk(t)
        BY <1>0, <2>3, Here DEF Local
      <3>2. Handles(t)' /\ LooseIsLast(t)'
        BY <1>0, <1>1, <1>5, <2>1, <2>2, <3>1
           DEF ThreadOk, Handles, LooseIsLast
      <3>3. SoloIsAlone(t)' /\ Tidied(t)' /\ Tells(t)'
        BY <2>1
           DEF SoloIsAlone, Solo, Tidied, Tells, InComplete, CompletePcs
      <3>4. HasReason(t)'
        BY <1>0, <1>1, <2>1, <3>1 DEF ThreadOk, HasReason, Asks
      <3>. QED
        BY <3>2, <3>3, <3>4 DEF ThreadOk
    <2>. QED
      BY <1>0, <1>1, <1>3, <2>3, StillStep
  <1>. QED
    BY <1>4, <1>5

LEMMA IoOk ==
    ASSUME CountInv, SettledInv, NEW t \in Threads, Local(t), TaskKept(t),
           IoStep(t)
    PROVE  SettledInv'
  <1>0. TypeOK /\ TaskFits(t) /\ ses[t] \in Sessions
    BY DEF CountInv, TasksFit, TypeOK
  <1>1. Working(t) /\ pc[t] # "finish" /\ pc[t] # "idle"
    BY DEF IoStep, PostReceive, BeginIO, Gate, PostSucceeds, PostFails,
       TrySendNext, SendGate, UndoIO, Working, Loose, InComplete, CompletePcs
  <1>2. /\ {"begin", "gate", "post", "undoIO", "sendGate"} \subseteq Onward
        /\ {AfterSend(t), Posted(t), NotPosted(t)} \subseteq Onward
    BY Onwards
  <1>3. ASSUME UNCHANGED <<poolState, ioCount, socket, reason, latch, announced>>,
               NEW l \in Onward, Jump(t, l)
        PROVE  SettledInv'
    <2>1. Mild(t) /\ Quiet(t)
      BY <1>0, <1>1, <1>3, JumpsOn
    <2>. QED
      BY <1>1, <2>1, MildStep
  <1>4. CASE PostReceive(t) \/ Gate(t) \/ PostSucceeds(t) \/ TrySendNext(t)
    BY <1>2, <1>3, <1>4 DEF PostReceive, Gate, PostSucceeds, TrySendNext
  <1>5. CASE BeginIO(t)
    <2>1. /\ pc[t] = "begin" /\ Jump(t, "gate")
          /\ NoteOvertaken(t, t \notin Workers /\ ioCount[ses[t]] = 0)
          /\ UNCHANGED <<poolState, socket, reason, latch, announced>>
      BY <1>5 DEF BeginIO
    <2>2. ASSUME ses[t] \notin overtaken'
          PROVE  Mild(t) /\ Quiet(t)
      <3>1. ioCount[ses[t]] # 0
        <4>1. CASE t \in Workers
          <5>1. HasCount(t)
            BY <1>1, <2>1, <4>1 DEF SettledInv, WorkersHandle, HasCount,
               InComplete, CompletePcs
          <5>. QED
            BY <5>1, CountBounds
        <4>2. CASE t \notin Workers
          BY <2>1, <2>2, <4>2 DEF NoteOvertaken
        <4>. QED
          BY <4>1, <4>2
      <3>. QED
        BY <1>0, <1>1, <1>2, <2>1, <3>1, JumpsOn
    <2>. QED
      BY <1>1, <2>2, MildStep
  <1>6. CASE PostFails(t)
    <2>1. UNCHANGED <<poolState, ioCount, socket, latch, announced, task>>
      BY <1>6 DEF PostFails
    <2>2. CASE /\ NoteReason(t, ses[t], task[t].lease)
               /\ CallRelease(t, "undoIO")
      <3>1. Mild(t) /\ Quiet(t)
        BY <1>0, <1>1, <2>1, <2>2, NoteNotes, CallTo, CallsOn
      <3>. QED
        BY <1>1, <3>1, MildStep
    <2>3. CASE pc' = [pc EXCEPT ![t] = "undoIO"] /\ UNCHANGED reason
      <3>1. pc'[t] = "undoIO"
        BY <1>0, <2>3 DEF TypeOK
      <3>2. Mild(t) /\ Quiet(t)
        BY <1>1, <1>2, <2>1, <2>3, <3>1, GoesOn
      <3>. QED
        BY <1>1, <3>2, MildStep
    <2>. QED
      BY <1>6, <2>2, <2>3 DEF PostFails
  <1>7. CASE SendGate(t)
    <2>1. UNCHANGED <<poolState, ioCount, socket, reason, latch, announced>>
      BY <1>7 DEF SendGate
    <2>2. CASE Jump(t, AfterSend(t))
      BY <1>2, <1>3, <2>1, <2>2
    <2>3. CASE /\ pc' = [pc EXCEPT ![t] = "begin"]
               /\ task' = [task EXCEPT ![t].io = "send"]
      <3>1. pc'[t] = "begin" /\ task'[t].op = task[t].op
        BY <1>0, <2>3 DEF TypeOK
      <3>2. Mild(t) /\ Quiet(t)
        BY <1>1, <1>2, <2>1, <3>1, GoesOn
      <3>. QED
        BY <1>1, <3>2, MildStep
    <2>. QED
      BY <1>7, <2>2, <2>3 DEF SendGate
  <1>8. CASE UndoIO(t)
    BY <1>8, DropOk
  <1>. QED
    BY <1>4, <1>5, <1>6, <1>7, <1>8 DEF IoStep

LEMMA ConnectOk ==
    ASSUME CountInv, SettledInv, NEW t \in Threads, Local(t), TaskKept(t),
           Connect(t) \/ MarkNotified(t) \/ OnClientConnect(t) \/ ConnectFailed(t)
    PROVE  SettledInv'
  <1>0. /\ TypeOK /\ TaskFits(t)
        /\ pc \in [Threads -> Pcs] /\ ses[t] \in Sessions
        /\ latch \in [Sessions -> 0..1] /\ announced \in [Sessions -> Int]
    BY DEF CountInv, TasksFit, TypeOK
  <1>1. pc[t] # "idle"
    BY DEF Connect, MarkNotified, OnClientConnect, ConnectFailed
  <1>2. Mild(t) /\ (Quiet(t) \/ Telling(t))
    <2>1. CASE Connect(t)
      <3>1. /\ Working(t) /\ pc[t] # "finish"
            /\ UNCHANGED <<poolState, ioCount, socket, reason, latch, announced>>
            /\ Jump(t, "postRecv") \/ Jump(t, "connectFailed")
        BY <2>1 DEF Connect, Working, Loose, InComplete, CompletePcs
      <3>2. {"postRecv", "connectFailed"} \subseteq Onward
        BY Onwards
      <3>. QED
        BY <1>0, <3>1, <3>2, JumpsOn
    <2>2. CASE MarkNotified(t)
      <3>1. /\ pc[t] = "announce" /\ pc'[t] = "onConnect" /\ task' = task
            /\ latch'[ses[t]] = 1 /\ announced' = announced
            /\ UNCHANGED <<poolState, ioCount, socket, reason>>
        BY <1>0, <2>2 DEF MarkNotified, Jump
      <3>2. task[t].op = "accept"
        BY <1>0, <3>1 DEF TaskFits, Fits
      <3>3. Mild(t) /\ Telling(t)
        BY <1>0, <3>1, <3>2
           DEF Mild, Telling, Accepts, Asks, Loose, InComplete, CompletePcs
      <3>. QED
        BY <3>3
    <2>3. CASE OnClientConnect(t)
      <3>1. /\ pc[t] = "onConnect" /\ pc'[t] = "finish" /\ task' = task
            /\ announced'[ses[t]] = announced[ses[t]] + 1 /\ latch' = latch
            /\ UNCHANGED <<poolState, ioCount, socket, reason>>
        BY <1>0, <2>3 DEF OnClientConnect, Jump
      <3>2. task[t].op = "accept"
        BY <1>0, <3>1 DEF TaskFits, Fits
      <3>3. Mild(t) /\ Telling(t)
        BY <1>0, <3>1, <3>2
           DEF Mild, Telling, Accepts, Asks, Loose, InComplete, CompletePcs
      <3>. QED
        BY <3>3
    <2>4. CASE ConnectFailed(t)
      <3>1. /\ Working(t) /\ pc[t] # "finish"
            /\ NoteReason(t, ses[t], task[t].lease) /\ CallRelease(t, "finish")
            /\ UNCHANGED <<poolState, ioCount, socket, latch, announced, task>>
        BY <2>4 DEF ConnectFailed, Working, Loose, InComplete, CompletePcs
      <3>. QED
        BY <1>0, <3>1, NoteNotes, CallTo, CallsOn
    <2>. QED
      BY <2>1, <2>2, <2>3, <2>4
  <1>. QED
    BY <1>1, <1>2, MildStep

LEMMA HandlerOk ==
    ASSUME CountInv, SettledInv, NEW t \in Threads, Local(t), TaskKept(t),
           HandlerStep(t)
    PROVE  SettledInv'
  <1>0. TypeOK /\ TaskFits(t)
    BY DEF CountInv, TasksFit
  <1>1. Working(t) /\ pc[t] # "finish" /\ pc[t] # "idle"
    BY DEF HandlerStep, ParseDone, ParseReply, ParseReject, ParseBad,
       DropRejected, CheckPending, RecvNotPosted, SendRest, SendNext,
       Working, Loose, InComplete, CompletePcs
  <1>2. {"checkPending", "trySend", "finish", "postRecv", "sendGate"}
           \subseteq Onward
    BY Onwards
  <1>3. Mild(t) /\ Quiet(t)
    <2>0. UNCHANGED <<poolState, ioCount, socket, latch, announced>>
      BY DEF HandlerStep, ParseDone, ParseReply, ParseReject, ParseBad,
         DropRejected, CheckPending, RecvNotPosted, SendRest, SendNext
    <2>1. CASE ParseDone(t) \/ ParseReply(t) \/ SendRest(t) \/ SendNext(t)
      <3>1. /\ reason' = reason
            /\ \/ Jump(t, "checkPending") \/ Jump(t, "trySend")
               \/ Jump(t, "sendGate")
        BY <2>1 DEF ParseDone, ParseReply, SendRest, SendNext
      <3>. QED
        BY <1>0, <1>1, <1>2, <2>0, <3>1, JumpsOn
    <2>2. CASE ParseReject(t)
      <3>1. pc[t] = "parse" /\ pc'[t] = "trySend"
        BY <1>0, <2>2 DEF ParseReject, TypeOK
      <3>2. Noted(t)
        BY <1>0, <2>2, NoteNotes DEF ParseReject
      <3>. QED
        BY <1>1, <2>0, <3>1, <3>2
           DEF Mild, Quiet, Working, InComplete, CompletePcs
    <2>3. CASE ParseBad(t) \/ DropRejected(t)
      <3>1. /\ CallRelease(t, "finish") /\ task' = task
            /\ \/ NoteReason(t, ses[t], task[t].lease)
               \/ pc[t] = "drop" /\ reason' = reason
        BY <2>3 DEF ParseBad, DropRejected
      <3>2. pc[t] = "drop" => task[t].op = "reject"
        BY <1>0 DEF TaskFits, Fits
      <3>3. pc'[t] = "release"
        BY <1>0, <3>1, CallTo
      <3>4. Noted(t) \/ (task[t].op = "reject" /\ reason' = reason)
        BY <1>0, <3>1, <3>2, NoteNotes
      <3>. QED
        BY <1>0, <1>1, <2>0, <3>1, <3>3, <3>4, CallsOn
    <2>4. CASE CheckPending(t)
      <3>1. reason' = reason
        BY <2>4 DEF CheckPending
      <3>2. CASE Jump(t, "finish")
        BY <1>0, <1>1, <1>2, <2>0, <3>1, <3>2, JumpsOn
      <3>3. CASE /\ pc' = [pc EXCEPT ![t] = "postRecv"]
                 /\ task' = [task EXCEPT ![t].io = "recv"]
        <4>1. pc'[t] = "postRecv" /\ task'[t].op = task[t].op
          BY <1>0, <3>3 DEF TypeOK
        <4>. QED
          BY <1>1, <1>2, <2>0, <3>1, <4>1, GoesOn
      <3>. QED
        BY <2>4, <3>2, <3>3 DEF CheckPending
    <2>5. CASE RecvNotPosted(t)
      <3>1. CASE Jump(t, "finish") /\ UNCHANGED reason
        BY <1>0, <1>1, <1>2, <2>0, <3>1, JumpsOn
      <3>2. CASE /\ NoteReason(t, ses[t], task[t].lease)
                 /\ CallRelease(t, "finish") /\ task' = task
        BY <1>0, <1>1, <2>0, <3>2, NoteNotes, CallTo, CallsOn
      <3>. QED
        BY <2>5, <3>1, <3>2 DEF RecvNotPosted
    <2>. QED
      BY <2>1, <2>2, <2>3, <2>4, <2>5 DEF HandlerStep
  <1>. QED
    BY <1>1, <1>3, MildStep

(* The heartbeat thread notes its reason and asks for a release like a     *)
(* handler, whatever becomes of the session meanwhile.                     *)
LEMMA ZombieOk ==
    ASSUME CountInv, SettledInv, NEW t \in Threads, Local(t), TaskKept(t),
           NoteZombie(t) \/ MarkZombie(t)
    PROVE  SettledInv'
  <1>0. TypeOK /\ pc \in [Threads -> Pcs] /\ "zombieMark" \in Pcs
    BY DEF CountInv, TypeOK, Pcs, HandlerPcs
  <1>1. /\ pc[t] \in {"zombieNote", "zombieMark"} /\ pc[t] # "idle"
        /\ Working(t) /\ pc[t] # "finish"
    BY DEF NoteZombie, MarkZombie, Working, Loose, InComplete, CompletePcs
  <1>2. UNCHANGED <<poolState, ioCount, socket, latch, announced>>
    BY DEF NoteZombie, MarkZombie
  <1>3. CASE NoteZombie(t)
    <2>1. pc[t] = "zombieNote" /\ pc'[t] = "zombieMark" /\ Noted(t)
      BY <1>0, <1>3, NoteNotes DEF NoteZombie, Jump
    <2>2. Mild(t) /\ Quiet(t)
      BY <1>1, <1>2, <2>1 DEF Mild, Quiet, Working, InComplete, CompletePcs
    <2>. QED
      BY <1>1, <2>2, MildStep
  <1>4. CASE MarkZombie(t)
    <2>1. /\ pc[t] = "zombieMark" /\ pc'[t] = "release" /\ task' = task
          /\ reason' = reason
      BY <1>0, <1>4, CallTo DEF MarkZombie
    <2>2. Mild(t) /\ Quiet(t)
      BY <1>0, <1>1, <1>2, <2>1, CallsOn
    <2>. QED
      BY <1>1, <2>2, MildStep
  <1>. QED
    BY <1>3, <1>4

-----------------------------------------------------------------------------
(* Steps that are taken with a count of zero                               *)

LEMMA LooseStart ==
    ASSUME CountInv, SettledInv, NEW t \in Threads, Loose(t), Settled(ses[t]),
           NEW s \in Sessions, s = ses[t]
    PROVE  /\ ioCount[s] = 0 /\ poolState[s] # "FREE"
           /\ announced[s] \in 0..1 /\ announced[s] = latch[s]
           /\ reason[s] \in {0, lease[s]}
           /\ \/ poolState[s] # "RELEASING" \/ reason[s] = lease[s]
              \/ pc[t] \in {"resetClient", "pushFree"}
  <1>1. pc[t] # "idle"
    BY DEF Loose, InComplete, CompletePcs
  <1>2. /\ ioCount[s] = 0 /\ poolState[s] # "FREE" /\ SessionOk(s)
        /\ \A u \in Threads \ {t} : ses[u] = s => ~Solo(u)
    BY <1>1, Here DEF ThreadOk, LooseIsLast
  <1>3. \A u \in Threads : pc[u] = "onConnect" => ses[u] # s
    <2>1. ASSUME NEW u \in Threads, pc[u] = "onConnect", ses[u] = s
          PROVE  FALSE
      <3>1. HasCount(u)
        BY <2>1 DEF CountInv, TasksFit, TaskFits, Fits, HasCount, Handlers,
           InComplete, CompletePcs
      <3>. QED
        BY <1>2, <2>1, <3>1, CountBounds
    <2>. QED
      BY <2>1
  <1>4. announced[s] \in 0..1 /\ announced[s] = latch[s]
    BY <1>2, <1>3 DEF SessionOk, Told
  <1>5. /\ reason[s] \in {0, lease[s]}
        /\ \/ poolState[s] # "RELEASING" \/ reason[s] = lease[s]
           \/ pc[t] \in {"resetClient", "pushFree"}
    BY <1>2 DEF SessionOk, Reasoned, Solo
  <1>. QED
    BY <1>2, <1>4, <1>5

(* A session is reset by a thread that is alone with it: nobody else has   *)
(* overtaken it, its release is its own, and its count is zero.            *)
LEMMA ResetAlone ==
    ASSUME CountInv, SettledInv, OwnerHasNoRival, NEW t \in Threads,
           pc[t] = "resetBase", Settled(ses[t]), ~Overtakes(t)
    PROVE  Alone(t)
  <1>1. ioCount[ses[t]] = 0 /\ pc[t] \in OwnerPcs /\ pc[t] # "idle"
    BY LooseStart DEF Loose, InComplete, CompletePcs, OwnerPcs, CountInv, TypeOK
  <1>2. ASSUME NEW u \in Threads \ {t}, pc[u] # "idle", ses[u] = ses[t]
        PROVE  FALSE
    <2>1. u \in Workers /\ pc[u] # "token"
      BY <1>2 DEF Overtakes
    <2>2. ~HasCount(u)
      BY <1>1, <1>2, CountBounds
    <2>3. task[u].op \in Handlers
      BY <1>2, <2>1 DEF SettledInv, WorkersHandle
    <2>4. pc[u] \in {"attach", "hold"} \cup CompletePcs
      BY <1>2, <2>1, <2>2, <2>3 DEF HasCount, InComplete
    <2>5. pc[u] \notin {"attach", "hold"}
      BY <1>1, <1>2, Here DEF Solo
    <2>6. Owns(u, ses[t])
      BY <1>2, <2>4, <2>5 DEF Owns, OwnerPcs
    <2>. QED
      BY <1>1, <2>6 DEF OwnerHasNoRival
  <1>. QED
    BY <1>2 DEF Alone

LEMMA StaysAlone ==
    ASSUME NEW t \in Threads, Alone(t), Local(t)
    PROVE  Alone(t)'
  BY DEF Alone, Local

(* The next step of a thread that completes a release.                     *)
LEMMA CompletesOn ==
    ASSUME CountInv, SettledInv, NEW t \in Threads, Local(t), TaskKept(t),
           pc[t] \in CompletePcs, pc'[t] \in CompletePcs, task'[t] = task[t],
           ret'[t] = ret[t], UNCHANGED <<ioCount, poolState>>,
           ses[t] \notin overtaken' =>
             LET s == ses[t] IN
             /\ Tidied(t)' /\ socket'[s] \in {socket[s], 0}
             /\ announced'[s] = latch'[s] /\ announced'[s] \in {0, announced[s]}
             /\ \/ /\ reason'[s] = reason[s]
                   /\ pc[t] \in {"resetClient", "pushFree"} =>
                        pc'[t] \in {"resetClient", "pushFree"}
                \/ /\ reason'[s] \in {0, reason[s]}
                   /\ pc'[t] \in {"resetClient", "pushFree"} /\ Alone(t)
             /\ Solo(t)' => Alone(t)
    PROVE  SettledInv'
  <1>. PICK s \in Sessions : s = ses[t]
    BY DEF CountInv, TypeOK
  <1>1. pc[t] # "idle" /\ Loose(t) /\ ses' = ses
    BY DEF Loose, InComplete, CompletePcs, Local
  <1>2. ASSUME s \notin overtaken'
        PROVE  ThreadOk(t)' /\ SessionOk(s)' /\ (Alone(t) \/ Gentle(t))
    <2>1. /\ ThreadOk(t) /\ ses' = ses /\ lease' = lease
          /\ ioCount[s] = 0 /\ poolState[s] # "FREE"
          /\ announced[s] \in 0..1 /\ announced[s] = latch[s]
          /\ reason[s] \in {0, lease[s]}
          /\ \/ poolState[s] # "RELEASING" \/ reason[s] = lease[s]
             \/ pc[t] \in {"resetClient", "pushFree"}
      BY <1>1, <1>2, LooseStart, Here DEF Local
    <2>2. Handles(t)' /\ LooseIsLast(t)'
      BY <1>1, <2>1 DEF ThreadOk, Handles, LooseIsLast, InComplete
    <2>3. SoloIsAlone(t)'
      BY <1>2, StaysAlone DEF SoloIsAlone
    <2>4. Tells(t)'
      BY DEF Tells, InComplete, CompletePcs
    <2>5. HasReason(t)'
      BY <1>1, <1>2, <2>1
         DEF ThreadOk, HasReason, Asks, InComplete, CompletePcs
    <2>6. ThreadOk(t)'
      BY <1>2, <2>2, <2>3, <2>4, <2>5 DEF ThreadOk
    <2>7. SessionOk(s)'
      <3>1. NewIfFree(s)'
        BY <2>1 DEF NewIfFree
      <3>2. Told(s)'
        BY <1>2, <2>1 DEF Told
      <3>3. Reasoned(s)'
        BY <1>2, <2>1 DEF Reasoned
      <3>. QED
        BY <3>1, <3>2, <3>3 DEF SessionOk
    <2>8. Alone(t) \/ Gentle(t)
      BY <1>2, <2>1 DEF Gentle
    <2>. QED
      BY <2>6, <2>7, <2>8
  <1>. QED
    BY <1>1, <1>2, StepOk

LEMMA CompleteOk ==
    ASSUME CountInv, SettledInv, OwnerHasNoRival, NEW t \in Threads, Local(t),
           TaskKept(t), CompleteReleaseStep(t)
    PROVE  SettledInv'
  <1>. PICK s \in Sessions : s = ses[t]
    BY DEF CountInv, TypeOK
  <1>1. pc[t] \in CompletePcs /\ Loose(t) /\ pc[t] # "idle"
    BY DEF CompleteReleaseStep, CloseSocket, NotifyService, OnDisconnect,
       ResetBase, ResetClient, PushFree, Loose, InComplete, CompletePcs
  <1>2. /\ pc \in [Threads -> Pcs] /\ ses' = ses
        /\ overtaken \subseteq overtaken'
        /\ socket \in [Sessions -> Nat] /\ latch \in [Sessions -> 0..1]
        /\ announced \in [Sessions -> Int] /\ reason \in [Sessions -> Nat]
        /\ state \in [Sessions -> States] /\ sending \in [Sessions -> 0..1]
        /\ cancelIo \in [Sessions -> 0..1]
        /\ poolState \in [Sessions -> {"FREE", "IN_USE", "RELEASING"}]
    BY DEF CountInv, TypeOK, Local
  <1>3. s \notin overtaken' =>
          /\ ThreadOk(t) /\ Tidied(t) /\ ret[t] = "idle" /\ ioCount[s] = 0
          /\ announced[s] \in 0..1 /\ announced[s] = latch[s]
          /\ reason[s] \in {0, lease[s]}
    BY <1>1, <1>2, LooseStart, Here DEF ThreadOk, Handles, InComplete
  <1>4. CASE CloseSocket(t)
    <2>1. /\ pc[t] = "close" /\ pc'[t] = "notify" /\ task' = task /\ ret' = ret
          /\ socket'[s] = 0
          /\ UNCHANGED <<ioCount, poolState, reason, announced, latch>>
      BY <1>2, <1>4 DEF CloseSocket, Jump
    <2>2. Tidied(t)' /\ ~Solo(t)'
      BY <1>2, <2>1 DEF Tidied, Solo
    <2>. QED
      BY <1>1, <1>3, <2>1, <2>2, CompletesOn DEF CompletePcs
  <1>5. CASE NotifyService(t)
    <2>1. /\ pc[t] = "notify" /\ pc'[t] = "disconnect" /\ task' = task
          /\ ret' = ret /\ latch'[s] = 0 /\ announced'[s] = announced[s] - latch[s]
          /\ UNCHANGED <<ioCount, poolState, reason, socket>>
      BY <1>2, <1>5 DEF NotifyService, Jump
    <2>2. s \notin overtaken' => announced'[s] = 0 /\ Tidied(t)'
      BY <1>2, <1>3, <2>1 DEF Tidied, CompletePcs
    <2>3. ~Solo(t)'
      BY <2>1 DEF Solo
    <2>. QED
      BY <1>1, <1>3, <2>1, <2>2, <2>3, CompletesOn DEF CompletePcs
  <1>6. CASE OnDisconnect(t)
    <2>1. /\ pc[t] = "disconnect" /\ pc'[t] = "resetBase" /\ task' = task
          /\ ret' = ret
          /\ UNCHANGED <<ioCount, poolState, reason, socket, latch, announced>>
      BY <1>2, <1>6 DEF OnDisconnect, Jump
    <2>2. s \notin overtaken' => Tidied(t)'
      BY <1>2, <1>3, <2>1 DEF Tidied, CompletePcs
    <2>3. ~Solo(t)'
      BY <2>1 DEF Solo
    <2>. QED
      BY <1>1, <1>3, <2>1, <2>2, <2>3, CompletesOn DEF CompletePcs
  <1>7. CASE ResetBase(t)
    <2>1. /\ pc[t] = "resetBase" /\ pc'[t] = "resetClient" /\ task' = task
          /\ ret' = ret /\ reason'[s] = 0 /\ cancelIo'[s] = 0
          /\ state'[s] = "NONE" /\ NoteOvertaken(t, Overtakes(t))
          /\ UNCHANGED <<ioCount, poolState, socket, latch, announced>>
      BY <1>2, <1>7 DEF ResetBase, Jump
    <2>2. s \notin overtaken' => Tidied(t)'
      BY <1>2, <1>3, <2>1 DEF Tidied, CompletePcs
    <2>3. s \notin overtaken' => Alone(t)
      BY <1>2, <2>1, ResetAlone DEF NoteOvertaken
    <2>. QED
      BY <1>1, <1>3, <2>1, <2>2, <2>3, CompletesOn DEF CompletePcs
  <1>8. ASSUME s \notin overtaken', pc[t] \in {"resetClient", "pushFree"}
        PROVE  Alone(t)
    BY <1>3, <1>8 DEF ThreadOk, SoloIsAlone, Solo
  <1>9. CASE ResetClient(t)
    <2>1. /\ pc[t] = "resetClient" /\ pc'[t] = "pushFree" /\ task' = task
          /\ ret' = ret /\ state'[s] = "CONNECT_READY" /\ sending'[s] = 0
          /\ latch'[s] = 0
          /\ UNCHANGED <<ioCount, poolState, socket, announced, reason, cancelIo>>
      BY <1>2, <1>9 DEF ResetClient, Jump
    <2>2. s \notin overtaken' => Tidied(t)' /\ announced[s] = 0
      BY <1>2, <1>3, <2>1 DEF Tidied, CompletePcs
    <2>. QED
      BY <1>1, <1>3, <1>8, <2>1, <2>2, CompletesOn DEF CompletePcs
  <1>10. CASE PushFree(t)
    <2>1. /\ pc[t] = "pushFree" /\ poolState'[s] = "FREE" /\ Jump(t, ret[t])
          /\ UNCHANGED <<ioVars, kernelVars, connVars, svcVars, lease>>
      BY <1>2, <1>10 DEF PushFree
    <2>2. ASSUME s \notin overtaken'
          PROVE  ThreadOk(t)' /\ SessionOk(s)' /\ Alone(t)
      <3>1. New(s) /\ ioCount[s] = 0 /\ Alone(t) /\ pc'[t] = "idle"
        BY <1>2, <1>3, <1>8, <2>1, <2>2 DEF Tidied, New, CompletePcs, Jump
      <3>2. ThreadOk(t)'
        BY <3>1, IdleOk
      <3>3. \A u \in Threads : pc'[u] # "idle" => ses'[u] # s
        BY <1>2, <3>1 DEF Alone, Local
      <3>4. NewIfFree(s)' /\ Told(s)' /\ Reasoned(s)'
        BY <2>1, <3>1, <3>3 DEF NewIfFree, New, Told, Reasoned
      <3>. QED
        BY <3>1, <3>2, <3>4 DEF SessionOk
    <2>. QED
      BY <1>1, <1>2, <2>2, StepOk
  <1>. QED
    BY <1>4, <1>5, <1>6, <1>7, <1>9, <1>10 DEF CompleteReleaseStep

(* A worker sets up the session it leased: nobody else knows of it yet.    *)
LEMMA SetUpOk ==
    ASSUME CountInv, SettledInv, NEW t \in Threads, Local(t), TaskKept(t),
           AttachSocket(t) \/ HoldForConnect(t) \/ AcceptStarved(t)
    PROVE  SettledInv'
  <1>. PICK s \in Sessions : s = ses[t]
    BY DEF CountInv, TypeOK
  <1>1. /\ pc[t] \in {"attach", "hold"} /\ Loose(t) /\ Solo(t) /\ pc[t] # "idle"
        /\ UNCHANGED <<poolState, cancelIo, state, reason, sending, latch,
                       announced, lease, ses, ret>>
    BY DEF AttachSocket, HoldForConnect, AcceptStarved, Loose, Solo
  <1>2. TypeOK /\ TaskFits(t) /\ {"hold", "connect", "idle"} \subseteq Pcs
    BY Steps DEF CountInv, TasksFit, Pcs, HandlerPcs
  <1>3. \/ pc[t] = "attach" /\ ioCount' = ioCount /\ Jump(t, "hold")
        \/ pc[t] = "hold" /\ (Jump(t, "connect") \/ Jump(t, "idle"))
    BY DEF AttachSocket, HoldForConnect, AcceptStarved
  <1>4. ASSUME s \notin overtaken'
        PROVE  ThreadOk(t)' /\ SessionOk(s)' /\ Alone(t)
    <2>1. /\ ThreadOk(t) /\ Alone(t) /\ ioCount[s] = 0 /\ poolState[s] # "FREE"
          /\ announced[s] \in 0..1 /\ announced[s] = latch[s]
          /\ reason[s] \in {0, lease[s]}
          /\ poolState[s] # "RELEASING" \/ reason[s] = lease[s]
      BY <1>1, <1>4, LooseStart, Here DEF ThreadOk, SoloIsAlone, Local
    <2>2. SessionOk(s)'
      BY <1>1, <2>1 DEF SessionOk, NewIfFree, Told, Reasoned
    <2>3. task[t].op = "accept"
      BY <1>1, <1>2 DEF TaskFits, Fits
    <2>4. CASE pc'[t] = "idle"
      BY <2>1, <2>2, <2>4, IdleOk
    <2>5. CASE /\ task'[t] = task[t]
               /\ \/ pc[t] = "attach" /\ pc'[t] = "hold" /\ ioCount' = ioCount
                  \/ pc[t] = "hold" /\ pc'[t] = "connect"
      <3>1. Alone(t)'
        BY <2>1, StaysAlone
      <3>2. Handles(t)' /\ LooseIsLast(t)' /\ SoloIsAlone(t)'
        BY <1>1, <2>1, <2>5, <3>1
           DEF ThreadOk, Handles, LooseIsLast, SoloIsAlone, Loose, InComplete,
               CompletePcs
      <3>3. Tidied(t)'
        BY <1>1, <2>1, <2>5 DEF ThreadOk, Tidied, New, CompletePcs
      <3>4. Tells(t)' /\ HasReason(t)'
        BY <1>1, <2>1, <2>3, <2>5
           DEF ThreadOk, Tells, HasReason, Accepts, Asks, InComplete,
               CompletePcs
      <3>. QED
        BY <2>1, <2>2, <3>2, <3>3, <3>4 DEF ThreadOk
    <2>. QED
      BY <1>2, <1>3, <2>4, <2>5, JumpTo
  <1>. QED
    BY <1>1, <1>4, StepOk

-----------------------------------------------------------------------------
(* A thread takes up a session that others may be at work on               *)

LEMMA JoinOk ==
    ASSUME CountInv, SettledInv, NEW t \in Threads, NEW s \in Sessions,
           NEW op \in {"recv", "send", "enqueue", "zombie"},
           NEW l \in {"parse", "sendDone", "release", "finish", "trySend",
                      "zombieNote"},
           Begin(t, s, op, lease[s], l), t \in Workers => op \in Handlers,
           \/ l = "release" /\ NoteReason(t, s, lease[s])
           \/ l # "release" /\ reason' = reason,
           \A u \in Threads \ {t} : ret'[u] = ret[u],
           UNCHANGED <<poolState, lease, ioCount, cancelIo, socket, state,
                       sending, latch, announced, overtaken>>,
           Settled(s) => /\ poolState[s] # "FREE"
                         /\ \A u \in Threads : Solo(u) => ses[u] # s
    PROVE  SettledInv'
  <1>0. /\ TypeOK /\ reason \in [Sessions -> Nat]
        /\ \A u \in Threads : ses[u] \in Sessions
    BY DEF CountInv, TypeOK
  <1>1. /\ pc[t] = "idle" /\ pc'[t] = l /\ ses'[t] = s
        /\ task'[t].op = op /\ task'[t].lease = lease[s]
        /\ \A u \in Threads \ {t} : /\ pc'[u] = pc[u] /\ ses'[u] = ses[u]
                                    /\ task'[u] = task[u]
    <2>1. /\ pc[t] = "idle" /\ pc'[t] = l /\ ses'[t] = s
          /\ task'[t] = [op |-> op, io |-> "recv", lease |-> lease[s]]
          /\ \A u \in Threads \ {t} : /\ pc'[u] = pc[u] /\ ses'[u] = ses[u]
                                      /\ task'[u] = task[u]
      BY <1>0, TakesUp
    <2>. QED
      BY <2>1
  <1>2. /\ \A x \in Sessions \ {s} : reason'[x] = reason[x]
        /\ Settled(s) => /\ reason'[s] \in {0, lease[s]}
                         /\ reason[s] = lease[s] => reason'[s] = lease[s]
                         /\ l = "release" => reason'[s] = lease[s]
    BY <1>0 DEF NoteReason, SettledInv, SessionOk, Reasoned
  <1>3. ASSUME NEW u \in Threads \ {t}, Settled(ses[u])
        PROVE  ThreadOk(u)'
    <2>1. CASE pc[u] = "idle"
      BY <1>1, <2>1, IdleOk
    <2>2. CASE pc[u] # "idle"
      <3>0. ThreadOk(u) /\ SessionOk(ses[u])
        BY <1>0, <1>3 DEF SettledInv
      <3>1. (Loose(u)' <=> Loose(u)) /\ (Solo(u)' <=> Solo(u))
        BY <1>1 DEF Loose, Solo
      <3>2. Handles(u)' /\ LooseIsLast(u)'
        BY <1>1, <3>0, <3>1 DEF ThreadOk, Handles, LooseIsLast
      <3>3. SoloIsAlone(u)'
        <4>1. Solo(u) => Alone(u) /\ ses[u] # s
          BY <1>3, <3>0 DEF ThreadOk, SoloIsAlone
        <4>. QED
          BY <1>1, <3>1, <4>1 DEF SoloIsAlone, Alone
      <3>4. Tidied(u)'
        <4>1. Solo(u) => reason'[ses[u]] = reason[ses[u]]
          BY <1>0, <1>2, <1>3
        <4>. QED
          BY <1>1, <3>0, <4>1 DEF ThreadOk, Tidied, New, Solo
      <3>5. Tells(u)'
        BY <1>1, <3>0 DEF ThreadOk, Tells, Accepts
      <3>6. HasReason(u)'
        BY <1>0, <1>1, <1>2, <1>3, <3>0 DEF ThreadOk, HasReason, Asks
      <3>. QED
        BY <3>2, <3>3, <3>4, <3>5, <3>6 DEF ThreadOk
    <2>. QED
      BY <2>1, <2>2
  <1>4. ASSUME Settled(s)
        PROVE  ThreadOk(t)'
    <2>1. ~Loose(t)' /\ ~Solo(t)' /\ ~Accepts(t)'
      BY <1>1 DEF Loose, Solo, Accepts, InComplete, CompletePcs
    <2>2. Handles(t)' /\ Tidied(t)'
      BY <1>1 DEF Handles, Tidied, InComplete, CompletePcs
    <2>3. HasReason(t)'
      BY <1>1, <1>2, <1>4 DEF HasReason, Asks
    <2>. QED
      BY <2>1, <2>2, <2>3 DEF ThreadOk, LooseIsLast, SoloIsAlone, Tells
  <1>5. ASSUME NEW x \in Sessions, Settled(x)
        PROVE  SessionOk(x)' /\ OneAccepts(x)'
    <2>0. SessionOk(x) /\ OneAccepts(x)
      BY <1>5 DEF SettledInv
    <2>1. NewIfFree(x)'
      <3>1. CASE x = s
        BY <1>5, <3>1 DEF NewIfFree
      <3>2. CASE x # s
        BY <1>1, <1>2, <2>0, <3>2 DEF SessionOk, NewIfFree, New
      <3>. QED
        BY <3>1, <3>2
    <2>2. Told(x)'
      BY <1>1, <2>0 DEF SessionOk, Told
    <2>3. Reasoned(x)'
      BY <1>1, <1>2, <1>5, <2>0 DEF SessionOk, Reasoned
    <2>4. OneAccepts(x)'
      <3>1. ~Accepts(t)'
        BY <1>1 DEF Accepts
      <3>. QED
        BY <1>1, <2>0, <3>1 DEF OneAccepts, Accepts
    <2>. QED
      BY <2>1, <2>2, <2>3, <2>4 DEF SessionOk
  <1>6. WorkersHandle'
    <2>1. Workers \subseteq Threads
      BY DEF Threads
    <2>. QED
      BY <1>1, <2>1 DEF SettledInv, WorkersHandle
  <1>7. /\ \A u \in Threads : ses'[u] \notin overtaken' => ThreadOk(u)'
        /\ \A x \in Sessions :
             x \notin overtaken' => SessionOk(x)' /\ OneAccepts(x)'
    BY <1>1, <1>3, <1>4, <1>5
  <1>. QED
    BY <1>6, <1>7 DEF SettledInv

(* A completion: the operation kept the count, and with it the session.    *)
LEMMA CompletionOk ==
    ASSUME CountInv, SettledInv, NEW t \in Threads, NEW s \in Sessions,
           NEW k \in Kinds,
           \/ RecvData(t, s) \/ SendDone(t, s)
           \/ ConnectionEnds(t, s, k) \/ IoCancelled(t, s, k)
    PROVE  SettledInv'
  <1>1. /\ Kinds = {"recv", "send"} /\ Kinds \subseteq Handlers
        /\ ret \in [Threads -> ReturnPcs]
    BY DEF CountInv, TypeOK, Kinds, Handlers
  <1>2. \E m \in Kinds : live[s][m] > 0 \/ dying[s][m] > 0
    BY <1>1 DEF RecvData, SendDone, ConnectionEnds, IoCancelled, Dequeue
  <1>3. ioCount[s] > 0
    BY <1>2, OperationCounts
  <1>4. Settled(s) => /\ poolState[s] # "FREE"
                      /\ \A u \in Threads : Solo(u) => ses[u] # s
    BY <1>3 DEF SettledInv, SessionOk, NewIfFree, ThreadOk, LooseIsLast,
       Loose, Solo, InComplete, CompletePcs
  <1>5. UNCHANGED <<poolState, lease, ioCount, cancelIo, socket, state,
                    sending, latch, announced, overtaken>>
    BY DEF RecvData, SendDone, ConnectionEnds, IoCancelled
  <1>6. \A u \in Threads \ {t} : ret'[u] = ret[u]
    BY <1>1 DEF RecvData, SendDone, ConnectionEnds, IoCancelled
  <1>7. PICK m \in Kinds, l \in {"parse", "sendDone", "release", "finish"} :
          /\ Begin(t, s, m, lease[s], l)
          /\ \/ l = "release" /\ NoteReason(t, s, lease[s])
             \/ l # "release" /\ reason' = reason
    BY <1>1 DEF RecvData, SendDone, ConnectionEnds, IoCancelled, Dequeue
  <1>. QED
    BY <1>1, <1>4, <1>5, <1>6, <1>7, JoinOk

(* A thread without a count: it finds the session connected.               *)
LEMMA ConnectedOk ==
    ASSUME CountInv, SettledInv, NEW t \in Threads \ Workers,
           NEW s \in Sessions, EnqueueSend(t, s) \/ FindZombie(t, s)
    PROVE  SettledInv'
  <1>1. TransportConnected(s)
    BY DEF EnqueueSend, FindZombie
  <1>2. Settled(s) => /\ poolState[s] # "FREE"
                      /\ \A u \in Threads : Solo(u) => ses[u] # s
    BY <1>1 DEF TransportConnected, SettledInv, SessionOk, NewIfFree, ThreadOk,
       Tidied, New, Solo
  <1>3. /\ UNCHANGED <<poolState, lease, ioCount, cancelIo, socket, state,
                       sending, latch, announced, overtaken, ret, reason>>
        /\ \/ Begin(t, s, "enqueue", lease[s], "trySend")
           \/ Begin(t, s, "zombie", lease[s], "zombieNote")
    BY DEF EnqueueSend, FindZombie
  <1>. QED
    BY <1>2, <1>3, JoinOk

(* A session is leased: nobody is at work on it.                           *)
LEMMA LeaseOk ==
    ASSUME CountInv, SettledInv, NEW t \in Threads, Acquire(t)
    PROVE  SettledInv'
  <1>0. TypeOK /\ Workers \subseteq Threads
    BY DEF CountInv, Threads
  <1>1. Head(freeList) \in Sessions
    BY <1>0, HeadTailProperties DEF TypeOK, Acquire
  <1>2. PICK s \in Sessions : s = Head(freeList)
    BY <1>1
  <1>3. UNCHANGED <<overtaken, ioVars, kernelVars, connVars, svcVars, ret>>
    BY DEF Acquire
  <1>4. CASE poolState[s] # "FREE"
    <2>1. UNCHANGED <<poolState, lease, pc, ses, task>>
      BY <1>2, <1>4 DEF Acquire
    <2>2. \A u \in Threads : ThreadOk(u) => ThreadOk(u)'
      BY <1>3, <2>1 DEF ThreadOk, Handles, LooseIsLast, SoloIsAlone, Loose, Solo,
         Alone, Tidied, New, Tells, HasReason, Accepts, Asks
    <2>3. \A x \in Sessions : SessionOk(x) /\ OneAccepts(x)
             => SessionOk(x)' /\ OneAccepts(x)'
      BY <1>3, <2>1 DEF SessionOk, NewIfFree, New, Told, Reasoned, OneAccepts,
         Accepts
    <2>4. WorkersHandle => WorkersHandle'
      BY <2>1 DEF WorkersHandle
    <2>. QED
      BY <1>3, <2>1, <2>2, <2>3, <2>4 DEF SettledInv
  <1>5. CASE poolState[s] = "FREE"
    <2>1. /\ Begin(t, s, "accept", lease[s] + 1, "attach")
          /\ poolState' = [poolState EXCEPT ![s] = "IN_USE"]
          /\ lease' = [lease EXCEPT ![s] = lease[s] + 1]
      BY <1>2, <1>5 DEF Acquire
    <2>2. /\ pc[t] = "idle" /\ pc'[t] = "attach" /\ ses'[t] = s
          /\ task'[t].op = "accept" /\ task'[t].lease = lease[s] + 1
          /\ \A u \in Threads \ {t} : /\ pc'[u] = pc[u] /\ ses'[u] = ses[u]
                                      /\ task'[u] = task[u]
      <3>1. /\ pc[t] = "idle" /\ pc'[t] = "attach" /\ ses'[t] = s
            /\ task'[t] = [op |-> "accept", io |-> "recv",
                           lease |-> lease[s] + 1]
            /\ \A u \in Threads \ {t} : /\ pc'[u] = pc[u] /\ ses'[u] = ses[u]
                                        /\ task'[u] = task[u]
        BY <1>0, <2>1, TakesUp
      <3>. QED
        BY <3>1
    <2>3. /\ lease'[s] = lease[s] + 1 /\ poolState'[s] = "IN_USE"
          /\ \A x \in Sessions \ {s} : /\ lease'[x] = lease[x]
                                       /\ poolState'[x] = poolState[x]
          /\ lease \in [Sessions -> Nat]
          /\ \A u \in Threads : ses[u] \in Sessions
      BY <1>0, <2>1 DEF TypeOK
    <2>4. Settled(s) => /\ New(s) /\ ioCount[s] = 0
                        /\ \A u \in Threads : pc[u] # "idle" => ses[u] # s
      BY <1>5 DEF SettledInv, SessionOk, NewIfFree
    <2>5. ASSUME NEW u \in Threads \ {t}, Settled(ses[u])
          PROVE  ThreadOk(u)'
      <3>1. CASE pc[u] = "idle"
        BY <2>2, <3>1, IdleOk
      <3>2. CASE pc[u] # "idle"
        <4>1. ses[u] \in Sessions \ {s} /\ ThreadOk(u)
          BY <2>3, <2>4, <2>5, <3>2 DEF SettledInv
        <4>2. Alone(u) => Alone(u)'
          BY <2>2, <4>1 DEF Alone
        <4>3. Handles(u)' /\ LooseIsLast(u)' /\ SoloIsAlone(u)'
          BY <1>3, <2>2, <2>3, <4>1, <4>2
             DEF ThreadOk, Handles, LooseIsLast, SoloIsAlone, Loose, Solo
        <4>4. Tidied(u)'
          BY <1>3, <2>2, <4>1 DEF ThreadOk, Tidied, New
        <4>5. Tells(u)' /\ HasReason(u)'
          BY <1>3, <2>2, <2>3, <4>1
             DEF ThreadOk, Tells, HasReason, Accepts, Asks
        <4>. QED
          BY <4>3, <4>4, <4>5 DEF ThreadOk
      <3>. QED
        BY <3>1, <3>2
    <2>6. ASSUME Settled(s)
          PROVE  ThreadOk(t)'
      <3>1. Alone(t)'
        BY <2>2, <2>4, <2>6 DEF Alone
      <3>2. Handles(t)' /\ LooseIsLast(t)' /\ SoloIsAlone(t)'
        BY <1>3, <2>2, <2>3, <2>4, <2>6, <3>1
           DEF Handles, LooseIsLast, SoloIsAlone, InComplete, CompletePcs
      <3>3. Tidied(t)'
        BY <1>3, <2>2, <2>4, <2>6 DEF Tidied, New, CompletePcs
      <3>4. Tells(t)' /\ HasReason(t)'
        BY <1>3, <2>2, <2>4, <2>6 DEF Tells, HasReason, Asks, New
      <3>. QED
        BY <3>2, <3>3, <3>4 DEF ThreadOk
    <2>7. ASSUME NEW x \in Sessions, Settled(x)
          PROVE  SessionOk(x)' /\ OneAccepts(x)'
      <3>0. SessionOk(x) /\ OneAccepts(x)
        BY <2>7 DEF SettledInv
      <3>1. CASE x = s
        <4>1. NewIfFree(x)' /\ Told(x)' /\ Reasoned(x)'
          BY <1>3, <2>3, <2>4, <2>7, <3>1
             DEF NewIfFree, Told, Reasoned, New
        <4>2. OneAccepts(x)'
          BY <2>2, <2>4, <2>7, <3>1 DEF OneAccepts, Accepts
        <4>. QED
          BY <4>1, <4>2 DEF SessionOk
      <3>2. CASE x # s
        <4>1. NewIfFree(x)'
          BY <1>3, <2>2, <2>3, <3>0, <3>2 DEF SessionOk, NewIfFree, New
        <4>2. Told(x)' /\ Reasoned(x)'
          BY <1>3, <2>2, <2>3, <3>0, <3>2 DEF SessionOk, Told, Reasoned
        <4>3. OneAccepts(x)'
          BY <2>2, <3>0, <3>2 DEF OneAccepts, Accepts
        <4>. QED
          BY <4>1, <4>2, <4>3 DEF SessionOk
      <3>. QED
        BY <3>1, <3>2
    <2>8. WorkersHandle'
      BY <1>0, <2>2 DEF SettledInv, WorkersHandle, Handlers
    <2>9. /\ \A u \in Threads : ses'[u] \notin overtaken' => ThreadOk(u)'
          /\ \A x \in Sessions :
               x \notin overtaken' => SessionOk(x)' /\ OneAccepts(x)'
      BY <1>3, <2>2, <2>5, <2>6, <2>7
    <2>. QED
      BY <2>8, <2>9 DEF SettledInv
  <1>. QED
    BY <1>4, <1>5

-----------------------------------------------------------------------------
(* The invariant holds                                                     *)

LEMMA SettledInit == Init => SettledInv
  <1>. SUFFICES ASSUME Init PROVE SettledInv
    OBVIOUS
  <1>1. \A t \in Threads : pc[t] = "idle"
    BY DEF Init
  <1>2. \A t \in Threads : ThreadOk(t)
    BY <1>1 DEF ThreadOk, Handles, LooseIsLast, SoloIsAlone, Tidied, Tells,
       HasReason, Loose, Solo, Accepts, Asks, InComplete, CompletePcs
  <1>3. \A s \in Sessions : SessionOk(s) /\ OneAccepts(s)
    BY <1>1 DEF Init, SessionOk, NewIfFree, New, Told, Reasoned, OneAccepts,
       Accepts
  <1>4. WorkersHandle
    BY <1>1 DEF WorkersHandle, Threads
  <1>. QED
    BY <1>2, <1>3, <1>4 DEF SettledInv

LEMMA SettledStep ==
    ASSUME CountInv, OwnerHasNoRival, SettledInv, [Next]_vars
    PROVE  SettledInv'
  <1>0. TypeOK
    BY DEF CountInv
  <1>1. CASE UNCHANGED vars
    <2>1. \A u \in Threads : ThreadOk(u) => ThreadOk(u)'
      BY <1>1 DEF vars, ThreadOk, Handles, LooseIsLast, SoloIsAlone, Loose, Solo,
         Alone, Tidied, New, Tells, HasReason, Accepts, Asks
    <2>2. \A x \in Sessions : SessionOk(x) /\ OneAccepts(x)
             => SessionOk(x)' /\ OneAccepts(x)'
      BY <1>1 DEF vars, SessionOk, NewIfFree, New, Told, Reasoned, OneAccepts,
         Accepts
    <2>3. ses' = ses /\ overtaken' = overtaken /\ WorkersHandle'
      BY <1>1 DEF vars, SettledInv, WorkersHandle
    <2>. QED
      BY <2>1, <2>2, <2>3 DEF SettledInv
  <1>2. ASSUME NEW w \in Workers, Acquire(w) \/ Complete(w)
        PROVE  SettledInv'
    <2>1. w \in Threads /\ "recv" \in Kinds
      BY DEF Threads, Kinds
    <2>. QED
      BY <1>2, <2>1, LeaseOk, CompletionOk DEF Complete
  <1>3. ASSUME NEW t \in Senders \cup Reapers, NEW s \in Sessions,
               EnqueueSend(t, s) \/ FindZombie(t, s)
        PROVE  SettledInv'
    <2>1. t \in Threads \ Workers
      BY ThreadsAssumption DEF Threads
    <2>. QED
      BY <1>3, <2>1, ConnectedOk
  <1>4. ASSUME NEW t \in Threads, Step(t)
        PROVE  SettledInv'
    <2>1. Local(t) /\ TaskKept(t)
      BY <1>0, <1>4, LocalStep, StepKeepsTask
    <2>2. CASE ReleaseStep(t)
      BY <2>1, <2>2, ReleaseOk, ReadCountOk, TokenOk DEF ReleaseStep
    <2>3. CASE AcceptStep(t)
      BY <2>1, <2>3, SetUpOk, ConnectOk DEF AcceptStep
    <2>4. CASE Finish(t) \/ TakeToken(t)
      BY <2>1, <2>4, DropOk, TokenOk
    <2>. QED
      BY <1>4, <2>1, <2>2, <2>3, <2>4, CompleteOk, IoOk, HandlerOk, ZombieOk
         DEF Step
  <1>. QED
    BY <1>1, <1>2, <1>3, <1>4 DEF Next

AllInv == CountInv /\ ReleaseHasOneOwner /\ SettledInv

LEMMA AllHold == Spec => []AllInv
  <1>1. Init => AllInv
    BY TypeInit, CountInit, OwnerInit, SettledInit DEF AllInv, CountInv
  <1>2. AllInv /\ [Next]_vars => AllInv'
    BY CountStep, OwnerStep, SettledStep
       DEF AllInv, CountInv, ReleaseHasOneOwner
  <1>. QED
    BY <1>1, <1>2, PTL DEF Spec

(* For any workers, senders and heartbeat threads: ClientSessionPool       *)
(* resets a settled session when its count is zero and its socket is       *)
(* detached, never under an operation or a handler.                        *)
THEOREM ResetQuiet == Spec => []ResetIsQuiet
  <1>1. AllInv => ResetIsQuiet
    BY DEF AllInv, SettledInv, ThreadOk, LooseIsLast, Loose, Tidied,
       ResetIsQuiet, InComplete, CompletePcs
  <1>. QED
    BY <1>1, AllHold, PTL

(* For any threads: Acquire hands HandleAccept a settled session as new,   *)
(* and nothing of an earlier connection is still to come for it.           *)
THEOREM HandedClean == Spec => []HandedOutClean
  <1>1. ASSUME AllInv, NEW w \in Workers, pc[w] = "attach", Settled(ses[w])
        PROVE  /\ New(ses[w])
               /\ \A k \in Kinds : Outstanding(ses[w], k) = 0
    <2>1. w \in Threads /\ Loose(w)
      BY <1>1 DEF Threads, Loose
    <2>2. ThreadOk(w) /\ CountInv /\ ses[w] \in Sessions
      BY <1>1, <2>1 DEF AllInv, SettledInv, CountInv, TypeOK
    <2>3. New(ses[w]) /\ ioCount[ses[w]] = 0
      BY <1>1, <2>1, <2>2 DEF ThreadOk, LooseIsLast, Tidied
    <2>4. ASSUME NEW k \in Kinds
          PROVE  Outstanding(ses[w], k) = 0
      <3>1. live[ses[w]][k] \in Nat /\ dying[ses[w]][k] \in Nat
        BY <2>2 DEF CountInv, TypeOK
      <3>2. ~(live[ses[w]][k] > 0 \/ dying[ses[w]][k] > 0)
        BY <2>2, <2>3, OperationCounts
      <3>. QED
        BY <3>1, <3>2 DEF Outstanding
    <2>. QED
      BY <2>3, <2>4
  <1>2. AllInv => HandedOutClean
    BY <1>1 DEF HandedOutClean, New
  <1>. QED
    BY <1>2, AllHold, PTL

(* For any threads: every OnClientConnect is followed by one               *)
(* OnClientDisconnect before a settled session is free, and by no other.   *)
THEOREM NotificationsPaired == Spec => []NotificationsPair
  <1>1. AllInv => NotificationsPair
    BY DEF AllInv, SettledInv, SessionOk, Told, NewIfFree, New,
       NotificationsPair
  <1>. QED
    BY <1>1, AllHold, PTL

(* For any threads: the reason OnClientDisconnect reports of a settled     *)
(* session was noted during the connection that ends, by a handler or by   *)
(* the heartbeat thread.                                                   *)
THEOREM ReasonOwn == Spec => []ReasonIsOwn
  <1>1. ASSUME AllInv, NEW t \in Threads, pc[t] = "notify", Settled(ses[t])
        PROVE  reason[ses[t]] = lease[ses[t]]
    <2>1. /\ Loose(t) /\ pc[t] \in OwnerPcs /\ CountInv /\ SettledInv
          /\ ses[t] \in Sessions
      BY <1>1 DEF Loose, InComplete, CompletePcs, OwnerPcs, AllInv, CountInv,
         TypeOK
    <2>2. poolState[ses[t]] = "RELEASING"
      BY <1>1, <2>1 DEF AllInv, ReleaseHasOneOwner, OwnerHasNoRival
    <2>. QED
      BY <1>1, <2>1, <2>2, LooseStart
  <1>2. AllInv => ReasonIsOwn
    BY <1>1 DEF ReasonIsOwn
  <1>. QED
    BY <1>2, AllHold, PTL

(* For any threads: who retires a settled session, a handler or the        *)
(* heartbeat thread, retires the connection it decided to retire, never    *)
(* the one that leased the session after it.                               *)
THEOREM EndsOwn == Spec => EndsOwnConnection
  <1>1. AllInv => \A t \in Threads :
           pc[t] = "release" /\ Settled(ses[t]) => task[t].lease = lease[ses[t]]
    BY DEF AllInv, SettledInv, ThreadOk, Handles
  <1>2. AllInv /\ [Next]_vars =>
           [\A t \in Threads :
               pc[t] = "release" /\ pc'[t] = "cancel" /\ Settled(ses[t])
                  => task[t].lease = lease[ses[t]]]_vars
    BY <1>1
  <1>. QED
    BY <1>2, AllHold, PTL DEF Spec, EndsOwnConnection

-----------------------------------------------------------------------------
(* Who overtakes whom                                                      *)

(* Two workers never look at the token of a settled session at once, nor   *)
(* does one while the other completes the release.                         *)
OneCompletes ==
    \A u, v \in Workers :
        /\ Settled(ses[u]) /\ ses[u] = ses[v]
        /\ pc[u] \in InComplete /\ pc[v] \in InComplete
        => u = v

(* The token is looked at by who dropped the last count, or claims it.     *)
LEMMA EntersComplete ==
    ASSUME CountInv, NEW t \in Threads, Step(t), pc[t] \notin InComplete,
           pc'[t] \in InComplete
    PROVE  \/ pc[t] = "claim"
           \/ HasCount(t) /\ ioCount[ses[t]] = 1
           \/ HasIoCount(t) /\ ioCount[ses[t]] = 1
  <1>0. TypeOK /\ TaskFits(t) /\ pc \in [Threads -> Pcs]
    BY DEF CountInv, TypeOK, TasksFit
  <1>1. ASSUME NEW l \in Onward, Jump(t, l)
        PROVE  FALSE
    BY <1>0, <1>1 DEF Jump, Onward
  <1>2. ASSUME NEW l, CallRelease(t, l)
        PROVE  FALSE
    BY <1>0, <1>2, CallTo DEF InComplete, CompletePcs
  <1>3. {"idle", "finish", "cancel", "cancelIoEx", "reserve", "readCount",
         "connect", "announce", "connectFailed", "parse", "checkPending",
         "recvNotPosted", "drop", "sendDone", "postRecv", "trySend",
         "sendGate", "begin", "gate", "post", "undoIO"} \subseteq Onward
    BY Onwards
  <1>4. CASE Finish(t) \/ UndoIO(t)
    <2>1. HasCount(t) \/ HasIoCount(t)
      BY <1>0, <1>4 DEF Finish, UndoIO, HasCount, HasIoCount, TaskFits, Fits,
         InComplete, CompletePcs
    <2>2. ioCount[ses[t]] = 1
      BY <1>1, <1>3, <1>4, Onwards DEF Finish, UndoIO, DecrementIO
    <2>. QED
      BY <2>1, <2>2
  <1>5. CASE TakeToken(t) \/ CompleteReleaseStep(t)
    BY <1>5 DEF TakeToken, CompleteReleaseStep, CloseSocket, NotifyService,
       OnDisconnect, ResetBase, ResetClient, PushFree, InComplete, CompletePcs
  <1>6. CASE ReleaseStep(t)
    <2>1. pc[t] \in InRelease => ret[t] \in Onward
      BY Onwards
    <2>2. CASE ReadCount(t) /\ Jump(t, "claim")
      BY <1>0, <2>2 DEF Jump, InComplete, CompletePcs
    <2>. QED
      BY <1>1, <1>3, <1>6, <2>1, <2>2 DEF ReleaseStep, ReleaseCas,
         CancelPendingIO, CancelIoEx, Reserve, ReadCount, Claim, InRelease,
         ReleasePcs
  <1>7. CASE IoStep(t) /\ ~UndoIO(t)
    <2>1. /\ AfterSend(t) \in Onward /\ Posted(t) \in Onward
          /\ NotPosted(t) \in Onward
      BY Onwards
    <2>2. CASE PostFails(t)
      BY <1>0, <1>2, <2>2 DEF PostFails, InComplete, CompletePcs
    <2>3. CASE SendGate(t)
      BY <1>0, <1>1, <2>1, <2>3 DEF SendGate, InComplete, CompletePcs
    <2>. QED
      BY <1>1, <1>3, <1>7, <2>1, <2>2, <2>3 DEF IoStep, PostReceive, BeginIO,
         Gate, PostSucceeds, TrySendNext
  <1>8. CASE AcceptStep(t)
    <2>1. ~Jump(t, "hold") /\ ~Jump(t, "onConnect")
      BY <1>0 DEF Jump, InComplete, CompletePcs
    <2>. QED
      BY <1>1, <1>2, <1>3, <1>8, <2>1 DEF AcceptStep, AttachSocket,
         HoldForConnect, AcceptStarved, Connect, MarkNotified,
         OnClientConnect, ConnectFailed
  <1>9. CASE HandlerStep(t)
    <2>1. CASE ParseReject(t) \/ CheckPending(t)
      BY <1>0, <1>1, <1>3, <2>1 DEF ParseReject, CheckPending, InComplete,
         CompletePcs
    <2>. QED
      BY <1>1, <1>2, <1>3, <1>9, <2>1 DEF HandlerStep, ParseDone, ParseReply,
         ParseBad, DropRejected, RecvNotPosted, SendRest, SendNext
  <1>10. CASE NoteZombie(t) \/ MarkZombie(t)
    <2>1. ~Jump(t, "zombieMark")
      BY <1>0 DEF Jump, InComplete, CompletePcs
    <2>. QED
      BY <1>2, <1>10, <2>1 DEF NoteZombie, MarkZombie
  <1>. QED
    BY <1>4, <1>5, <1>6, <1>7, <1>8, <1>9, <1>10 DEF Step

LEMMA OneCompletesStep ==
    ASSUME CountInv, SettledInv, OneCompletes, [Next]_vars
    PROVE  OneCompletes'
  <1>0. TypeOK /\ Workers \subseteq Threads
    BY DEF CountInv, Threads
  <1>1. CASE UNCHANGED vars
    BY <1>1 DEF vars, OneCompletes
  <1>2. ASSUME NEW t \in Threads, NEW s, NEW op, NEW n, NEW l,
               Begin(t, s, op, n, l), l \notin InComplete,
               overtaken' = overtaken
        PROVE  OneCompletes'
    <2>1. /\ pc'[t] = l
          /\ \A u \in Threads \ {t} : pc'[u] = pc[u] /\ ses'[u] = ses[u]
      BY <1>0, <1>2, TakesUp
    <2>. QED
      BY <1>0, <1>2, <2>1 DEF OneCompletes
  <1>3. ASSUME NEW w \in Workers, Acquire(w) \/ Complete(w)
        PROVE  OneCompletes'
    <2>1. overtaken' = overtaken
      BY <1>3 DEF Acquire, Complete, RecvData, SendDone, ConnectionEnds,
         IoCancelled
    <2>2. CASE Complete(w)
      <3>1. \E s, n \in Sessions \cup Kinds,
               l \in {"parse", "sendDone", "release", "finish"} :
                 Begin(w, s, n, lease[s], l)
        BY <2>2 DEF Complete, RecvData, SendDone, ConnectionEnds, IoCancelled,
           Dequeue, Kinds
      <3>. QED
        BY <1>0, <1>2, <2>1, <3>1 DEF InComplete, CompletePcs
    <2>3. CASE Acquire(w)
      <3>1. CASE UNCHANGED <<poolState, lease, pc, ses, task>>
        BY <2>1, <3>1 DEF OneCompletes
      <3>2. CASE \E s \in Sessions :
                   Begin(w, s, "accept", lease[s] + 1, "attach")
        BY <1>0, <1>2, <2>1, <3>2 DEF InComplete, CompletePcs
      <3>. QED
        BY <1>0, <2>3, <3>1, <3>2, HeadTailProperties DEF Acquire, TypeOK
    <2>. QED
      BY <1>3, <2>2, <2>3
  <1>4. ASSUME NEW t \in Senders \cup Reapers, NEW s \in Sessions,
               EnqueueSend(t, s) \/ FindZombie(t, s)
        PROVE  OneCompletes'
    BY <1>2, <1>4 DEF EnqueueSend, FindZombie, InComplete, CompletePcs, Threads
  <1>5. ASSUME NEW t \in Threads, Step(t)
        PROVE  OneCompletes'
    <2>1. /\ ses' = ses /\ overtaken \subseteq overtaken'
          /\ \A u \in Threads \ {t} : pc'[u] = pc[u]
      BY <1>0, <1>5, LocalStep DEF Local
    <2>2. ASSUME pc[t] \notin InComplete, pc'[t] \in InComplete, t \in Workers,
                 Settled(ses[t])
          PROVE  \A v \in Threads \ {t} :
                    ses[v] = ses[t] => pc[v] \notin InComplete
      <3>1. pc[t] # "idle"
        BY <1>5, StepKeepsTask
      <3>2. ioCount[ses[t]] # 0
        <4>1. CASE pc[t] = "claim"
          <5>1. task[t].op \in Handlers /\ HasCount(t)
            BY <2>2, <3>1, <4>1 DEF SettledInv, WorkersHandle, HasCount
          <5>. QED
            BY <5>1, CountBounds
        <4>. QED
          BY <1>5, <2>2, <4>1, EntersComplete
      <3>3. ASSUME NEW v \in Threads \ {t}, ses[v] = ses[t], pc[v] \in InComplete
            PROVE  FALSE
        BY <2>2, <3>2, <3>3 DEF SettledInv, ThreadOk, LooseIsLast, Loose
      <3>. QED
        BY <3>3
    <2>3. ASSUME NEW u \in Workers, NEW v \in Workers, Settled(ses[u]),
                 ses[u] = ses[v], pc'[u] \in InComplete, pc'[v] \in InComplete,
                 u # v
          PROVE  FALSE
      <3>1. u \in Threads /\ v \in Threads
        BY <1>0
      <3>2. CASE u # t /\ v # t
        BY <2>1, <2>3, <3>1, <3>2 DEF OneCompletes
      <3>3. CASE u = t
        BY <2>1, <2>2, <2>3, <3>1, <3>3 DEF OneCompletes
      <3>4. CASE v = t
        BY <2>1, <2>2, <2>3, <3>1, <3>4 DEF OneCompletes
      <3>. QED
        BY <3>2, <3>3, <3>4
    <2>. QED
      BY <2>1, <2>3 DEF OneCompletes
  <1>. QED
    BY <1>1, <1>3, <1>4, <1>5 DEF Next

(* For any threads: a session is overtaken only while a sender or the      *)
(* heartbeat thread is at work on it.  Handlers never do this to each      *)
(* other, whichever of them look at the release token late.                *)
OvertakenFromOutside ==
    [][\A s \in Sessions : s \in overtaken' /\ Settled(s) =>
          \E u \in Senders \cup Reapers : pc[u] # "idle" /\ ses[u] = s]_vars

THEOREM HandlersKeepSettled == Spec => OvertakenFromOutside
  <1>1. ASSUME AllInv, OneCompletes, NEW t \in Threads, Step(t),
               NEW s \in Sessions, s \in overtaken', Settled(s)
        PROVE  \E u \in Senders \cup Reapers : pc[u] # "idle" /\ ses[u] = s
    <2>0. TypeOK /\ pc[t] # "idle"
      BY <1>1, StepKeepsTask DEF AllInv, CountInv
    <2>1. s = ses[t]
      BY <1>1, <2>0, LocalStep DEF Local
    <2>2. \/ ResetBase(t) /\ Overtakes(t)
          \/ BeginIO(t) /\ t \notin Workers
      <3>1. CASE ResetBase(t) \/ BeginIO(t)
        BY <1>1, <3>1 DEF ResetBase, BeginIO, NoteOvertaken
      <3>2. CASE overtaken' = overtaken
        BY <1>1, <3>2
      <3>. QED
        BY <1>1, <3>1, <3>2
           DEF Step, Finish, TakeToken, DecrementIO, ReleaseStep, ReleaseCas,
               CancelPendingIO, CancelIoEx, Reserve, ReadCount, Claim,
               CompleteReleaseStep, CloseSocket, NotifyService, OnDisconnect,
               ResetClient, PushFree, IoStep, PostReceive, Gate, PostSucceeds,
               PostFails, TrySendNext, SendGate, UndoIO, AcceptStep,
               AttachSocket, HoldForConnect, AcceptStarved, Connect,
               MarkNotified, OnClientConnect, ConnectFailed, HandlerStep,
               ParseDone, ParseReply, ParseReject, ParseBad, DropRejected,
               CheckPending, RecvNotPosted, SendRest, SendNext, NoteZombie,
               MarkZombie
    <2>3. CASE t \notin Workers
      BY <2>0, <2>1, <2>3 DEF Threads
    <2>4. CASE t \in Workers /\ ResetBase(t) /\ Overtakes(t)
      <3>1. PICK u \in Threads \ {t} :
              /\ pc[u] # "idle" /\ ses[u] = s
              /\ u \notin Workers \/ pc[u] = "token"
        BY <2>1, <2>4 DEF Overtakes
      <3>2. pc[t] \in InComplete
        BY <2>4 DEF ResetBase, InComplete, CompletePcs
      <3>3. u \notin Workers
        BY <1>1, <2>1, <2>4, <3>1, <3>2 DEF OneCompletes, InComplete
      <3>. QED
        BY <3>1, <3>3 DEF Threads
    <2>. QED
      BY <2>2, <2>3, <2>4
  <1>2. Init => OneCompletes
    BY DEF Init, OneCompletes, InComplete, CompletePcs, Threads
  <1>3. AllInv /\ OneCompletes /\ [Next]_vars => OneCompletes'
    BY OneCompletesStep DEF AllInv
  <1>4. AllInv /\ OneCompletes /\ [Next]_vars =>
          [\A s \in Sessions : s \in overtaken' /\ Settled(s) =>
              \E u \in Senders \cup Reapers : pc[u] # "idle" /\ ses[u] = s]_vars
    <2>. SUFFICES ASSUME AllInv, OneCompletes, Next, NEW s \in Sessions,
                         s \in overtaken', Settled(s)
                  PROVE  \E u \in Senders \cup Reapers :
                            pc[u] # "idle" /\ ses[u] = s
      OBVIOUS
    <2>1. \E t \in Threads : Step(t)
      BY DEF Next, Acquire, Complete, RecvData, SendDone, ConnectionEnds,
         IoCancelled, EnqueueSend, FindZombie
    <2>. QED
      BY <1>1, <2>1
  <1>. QED
    BY <1>2, <1>3, <1>4, AllHold, PTL DEF Spec, OvertakenFromOutside


=============================================================================
