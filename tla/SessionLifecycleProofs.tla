----------------------- MODULE SessionLifecycleProofs -----------------------
(* Proofs about SessionLifecycle, for any sessions, threads and bounds.    *)
EXTENDS SessionLifecycle, FiniteSetTheorems, SequenceTheorems, TLAPS

USE DEF poolVars, ioVars, kernelVars, connVars, svcVars

-----------------------------------------------------------------------------
(* Type correctness *)

(* The steps by name; with this fact the set itself can stay folded.       *)
LEMMA Steps ==
    /\ {"idle", "finish", "release"} \subseteq Pcs
    /\ {"cancel", "cancelIoEx", "reserve", "close", "notify", "disconnect",
        "resetBase", "resetClient", "pushFree"} \subseteq Pcs
    /\ {"readCount", "claim", "token"} \subseteq Pcs
    /\ {"attach", "hold", "connect", "announce", "onConnect", "connectFailed",
        "parse", "checkPending", "recvNotPosted", "drop", "sendDone",
        "zombieNote", "zombieMark"} \subseteq Pcs
    /\ {"postRecv", "trySend", "sendGate", "begin", "gate", "post",
        "undoIO"} \subseteq Pcs
    /\ ReturnPcs \subseteq Pcs /\ "idle" \in ReturnPcs
    /\ NoTask \in [op : Ops, io : Kinds, lease : Nat]
  BY DEF Pcs, OwnerPcs, ReleasePcs, CompletePcs, TokenPcs, HandlerPcs, IoPcs,
         ReturnPcs, NoTask, Ops, Kinds

LEMMA Returns ==
    ASSUME TypeOK, NEW t \in Threads
    PROVE  /\ ret[t] \in Pcs /\ AfterSend(t) \in Pcs
           /\ Posted(t) \in Pcs /\ NotPosted(t) \in ReturnPcs
  BY Steps DEF TypeOK, AfterSend, Posted, NotPosted, ReturnPcs

LEMMA JumpType ==
    ASSUME TypeOK, NEW t \in Threads, NEW l \in Pcs, Jump(t, l)
    PROVE  /\ pc' \in [Threads -> Pcs]
           /\ task' \in [Threads -> [op : Ops, io : Kinds, lease : Nat]]
  BY Steps DEF TypeOK, Jump

LEMMA CallType ==
    ASSUME TypeOK, NEW t \in Threads, NEW l \in ReturnPcs, CallRelease(t, l)
    PROVE  /\ pc' \in [Threads -> Pcs] /\ ret' \in [Threads -> ReturnPcs]
  BY Steps DEF TypeOK, CallRelease

LEMMA NoteType ==
    ASSUME TypeOK, NEW t, NEW s \in Sessions, NEW n \in Nat, NoteReason(t, s, n)
    PROVE  reason' \in [Sessions -> Nat]
  <1>1. reason \in [Sessions -> Nat]
    BY DEF TypeOK
  <1>. QED
    BY <1>1 DEF NoteReason

LEMMA TaskType ==
    ASSUME TypeOK, NEW t \in Threads
    PROVE  ses[t] \in Sessions /\ task[t].lease \in Nat /\ task[t].io \in Kinds
  BY DEF TypeOK

LEMMA BeginType ==
    ASSUME TypeOK, NEW t \in Threads, NEW s \in Sessions, NEW op \in Ops,
           NEW n \in Nat, NEW l \in Pcs, Begin(t, s, op, n, l)
    PROVE  /\ pc' \in [Threads -> Pcs]
           /\ ses' \in [Threads -> Sessions]
           /\ task' \in [Threads -> [op : Ops, io : Kinds, lease : Nat]]
  BY DEF TypeOK, Begin, Kinds

LEMMA AbortType ==
    ASSUME TypeOK, NEW s \in Sessions, AbortOperations(s)
    PROVE  /\ live' \in [Sessions -> [Kinds -> Nat]]
           /\ dying' \in [Sessions -> [Kinds -> Nat]]
  BY DEF TypeOK, AbortOperations

LEMMA DecrementType ==
    ASSUME TypeOK, NEW t \in Threads, NEW l \in ReturnPcs, DecrementIO(t, l)
    PROVE  TypeOK'
  <1>1. PICK m \in Pcs : Jump(t, m)
    BY Steps DEF DecrementIO
  <1>2. /\ pc' \in [Threads -> Pcs]
        /\ task' \in [Threads -> [op : Ops, io : Kinds, lease : Nat]]
    BY <1>1, JumpType
  <1>. QED
    <2>1. /\ ioCount' \in [Sessions -> Int]
          /\ ret' \in [Threads -> ReturnPcs]
      BY DEF TypeOK, DecrementIO
    <2>. QED
      BY <1>2, <2>1 DEF TypeOK, DecrementIO

LEMMA TypeInit == Init => TypeOK
  <1>. SUFFICES ASSUME Init PROVE TypeOK
    OBVIOUS
  <1>1. Cardinality(Sessions) \in Nat
    BY SessionsAssumption, FS_CardinalityType
  <1>2. freeList \in [1..Cardinality(Sessions) -> Sessions]
    BY DEF Init, Bijection, Injection
  <1>3. freeList \in Seq(Sessions)
    BY <1>1, <1>2, SeqDef
  <1>4. (CHOOSE s \in Sessions : TRUE) \in Sessions
    BY SessionsAssumption
  <1>. QED
    BY <1>3, <1>4, Steps DEF Init, TypeOK, States

LEMMA TypeRelease ==
    ASSUME TypeOK, NEW t \in Threads,
           ReleaseStep(t) \/ CompleteReleaseStep(t) \/ TakeToken(t)
    PROVE  TypeOK'
  <1>. USE Steps
  <1>0. /\ ret[t] \in Pcs /\ AfterSend(t) \in Pcs
        /\ Posted(t) \in Pcs /\ NotPosted(t) \in Pcs
        /\ NotPosted(t) \in ReturnPcs
    BY Returns
  <1>1. CASE ReleaseCas(t)
    <2>1. /\ Jump(t, "cancel") \/ Jump(t, ret[t])
          /\ \/ poolState' = [poolState EXCEPT ![ses[t]] = "RELEASING"]
             \/ poolState' = poolState
      BY <1>1 DEF ReleaseCas
    <2>2. /\ pc' \in [Threads -> Pcs]
          /\ task' \in [Threads -> [op : Ops, io : Kinds, lease : Nat]]
      BY <1>0, <2>1, JumpType
    <2>3. poolState' \in [Sessions -> {"FREE", "IN_USE", "RELEASING"}]
      BY <2>1 DEF TypeOK
    <2>. QED
      BY <1>1, <2>2, <2>3 DEF TypeOK, ReleaseCas
  <1>2. CASE CancelPendingIO(t)
    <2>1. Jump(t, "cancelIoEx") \/ Jump(t, "reserve")
      BY <1>2 DEF CancelPendingIO
    <2>2. /\ pc' \in [Threads -> Pcs]
          /\ task' \in [Threads -> [op : Ops, io : Kinds, lease : Nat]]
      BY <1>0, <2>1, JumpType
    <2>3. cancelIo' \in [Sessions -> 0..1]
      <3>1. cancelIo \in [Sessions -> 0..1]
        BY DEF TypeOK
      <3>2. \/ cancelIo' = [cancelIo EXCEPT ![ses[t]] = 1]
            \/ cancelIo' = cancelIo
        BY <1>2 DEF CancelPendingIO
      <3>. QED
        BY <3>1, <3>2
    <2>. QED
      BY <1>2, <2>2, <2>3 DEF TypeOK, CancelPendingIO
  <1>3. CASE CancelIoEx(t)
    <2>1. ses[t] \in Sessions
      BY DEF TypeOK
    <2>2. live' \in [Sessions -> [Kinds -> Nat]]
          /\ dying' \in [Sessions -> [Kinds -> Nat]]
      BY <1>3, <2>1, AbortType DEF CancelIoEx
    <2>. QED
      BY <1>3, <2>2 DEF TypeOK, CancelIoEx, Jump
  <1>4. CASE Reserve(t)
    <2>1. Jump(t, "readCount")
      BY <1>4 DEF Reserve
    <2>2. /\ pc' \in [Threads -> Pcs]
          /\ task' \in [Threads -> [op : Ops, io : Kinds, lease : Nat]]
      BY <1>0, <2>1, JumpType
    <2>3. releasePending' \in [Sessions -> 0..1]
      BY <1>4 DEF TypeOK, Reserve
    <2>. QED
      BY <1>4, <2>2, <2>3 DEF TypeOK, Reserve
  <1>5. CASE ReadCount(t)
    BY <1>5 DEF TypeOK, ReadCount, Jump
  <1>6. CASE Claim(t)
    <2>1. Jump(t, "close") \/ Jump(t, ret[t])
      BY <1>6 DEF Claim
    <2>2. /\ pc' \in [Threads -> Pcs]
          /\ task' \in [Threads -> [op : Ops, io : Kinds, lease : Nat]]
      BY <1>0, <2>1, JumpType
    <2>. QED
      <3>1. releasePending' \in [Sessions -> 0..1]
        BY <1>6 DEF TypeOK, Claim
      <3>. QED
        BY <1>6, <2>2, <3>1 DEF TypeOK, Claim
  <1>7. CASE CloseSocket(t)
    <2>1. ses[t] \in Sessions
      BY DEF TypeOK
    <2>2. live' \in [Sessions -> [Kinds -> Nat]]
          /\ dying' \in [Sessions -> [Kinds -> Nat]]
      BY <1>7, <2>1, AbortType DEF CloseSocket
    <2>. QED
      BY <1>7, <2>2 DEF TypeOK, CloseSocket, Jump
  <1>8. CASE NotifyService(t)
    <2>1. latch' \in [Sessions -> 0..1]
      <3>1. latch \in [Sessions -> 0..1]
        BY DEF TypeOK
      <3>2. latch' = [latch EXCEPT ![ses[t]] = 0]
        BY <1>8 DEF NotifyService
      <3>3. ses[t] \in Sessions /\ 0 \in 0..1
        BY DEF TypeOK
      <3>. QED
        BY <3>1, <3>2, <3>3, Zenon
    <2>2. announced' \in [Sessions -> Int]
      <3>1. /\ announced \in [Sessions -> Int] /\ ses[t] \in Sessions
            /\ latch[ses[t]] \in 0..1
        BY DEF TypeOK
      <3>2. announced[ses[t]] - latch[ses[t]] \in Int
        BY <3>1
      <3>3. announced' = [announced EXCEPT ![ses[t]] =
                             announced[ses[t]] - latch[ses[t]]]
        BY <1>8 DEF NotifyService
      <3>. QED
        BY <3>1, <3>2, <3>3
    <2>3. pc' \in [Threads -> Pcs] /\ task' = task
      BY <1>8 DEF TypeOK, NotifyService, Jump
    <2>. QED
      BY <1>8, <2>1, <2>2, <2>3 DEF TypeOK, NotifyService
  <1>9. CASE OnDisconnect(t)
    <2>1. state' \in [Sessions -> States]
      BY <1>9 DEF TypeOK, OnDisconnect, States
    <2>2. closing' \in [Sessions -> 0..1]
      BY <1>9 DEF TypeOK, OnDisconnect
    <2>3. pc' \in [Threads -> Pcs] /\ task' = task
      BY <1>9 DEF TypeOK, OnDisconnect, Jump
    <2>. QED
      BY <1>9, <2>1, <2>2, <2>3 DEF TypeOK, OnDisconnect
  <1>10. CASE ResetBase(t)
    <2>1. /\ Jump(t, "resetClient")
          /\ UNCHANGED <<poolState, freeList, lease, kernelVars>>
          /\ UNCHANGED <<svcVars, ioCount, socket, sending, ses, ret>>
      BY <1>10 DEF ResetBase
    <2>2. /\ pc' \in [Threads -> Pcs]
          /\ task' \in [Threads -> [op : Ops, io : Kinds, lease : Nat]]
      BY <2>1, JumpType
    <2>3. state' \in [Sessions -> States] /\ reason' \in [Sessions -> Nat]
      BY <1>10 DEF TypeOK, ResetBase, States
    <2>4. /\ closing' \in [Sessions -> 0..1]
          /\ cancelIo' \in [Sessions -> 0..1]
          /\ releasePending' \in [Sessions -> 0..1]
      BY <1>10 DEF TypeOK, ResetBase
    <2>5. overtaken' \in SUBSET Sessions
      BY <1>10 DEF TypeOK, ResetBase, NoteOvertaken
    <2>. QED
      BY <2>1, <2>2, <2>3, <2>4, <2>5 DEF TypeOK
  <1>11. CASE ResetClient(t)
    <2>1. /\ Jump(t, "pushFree") /\ UNCHANGED <<poolVars, ioVars, kernelVars>>
          /\ UNCHANGED <<closing, socket, reason, announced, ses, ret>>
      BY <1>11 DEF ResetClient
    <2>2. /\ pc' \in [Threads -> Pcs]
          /\ task' \in [Threads -> [op : Ops, io : Kinds, lease : Nat]]
      BY <2>1, JumpType
    <2>3. state' \in [Sessions -> States]
      BY <1>11 DEF TypeOK, ResetClient, States
    <2>4. sending' \in [Sessions -> 0..1] /\ latch' \in [Sessions -> 0..1]
      BY <1>11 DEF TypeOK, ResetClient
    <2>. QED
      BY <2>1, <2>2, <2>3, <2>4 DEF TypeOK
  <1>12. CASE PushFree(t)
    <2>1. <<ses[t]>> \o freeList \in Seq(Sessions)
      BY ConcatProperties DEF TypeOK
    <2>. QED
      BY <1>12, <2>1 DEF TypeOK, PushFree, Jump
  <1>13. CASE TakeToken(t)
    <2>1. Jump(t, "close") \/ Jump(t, ret[t])
      BY <1>13 DEF TakeToken
    <2>2. /\ pc' \in [Threads -> Pcs]
          /\ task' \in [Threads -> [op : Ops, io : Kinds, lease : Nat]]
      BY <1>0, <2>1, JumpType
    <2>. QED
      <3>1. releasePending' \in [Sessions -> 0..1]
        BY <1>13 DEF TypeOK, TakeToken
      <3>. QED
        BY <1>13, <2>2, <3>1 DEF TypeOK, TakeToken
  <1>. QED
    BY <1>1, <1>2, <1>3, <1>4, <1>5, <1>6, <1>7, <1>8, <1>9, <1>10, <1>11,
       <1>12, <1>13 DEF ReleaseStep, CompleteReleaseStep

LEMMA TypeIo ==
    ASSUME TypeOK, NEW t \in Threads, IoStep(t)
    PROVE  TypeOK'
  <1>. USE Steps
  <1>0. /\ ret[t] \in Pcs /\ AfterSend(t) \in Pcs
        /\ Posted(t) \in Pcs /\ NotPosted(t) \in Pcs
        /\ NotPosted(t) \in ReturnPcs
    BY Returns
  <1>1. CASE PostReceive(t)
    <2>1. PICK l \in Pcs : Jump(t, l)
      BY <1>0, <1>1 DEF PostReceive
    <2>2. /\ pc' \in [Threads -> Pcs]
          /\ task' \in [Threads -> [op : Ops, io : Kinds, lease : Nat]]
      BY <2>1, JumpType
    <2>. QED
      BY <1>1, <2>2 DEF TypeOK, PostReceive
  <1>2. CASE BeginIO(t)
    <2>1. ioCount[ses[t]] + 1 \in Int
      BY DEF TypeOK
    <2>2. ioCount' \in [Sessions -> Int]
      BY <1>2, <2>1 DEF TypeOK, BeginIO
    <2>3. pc' \in [Threads -> Pcs] /\ task' = task
      BY <1>2 DEF TypeOK, BeginIO, Jump
    <2>4. overtaken' \in SUBSET Sessions
      BY <1>2 DEF TypeOK, BeginIO, NoteOvertaken
    <2>. QED
      BY <1>2, <2>2, <2>3, <2>4 DEF TypeOK, BeginIO
  <1>3. CASE Gate(t)
    BY <1>3 DEF TypeOK, Gate, Jump
  <1>4. CASE PostSucceeds(t)
    <2>1. live' \in [Sessions -> [Kinds -> Nat]]
      BY <1>0, <1>4 DEF TypeOK, PostSucceeds, Jump
    <2>. QED
      BY <1>0, <1>4, <2>1 DEF TypeOK, PostSucceeds, Jump
  <1>5. CASE PostFails(t)
    <2>1. sending' \in [Sessions -> 0..1]
      BY <1>5 DEF TypeOK, PostFails
    <2>2. reason' \in [Sessions -> Nat]
      <3>1. \/ NoteReason(t, ses[t], task[t].lease) \/ reason' = reason
        BY <1>5 DEF PostFails
      <3>. QED
        BY <3>1, NoteType, TaskType DEF TypeOK
    <2>3. pc' \in [Threads -> Pcs] /\ ret' \in [Threads -> ReturnPcs]
      <3>1. CASE CallRelease(t, "undoIO")
        BY <3>1, CallType DEF ReturnPcs
      <3>2. CASE pc' = [pc EXCEPT ![t] = "undoIO"] /\ ret' = ret
        BY <3>2 DEF TypeOK
      <3>. QED
        BY <1>5, <3>1, <3>2 DEF PostFails
    <2>. QED
      BY <1>5, <2>1, <2>2, <2>3 DEF TypeOK, PostFails
  <1>6. CASE TrySendNext(t)
    <2>1. Jump(t, "sendGate") \/ Jump(t, AfterSend(t))
      BY <1>6 DEF TrySendNext
    <2>2. /\ pc' \in [Threads -> Pcs]
          /\ task' \in [Threads -> [op : Ops, io : Kinds, lease : Nat]]
      BY <1>0, <2>1, JumpType
    <2>3. sending' \in [Sessions -> 0..1]
      <3>1. \/ sending' = [sending EXCEPT ![ses[t]] = 1]
            \/ sending' = sending
        BY <1>6 DEF TrySendNext
      <3>2. sending \in [Sessions -> 0..1]
        BY DEF TypeOK
      <3>. QED
        BY <3>1, <3>2
    <2>. QED
      BY <1>6, <2>2, <2>3 DEF TypeOK, TrySendNext
  <1>7. CASE SendGate(t)
    <2>1. sending' \in [Sessions -> 0..1]
      <3>1. \/ sending' = [sending EXCEPT ![ses[t]] = 0]
            \/ sending' = sending
        BY <1>7 DEF SendGate
      <3>2. sending \in [Sessions -> 0..1]
        BY DEF TypeOK
      <3>. QED
        BY <3>1, <3>2
    <2>2. pc' \in [Threads -> Pcs]
      BY <1>0, <1>7 DEF TypeOK, SendGate, Jump
    <2>3. task' \in [Threads -> [op : Ops, io : Kinds, lease : Nat]]
      <3>1. \/ Jump(t, AfterSend(t))
            \/ task' = [task EXCEPT ![t].io = "send"]
        BY <1>7 DEF SendGate
      <3>2. CASE Jump(t, AfterSend(t))
        BY <1>0, <3>2, JumpType
      <3>3. CASE task' = [task EXCEPT ![t].io = "send"]
        BY <3>3 DEF TypeOK, Kinds
      <3>. QED
        BY <3>1, <3>2, <3>3
    <2>. QED
      BY <1>7, <2>1, <2>2, <2>3 DEF TypeOK, SendGate
  <1>8. CASE UndoIO(t)
    BY <1>0, <1>8, DecrementType DEF UndoIO
  <1>. QED
    BY <1>1, <1>2, <1>3, <1>4, <1>5, <1>6, <1>7, <1>8 DEF IoStep

LEMMA TypeAccept ==
    ASSUME TypeOK, NEW w \in Threads, AcceptStep(w)
    PROVE  TypeOK'
  <1>. USE Steps
  <1>1. CASE AttachSocket(w)
    BY <1>1 DEF TypeOK, AttachSocket, Jump
  <1>2. CASE HoldForConnect(w)
    <2>1. ioCount[ses[w]] + 1 \in Int
      BY DEF TypeOK
    <2>2. ioCount' \in [Sessions -> Int]
      BY <1>2, <2>1 DEF TypeOK, HoldForConnect
    <2>3. pc' \in [Threads -> Pcs] /\ task' = task
      BY <1>2 DEF TypeOK, HoldForConnect, Jump
    <2>. QED
      BY <1>2, <2>2, <2>3 DEF TypeOK, HoldForConnect
  <1>3. CASE AcceptStarved(w)
    BY <1>3 DEF TypeOK, AcceptStarved, Jump
  <1>4. CASE Connect(w)
    <2>1. state' \in [Sessions -> States]
      BY <1>4 DEF TypeOK, Connect, States
    <2>2. pc' \in [Threads -> Pcs] /\ task' = task
      <3>1. /\ Jump(w, "postRecv") \/ Jump(w, "connectFailed")
            /\ task' = task
        BY <1>4 DEF Connect, Jump
      <3>. QED
        BY <3>1, JumpType
    <2>. QED
      BY <1>4, <2>1, <2>2 DEF TypeOK, Connect
  <1>5. CASE MarkNotified(w)
    <2>1. latch' \in [Sessions -> 0..1]
      BY <1>5 DEF TypeOK, MarkNotified
    <2>2. /\ pc' \in [Threads -> Pcs]
          /\ task' \in [Threads -> [op : Ops, io : Kinds, lease : Nat]]
      BY <1>5, JumpType DEF MarkNotified
    <2>. QED
      BY <1>5, <2>1, <2>2 DEF TypeOK, MarkNotified
  <1>6. CASE OnClientConnect(w)
    <2>1. announced' \in [Sessions -> Int]
      BY <1>6 DEF TypeOK, OnClientConnect
    <2>2. pc' \in [Threads -> Pcs] /\ task' = task
      BY <1>6 DEF TypeOK, OnClientConnect, Jump
    <2>. QED
      BY <1>6, <2>1, <2>2 DEF TypeOK, OnClientConnect
  <1>7. CASE ConnectFailed(w)
    <2>1. reason' \in [Sessions -> Nat]
      BY <1>7, NoteType, TaskType DEF ConnectFailed
    <2>2. pc' \in [Threads -> Pcs] /\ ret' \in [Threads -> ReturnPcs]
      BY <1>7, CallType DEF ConnectFailed, ReturnPcs
    <2>. QED
      BY <1>7, <2>1, <2>2 DEF TypeOK, ConnectFailed
  <1>. QED
    BY <1>1, <1>2, <1>3, <1>4, <1>5, <1>6, <1>7 DEF AcceptStep

LEMMA TypeHandler ==
    ASSUME TypeOK, NEW w \in Threads, HandlerStep(w)
    PROVE  TypeOK'
  <1>. USE Steps
  <1>1. CASE ParseDone(w)
    BY <1>1 DEF TypeOK, ParseDone, Jump
  <1>2. CASE ParseReply(w)
    BY <1>2 DEF TypeOK, ParseReply, Jump
  <1>3. CASE ParseReject(w)
    <2>1. reason' \in [Sessions -> Nat]
      BY <1>3, NoteType, TaskType DEF ParseReject
    <2>2. task' \in [Threads -> [op : Ops, io : Kinds, lease : Nat]]
      <3>1. /\ task \in [Threads -> [op : Ops, io : Kinds, lease : Nat]]
            /\ "reject" \in Ops
        BY DEF TypeOK, Ops
      <3>. QED
        BY <1>3, <3>1 DEF ParseReject
    <2>3. pc' \in [Threads -> Pcs]
      BY <1>3 DEF TypeOK, ParseReject
    <2>. QED
      BY <1>3, <2>1, <2>2, <2>3 DEF TypeOK, ParseReject
  <1>4. CASE ParseBad(w)
    <2>1. reason' \in [Sessions -> Nat]
      BY <1>4, NoteType, TaskType DEF ParseBad
    <2>2. pc' \in [Threads -> Pcs] /\ ret' \in [Threads -> ReturnPcs]
      BY <1>4, CallType DEF ParseBad, ReturnPcs
    <2>. QED
      BY <1>4, <2>1, <2>2 DEF TypeOK, ParseBad
  <1>5. CASE DropRejected(w)
    <2>1. pc' \in [Threads -> Pcs] /\ ret' \in [Threads -> ReturnPcs]
      BY <1>5, CallType DEF DropRejected, ReturnPcs
    <2>. QED
      BY <1>5, <2>1 DEF TypeOK, DropRejected
  <1>6. CASE CheckPending(w)
    <2>1. pc' \in [Threads -> Pcs]
      <3>1. \/ pc' = [pc EXCEPT ![w] = "finish"]
            \/ pc' = [pc EXCEPT ![w] = "postRecv"]
        BY <1>6 DEF CheckPending, Jump
      <3>. QED
        BY <3>1 DEF TypeOK
    <2>2. task' \in [Threads -> [op : Ops, io : Kinds, lease : Nat]]
      <3>1. task' = task \/ task' = [task EXCEPT ![w].io = "recv"]
        BY <1>6 DEF CheckPending, Jump
      <3>2. /\ task \in [Threads -> [op : Ops, io : Kinds, lease : Nat]]
            /\ "recv" \in Kinds
        BY DEF TypeOK, Kinds
      <3>. QED
        BY <3>1, <3>2
    <2>. QED
      BY <1>6, <2>1, <2>2 DEF TypeOK, CheckPending
  <1>7. CASE RecvNotPosted(w)
    <2>1. reason' \in [Sessions -> Nat]
      <3>1. NoteReason(w, ses[w], task[w].lease) \/ reason' = reason
        BY <1>7 DEF RecvNotPosted
      <3>. QED
        BY <3>1, NoteType, TaskType DEF TypeOK
    <2>2. /\ pc' \in [Threads -> Pcs] /\ ret' \in [Threads -> ReturnPcs]
          /\ task' = task
      <3>1. CASE CallRelease(w, "finish") /\ task' = task
        BY <3>1, CallType DEF ReturnPcs
      <3>2. CASE Jump(w, "finish") /\ ret' = ret
        BY <3>2 DEF TypeOK, Jump
      <3>. QED
        BY <1>7, <3>1, <3>2 DEF RecvNotPosted
    <2>. QED
      BY <1>7, <2>1, <2>2 DEF TypeOK, RecvNotPosted
  <1>8. CASE SendRest(w)
    BY <1>8 DEF TypeOK, SendRest, Jump
  <1>9. CASE SendNext(w)
    <2>1. sending' \in [Sessions -> 0..1]
      BY <1>9 DEF TypeOK, SendNext
    <2>2. /\ pc' \in [Threads -> Pcs]
          /\ task' \in [Threads -> [op : Ops, io : Kinds, lease : Nat]]
      BY <1>9, JumpType DEF SendNext
    <2>. QED
      BY <1>9, <2>1, <2>2 DEF TypeOK, SendNext
  <1>. QED
    BY <1>1, <1>2, <1>3, <1>4, <1>5, <1>6, <1>7, <1>8, <1>9 DEF HandlerStep

LEMMA TypeComplete ==
    ASSUME TypeOK, NEW w \in Workers, Complete(w)
    PROVE  TypeOK'
  <1>. USE Steps
  <1>. w \in Threads
    BY DEF Threads
  <1>1. PICK s \in Sessions :
           \/ RecvData(w, s) \/ SendDone(w, s)
           \/ \E k \in Kinds : ConnectionEnds(w, s, k) \/ IoCancelled(w, s, k)
    BY DEF Complete
  <1>2. lease[s] \in Nat
    BY DEF TypeOK
  <1>3. ASSUME NEW kind \in Kinds, NEW l \in Pcs, Dequeue(w, s, kind, l)
        PROVE  /\ live' \in [Sessions -> [Kinds -> Nat]]
               /\ dying' \in [Sessions -> [Kinds -> Nat]]
               /\ pc' \in [Threads -> Pcs]
               /\ ses' \in [Threads -> Sessions]
               /\ task' \in [Threads -> [op : Ops, io : Kinds, lease : Nat]]
    <2>. live[s][kind] \in Nat /\ dying[s][kind] \in Nat
      BY DEF TypeOK
    <2>. /\ live[s][kind] > 0 => live[s][kind] - 1 \in Nat
         /\ dying[s][kind] > 0 => dying[s][kind] - 1 \in Nat
      OBVIOUS
    <2>1. live' \in [Sessions -> [Kinds -> Nat]]
      <3>1. live \in [Sessions -> [Kinds -> Nat]]
        BY DEF TypeOK
      <3>. QED
        BY <1>3, <3>1 DEF Dequeue
    <2>2. dying' \in [Sessions -> [Kinds -> Nat]]
      <3>1. dying \in [Sessions -> [Kinds -> Nat]]
        BY DEF TypeOK
      <3>. QED
        BY <1>3, <3>1 DEF Dequeue
    <2>3. Begin(w, s, kind, lease[s], l) /\ kind \in Ops
      BY <1>3 DEF Dequeue, Kinds, Ops
    <2>. QED
      BY <1>2, <2>1, <2>2, <2>3, BeginType
  <1>4. CASE RecvData(w, s)
    <2>1. Dequeue(w, s, "recv", "parse") /\ "recv" \in Kinds
      BY <1>4 DEF RecvData, Kinds
    <2>. QED
      BY <1>3, <1>4, <2>1 DEF TypeOK, RecvData
  <1>5. CASE SendDone(w, s)
    <2>1. Dequeue(w, s, "send", "sendDone") /\ "send" \in Kinds
      BY <1>5 DEF SendDone, Kinds
    <2>. QED
      BY <1>3, <1>5, <2>1 DEF TypeOK, SendDone
  <1>6. ASSUME NEW k \in Kinds, ConnectionEnds(w, s, k)
        PROVE  TypeOK'
    <2>1. Dequeue(w, s, k, "release")
      BY <1>6 DEF ConnectionEnds
    <2>. QED
      BY <1>2, <1>3, <1>6, <2>1 DEF TypeOK, ConnectionEnds, NoteReason, ReturnPcs
  <1>7. ASSUME NEW k \in Kinds, IoCancelled(w, s, k)
        PROVE  TypeOK'
    <2>. dying[s][k] \in Nat
      BY DEF TypeOK
    <2>. dying[s][k] > 0 => dying[s][k] - 1 \in Nat
      OBVIOUS
    <2>1. dying' \in [Sessions -> [Kinds -> Nat]]
      BY <1>7 DEF TypeOK, IoCancelled
    <2>2. Begin(w, s, k, lease[s], "finish") /\ k \in Ops
      BY <1>7 DEF IoCancelled, Kinds, Ops
    <2>3. /\ pc' \in [Threads -> Pcs] /\ ses' \in [Threads -> Sessions]
          /\ task' \in [Threads -> [op : Ops, io : Kinds, lease : Nat]]
      BY <1>2, <2>2, BeginType
    <2>. QED
      BY <1>7, <2>1, <2>3 DEF TypeOK, IoCancelled
  <1>. QED
    BY <1>1, <1>4, <1>5, <1>6, <1>7

LEMMA TypeAcquire ==
    ASSUME TypeOK, NEW w \in Workers, Acquire(w)
    PROVE  TypeOK'
  <1>. w \in Threads
    BY DEF Threads
  <1>1. Head(freeList) \in Sessions /\ Tail(freeList) \in Seq(Sessions)
    BY HeadTailProperties DEF TypeOK, Acquire
  <1>2. PICK s \in Sessions : s = Head(freeList)
    BY <1>1
  <1>3. lease[s] + 1 \in Nat /\ "accept" \in Ops
    BY DEF TypeOK, Ops
  <1>4. CASE poolState[s] = "FREE"
    <2>1. Begin(w, s, "accept", lease[s] + 1, "attach")
      BY <1>2, <1>4 DEF Acquire
    <2>2. /\ pc' \in [Threads -> Pcs] /\ ses' \in [Threads -> Sessions]
          /\ task' \in [Threads -> [op : Ops, io : Kinds, lease : Nat]]
      BY <1>3, <2>1, Steps, BeginType
    <2>. QED
      <3>1. /\ freeList' = Tail(freeList)
            /\ poolState' = [poolState EXCEPT ![s] = "IN_USE"]
            /\ lease' = [lease EXCEPT ![s] = lease[s] + 1]
        BY <1>2, <1>4 DEF Acquire
      <3>. QED
        BY <1>1, <1>3, <2>2, <3>1 DEF TypeOK, Acquire
  <1>5. CASE poolState[s] # "FREE"
    BY <1>1, <1>2, <1>5 DEF TypeOK, Acquire
  <1>. QED
    BY <1>4, <1>5

LEMMA TypeOthers ==
    ASSUME TypeOK, NEW t \in Threads,
           \/ \E s \in Sessions : EnqueueSend(t, s) \/ FindZombie(t, s)
           \/ NoteZombie(t) \/ MarkZombie(t) \/ Finish(t)
    PROVE  TypeOK'
  <1>1. ASSUME NEW s \in Sessions, EnqueueSend(t, s) \/ FindZombie(t, s)
        PROVE  TypeOK'
    <2>1. /\ lease[s] \in Nat
          /\ \/ Begin(t, s, "enqueue", lease[s], "trySend")
             \/ Begin(t, s, "zombie", lease[s], "zombieNote")
      BY <1>1 DEF TypeOK, EnqueueSend, FindZombie
    <2>2. /\ pc' \in [Threads -> Pcs] /\ ses' \in [Threads -> Sessions]
          /\ task' \in [Threads -> [op : Ops, io : Kinds, lease : Nat]]
      BY <2>1, Steps, BeginType DEF Ops
    <2>. QED
      BY <1>1, <2>2 DEF TypeOK, EnqueueSend, FindZombie
  <1>2. CASE NoteZombie(t)
    BY <1>2, Steps DEF TypeOK, NoteZombie, Jump, NoteReason
  <1>3. CASE MarkZombie(t)
    BY <1>3, Steps DEF TypeOK, MarkZombie, CallRelease, States, ReturnPcs
  <1>4. CASE Finish(t)
    BY <1>4, Steps, DecrementType DEF Finish, ReturnPcs
  <1>. QED
    BY <1>1, <1>2, <1>3, <1>4

LEMMA TypeStep == TypeOK /\ [Next]_vars => TypeOK'
  <1>. SUFFICES ASSUME TypeOK, [Next]_vars PROVE TypeOK'
    OBVIOUS
  <1>1. CASE UNCHANGED vars
    BY <1>1 DEF TypeOK, vars
  <1>2. ASSUME NEW w \in Workers, Acquire(w) \/ Complete(w)
        PROVE  TypeOK'
    BY <1>2, TypeAcquire, TypeComplete
  <1>3. ASSUME NEW t \in Threads, NEW s \in Sessions,
               EnqueueSend(t, s) \/ FindZombie(t, s)
        PROVE  TypeOK'
    BY <1>3, TypeOthers
  <1>4. ASSUME NEW t \in Threads, Step(t)
        PROVE  TypeOK'
    BY <1>4, TypeRelease, TypeIo, TypeAccept, TypeHandler, TypeOthers DEF Step
  <1>. QED
    BY <1>1, <1>2, <1>3, <1>4 DEF Next, Threads

(* In every reachable state every variable has its type; in particular no  *)
(* thread returns to a step that does not exist, and the kernel never owes *)
(* a negative number of completions.                                       *)
THEOREM TypeCorrect == Spec => []TypeOK
  BY TypeInit, TypeStep, PTL DEF Spec
-----------------------------------------------------------------------------
(* The release has one owner *)

(* The steps that own no release, and the ones that do.                    *)
LEMMA OwnerSteps ==
    /\ {"idle", "finish", "release", "readCount", "claim", "token", "attach",
        "hold", "connect", "announce", "onConnect", "connectFailed", "parse",
        "checkPending", "recvNotPosted", "drop", "sendDone", "zombieNote",
        "zombieMark", "postRecv", "trySend", "sendGate", "begin", "gate",
        "post", "undoIO"} \subseteq Pcs \ OwnerPcs
    /\ ReturnPcs \subseteq Pcs \ OwnerPcs
    /\ OwnerPcs = {"cancel", "cancelIoEx", "reserve", "close", "notify",
                   "disconnect", "resetBase", "resetClient", "pushFree"}
  BY DEF Pcs, OwnerPcs, ReleasePcs, CompletePcs, TokenPcs, HandlerPcs, IoPcs,
         ReturnPcs

(* A step of t that is not concerned with any release, and a step of an    *)
(* owner that goes on owning.                                              *)
NotOwning(t) ==
    /\ pc[t] \notin OwnerPcs
    /\ \E l \in Pcs \ OwnerPcs : pc' = [pc EXCEPT ![t] = l]
    /\ \E s \in Sessions : ses' = [ses EXCEPT ![t] = s]
    /\ UNCHANGED <<poolState, releasePending>>

KeepsOwning(t) ==
    /\ pc[t] \in OwnerPcs
    /\ \E l \in OwnerPcs : pc' = [pc EXCEPT ![t] = l]
    /\ ses' = ses
    /\ poolState' = poolState
    /\ \/ releasePending' = releasePending
       \/ releasePending' = [releasePending EXCEPT ![ses[t]] = 0]

LEMMA NotOwningStep ==
    ASSUME TypeOK, ReleaseHasOneOwner, NEW t \in Threads, NotOwning(t)
    PROVE  ReleaseHasOneOwner'
  <1>1. \A u \in Threads, s \in Sessions : Owns(u, s)' <=> Owns(u, s)
    BY DEF TypeOK, NotOwning, Owns
  <1>2. \A u \in Threads : pc'[u] \in OwnerPcs =>
           pc[u] \in OwnerPcs /\ ses'[u] = ses[u]
    BY DEF TypeOK, NotOwning
  <1>3. UNCHANGED <<poolState, releasePending>>
    BY DEF NotOwning
  <1>4. \A u \in Threads : ses[u] \in Sessions
    BY DEF TypeOK
  <1>. QED
    BY <1>1, <1>2, <1>3, <1>4
       DEF ReleaseHasOneOwner, TokenOnlyWhileReleasing, OwnerHasNoRival,
           ReleasingHasOwner

LEMMA KeepsOwningStep ==
    ASSUME TypeOK, ReleaseHasOneOwner, NEW t \in Threads, KeepsOwning(t)
    PROVE  ReleaseHasOneOwner'
  <1>1. \A u \in Threads, s \in Sessions : Owns(u, s)' <=> Owns(u, s)
    BY DEF TypeOK, KeepsOwning, Owns
  <1>2. \A u \in Threads : pc'[u] \in OwnerPcs <=> pc[u] \in OwnerPcs
    BY DEF TypeOK, KeepsOwning
  <1>3. releasePending' = releasePending
    <2>1. releasePending[ses[t]] = 0
      BY DEF KeepsOwning, ReleaseHasOneOwner, OwnerHasNoRival
    <2>. QED
      BY <2>1 DEF TypeOK, KeepsOwning
  <1>4. poolState' = poolState /\ ses' = ses
    BY DEF KeepsOwning
  <1>5. \A u \in Threads : ses[u] \in Sessions
    BY DEF TypeOK
  <1>. QED
    BY <1>1, <1>2, <1>3, <1>4, <1>5
       DEF ReleaseHasOneOwner, TokenOnlyWhileReleasing, OwnerHasNoRival,
           ReleasingHasOwner

(* Who wins the compare-exchange of Release becomes the owner: there was   *)
(* none, since the node was not RELEASING.                                 *)
LEMMA CasStep ==
    ASSUME TypeOK, ReleaseHasOneOwner, NEW t \in Threads, ReleaseCas(t)
    PROVE  ReleaseHasOneOwner'
  <1>. DEFINE s == ses[t]
  <1>0. /\ s \in Sessions /\ ret[t] \in Pcs \ OwnerPcs
        /\ \A u \in Threads : ses[u] \in Sessions
    BY OwnerSteps DEF TypeOK
  <1>1. CASE poolState[s] = "IN_USE"
    <2>1. /\ poolState' = [poolState EXCEPT ![s] = "RELEASING"]
          /\ pc' = [pc EXCEPT ![t] = "cancel"]
          /\ UNCHANGED <<releasePending, ses>>
      BY <1>1 DEF ReleaseCas, Jump
    <2>2. \A u \in Threads : pc[u] \in OwnerPcs => ses[u] # s
      BY <1>1 DEF ReleaseHasOneOwner, OwnerHasNoRival
    <2>3. releasePending[s] = 0
      BY <1>0, <1>1 DEF ReleaseHasOneOwner, TokenOnlyWhileReleasing, TypeOK
    <2>4. pc'[t] = "cancel" /\ \A u \in Threads \ {t} : pc'[u] = pc[u]
      BY <2>1 DEF TypeOK
    <2>5. /\ poolState'[s] = "RELEASING"
          /\ \A x \in Sessions \ {s} : poolState'[x] = poolState[x]
      BY <1>0, <2>1 DEF TypeOK
    <2>6. TokenOnlyWhileReleasing'
      BY <2>1, <2>5 DEF ReleaseHasOneOwner, TokenOnlyWhileReleasing
    <2>7. OwnerHasNoRival'
      BY <1>0, <2>1, <2>2, <2>3, <2>4, <2>5
         DEF ReleaseHasOneOwner, OwnerHasNoRival, Owns
    <2>8. ReleasingHasOwner'
      <3>1. Owns(t, s)'
        BY <2>1, <2>4, OwnerSteps DEF Owns
      <3>2. ASSUME NEW x \in Sessions \ {s}, poolState'[x] = "RELEASING"
            PROVE  releasePending'[x] = 1 \/ \E u \in Threads : Owns(u, x)'
        <4>1. CASE releasePending[x] = 1
          BY <2>1, <4>1
        <4>2. CASE releasePending[x] # 1
          <5>1. PICK u \in Threads : Owns(u, x)
            BY <2>5, <3>2, <4>2 DEF ReleaseHasOneOwner, ReleasingHasOwner
          <5>2. u # t
            BY <5>1 DEF Owns
          <5>. QED
            BY <2>1, <2>4, <5>1, <5>2 DEF Owns
        <4>. QED
          BY <4>1, <4>2
      <3>. SUFFICES ASSUME NEW x \in Sessions, poolState'[x] = "RELEASING"
                    PROVE  releasePending'[x] = 1
                             \/ \E u \in Threads : Owns(u, x)'
        BY DEF ReleasingHasOwner
      <3>. QED
        BY <2>1, <3>1, <3>2
    <2>. QED
      BY <2>6, <2>7, <2>8 DEF ReleaseHasOneOwner
  <1>2. CASE poolState[s] # "IN_USE"
    <2>1. pc[t] = "release" /\ pc' = [pc EXCEPT ![t] = ret[t]]
      BY <1>2 DEF ReleaseCas, Jump
    <2>2. ses' = [ses EXCEPT ![t] = s]
      BY <1>0 DEF ReleaseCas, TypeOK
    <2>3. UNCHANGED <<poolState, releasePending>>
      BY <1>2 DEF ReleaseCas
    <2>4. NotOwning(t)
      BY <1>0, <2>1, <2>2, <2>3, OwnerSteps DEF NotOwning
    <2>. QED
      BY <2>4, NotOwningStep
  <1>. QED
    BY <1>1, <1>2
(* RequestRelease hands the release over to the token.                     *)
LEMMA ReserveStep ==
    ASSUME TypeOK, ReleaseHasOneOwner, NEW t \in Threads, Reserve(t)
    PROVE  ReleaseHasOneOwner'
  <1>. DEFINE s == ses[t]
  <1>0. s \in Sessions /\ \A u \in Threads : ses[u] \in Sessions
    BY DEF TypeOK
  <1>1. /\ pc[t] = "reserve" /\ pc' = [pc EXCEPT ![t] = "readCount"]
        /\ releasePending' = [releasePending EXCEPT ![s] = 1]
        /\ UNCHANGED <<poolState, ses>>
    BY DEF Reserve, Jump
  <1>2. /\ pc'[t] = "readCount" /\ \A u \in Threads \ {t} : pc'[u] = pc[u]
        /\ releasePending'[s] = 1
        /\ \A x \in Sessions \ {s} : releasePending'[x] = releasePending[x]
    BY <1>0, <1>1 DEF TypeOK
  <1>3. Owns(t, s) /\ ~ (pc'[t] \in OwnerPcs)
    BY <1>1, <1>2, OwnerSteps DEF Owns
  <1>4. /\ poolState[s] = "RELEASING"
        /\ \A u \in Threads : pc[u] \in OwnerPcs /\ ses[u] = s => u = t
    BY <1>3 DEF Owns, ReleaseHasOneOwner, OwnerHasNoRival
  <1>5. TokenOnlyWhileReleasing'
    BY <1>1, <1>2, <1>4 DEF ReleaseHasOneOwner, TokenOnlyWhileReleasing
  <1>6. OwnerHasNoRival'
    BY <1>0, <1>1, <1>2, <1>3, <1>4
       DEF ReleaseHasOneOwner, OwnerHasNoRival, Owns
  <1>7. ReleasingHasOwner'
    <2>. SUFFICES ASSUME NEW x \in Sessions \ {s}, poolState[x] = "RELEASING",
                         releasePending[x] # 1
                  PROVE  \E u \in Threads : Owns(u, x)'
      BY <1>1, <1>2 DEF ReleasingHasOwner
    <2>1. PICK u \in Threads : Owns(u, x)
      BY DEF ReleaseHasOneOwner, ReleasingHasOwner
    <2>2. u # t
      BY <2>1 DEF Owns
    <2>. QED
      BY <1>1, <1>2, <2>1, <2>2 DEF Owns
  <1>. QED
    BY <1>5, <1>6, <1>7 DEF ReleaseHasOneOwner

(* Whoever turns the token from 1 into 0 owns the release: there was no    *)
(* other owner, for an owner excludes the token.                           *)
LEMMA TakeStep ==
    ASSUME TypeOK, ReleaseHasOneOwner, NEW t \in Threads,
           Claim(t) \/ TakeToken(t)
    PROVE  ReleaseHasOneOwner'
  <1>. DEFINE s == ses[t]
  <1>0. /\ s \in Sessions /\ ret[t] \in Pcs \ OwnerPcs
        /\ \A u \in Threads : ses[u] \in Sessions
    BY OwnerSteps DEF TypeOK
  <1>1. /\ pc[t] \in {"claim", "token"}
        /\ releasePending' = [releasePending EXCEPT ![s] = 0]
        /\ UNCHANGED <<poolState, ses>>
    BY DEF Claim, TakeToken
  <1>2. CASE releasePending[s] = 1
    <2>1. pc' = [pc EXCEPT ![t] = "close"]
      BY <1>2 DEF Claim, TakeToken, Jump
    <2>2. /\ pc'[t] = "close" /\ \A u \in Threads \ {t} : pc'[u] = pc[u]
          /\ releasePending'[s] = 0
          /\ \A x \in Sessions \ {s} : releasePending'[x] = releasePending[x]
      BY <1>0, <1>1, <2>1 DEF TypeOK
    <2>3. /\ poolState[s] = "RELEASING"
          /\ \A u \in Threads : pc[u] \in OwnerPcs => ses[u] # s
      BY <1>0, <1>2
         DEF ReleaseHasOneOwner, OwnerHasNoRival, TokenOnlyWhileReleasing
    <2>4. TokenOnlyWhileReleasing'
      BY <1>1, <2>2 DEF ReleaseHasOneOwner, TokenOnlyWhileReleasing
    <2>5. OwnerHasNoRival'
      BY <1>0, <1>1, <2>2, <2>3 DEF ReleaseHasOneOwner, OwnerHasNoRival, Owns
    <2>6. Owns(t, s)'
      BY <1>1, <2>2, OwnerSteps DEF Owns
    <2>7. ReleasingHasOwner'
      <3>. SUFFICES ASSUME NEW x \in Sessions \ {s},
                           poolState[x] = "RELEASING", releasePending[x] # 1
                    PROVE  \E u \in Threads : Owns(u, x)'
        BY <1>1, <2>2, <2>6 DEF ReleasingHasOwner
      <3>1. PICK u \in Threads : Owns(u, x)
        BY DEF ReleaseHasOneOwner, ReleasingHasOwner
      <3>2. u # t
        BY <3>1 DEF Owns
      <3>. QED
        BY <1>1, <2>2, <3>1, <3>2 DEF Owns
    <2>. QED
      BY <2>4, <2>5, <2>7 DEF ReleaseHasOneOwner
  <1>3. CASE releasePending[s] # 1
    <2>1. pc' = [pc EXCEPT ![t] = ret[t]]
      BY <1>3 DEF Claim, TakeToken, Jump
    <2>2. releasePending' = releasePending
      <3>1. releasePending \in [Sessions -> 0..1]
        BY DEF TypeOK
      <3>2. releasePending[s] = 0
        BY <1>0, <1>3, <3>1
      <3>. QED
        BY <1>1, <3>1, <3>2
    <2>3. ses' = [ses EXCEPT ![t] = s]
      BY <1>1 DEF TypeOK
    <2>4. NotOwning(t)
      BY <1>0, <1>1, <2>1, <2>2, <2>3, OwnerSteps DEF NotOwning
    <2>. QED
      BY <2>4, NotOwningStep
  <1>. QED
    BY <1>2, <1>3

(* The owner puts the node back, and with it the release is over.          *)
LEMMA PushStep ==
    ASSUME TypeOK, ReleaseHasOneOwner, NEW t \in Threads, PushFree(t)
    PROVE  ReleaseHasOneOwner'
  <1>. DEFINE s == ses[t]
  <1>0. /\ s \in Sessions /\ ret[t] \in Pcs \ OwnerPcs
        /\ \A u \in Threads : ses[u] \in Sessions
    BY OwnerSteps DEF TypeOK
  <1>1. /\ pc[t] = "pushFree" /\ pc' = [pc EXCEPT ![t] = ret[t]]
        /\ poolState' = [poolState EXCEPT ![s] = "FREE"]
        /\ UNCHANGED <<releasePending, ses>>
    BY DEF PushFree, Jump
  <1>2. /\ pc'[t] = ret[t] /\ \A u \in Threads \ {t} : pc'[u] = pc[u]
        /\ poolState'[s] = "FREE"
        /\ \A x \in Sessions \ {s} : poolState'[x] = poolState[x]
    BY <1>0, <1>1 DEF TypeOK
  <1>3. Owns(t, s)
    BY <1>1, OwnerSteps DEF Owns
  <1>4. /\ releasePending[s] = 0
        /\ \A u \in Threads : pc[u] \in OwnerPcs /\ ses[u] = s => u = t
    BY <1>3 DEF Owns, ReleaseHasOneOwner, OwnerHasNoRival
  <1>5. TokenOnlyWhileReleasing'
    BY <1>1, <1>2, <1>4 DEF ReleaseHasOneOwner, TokenOnlyWhileReleasing
  <1>6. OwnerHasNoRival'
    BY <1>0, <1>1, <1>2, <1>4 DEF ReleaseHasOneOwner, OwnerHasNoRival, Owns
  <1>7. ReleasingHasOwner'
    <2>. SUFFICES ASSUME NEW x \in Sessions \ {s}, poolState[x] = "RELEASING",
                         releasePending[x] # 1
                  PROVE  \E u \in Threads : Owns(u, x)'
      BY <1>1, <1>2 DEF ReleasingHasOwner
    <2>1. PICK u \in Threads : Owns(u, x)
      BY DEF ReleaseHasOneOwner, ReleasingHasOwner
    <2>2. u # t
      BY <2>1 DEF Owns
    <2>. QED
      BY <1>1, <1>2, <2>1, <2>2 DEF Owns
  <1>. QED
    BY <1>5, <1>6, <1>7 DEF ReleaseHasOneOwner

(* A lease takes a FREE node: no release is under way on it.               *)
LEMMA AcquireStep ==
    ASSUME TypeOK, ReleaseHasOneOwner, NEW w \in Threads, Acquire(w)
    PROVE  ReleaseHasOneOwner'
  <1>1. Head(freeList) \in Sessions
    BY HeadTailProperties DEF TypeOK, Acquire
  <1>2. PICK s \in Sessions : s = Head(freeList)
    BY <1>1
  <1>3. pc[w] = "idle" /\ releasePending' = releasePending
    BY DEF Acquire, Begin
  <1>4. CASE poolState[s] = "FREE"
    <2>1. /\ poolState' = [poolState EXCEPT ![s] = "IN_USE"]
          /\ pc' = [pc EXCEPT ![w] = "attach"]
          /\ ses' = [ses EXCEPT ![w] = s]
      BY <1>2, <1>4 DEF Acquire, Begin
    <2>2. /\ \A x \in Sessions \ {s} : poolState'[x] = poolState[x]
          /\ poolState'[s] = "IN_USE"
      BY <2>1 DEF TypeOK
    <2>3. \A u \in Threads : ses[u] \in Sessions
      BY DEF TypeOK
    <2>4. \A u \in Threads, x \in Sessions : Owns(u, x)' <=> Owns(u, x)
      BY <1>3, <2>1, OwnerSteps DEF TypeOK, Owns
    <2>5. \A u \in Threads : pc'[u] \in OwnerPcs =>
             pc[u] \in OwnerPcs /\ ses'[u] = ses[u] /\ ses[u] # s
      BY <1>3, <1>4, <2>1, OwnerSteps
         DEF TypeOK, ReleaseHasOneOwner, OwnerHasNoRival
    <2>. QED
      BY <1>3, <1>4, <2>2, <2>3, <2>4, <2>5
         DEF ReleaseHasOneOwner, TokenOnlyWhileReleasing, OwnerHasNoRival,
             ReleasingHasOwner
  <1>5. CASE poolState[s] # "FREE"
    <2>1. UNCHANGED <<poolState, pc, ses>>
      BY <1>2, <1>5 DEF Acquire
    <2>. QED
      BY <1>3, <2>1
         DEF ReleaseHasOneOwner, TokenOnlyWhileReleasing, OwnerHasNoRival,
             ReleasingHasOwner, Owns
  <1>. QED
    BY <1>4, <1>5
(* All other steps: a release goes on, or no release is concerned.         *)
LEMMA CompleteStep ==
    ASSUME TypeOK, NEW t \in Threads,
           \/ CancelPendingIO(t) \/ CancelIoEx(t) \/ CloseSocket(t)
           \/ NotifyService(t) \/ OnDisconnect(t) \/ ResetBase(t)
           \/ ResetClient(t)
    PROVE  KeepsOwning(t)
  <1>. USE OwnerSteps DEF KeepsOwning, Jump
  <1>1. CASE CancelPendingIO(t)
    BY <1>1 DEF CancelPendingIO
  <1>2. CASE CancelIoEx(t)
    BY <1>2 DEF CancelIoEx
  <1>3. CASE CloseSocket(t)
    BY <1>3 DEF CloseSocket
  <1>4. CASE NotifyService(t)
    BY <1>4 DEF NotifyService
  <1>5. CASE OnDisconnect(t)
    BY <1>5 DEF OnDisconnect
  <1>6. CASE ResetBase(t)
    BY <1>6 DEF ResetBase
  <1>7. CASE ResetClient(t)
    BY <1>7 DEF ResetClient
  <1>. QED
    BY <1>1, <1>2, <1>3, <1>4, <1>5, <1>6, <1>7

LEMMA Targets ==
    ASSUME TypeOK, NEW t \in Threads
    PROVE  /\ ret[t] \in Pcs \ OwnerPcs /\ AfterSend(t) \in Pcs \ OwnerPcs
           /\ Posted(t) \in Pcs \ OwnerPcs /\ NotPosted(t) \in Pcs \ OwnerPcs
           /\ ses = [ses EXCEPT ![t] = ses[t]] /\ ses[t] \in Sessions
  BY OwnerSteps DEF TypeOK, AfterSend, Posted, NotPosted

LEMMA IoNotOwning ==
    ASSUME TypeOK, NEW t \in Threads, IoStep(t) \/ Finish(t)
    PROVE  NotOwning(t)
  <1>. USE Targets, OwnerSteps DEF NotOwning, Jump
  <1>1. CASE PostReceive(t)
    BY <1>1 DEF PostReceive
  <1>2. CASE BeginIO(t)
    BY <1>2 DEF BeginIO
  <1>3. CASE Gate(t)
    BY <1>3 DEF Gate
  <1>4. CASE PostSucceeds(t)
    BY <1>4 DEF PostSucceeds
  <1>5. CASE PostFails(t)
    BY <1>5 DEF PostFails, CallRelease
  <1>6. CASE TrySendNext(t)
    BY <1>6 DEF TrySendNext
  <1>7. CASE SendGate(t)
    BY <1>7 DEF SendGate
  <1>8. CASE UndoIO(t)
    BY <1>8 DEF UndoIO, DecrementIO
  <1>9. CASE Finish(t)
    BY <1>9 DEF Finish, DecrementIO
  <1>. QED
    BY <1>1, <1>2, <1>3, <1>4, <1>5, <1>6, <1>7, <1>8, <1>9 DEF IoStep

LEMMA HandlerNotOwning ==
    ASSUME TypeOK, NEW t \in Threads,
           \/ AcceptStep(t) \/ HandlerStep(t)
           \/ NoteZombie(t) \/ MarkZombie(t) \/ ReadCount(t)
    PROVE  NotOwning(t)
  <1>. USE Targets, OwnerSteps DEF NotOwning, Jump, CallRelease
  <1>1. CASE AcceptStep(t)
    <2>1. CASE AttachSocket(t) \/ HoldForConnect(t) \/ AcceptStarved(t)
      BY <2>1 DEF AttachSocket, HoldForConnect, AcceptStarved
    <2>2. CASE Connect(t) \/ MarkNotified(t)
      BY <2>2 DEF Connect, MarkNotified
    <2>3. CASE OnClientConnect(t) \/ ConnectFailed(t)
      BY <2>3 DEF OnClientConnect, ConnectFailed
    <2>. QED
      BY <1>1, <2>1, <2>2, <2>3 DEF AcceptStep
  <1>2. CASE HandlerStep(t)
    <2>1. CASE ParseDone(t) \/ ParseReply(t) \/ ParseReject(t)
      BY <2>1 DEF ParseDone, ParseReply, ParseReject
    <2>2. CASE ParseBad(t) \/ DropRejected(t) \/ CheckPending(t)
      BY <2>2 DEF ParseBad, DropRejected, CheckPending
    <2>3. CASE RecvNotPosted(t)
      BY <2>3 DEF RecvNotPosted
    <2>4. CASE SendRest(t) \/ SendNext(t)
      BY <2>4 DEF SendRest, SendNext
    <2>. QED
      BY <1>2, <2>1, <2>2, <2>3, <2>4 DEF HandlerStep
  <1>3. CASE NoteZombie(t) \/ MarkZombie(t)
    BY <1>3 DEF NoteZombie, MarkZombie
  <1>4. CASE ReadCount(t)
    BY <1>4 DEF ReadCount
  <1>. QED
    BY <1>1, <1>2, <1>3, <1>4

LEMMA BeginNotOwning ==
    ASSUME TypeOK, NEW t \in Threads, NEW s \in Sessions,
           \/ \E k \in Kinds : \/ RecvData(t, s) \/ SendDone(t, s)
                               \/ ConnectionEnds(t, s, k)
                               \/ IoCancelled(t, s, k)
           \/ EnqueueSend(t, s) \/ FindZombie(t, s)
    PROVE  NotOwning(t)
  <1>. USE OwnerSteps DEF NotOwning, Begin, Dequeue
  <1>1. CASE \E k \in Kinds : RecvData(t, s) \/ SendDone(t, s)
    BY <1>1 DEF RecvData, SendDone
  <1>2. CASE \E k \in Kinds : ConnectionEnds(t, s, k)
    BY <1>2 DEF ConnectionEnds
  <1>3. CASE \E k \in Kinds : IoCancelled(t, s, k)
    BY <1>3 DEF IoCancelled
  <1>4. CASE EnqueueSend(t, s) \/ FindZombie(t, s)
    BY <1>4 DEF EnqueueSend, FindZombie
  <1>. QED
    BY <1>1, <1>2, <1>3, <1>4

LEMMA OwnerInit == Init => ReleaseHasOneOwner
  BY OwnerSteps
     DEF Init, ReleaseHasOneOwner, TokenOnlyWhileReleasing, OwnerHasNoRival,
         ReleasingHasOwner

LEMMA OwnerStep ==
    TypeOK /\ ReleaseHasOneOwner /\ [Next]_vars => ReleaseHasOneOwner'
  <1>. SUFFICES ASSUME TypeOK, ReleaseHasOneOwner, [Next]_vars
                PROVE  ReleaseHasOneOwner'
    OBVIOUS
  <1>1. CASE UNCHANGED vars
    BY <1>1
       DEF vars, ReleaseHasOneOwner, TokenOnlyWhileReleasing, OwnerHasNoRival,
           ReleasingHasOwner, Owns
  <1>2. ASSUME NEW w \in Workers, Acquire(w)
        PROVE  ReleaseHasOneOwner'
    BY <1>2, AcquireStep DEF Threads
  <1>3. ASSUME NEW w \in Workers, Complete(w)
        PROVE  ReleaseHasOneOwner'
    <2>1. w \in Threads /\ "recv" \in Kinds
      BY DEF Threads, Kinds
    <2>. QED
      BY <1>3, <2>1, BeginNotOwning, NotOwningStep DEF Complete
  <1>4. ASSUME NEW t \in Threads, NEW s \in Sessions,
               EnqueueSend(t, s) \/ FindZombie(t, s)
        PROVE  ReleaseHasOneOwner'
    BY <1>4, BeginNotOwning, NotOwningStep
  <1>5. ASSUME NEW t \in Threads, Step(t)
        PROVE  ReleaseHasOneOwner'
    <2>1. CASE ReleaseStep(t) \/ TakeToken(t)
      BY <2>1, CasStep, ReserveStep, TakeStep, CompleteStep, KeepsOwningStep,
         HandlerNotOwning, NotOwningStep DEF ReleaseStep
    <2>2. CASE CompleteReleaseStep(t)
      BY <2>2, PushStep, CompleteStep, KeepsOwningStep DEF CompleteReleaseStep
    <2>3. CASE \/ IoStep(t) \/ Finish(t) \/ AcceptStep(t) \/ HandlerStep(t)
               \/ NoteZombie(t) \/ MarkZombie(t)
      BY <2>3, IoNotOwning, HandlerNotOwning, NotOwningStep
    <2>. QED
      BY <1>5, <2>1, <2>2, <2>3 DEF Step
  <1>. QED
    BY <1>1, <1>2, <1>3, <1>4, <1>5 DEF Next, Threads

(* Of all the paths that may ask for the release of a session at the same  *)
(* time, one thread, or the token, holds the right to complete it: for any *)
(* number of threads and sessions, CompleteRelease runs once per lease.    *)
THEOREM ReleaseOwned == Spec => []ReleaseHasOneOwner
  <1>1. Spec => []TypeOK
    BY TypeCorrect
  <1>. QED
    BY <1>1, OwnerInit, OwnerStep, PTL DEF Spec
-----------------------------------------------------------------------------
(* The free list is exact *)

LEMMA ListInit == Init => FreeListIsExact
  <1>. SUFFICES ASSUME Init PROVE FreeListIsExact
    OBVIOUS
  <1>. DEFINE n == Cardinality(Sessions)
  <1>1. n \in Nat
    BY SessionsAssumption, FS_CardinalityType
  <1>2. /\ freeList \in [1..n -> Sessions] /\ IsInjective(freeList)
        /\ \A s \in Sessions : \E i \in 1..n : freeList[i] = s
    BY DEF Init, Bijection, Injection, Surjection
  <1>3. freeList \in Seq(Sessions)
    BY <1>1, <1>2, SeqDef
  <1>4. Len(freeList) = n /\ DOMAIN freeList = 1..n
    BY <1>1, <1>2, <1>3, LenProperties
  <1>5. \A i, j \in 1..n : freeList[i] = freeList[j] => i = j
    BY <1>2, <1>4 DEF IsInjective
  <1>6. \A s \in Sessions : poolState[s] = "FREE" /\ s \in Range(freeList)
    BY <1>2, <1>4 DEF Init, Range
  <1>. QED
    BY <1>4, <1>5, <1>6 DEF FreeListIsExact

LEMMA ListAcquire ==
    ASSUME TypeOK, FreeListIsExact, NEW w \in Threads, Acquire(w)
    PROVE  FreeListIsExact'
  <1>. DEFINE tail == Tail(freeList)
  <1>1. /\ freeList # <<>> /\ freeList \in Seq(Sessions)
        /\ freeList' = tail
    BY DEF TypeOK, Acquire
  <1>2. /\ Len(freeList) \in Nat \ {0} /\ DOMAIN freeList = 1..Len(freeList)
        /\ tail \in Seq(Sessions) /\ Len(tail) = Len(freeList) - 1
        /\ \A i \in 1..Len(tail) : tail[i] = freeList[i + 1]
        /\ DOMAIN tail = 1..Len(tail)
    BY <1>1, HeadTailProperties, LenProperties, EmptySeq
  <1>3. PICK s \in Sessions : s = Head(freeList)
    BY <1>1, HeadTailProperties
  <1>4. s = freeList[1] /\ 1 \in 1..Len(freeList)
    BY <1>1, <1>2, <1>3
  <1>5. s \in Range(freeList) /\ poolState[s] = "FREE"
    BY <1>2, <1>4 DEF Range, FreeListIsExact
  <1>6. poolState' = [poolState EXCEPT ![s] = "IN_USE"]
    BY <1>3, <1>5 DEF Acquire
  <1>7. \A i, j \in 1..Len(tail) : tail[i] = tail[j] => i = j
    BY <1>2 DEF FreeListIsExact
  <1>8. s \notin Range(tail)
    <2>. SUFFICES ASSUME NEW i \in 1..Len(tail), tail[i] = s PROVE FALSE
      BY <1>2 DEF Range
    <2>. QED
      BY <1>2, <1>4 DEF FreeListIsExact
  <1>9. \A x \in Sessions \ {s} : x \in Range(tail) <=> x \in Range(freeList)
    <2>. TAKE x \in Sessions \ {s}
    <2>1. ASSUME NEW i \in 1..Len(freeList), freeList[i] = x
          PROVE  x \in Range(tail)
      <3>1. i # 1 /\ i - 1 \in 1..Len(tail)
        BY <1>2, <1>4, <2>1
      <3>2. tail[i - 1] = x
        BY <1>2, <2>1, <3>1
      <3>. QED
        BY <1>2, <3>1, <3>2 DEF Range
    <2>2. ASSUME NEW i \in 1..Len(tail), tail[i] = x
          PROVE  x \in Range(freeList)
      BY <1>2, <2>2 DEF Range
    <2>. QED
      BY <1>2, <2>1, <2>2 DEF Range
  <1>10. \A x \in Sessions : poolState'[x] = "FREE" <=> x \in Range(tail)
    BY <1>6, <1>8, <1>9 DEF TypeOK, FreeListIsExact
  <1>. QED
    BY <1>1, <1>7, <1>10 DEF FreeListIsExact

LEMMA ListPush ==
    ASSUME TypeOK, ReleaseHasOneOwner, FreeListIsExact,
           NEW t \in Threads, PushFree(t)
    PROVE  FreeListIsExact'
  <1>. DEFINE s    == ses[t]
              list == <<s>> \o freeList
  <1>1. s \in Sessions /\ freeList \in Seq(Sessions)
    BY DEF TypeOK
  <1>2. /\ freeList' = list /\ poolState' = [poolState EXCEPT ![s] = "FREE"]
        /\ ses' = ses /\ pc[t] = "pushFree"
    BY DEF PushFree
  <1>3. s \notin Range(freeList)
    <2>1. poolState[s] = "RELEASING"
      BY <1>2, OwnerSteps DEF ReleaseHasOneOwner, OwnerHasNoRival
    <2>. QED
      BY <1>1, <2>1 DEF FreeListIsExact
  <1>4. <<s>> \in Seq(Sessions) /\ Len(<<s>>) = 1 /\ <<s>>[1] = s
    BY <1>1
  <1>5. /\ Len(freeList) \in Nat /\ DOMAIN freeList = 1..Len(freeList)
        /\ list \in Seq(Sessions) /\ Len(list) = 1 + Len(freeList)
        /\ \A i \in 1..(1 + Len(freeList)) :
              list[i] = IF i <= 1 THEN s ELSE freeList[i - 1]
        /\ DOMAIN list = 1..Len(list)
    BY <1>1, <1>4, ConcatProperties, LenProperties
  <1>. HIDE DEF list
  <1>6. \A i \in 1..Len(freeList) : freeList[i] # s
    BY <1>3, <1>5 DEF Range
  <1>7. \A i, j \in 1..Len(list) : list[i] = list[j] => i = j
    <2>. SUFFICES ASSUME NEW i \in 1..Len(list), NEW j \in 1..Len(list),
                         list[i] = list[j]
                  PROVE  i = j
      OBVIOUS
    <2>1. /\ i = 1 \/ (i - 1 \in 1..Len(freeList) /\ list[i] = freeList[i - 1])
          /\ j = 1 \/ (j - 1 \in 1..Len(freeList) /\ list[j] = freeList[j - 1])
          /\ list[1] = s
      BY <1>5
    <2>2. CASE i = 1 \/ j = 1
      BY <1>6, <2>1, <2>2
    <2>3. CASE i # 1 /\ j # 1
      <3>1. i - 1 = j - 1
        BY <2>1, <2>3 DEF FreeListIsExact
      <3>. QED
        BY <3>1
    <2>. QED
      BY <2>2, <2>3
  <1>8. \A x \in Sessions : x \in Range(list) <=>
           x = s \/ x \in Range(freeList)
    <2>. TAKE x \in Sessions
    <2>1. ASSUME NEW i \in 1..Len(list), list[i] = x
          PROVE  x = s \/ x \in Range(freeList)
      <3>1. i = 1 \/ i - 1 \in 1..Len(freeList)
        BY <1>5
      <3>. QED
        BY <1>5, <2>1, <3>1 DEF Range
    <2>2. s \in Range(list)
      BY <1>5 DEF Range
    <2>3. ASSUME NEW i \in 1..Len(freeList), freeList[i] = x
          PROVE  x \in Range(list)
      <3>1. i + 1 \in 1..Len(list) /\ list[i + 1] = x
        BY <1>5, <2>3
      <3>. QED
        BY <1>5, <3>1 DEF Range
    <2>. QED
      BY <1>5, <2>1, <2>2, <2>3 DEF Range
  <1>9. \A x \in Sessions : poolState'[x] = "FREE" <=> x \in Range(list)
    BY <1>1, <1>2, <1>8 DEF TypeOK, FreeListIsExact
  <1>10. /\ \A i, j \in 1..Len(freeList') : freeList'[i] = freeList'[j] => i = j
         /\ \A x \in Sessions : poolState'[x] = "FREE" <=> x \in Range(freeList')
    BY <1>2, <1>7, <1>9
  <1>. QED
    BY <1>10 DEF FreeListIsExact

LEMMA ListCas ==
    ASSUME TypeOK, FreeListIsExact, NEW t \in Threads, ReleaseCas(t)
    PROVE  FreeListIsExact'
  <1>1. /\ freeList' = freeList
        /\ \A x \in Sessions : poolState'[x] = "FREE" <=> poolState[x] = "FREE"
    BY DEF TypeOK, ReleaseCas
  <1>. QED
    BY <1>1 DEF FreeListIsExact

(* Only the lease, the compare-exchange of Release and the push touch a    *)
(* node or the list.                                                       *)
LEMMA ListUntouched ==
    ASSUME NEW t \in Threads,
           \/ \E s \in Sessions : EnqueueSend(t, s) \/ FindZombie(t, s)
           \/ Complete(t)
           \/ Step(t) /\ ~ReleaseCas(t) /\ ~PushFree(t)
    PROVE  UNCHANGED <<poolState, freeList>>
  <1>1. CASE \E s \in Sessions : EnqueueSend(t, s) \/ FindZombie(t, s)
    BY <1>1 DEF EnqueueSend, FindZombie
  <1>2. CASE Complete(t)
    BY <1>2 DEF Complete, RecvData, SendDone, ConnectionEnds, IoCancelled
  <1>3. CASE ReleaseStep(t) /\ ~ReleaseCas(t)
    BY <1>3 DEF ReleaseStep, CancelPendingIO, CancelIoEx, Reserve, ReadCount,
                Claim
  <1>4. CASE CompleteReleaseStep(t) /\ ~PushFree(t)
    BY <1>4 DEF CompleteReleaseStep, CloseSocket, NotifyService, OnDisconnect,
                ResetBase, ResetClient
  <1>5. CASE IoStep(t)
    BY <1>5 DEF IoStep, PostReceive, BeginIO, Gate, PostSucceeds, PostFails,
                TrySendNext, SendGate, UndoIO, DecrementIO
  <1>6. CASE AcceptStep(t)
    BY <1>6 DEF AcceptStep, AttachSocket, HoldForConnect, AcceptStarved,
                Connect, MarkNotified, OnClientConnect, ConnectFailed
  <1>7. CASE HandlerStep(t)
    BY <1>7 DEF HandlerStep, ParseDone, ParseReply, ParseReject, ParseBad,
                DropRejected, CheckPending, RecvNotPosted, SendRest, SendNext
  <1>8. CASE Finish(t) \/ TakeToken(t) \/ NoteZombie(t) \/ MarkZombie(t)
    BY <1>8 DEF Finish, DecrementIO, TakeToken, NoteZombie, MarkZombie
  <1>. QED
    BY <1>1, <1>2, <1>3, <1>4, <1>5, <1>6, <1>7, <1>8
       DEF Step, ReleaseStep, CompleteReleaseStep

LEMMA ListStep ==
    TypeOK /\ ReleaseHasOneOwner /\ FreeListIsExact /\ [Next]_vars
        => FreeListIsExact'
  <1>. SUFFICES ASSUME TypeOK, ReleaseHasOneOwner, FreeListIsExact, [Next]_vars
                PROVE  FreeListIsExact'
    OBVIOUS
  <1>1. ASSUME UNCHANGED <<poolState, freeList>>
        PROVE  FreeListIsExact'
    BY <1>1 DEF FreeListIsExact
  <1>2. CASE UNCHANGED vars
    BY <1>1, <1>2 DEF vars
  <1>3. ASSUME NEW w \in Workers, Acquire(w) \/ Complete(w)
        PROVE  FreeListIsExact'
    BY <1>1, <1>3, ListAcquire, ListUntouched DEF Threads
  <1>4. ASSUME NEW t \in Threads, NEW s \in Sessions,
               EnqueueSend(t, s) \/ FindZombie(t, s)
        PROVE  FreeListIsExact'
    BY <1>1, <1>4, ListUntouched
  <1>5. ASSUME NEW t \in Threads, Step(t)
        PROVE  FreeListIsExact'
    BY <1>1, <1>5, ListCas, ListPush, ListUntouched
  <1>. QED
    BY <1>2, <1>3, <1>4, <1>5 DEF Next, Threads

(* Whatever the interleaving, the free list holds each FREE node once and  *)
(* nothing else: no connection shares its session with another, and the    *)
(* branch of Acquire that reports a corrupted list is never taken.         *)
THEOREM FreeListExact == Spec => []FreeListIsExact
  <1>1. Spec => [](TypeOK /\ ReleaseHasOneOwner)
    BY TypeCorrect, ReleaseOwned, PTL
  <1>. QED
    BY <1>1, ListInit, ListStep, PTL DEF Spec
=============================================================================
