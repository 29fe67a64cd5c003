--------------------------- MODULE AcceptSlotsProofs ---------------------------
(* Proofs about AcceptSlots: a slot has one owner, its count is what is    *)
(* held of it, and StopServer leaves no AcceptEx behind.                   *)
EXTENDS AcceptSlots, FiniteSetTheorems, TLAPS

USE DEF Threads, NoSlot, Goto, Put, server, slots, threads

-----------------------------------------------------------------------------
(* Where a thread may be, and what it then knows.                          *)

StopPCs == {"running", "join", "cancel", "await", "listen", "stop", "ended"}

(* Each kind of thread keeps to its points of the code.                    *)
AtHome(t) ==
    /\ t = Main => pc[t] \in StopPCs
    /\ t = Heartbeat => pc[t] \in {"idle", "claim", "ended"} \cup PostPCs
    /\ t \in Workers => pc[t] \in {"ended"} \cup WorkerPCs \cup PostPCs

(* A thread that is not idle is at work on a slot.                         *)
HasSlot(t) ==
    pc[t] \in (WorkerPCs \ {"idle"}) \cup PostPCs
              \cup {"claim", "cancel", "await"} => slot[t] \in Slots

(* Who goes no further than to give up its slot has dropped its count, or  *)
(* is about to.                                                            *)
KnowsNext(t) ==
    /\ next[t] = "done" =>
         pc[t] \in {"cancelCount", "bailCount", "bailReset", "vacate"}
    /\ pc[t] \in {"cancelCount", "bailCount", "bailReset"} => next[t] = "done"

(* The flag is set before the heartbeat is joined, and this before         *)
(* anything is cancelled.                                                  *)
StopInOrder ==
    /\ pc[Main] = "running" <=> ~shutdown
    /\ pc[Main] \in StopPCs \ {"running", "join"} => pc[Heartbeat] = "ended"

Placed ==
    /\ \A t \in Threads : AtHome(t) /\ HasSlot(t) /\ KnowsNext(t)
    /\ StopInOrder

TypeInv == TypeOK /\ Placed

(* The step is one of t alone: it stays where it belongs.                  *)
Local(t) ==
    /\ \A u \in Threads \ {t} : /\ pc'[u] = pc[u] /\ slot'[u] = slot[u]
                                /\ next'[u] = next[u]
    /\ AtHome(t)' /\ HasSlot(t)' /\ KnowsNext(t)'
    /\ shutdown' = shutdown

LEMMA SlotsNumbered ==
    /\ Cardinality(Slots) \in Nat /\ 1 \in Slots
    /\ \A n \in Slots : n \in Nat /\ n # 0 /\ n <= Cardinality(Slots)
    /\ \A n \in Slots : n # Cardinality(Slots) => n + 1 \in Slots
  <1>1. Cardinality(Slots) \in Nat
    BY FS_CardinalityType, SlotsAssumption
  <1>2. Slots = 1 .. Cardinality(Slots) /\ Slots # {}
    BY SlotsAssumption
  <1>3. ASSUME NEW k \in Nat, Slots = 1 .. k, Slots # {}
        PROVE  /\ 1 \in Slots
               /\ \A n \in Slots : n \in Nat /\ n # 0 /\ n <= k
               /\ \A n \in Slots : n # k => n + 1 \in Slots
    BY ONLY <1>3
  <1>. QED
    BY <1>1, <1>2, <1>3

LEMMA Distinct ==
    /\ Heartbeat # Main
    /\ \A w \in Workers : w # Heartbeat /\ w # Main
  BY SlotsAssumption

(* What becomes of the sockets and of AcceptEx when a socket is closed.    *)
LEMMA DetachType ==
    ASSUME TypeOK, NEW s \in Slots, DetachSocket(s)
    PROVE  /\ socket' \in [Slots -> BOOLEAN]
           /\ io' \in [Slots -> [Phases -> Nat]]
  <1>1. socket' \in [Slots -> BOOLEAN]
    BY DEF TypeOK, DetachSocket
  <1>2. \A x \in Slots, p \in Phases : io[x][p] \in Nat
    BY DEF TypeOK
  <1>3. io[s].cancelled + io[s].pending \in Nat
    BY <1>2 DEF Phases
  <1>. QED
    BY <1>1, <1>3 DEF TypeOK, DetachSocket, CloseAborts

LEMMA DisconnectType ==
    ASSUME TypeOK, NEW s \in Slots, state' = OnDisconnect(s)
    PROVE  state' \in [Slots -> States]
  BY DEF TypeOK, OnDisconnect, States

(* A thread goes from one point to another and stays on its slot.          *)
LEMMA Moves ==
    ASSUME TypeInv, NEW t \in Threads, NEW l, Goto(t, l), slot' = slot,
           shutdown' = shutdown,
           pc[t] \in (WorkerPCs \ {"idle"}) \cup PostPCs \cup {"claim"},
           t = Heartbeat => l \in PostPCs,
           t \in Workers => l \in (WorkerPCs \ {"idle"}) \cup PostPCs,
           \/ next' = next
           \/ \E n \in {"idle", "done", "connect"} : next' = Put(next, t, n),
           KnowsNext(t)'
    PROVE  /\ Local(t)
           /\ pc' \in [Threads -> WorkerPCs \cup PostPCs \cup OtherPCs]
           /\ next' \in [Threads -> {"idle", "done", "connect"}]
  <1>1. t # Main /\ slot[t] \in Slots
    BY DEF TypeInv, Placed, AtHome, HasSlot, StopPCs, WorkerPCs, PostPCs
  <1>2. t \in Workers \/ t = Heartbeat
    BY <1>1
  <1>3. l \in (WorkerPCs \ {"idle"}) \cup PostPCs
    BY <1>2
  <1>4. /\ pc' \in [Threads -> WorkerPCs \cup PostPCs \cup OtherPCs]
        /\ pc'[t] = l
        /\ \A u \in Threads \ {t} : pc'[u] = pc[u]
    BY <1>3 DEF TypeInv, TypeOK
  <1>5. /\ next' \in [Threads -> {"idle", "done", "connect"}]
        /\ \A u \in Threads \ {t} : next'[u] = next[u]
    BY DEF TypeInv, TypeOK
  <1>6. AtHome(t)' /\ HasSlot(t)'
    BY <1>1, <1>3, <1>4, Distinct DEF AtHome, HasSlot
  <1>. QED
    BY <1>4, <1>5, <1>6 DEF Local

(* The steps of a worker before and after it posts.                        *)
LEMMA TypeWorker ==
    ASSUME TypeInv, NEW w \in Workers, WorkerSteps(w), ~PostSteps(w)
    PROVE  TypeOK' /\ Local(w)
  <1>. w \in Threads /\ w # Heartbeat /\ w # Main
    BY Distinct
  <1>. TypeOK /\ AtHome(w) /\ HasSlot(w) /\ KnowsNext(w)
    BY DEF TypeInv, Placed
  <1>1. CASE Dequeue(w)
    <2>1. PICK s \in Slots, phase \in {"accepted", "cancelled"} :
             /\ io[s][phase] > 0
             /\ io' = [io EXCEPT ![s][phase] = @ - 1]
             /\ slot' = [slot EXCEPT ![w] = s]
             /\ pc' = [pc EXCEPT ![w] = phase]
      BY <1>1 DEF Dequeue
    <2>2. io' \in [Slots -> [Phases -> Nat]]
      BY <2>1 DEF TypeOK, Phases
    <2>3. /\ pc' \in [Threads -> WorkerPCs \cup PostPCs \cup OtherPCs]
          /\ slot' \in [Threads -> Slots \cup {NoSlot}]
          /\ pc'[w] \in {"accepted", "cancelled"} /\ slot'[w] = s
          /\ \A u \in Threads \ {w} : pc'[u] = pc[u] /\ slot'[u] = slot[u]
      BY <2>1 DEF TypeOK, WorkerPCs
    <2>4. next' = next /\ shutdown' = shutdown /\ pc[w] = "idle"
      BY <1>1 DEF Dequeue
    <2>5. Local(w)
      BY <2>3, <2>4 DEF Local, AtHome, HasSlot, KnowsNext, WorkerPCs
    <2>. QED
      BY <1>1, <2>2, <2>3, <2>5 DEF Dequeue, TypeOK
  <1>2. CASE HandleAcceptIOCancelled(w) \/ HandleAccept(w)
    <2>1. PICK l \in {"cancelCount", "bail", "count", "full"} :
             /\ Goto(w, l)
             /\ IF l = "cancelCount" THEN next' = Put(next, w, "done")
                                     ELSE next' = next
      BY <1>2 DEF HandleAcceptIOCancelled, HandleAccept
    <2>2. /\ pc[w] \in {"accepted", "cancelled"} /\ slot' = slot
          /\ shutdown' = shutdown /\ next[w] # "done"
      BY <1>2 DEF HandleAcceptIOCancelled, HandleAccept, KnowsNext
    <2>3. KnowsNext(w)'
      BY <2>1, <2>2 DEF KnowsNext, TypeOK
    <2>4. /\ Local(w)
          /\ pc' \in [Threads -> WorkerPCs \cup PostPCs \cup OtherPCs]
          /\ next' \in [Threads -> {"idle", "done", "connect"}]
      BY <2>1, <2>2, <2>3, Moves DEF WorkerPCs
    <2>5. state' \in [Slots -> States] /\ posted' \in Int
      BY <1>2 DEF HandleAcceptIOCancelled, HandleAccept, TypeOK, States
    <2>. QED
      BY <1>2, <2>4, <2>5 DEF HandleAcceptIOCancelled, HandleAccept, TypeOK
  <1>3. CASE CheckAddress(w) \/ CheckFull(w) \/ Acquire(w)
    <2>1. PICK l \in {"refuse", "full", "acquire", "attach"},
               n \in {"idle", "connect"} :
             Goto(w, l) /\ next' = Put(next, w, n)
      BY <1>3 DEF CheckAddress, CheckFull, Acquire
    <2>2. /\ pc[w] \in {"count", "full", "acquire"} /\ slot' = slot
          /\ shutdown' = shutdown
      BY <1>3 DEF CheckAddress, CheckFull, Acquire
    <2>3. KnowsNext(w)'
      BY <2>1, <2>2 DEF KnowsNext, TypeOK
    <2>4. /\ Local(w)
          /\ pc' \in [Threads -> WorkerPCs \cup PostPCs \cup OtherPCs]
          /\ next' \in [Threads -> {"idle", "done", "connect"}]
      BY <2>1, <2>2, <2>3, Moves DEF WorkerPCs
    <2>5. /\ pool' \in [Sessions -> {"free", "leased", "attached", "open"}]
          /\ session' \in [Threads -> Sessions \cup {NoSession}]
      <3>1. CASE CheckAddress(w) \/ CheckFull(w)
        BY <3>1 DEF CheckAddress, CheckFull, TypeOK
      <3>2. CASE Acquire(w)
        <4>1. \/ pool' = pool /\ session' = session
              \/ \E c \in Sessions : /\ pool' = [pool EXCEPT ![c] = "leased"]
                                     /\ session' = [session EXCEPT ![w] = c]
          BY <3>2 DEF Acquire, Free
        <4>2. CASE pool' = pool /\ session' = session
          BY <4>2 DEF TypeOK
        <4>3. ASSUME NEW c \in Sessions, pool' = [pool EXCEPT ![c] = "leased"],
                     session' = [session EXCEPT ![w] = c]
              PROVE  /\ pool' \in [Sessions ->
                                    {"free", "leased", "attached", "open"}]
                     /\ session' \in [Threads -> Sessions \cup {NoSession}]
          BY <4>3 DEF TypeOK
        <4>. QED
          BY <4>1, <4>2, <4>3
      <3>. QED
        BY <1>3, <3>1, <3>2
    <2>. QED
      BY <1>3, <2>4, <2>5 DEF CheckAddress, CheckFull, Acquire, TypeOK
  <1>4. CASE Refuse(w) \/ Bail(w)
    <2>1. PICK s \in Slots : s = slot[w]
      BY <1>4 DEF HasSlot, Refuse, Bail, WorkerPCs
    <2>2. PICK l \in {"reset", "bailCount"} :
             /\ Goto(w, l)
             /\ IF l = "bailCount" THEN next' = Put(next, w, "done")
                                   ELSE next' = next
      BY <1>4 DEF Refuse, Bail
    <2>3. /\ pc[w] \in {"refuse", "bail"} /\ slot' = slot
          /\ shutdown' = shutdown /\ next[w] # "done"
          /\ DetachSocket(s) /\ state' = OnDisconnect(s)
      BY <1>4, <2>1 DEF Refuse, Bail, KnowsNext
    <2>4. KnowsNext(w)'
      BY <2>2, <2>3 DEF KnowsNext, TypeOK
    <2>5. /\ Local(w)
          /\ pc' \in [Threads -> WorkerPCs \cup PostPCs \cup OtherPCs]
          /\ next' \in [Threads -> {"idle", "done", "connect"}]
      BY <2>2, <2>3, <2>4, Moves DEF WorkerPCs
    <2>6. /\ socket' \in [Slots -> BOOLEAN] /\ state' \in [Slots -> States]
          /\ io' \in [Slots -> [Phases -> Nat]]
      BY <2>3, DetachType, DisconnectType
    <2>. QED
      BY <1>4, <2>5, <2>6 DEF Refuse, Bail, TypeOK
  <1>5. CASE Attach(w) \/ DecrementIO(w) \/ ResetSession(w)
    <2>1. PICK l \in {"post", "bailReset", "vacate", "finish"} : Goto(w, l)
      BY <1>5 DEF Attach, DecrementIO, ResetSession
    <2>2. /\ pc[w] \in {"attach", "bailCount", "cancelCount", "drop", "bailReset"}
          /\ slot' = slot /\ shutdown' = shutdown /\ next' = next
      BY <1>5 DEF Attach, DecrementIO, ResetSession
    <2>3. pc[w] \in {"attach", "drop"} => l \in {"post", "finish"}
      BY <1>5, <2>1 DEF Attach, DecrementIO, ResetSession, TypeOK
    <2>4. pc[w] \in {"bailCount", "cancelCount", "bailReset"}
             => l \in {"bailReset", "vacate"}
      BY <1>5, <2>1 DEF Attach, DecrementIO, ResetSession, TypeOK
    <2>5. KnowsNext(w)'
      BY <2>1, <2>2, <2>3, <2>4 DEF KnowsNext, TypeOK
    <2>6. /\ Local(w)
          /\ pc' \in [Threads -> WorkerPCs \cup PostPCs \cup OtherPCs]
      BY <2>1, <2>2, <2>5, Moves DEF WorkerPCs, PostPCs
    <2>7. /\ ioCount' \in [Slots -> Int] /\ state' \in [Slots -> States]
          /\ socket' \in [Slots -> BOOLEAN]
          /\ pool' \in [Sessions -> {"free", "leased", "attached", "open"}]
      <3>1. CASE Attach(w)
        BY <3>1 DEF Attach, TypeOK
      <3>2. CASE DecrementIO(w)
        <4>1. ioCount[slot[w]] - 1 \in Int
          BY <2>2 DEF TypeOK, HasSlot, WorkerPCs, PostPCs
        <4>. QED
          BY <3>2, <4>1 DEF DecrementIO, TypeOK
      <3>3. CASE ResetSession(w)
        BY <3>3 DEF ResetSession, TypeOK, States
      <3>. QED
        BY <1>5, <3>1, <3>2, <3>3
    <2>. QED
      BY <1>5, <2>2, <2>6, <2>7 DEF Attach, DecrementIO, ResetSession, TypeOK
  <1>6. CASE Finish(w)
    <2>1. /\ pc' = [pc EXCEPT ![w] = "idle"]
          /\ slot' = [slot EXCEPT ![w] = NoSlot]
          /\ session' = [session EXCEPT ![w] = NoSession]
          /\ next' = [next EXCEPT ![w] = "idle"]
          /\ \/ pool' = pool
             \/ \E p \in {"open", "free"} :
                   pool' = [pool EXCEPT ![session[w]] = p]
      BY <1>6 DEF Finish
    <2>2. shutdown' = shutdown
      BY <1>6 DEF Finish
    <2>3. /\ pc' \in [Threads -> WorkerPCs \cup PostPCs \cup OtherPCs]
          /\ slot' \in [Threads -> Slots \cup {NoSlot}]
          /\ session' \in [Threads -> Sessions \cup {NoSession}]
          /\ next' \in [Threads -> {"idle", "done", "connect"}]
      BY <2>1 DEF TypeOK, WorkerPCs
    <2>4. pool' \in [Sessions -> {"free", "leased", "attached", "open"}]
      BY <2>1 DEF TypeOK
    <2>5. /\ pc'[w] = "idle" /\ next'[w] = "idle"
          /\ \A u \in Threads \ {w} : /\ pc'[u] = pc[u] /\ slot'[u] = slot[u]
                                      /\ next'[u] = next[u]
      BY <2>1 DEF TypeOK
    <2>6. Local(w)
      BY <2>2, <2>5 DEF Local, AtHome, HasSlot, KnowsNext, WorkerPCs, PostPCs
    <2>. QED
      BY <1>6, <2>3, <2>4, <2>6 DEF Finish, TypeOK
  <1>. QED
    BY <1>1, <1>2, <1>3, <1>4, <1>5, <1>6 DEF WorkerSteps

(* The steps of PostAccept, for a worker and for the heartbeat thread.     *)
LEMMA NextClaimType ==
    ASSUME TypeInv, NextClaim, pc[Heartbeat] \in {"claim", "counted"},
           next' = next, shutdown' = shutdown
    PROVE  /\ Local(Heartbeat)
           /\ pc' \in [Threads -> WorkerPCs \cup PostPCs \cup OtherPCs]
           /\ slot' \in [Threads -> Slots \cup {NoSlot}]
           /\ pc'[Heartbeat] \in {"idle", "claim"}
  <1>. Heartbeat \in Threads /\ Heartbeat # Main /\ Heartbeat \notin Workers
    BY Distinct
  <1>0. TypeOK /\ HasSlot(Heartbeat) /\ KnowsNext(Heartbeat)
    BY DEF TypeInv, Placed
  <1>1. PICK l \in {"idle", "claim"}, n \in Slots \cup {NoSlot} :
           /\ pc' = [pc EXCEPT ![Heartbeat] = l]
           /\ slot' = [slot EXCEPT ![Heartbeat] = n]
           /\ l = "claim" => n \in Slots
    <2>1. slot[Heartbeat] \in Slots
      BY <1>0 DEF HasSlot, PostPCs
    <2>. QED
      BY <2>1, SlotsNumbered DEF NextClaim, EndOfRefill
  <1>2. /\ pc' \in [Threads -> WorkerPCs \cup PostPCs \cup OtherPCs]
        /\ slot' \in [Threads -> Slots \cup {NoSlot}]
        /\ pc'[Heartbeat] = l /\ slot'[Heartbeat] = n
        /\ \A u \in Threads \ {Heartbeat} : pc'[u] = pc[u] /\ slot'[u] = slot[u]
    BY <1>0, <1>1 DEF TypeOK, WorkerPCs, OtherPCs
  <1>3. /\ AtHome(Heartbeat)' /\ HasSlot(Heartbeat)' /\ KnowsNext(Heartbeat)'
    BY <1>0, <1>1, <1>2 DEF AtHome, HasSlot, KnowsNext, WorkerPCs, PostPCs
  <1>. QED
    BY <1>2, <1>3 DEF Local

LEMMA TypePost ==
    ASSUME TypeInv, NEW t \in Workers \cup {Heartbeat}, PostSteps(t)
    PROVE  TypeOK' /\ Local(t)
  <1>. t \in Threads /\ t # Main
    BY Distinct
  <1>. TypeOK /\ AtHome(t) /\ HasSlot(t) /\ KnowsNext(t)
    BY DEF TypeInv, Placed
  <1>1. CASE ResetForRepost(t) \/ SetStateWait(t)
    <2>1. PICK l \in {"post", "vacate", "issue"} : Goto(t, l)
      BY <1>1 DEF ResetForRepost, SetStateWait
    <2>2. /\ pc[t] \in {"reset", "withdraw", "wait"} /\ slot' = slot
          /\ shutdown' = shutdown /\ next' = next
      BY <1>1 DEF ResetForRepost, SetStateWait
    <2>3. KnowsNext(t)'
      BY <2>1, <2>2 DEF KnowsNext, TypeOK
    <2>4. /\ Local(t)
          /\ pc' \in [Threads -> WorkerPCs \cup PostPCs \cup OtherPCs]
      BY <2>1, <2>2, <2>3, Moves DEF WorkerPCs, PostPCs
    <2>5. state' \in [Slots -> States]
      BY <1>1 DEF ResetForRepost, SetStateWait, TypeOK, States
    <2>. QED
      BY <1>1, <2>2, <2>4, <2>5 DEF ResetForRepost, SetStateWait, TypeOK
  <1>2. CASE PostAccept(t) \/ RecheckShutdown(t)
    <2>1. PICK l \in {"decline", "create", "lower", "wait"} : Goto(t, l)
      BY <1>2 DEF PostAccept, RecheckShutdown
    <2>2. /\ pc[t] \in {"post", "recheck"} /\ slot' = slot
          /\ shutdown' = shutdown /\ next' = next
      BY <1>2 DEF PostAccept, RecheckShutdown
    <2>3. KnowsNext(t)'
      BY <2>1, <2>2 DEF KnowsNext, TypeOK
    <2>4. /\ Local(t)
          /\ pc' \in [Threads -> WorkerPCs \cup PostPCs \cup OtherPCs]
      BY <2>1, <2>2, <2>3, Moves DEF WorkerPCs, PostPCs
    <2>. QED
      BY <1>2, <2>2, <2>4 DEF PostAccept, RecheckShutdown, TypeOK
  <1>3. CASE Decline(t) \/ Abort(t)
    <2>1. PICK s \in Slots : s = slot[t]
      BY <1>3 DEF HasSlot, Decline, Abort, PostPCs
    <2>2. /\ pc[t] \in {"decline", "abort"} /\ slot' = slot /\ next' = next
          /\ shutdown' = shutdown /\ Goto(t, "withdraw") /\ DetachSocket(s)
      BY <1>3, <2>1 DEF Decline, Abort
    <2>3. KnowsNext(t)'
      BY <2>2 DEF KnowsNext, TypeOK
    <2>4. /\ Local(t)
          /\ pc' \in [Threads -> WorkerPCs \cup PostPCs \cup OtherPCs]
      BY <2>2, <2>3, Moves DEF WorkerPCs, PostPCs
    <2>5. state' \in [Slots -> States]
      <3>1. CASE Decline(t)
        BY <3>1, <2>1, DisconnectType DEF Decline
      <3>2. CASE Abort(t)
        BY <3>2, <2>1 DEF Abort, TypeOK, States
      <3>. QED
        BY <1>3, <3>1, <3>2
    <2>6. /\ socket' \in [Slots -> BOOLEAN]
          /\ io' \in [Slots -> [Phases -> Nat]]
      BY <2>2, DetachType
    <2>. QED
      BY <1>3, <2>2, <2>4, <2>5, <2>6 DEF Decline, Abort, TypeOK
  <1>4. CASE CreateSocket(t)
    <2>1. PICK l \in {"raise", "vacate"} : Goto(t, l)
      BY <1>4 DEF CreateSocket
    <2>2. /\ pc[t] = "create" /\ slot' = slot
          /\ shutdown' = shutdown /\ next' = next
      BY <1>4 DEF CreateSocket
    <2>3. KnowsNext(t)'
      BY <2>1, <2>2 DEF KnowsNext, TypeOK
    <2>4. /\ Local(t)
          /\ pc' \in [Threads -> WorkerPCs \cup PostPCs \cup OtherPCs]
      BY <2>1, <2>2, <2>3, Moves DEF WorkerPCs, PostPCs
    <2>5. socket' \in [Slots -> BOOLEAN]
      BY <1>4 DEF CreateSocket, TypeOK
    <2>6. failures' \in 0 .. MaxFailures
      BY <1>4, SlotsAssumption DEF CreateSocket, TypeOK, Fails, CanFail
    <2>. QED
      BY <1>4, <2>2, <2>4, <2>5, <2>6 DEF CreateSocket, TypeOK
  <1>5. CASE IncrementIO(t) \/ Lower(t)
    <2>1. PICK s \in Slots : s = slot[t]
      BY <1>5 DEF HasSlot, IncrementIO, Lower, PostPCs
    <2>2. PICK l \in {"recheck", "abort"} : Goto(t, l)
      BY <1>5 DEF IncrementIO, Lower
    <2>3. /\ pc[t] \in {"raise", "lower"} /\ slot' = slot
          /\ shutdown' = shutdown /\ next' = next
      BY <1>5 DEF IncrementIO, Lower
    <2>4. KnowsNext(t)'
      BY <2>2, <2>3 DEF KnowsNext, TypeOK
    <2>5. /\ Local(t)
          /\ pc' \in [Threads -> WorkerPCs \cup PostPCs \cup OtherPCs]
      BY <2>2, <2>3, <2>4, Moves DEF WorkerPCs, PostPCs
    <2>6. PICK n \in Int : ioCount' = [ioCount EXCEPT ![s] = n]
      BY <1>5, <2>1 DEF IncrementIO, Lower, TypeOK
    <2>7. ioCount' \in [Slots -> Int]
      BY <2>6 DEF TypeOK
    <2>. QED
      BY <1>5, <2>3, <2>5, <2>7 DEF IncrementIO, Lower, TypeOK
  <1>6. CASE AcceptEx(t)
    <2>1. PICK s \in Slots : s = slot[t]
      BY <1>6 DEF HasSlot, AcceptEx, PostPCs
    <2>2. PICK l \in {"counted", "lower"} : Goto(t, l)
      BY <1>6 DEF AcceptEx
    <2>3. /\ pc[t] = "issue" /\ slot' = slot
          /\ shutdown' = shutdown /\ next' = next
      BY <1>6 DEF AcceptEx
    <2>4. KnowsNext(t)'
      BY <2>2, <2>3 DEF KnowsNext, TypeOK
    <2>5. /\ Local(t)
          /\ pc' \in [Threads -> WorkerPCs \cup PostPCs \cup OtherPCs]
      BY <2>2, <2>3, <2>4, Moves DEF WorkerPCs, PostPCs
    <2>6. io' = io \/ io' = [io EXCEPT ![s].pending = @ + 1]
      BY <1>6, <2>1 DEF AcceptEx
    <2>7. io' \in [Slots -> [Phases -> Nat]]
      BY <2>6 DEF TypeOK, Phases
    <2>8. failures' \in 0 .. MaxFailures
      BY <1>6, SlotsAssumption DEF AcceptEx, TypeOK, Fails, CanFail
    <2>. QED
      BY <1>6, <2>3, <2>5, <2>7, <2>8 DEF AcceptEx, TypeOK
  <1>7. CASE CountPosted(t)
    <2>1. posted' \in Int /\ pc[t] = "counted" /\ next' = next
          /\ shutdown' = shutdown
      BY <1>7 DEF CountPosted, TypeOK
    <2>2. /\ Local(t)
          /\ pc' \in [Threads -> WorkerPCs \cup PostPCs \cup OtherPCs]
          /\ slot' \in [Threads -> Slots \cup {NoSlot}]
      <3>1. CASE t = Heartbeat
        BY <3>1, <1>7, <2>1, NextClaimType DEF CountPosted
      <3>2. CASE t # Heartbeat
        <4>1. Goto(t, "drop") /\ slot' = slot
          BY <3>2, <1>7 DEF CountPosted
        <4>2. KnowsNext(t)'
          BY <4>1, <2>1 DEF KnowsNext, TypeOK
        <4>3. /\ Local(t)
              /\ pc' \in [Threads -> WorkerPCs \cup PostPCs \cup OtherPCs]
          BY <3>2, <4>1, <4>2, <2>1, Moves DEF WorkerPCs, PostPCs
        <4>. QED
          BY <4>1, <4>3 DEF TypeOK
      <3>. QED
        BY <3>1, <3>2
    <2>. QED
      BY <1>7, <2>1, <2>2 DEF CountPosted, TypeOK
  <1>8. CASE ReleaseSlot(t)
    <2>1. PICK s \in Slots : s = slot[t]
      BY <1>8 DEF HasSlot, ReleaseSlot, PostPCs
    <2>2. PICK l \in {"idle", "finish", "drop"}, n \in Slots \cup {NoSlot} :
             /\ pc' = [pc EXCEPT ![t] = l]
             /\ slot' = [slot EXCEPT ![t] = n]
             /\ l # "idle" => n = s /\ t \in Workers
      <3>1. CASE t = Heartbeat /\ EndOfRefill
        BY <3>1 DEF EndOfRefill
      <3>2. CASE ~(t = Heartbeat /\ EndOfRefill)
        <4>1. t \in Workers /\ slot' = slot
              /\ \E l \in {"finish", "drop"} : pc' = [pc EXCEPT ![t] = l]
          BY <3>2, <1>8 DEF ReleaseSlot
        <4>2. slot' = [slot EXCEPT ![t] = s]
          BY <4>1, <2>1 DEF TypeOK
        <4>. QED
          BY <4>1, <4>2
      <3>. QED
        BY <3>1, <3>2
    <2>3. next' = [next EXCEPT ![t] = "idle"] /\ shutdown' = shutdown
      BY <1>8 DEF ReleaseSlot
    <2>4. /\ pc' \in [Threads -> WorkerPCs \cup PostPCs \cup OtherPCs]
          /\ slot' \in [Threads -> Slots \cup {NoSlot}]
          /\ next' \in [Threads -> {"idle", "done", "connect"}]
          /\ pc'[t] = l /\ slot'[t] = n /\ next'[t] = "idle"
          /\ \A u \in Threads \ {t} : /\ pc'[u] = pc[u] /\ slot'[u] = slot[u]
                                      /\ next'[u] = next[u]
      BY <2>2, <2>3 DEF TypeOK, WorkerPCs
    <2>5. AtHome(t)' /\ HasSlot(t)' /\ KnowsNext(t)'
      BY <2>2, <2>4, Distinct DEF AtHome, HasSlot, KnowsNext, WorkerPCs, PostPCs
    <2>6. Local(t)
      BY <2>3, <2>4, <2>5 DEF Local
    <2>7. owned' \in [Slots -> BOOLEAN] /\ strays' \subseteq Slots
      BY <1>8, <2>1 DEF ReleaseSlot, TypeOK
    <2>. QED
      BY <1>8, <2>4, <2>6, <2>7 DEF ReleaseSlot, TypeOK
  <1>. QED
    BY <1>1, <1>2, <1>3, <1>4, <1>5, <1>6, <1>7, <1>8 DEF PostSteps

(* The heartbeat thread looks for slots to fill.                           *)
LEMMA TypeRefill ==
    ASSUME TypeInv, RefillAcceptSlots \/ TryAcquireSlot
    PROVE  TypeOK' /\ Local(Heartbeat)
  <1>. Heartbeat \in Threads /\ Heartbeat # Main /\ Heartbeat \notin Workers
    BY Distinct
  <1>. TypeOK /\ AtHome(Heartbeat) /\ HasSlot(Heartbeat) /\ KnowsNext(Heartbeat)
    BY DEF TypeInv, Placed
  <1>1. CASE RefillAcceptSlots
    <2>1. /\ pc' = [pc EXCEPT ![Heartbeat] = "claim"]
          /\ slot' = [slot EXCEPT ![Heartbeat] = 1] /\ 1 \in Slots
          /\ next' = next /\ shutdown' = shutdown /\ pc[Heartbeat] = "idle"
      BY <1>1, SlotsNumbered DEF RefillAcceptSlots
    <2>2. /\ pc' \in [Threads -> WorkerPCs \cup PostPCs \cup OtherPCs]
          /\ slot' \in [Threads -> Slots \cup {NoSlot}]
          /\ pc'[Heartbeat] = "claim" /\ slot'[Heartbeat] = 1
          /\ \A u \in Threads \ {Heartbeat} :
                pc'[u] = pc[u] /\ slot'[u] = slot[u]
      BY <2>1 DEF TypeOK, OtherPCs
    <2>3. Local(Heartbeat)
      BY <2>1, <2>2 DEF Local, AtHome, HasSlot, KnowsNext
    <2>. QED
      BY <1>1, <2>2, <2>3 DEF RefillAcceptSlots, TypeOK
  <1>2. CASE TryAcquireSlot
    <2>1. /\ next' = next /\ shutdown' = shutdown /\ pc[Heartbeat] = "claim"
          /\ \/ NextClaim /\ owned' = owned
             \/ /\ owned' = [owned EXCEPT ![slot[Heartbeat]] = TRUE]
                /\ Goto(Heartbeat, "post") /\ slot' = slot
      BY <1>2 DEF TryAcquireSlot
    <2>2. /\ Local(Heartbeat)
          /\ pc' \in [Threads -> WorkerPCs \cup PostPCs \cup OtherPCs]
          /\ slot' \in [Threads -> Slots \cup {NoSlot}]
      <3>1. CASE NextClaim
        BY <3>1, <2>1, NextClaimType
      <3>2. CASE ~NextClaim
        <4>1. Goto(Heartbeat, "post") /\ slot' = slot
          BY <3>2, <2>1
        <4>2. KnowsNext(Heartbeat)'
          BY <4>1, <2>1 DEF KnowsNext, TypeOK
        <4>3. /\ Local(Heartbeat)
              /\ pc' \in [Threads -> WorkerPCs \cup PostPCs \cup OtherPCs]
          BY <4>1, <4>2, <2>1, Moves DEF PostPCs
        <4>. QED
          BY <4>1, <4>3 DEF TypeOK
      <3>. QED
        BY <3>1, <3>2
    <2>3. owned' \in [Slots -> BOOLEAN]
      BY <2>1 DEF TypeOK
    <2>. QED
      BY <1>2, <2>2, <2>3 DEF TryAcquireSlot, TypeOK
  <1>. QED
    BY <1>1, <1>2

(* A step of one thread other than the one that stops the server.          *)
LEMMA LocalPlaced ==
    ASSUME TypeInv, NEW t \in Workers \cup {Heartbeat}, Local(t),
           pc[Heartbeat] = "ended" => pc'[Heartbeat] = "ended"
    PROVE  Placed'
  <1>. t \in Threads /\ t # Main /\ Main \in Threads
    BY Distinct
  <1>1. ASSUME NEW u \in Threads
        PROVE  AtHome(u)' /\ HasSlot(u)' /\ KnowsNext(u)'
    <2>1. CASE u = t
      BY <2>1 DEF Local
    <2>2. CASE u # t
      <3>1. pc'[u] = pc[u] /\ slot'[u] = slot[u] /\ next'[u] = next[u]
        BY <2>2 DEF Local
      <3>2. AtHome(u) /\ HasSlot(u) /\ KnowsNext(u)
        BY DEF TypeInv, Placed
      <3>. QED
        BY <3>1, <3>2 DEF AtHome, HasSlot, KnowsNext
    <2>. QED
      BY <2>1, <2>2
  <1>2. StopInOrder'
    BY DEF Local, StopInOrder, TypeInv, Placed
  <1>. QED
    BY <1>1, <1>2 DEF Placed

(* A thread that has ended stays so, and posts nothing.                    *)
LEMMA EndedStays ==
    ASSUME TypeInv, pc[Heartbeat] = "ended"
    PROVE  ~PostSteps(Heartbeat) /\ ~RefillAcceptSlots /\ ~TryAcquireSlot
  BY DEF PostSteps, RefillAcceptSlots, TryAcquireSlot, ResetForRepost,
     PostAccept, Decline, CreateSocket, IncrementIO, RecheckShutdown,
     SetStateWait, AcceptEx, Lower, Abort, CountPosted, ReleaseSlot

(* A step of a worker or of the heartbeat thread.                          *)
ThreadStep(t) == \/ t \in Workers /\ WorkerSteps(t)
                 \/ t = Heartbeat /\ HeartbeatSteps

LEMMA TypeThread ==
    ASSUME TypeInv, NEW t \in Workers \cup {Heartbeat}, ThreadStep(t)
    PROVE  TypeInv' /\ Local(t)
  <1>. t \in Threads /\ Heartbeat \in Threads
    OBVIOUS
  <1>1. TypeOK' /\ Local(t)
    <2>1. CASE PostSteps(t)
      BY <2>1, TypePost
    <2>2. CASE t \in Workers /\ WorkerSteps(t) /\ ~PostSteps(t)
      BY <2>2, TypeWorker
    <2>3. CASE t = Heartbeat /\ (RefillAcceptSlots \/ TryAcquireSlot)
      BY <2>3, TypeRefill
    <2>. QED
      BY <2>1, <2>2, <2>3 DEF ThreadStep, HeartbeatSteps
  <1>2. pc[Heartbeat] = "ended" => t # Heartbeat
    BY EndedStays, Distinct DEF ThreadStep, HeartbeatSteps
  <1>3. pc[Heartbeat] = "ended" => pc'[Heartbeat] = "ended"
    BY <1>1, <1>2 DEF Local
  <1>. QED
    BY <1>1, <1>3, LocalPlaced DEF TypeInv

(* The steps of StopServer move Main, and end the others.                  *)
LEMMA TypeStop ==
    ASSUME TypeInv, StopServer \/ StopSteps
    PROVE  TypeInv'
  <1>. Main \in Threads /\ Heartbeat \in Threads /\ Heartbeat # Main
       /\ Main \notin Workers
    BY Distinct
  <1>. TypeOK /\ Placed
    BY DEF TypeInv
  <1>0. AtHome(Main) /\ HasSlot(Main) /\ KnowsNext(Main)
    BY DEF Placed
  <1>1. ASSUME NEW l \in {"cancel", "await", "listen"}, NEW n \in Slots,
               pc' = [pc EXCEPT ![Main] = l],
               slot' = [slot EXCEPT ![Main] = n], next' = next,
               shutdown' = shutdown, pc[Main] \in {"cancel", "await"}
        PROVE  /\ Placed'
               /\ pc' \in [Threads -> WorkerPCs \cup PostPCs \cup OtherPCs]
               /\ slot' \in [Threads -> Slots \cup {NoSlot}]
    <2>1. /\ pc' \in [Threads -> WorkerPCs \cup PostPCs \cup OtherPCs]
          /\ slot' \in [Threads -> Slots \cup {NoSlot}]
          /\ pc'[Main] = l /\ slot'[Main] = n
          /\ \A u \in Threads \ {Main} : pc'[u] = pc[u] /\ slot'[u] = slot[u]
      BY <1>1 DEF TypeOK, OtherPCs
    <2>2. AtHome(Main)' /\ HasSlot(Main)' /\ KnowsNext(Main)'
      BY <1>0, <1>1, <2>1 DEF AtHome, HasSlot, KnowsNext, StopPCs
    <2>3. ASSUME NEW u \in Threads \ {Main}
          PROVE  AtHome(u)' /\ HasSlot(u)' /\ KnowsNext(u)'
      BY <2>1, <1>1 DEF Placed, AtHome, HasSlot, KnowsNext
    <2>4. StopInOrder'
      BY <2>1, <1>1 DEF Placed, StopInOrder, StopPCs
    <2>. QED
      BY <2>1, <2>2, <2>3, <2>4 DEF Placed
  <1>2. CASE StopServer
    <2>1. /\ pc' \in [Threads -> WorkerPCs \cup PostPCs \cup OtherPCs]
          /\ pc'[Main] = "join" /\ pc[Main] = "running"
          /\ \A u \in Threads \ {Main} : pc'[u] = pc[u]
      BY <1>2 DEF StopServer, TypeOK, OtherPCs
    <2>2. slot' = slot /\ next' = next /\ shutdown' = TRUE
      BY <1>2 DEF StopServer
    <2>3. AtHome(Main)' /\ HasSlot(Main)' /\ KnowsNext(Main)'
      BY <1>0, <2>1, <2>2 DEF AtHome, HasSlot, KnowsNext, StopPCs, WorkerPCs,
         PostPCs
    <2>4. ASSUME NEW u \in Threads \ {Main}
          PROVE  AtHome(u)' /\ HasSlot(u)' /\ KnowsNext(u)'
      BY <2>1, <2>2 DEF Placed, AtHome, HasSlot, KnowsNext
    <2>5. StopInOrder'
      BY <2>1, <2>2 DEF StopInOrder
    <2>6. Placed'
      BY <2>3, <2>4, <2>5 DEF Placed
    <2>. QED
      BY <1>2, <2>1, <2>6 DEF StopServer, TypeOK, TypeInv
  <1>3. CASE JoinHeartbeat
    <2>1. /\ pc' = [pc EXCEPT ![Main] = "cancel", ![Heartbeat] = "ended"]
          /\ slot' = [slot EXCEPT ![Main] = 1] /\ 1 \in Slots
          /\ next' = next /\ shutdown' = shutdown
          /\ pc[Main] = "join" /\ pc[Heartbeat] = "idle"
      BY <1>3, SlotsNumbered DEF JoinHeartbeat
    <2>2. /\ pc' \in [Threads -> WorkerPCs \cup PostPCs \cup OtherPCs]
          /\ slot' \in [Threads -> Slots \cup {NoSlot}]
          /\ pc'[Main] = "cancel" /\ slot'[Main] = 1
          /\ pc'[Heartbeat] = "ended"
          /\ \A u \in Threads \ {Main} : slot'[u] = slot[u]
          /\ \A u \in Threads \ {Main, Heartbeat} : pc'[u] = pc[u]
      BY <2>1 DEF TypeOK, OtherPCs
    <2>3. AtHome(Main)' /\ HasSlot(Main)' /\ KnowsNext(Main)'
      BY <1>0, <2>1, <2>2 DEF AtHome, HasSlot, KnowsNext, StopPCs
    <2>4. ASSUME NEW u \in Threads \ {Main}
          PROVE  AtHome(u)' /\ HasSlot(u)' /\ KnowsNext(u)'
      <3>1. AtHome(u) /\ HasSlot(u) /\ KnowsNext(u)
        BY DEF Placed
      <3>2. CASE u = Heartbeat
        BY <3>1, <3>2, <2>1, <2>2, Distinct
           DEF AtHome, HasSlot, KnowsNext, WorkerPCs, PostPCs
      <3>3. CASE u # Heartbeat
        BY <3>1, <3>3, <2>1, <2>2 DEF AtHome, HasSlot, KnowsNext
      <3>. QED
        BY <3>2, <3>3
    <2>5. StopInOrder'
      BY <2>1, <2>2 DEF StopInOrder, Placed
    <2>6. Placed'
      BY <2>3, <2>4, <2>5 DEF Placed
    <2>. QED
      BY <1>3, <2>2, <2>6 DEF JoinHeartbeat, TypeOK, TypeInv
  <1>4. CASE RequestAcceptIOCancel \/ AwaitAcceptIOCancel
    <2>1. PICK s \in Slots : s = slot[Main]
      BY <1>0, <1>4 DEF HasSlot, RequestAcceptIOCancel, AwaitAcceptIOCancel
    <2>2. PICK l \in {"cancel", "await", "listen"}, n \in Slots :
             /\ pc' = [pc EXCEPT ![Main] = l]
             /\ slot' = [slot EXCEPT ![Main] = n]
      BY <1>4, <2>1, SlotsNumbered
         DEF RequestAcceptIOCancel, AwaitAcceptIOCancel, NextOfMain
    <2>3. next' = next /\ shutdown' = shutdown /\ pc[Main] \in {"cancel", "await"}
      BY <1>4 DEF RequestAcceptIOCancel, AwaitAcceptIOCancel
    <2>4. /\ Placed'
          /\ pc' \in [Threads -> WorkerPCs \cup PostPCs \cup OtherPCs]
          /\ slot' \in [Threads -> Slots \cup {NoSlot}]
      BY <1>1, <2>2, <2>3
    <2>5. CASE RequestAcceptIOCancel
      <3>1. \/ DetachSocket(s)
            \/ socket' = socket /\ io' = io
        BY <2>1, <2>5 DEF RequestAcceptIOCancel
      <3>2. /\ socket' \in [Slots -> BOOLEAN]
            /\ io' \in [Slots -> [Phases -> Nat]]
        BY <3>1, DetachType DEF TypeOK
      <3>. QED
        BY <2>4, <2>5, <3>2 DEF RequestAcceptIOCancel, TypeOK, TypeInv
    <2>6. CASE AwaitAcceptIOCancel
      BY <2>4, <2>6 DEF AwaitAcceptIOCancel, TypeOK, TypeInv, States
    <2>. QED
      BY <1>4, <2>5, <2>6
  <1>5. CASE CloseListenSocket
    <2>1. /\ pc' \in [Threads -> WorkerPCs \cup PostPCs \cup OtherPCs]
          /\ pc'[Main] = "stop" /\ pc[Main] = "listen"
          /\ \A u \in Threads \ {Main} : pc'[u] = pc[u]
      BY <1>5 DEF CloseListenSocket, TypeOK, OtherPCs
    <2>2. slot' = slot /\ next' = next /\ shutdown' = shutdown
      BY <1>5 DEF CloseListenSocket
    <2>3. AtHome(Main)' /\ HasSlot(Main)' /\ KnowsNext(Main)'
      BY <1>0, <2>1, <2>2 DEF AtHome, HasSlot, KnowsNext, StopPCs, WorkerPCs,
         PostPCs
    <2>4. ASSUME NEW u \in Threads \ {Main}
          PROVE  AtHome(u)' /\ HasSlot(u)' /\ KnowsNext(u)'
      BY <2>1, <2>2 DEF Placed, AtHome, HasSlot, KnowsNext
    <2>5. StopInOrder'
      BY <2>1, <2>2 DEF StopInOrder, Placed, StopPCs
    <2>6. Placed'
      BY <2>3, <2>4, <2>5 DEF Placed
    <2>7. io' \in [Slots -> [Phases -> Nat]]
      <3>1. \A s \in Slots : /\ io[s] \in [Phases -> Nat]
                             /\ io[s].cancelled + io[s].pending \in Nat
        BY DEF TypeOK, Phases
      <3>. QED
        BY <1>5, <3>1 DEF CloseListenSocket
    <2>. QED
      BY <1>5, <2>1, <2>6, <2>7 DEF CloseListenSocket, TypeOK, TypeInv
  <1>6. CASE JoinWorkers
    <2>1. /\ pc' = [t \in Threads |-> "ended"]
          /\ slot' = slot /\ next' = next /\ shutdown' = shutdown
          /\ pc[Main] = "stop" /\ \A w \in Workers : pc[w] = "idle"
      BY <1>6 DEF JoinWorkers
    <2>2. pc' \in [Threads -> WorkerPCs \cup PostPCs \cup OtherPCs]
      BY <2>1 DEF OtherPCs
    <2>3. pc[Heartbeat] = "ended"
      BY <2>1 DEF Placed, StopInOrder, StopPCs
    <2>4. ASSUME NEW u \in Threads
          PROVE  AtHome(u)' /\ HasSlot(u)' /\ KnowsNext(u)'
      <3>1. pc'[u] = "ended" /\ KnowsNext(u)
        BY <2>1 DEF Placed
      <3>2. pc[u] \in {"idle", "ended", "stop"}
        BY <2>1, <2>3
      <3>. QED
        BY <3>1, <3>2, <2>1 DEF AtHome, HasSlot, KnowsNext, StopPCs, WorkerPCs,
           PostPCs
    <2>5. StopInOrder'
      BY <2>1 DEF StopInOrder, Placed
    <2>6. Placed'
      BY <2>4, <2>5 DEF Placed
    <2>. QED
      BY <1>6, <2>2, <2>6 DEF JoinWorkers, TypeOK, TypeInv
  <1>. QED
    BY <1>2, <1>3, <1>4, <1>5, <1>6 DEF StopSteps

(* The kernel, the peers, and the ends of connections.                     *)
LEMMA TypeEnvironment ==
    ASSUME TypeInv, Environment
    PROVE  TypeInv'
  <1>. TypeOK /\ Placed
    BY DEF TypeInv
  <1>1. pc' = pc /\ slot' = slot /\ next' = next /\ shutdown' = shutdown
    BY DEF Environment, PeerConnects, AcceptFails, SessionEnds
  <1>2. Placed'
    BY <1>1 DEF Placed, AtHome, HasSlot, KnowsNext, StopInOrder
  <1>3. ASSUME NEW s \in Slots, PeerConnects(s) \/ AcceptFails(s)
        PROVE  TypeOK'
    <2>1. PICK p \in {"accepted", "cancelled"} :
             io' = [io EXCEPT ![s]["pending"] = @ - 1, ![s][p] = @ + 1]
      BY <1>3 DEF PeerConnects, AcceptFails, Moved
    <2>2. /\ io[s] \in [Phases -> Nat] /\ io[s].pending > 0
          /\ io[s].pending \in Nat
      BY <1>3 DEF PeerConnects, AcceptFails, TypeOK, Phases
    <2>3. io' \in [Slots -> [Phases -> Nat]]
      BY <2>1, <2>2 DEF TypeOK, Phases
    <2>4. failures' \in 0 .. MaxFailures
      BY <1>3, SlotsAssumption
         DEF PeerConnects, AcceptFails, Fails, CanFail, TypeOK
    <2>. QED
      BY <1>3, <2>3, <2>4 DEF PeerConnects, AcceptFails, TypeOK
  <1>4. ASSUME NEW c \in Sessions, SessionEnds(c)
        PROVE  TypeOK'
    BY <1>4 DEF SessionEnds, TypeOK
  <1>. QED
    BY <1>2, <1>3, <1>4 DEF Environment, TypeInv

LEMMA TypeInit == Init => TypeInv
  <1>. SUFFICES ASSUME Init PROVE TypeInv
    OBVIOUS
  <1>1. TypeOK
    <2>1. /\ posted \in Int /\ failures \in 0 .. MaxFailures
          /\ shutdown \in BOOLEAN /\ strays \subseteq Slots
      <3>1. MaxFailures \in Nat
        BY SlotsAssumption
      <3>2. posted = Cardinality(Slots) /\ failures = 0 /\ strays = {}
            /\ shutdown = FALSE
        BY DEF Init
      <3>3. Cardinality(Slots) \in Nat
        BY SlotsNumbered
      <3>4. failures \in 0 .. MaxFailures
        BY <3>1, <3>2
      <3>5. posted \in Int
        BY <3>2, <3>3
      <3>. QED
        BY <3>2, <3>4, <3>5
    <2>2. io \in [Slots -> [Phases -> Nat]]
      BY DEF Init
    <2>3. /\ owned \in [Slots -> BOOLEAN] /\ socket \in [Slots -> BOOLEAN]
          /\ state \in [Slots -> States] /\ ioCount \in [Slots -> Int]
          /\ pool \in [Sessions -> {"free", "leased", "attached", "open"}]
      BY DEF Init, States
    <2>4. /\ pc \in [Threads -> WorkerPCs \cup PostPCs \cup OtherPCs]
          /\ slot \in [Threads -> Slots \cup {NoSlot}]
          /\ session \in [Threads -> Sessions \cup {NoSession}]
          /\ next \in [Threads -> {"idle", "done", "connect"}]
      BY DEF Init, WorkerPCs, OtherPCs
    <2>. QED
      BY <2>1, <2>2, <2>3, <2>4 DEF TypeOK
  <1>2. ASSUME NEW t \in Threads
        PROVE  AtHome(t) /\ HasSlot(t) /\ KnowsNext(t)
    BY Distinct
       DEF Init, AtHome, HasSlot, KnowsNext, StopPCs, WorkerPCs, PostPCs
  <1>3. StopInOrder
    BY DEF Init, StopInOrder
  <1>. QED
    BY <1>1, <1>2, <1>3 DEF TypeInv, Placed

LEMMA TypeStep == TypeInv /\ [Next]_vars => TypeInv'
  <1>. SUFFICES ASSUME TypeInv, [Next]_vars PROVE TypeInv'
    OBVIOUS
  <1>1. CASE UNCHANGED vars
    BY <1>1 DEF vars, TypeInv, TypeOK, Placed, AtHome, HasSlot, KnowsNext,
       StopInOrder
  <1>2. CASE Next
    BY <1>2, TypeThread, TypeStop, TypeEnvironment DEF Next, ThreadStep
  <1>. QED
    BY <1>1, <1>2

(* Type correctness, for any number of slots, workers and sessions.        *)
THEOREM TypeCorrect == Spec => []TypeOK
  <1>1. TypeInv => TypeOK
    BY DEF TypeInv
  <1>. QED
    BY <1>1, TypeInit, TypeStep, PTL DEF Spec

-----------------------------------------------------------------------------
(* Owners and counts.                                                      *)

One(b) == IF b THEN 1 ELSE 0

(* What there is of a slot: an AcceptEx or a thread in charge.             *)
Due(s) == IF owned[s] THEN 1 ELSE 0

(* What a thread has of its slot, by the point it is at: the charge of it, *)
(* the share of a completion, the share of the AcceptEx it is to call.     *)
Charge(t) == pc[t] \in Handling \cup Posting
Share(t)  == /\ t # Heartbeat
             /\ pc[t] \in (Handling \cup PostPCs \cup {"drop"}) \ {"bailReset"}
             /\ ~(pc[t] = "vacate" /\ next[t] = "done")
Early(t)  == pc[t] \in {"recheck", "wait", "issue", "lower"}

Charged(s) == {t \in Threads : slot[t] = s /\ Charge(t)}
Sharing(s) == {t \in Threads : slot[t] = s /\ Share(t)}
Raised(s)  == {t \in Threads : slot[t] = s /\ Early(t)}

Busy    == {s \in Slots : Outstanding(s) > 0}
Uncounted == {t \in Threads : pc[t] = "counted"}
Arrived == {t \in Threads : pc[t] \in {"accepted", "cancelled"}}

(* SlotHasOwner and CountsAreHeld without the exceptions for Main, who is  *)
(* never at these points.                                                  *)
SlotInv ==
    /\ \A s \in Slots : Outstanding(s) + Cardinality(Charged(s)) = Due(s)
    /\ strays = {}
    /\ \A s \in Slots : ioCount[s] = Outstanding(s) + Cardinality(Sharing(s))
                                                    + Cardinality(Raised(s))
    /\ posted = Cardinality(Busy) - Cardinality(Uncounted) + Cardinality(Arrived)

LEMMA SameInvariant == Placed => (SlotInv <=> SlotHasOwner /\ CountsAreHeld)
  <1>. SUFFICES ASSUME Placed PROVE SlotInv <=> SlotHasOwner /\ CountsAreHeld
    OBVIOUS
  <1>0. /\ Main \in Threads /\ Main # Heartbeat /\ Main \notin Workers
        /\ pc[Main] \in StopPCs /\ Heartbeat \in Threads
        /\ pc[Heartbeat] \in {"idle", "claim", "ended"} \cup PostPCs
    BY Distinct DEF Placed, AtHome
  <1>1. ASSUME NEW s \in Slots
        PROVE  At(s, Handling \cup Posting) = Charged(s)
    BY <1>0 DEF At, Charged, Charge, Handling, Posting, PostPCs, StopPCs
  <1>2. ASSUME NEW s \in Slots
        PROVE  At(s, (Handling \cup PostPCs \cup {"drop"}) \ {"bailReset"})
                 \ ({Heartbeat} \cup {w \in Workers :
                      pc[w] = "vacate" /\ next[w] = "done"}) = Sharing(s)
    BY <1>0 DEF At, Sharing, Share, Handling, PostPCs, StopPCs
  <1>3. ASSUME NEW s \in Slots
        PROVE  At(s, {"recheck", "wait", "issue", "lower"}) = Raised(s)
    BY <1>0 DEF At, Raised, Early, StopPCs
  <1>4. {w \in Workers : pc[w] \in {"accepted", "cancelled"}} = Arrived
    BY <1>0 DEF Arrived, StopPCs, PostPCs
  <1>. QED
    BY <1>1, <1>2, <1>3, <1>4
       DEF SlotInv, SlotHasOwner, CountsAreHeld, Busy, Uncounted, Due

LEMMA ThreadsFinite == IsFiniteSet(Threads) /\ IsFiniteSet(Slots)
  <1>1. IsFiniteSet({Main}) /\ IsFiniteSet({Heartbeat, Main})
    BY FS_Singleton, FS_AddElement
  <1>. QED
    BY <1>1, FS_Union, SlotsAssumption

LEMMA OutstandingType ==
    ASSUME TypeOK
    PROVE  \A s \in Slots : Outstanding(s) \in Nat
  <1>. TAKE s \in Slots
  <1>1. io[s] \in [Phases -> Nat]
    BY DEF TypeOK
  <1>. QED
    BY <1>1 DEF Outstanding, Phases

LEMMA CountType ==
    ASSUME NEW A \in SUBSET Threads
    PROVE  Cardinality(A) \in Nat
  BY ThreadsFinite, FS_Subset, FS_CardinalityType

LEMMA CountChange ==
    ASSUME NEW S, IsFiniteSet(S), NEW A \in SUBSET S, NEW B \in SUBSET S,
           NEW x \in S, \A y \in S \ {x} : y \in A <=> y \in B
    PROVE  /\ Cardinality(A) \in Nat /\ Cardinality(B) \in Nat
           /\ Cardinality(B) = Cardinality(A) + One(x \in B) - One(x \in A)
  <1>1. IsFiniteSet(A) /\ IsFiniteSet(B)
    BY FS_Subset
  <1>2. Cardinality(A) \in Nat /\ Cardinality(B) \in Nat
    BY <1>1, FS_CardinalityType
  <1>3. CASE x \in A /\ x \notin B
    <2>1. B = A \ {x}
      BY <1>3
    <2>. QED
      BY <1>1, <1>2, <1>3, <2>1, FS_RemoveElement DEF One
  <1>4. CASE x \notin A /\ x \in B
    <2>1. B = A \cup {x}
      BY <1>4
    <2>. QED
      BY <1>1, <1>2, <1>4, <2>1, FS_AddElement DEF One
  <1>5. CASE x \in A <=> x \in B
    <2>1. A = B
      BY <1>5
    <2>. QED
      BY <1>2, <1>5, <2>1 DEF One
  <1>. QED
    BY <1>3, <1>4, <1>5

(* Who is in charge of a slot is so alone: no AcceptEx of it is            *)
(* outstanding, and no other thread is in charge.                          *)
LEMMA ChargeIsAlone ==
    ASSUME TypeInv, SlotInv, NEW t \in Threads, NEW s \in Slots,
           slot[t] = s, Charge(t)
    PROVE  /\ owned[s] /\ Outstanding(s) = 0
           /\ \A u \in Threads \ {t} : ~(slot[u] = s /\ Charge(u))
  <1>1. /\ Outstanding(s) \in Nat /\ Due(s) \in 0 .. 1
        /\ Outstanding(s) + Cardinality(Charged(s)) = Due(s)
    BY OutstandingType DEF SlotInv, TypeInv, Due
  <1>2. t \in Charged(s) /\ Charged(s) \in SUBSET Threads
    BY DEF Charged
  <1>3. IsFiniteSet(Charged(s)) /\ Cardinality(Charged(s)) \in Nat
    BY <1>2, ThreadsFinite, FS_Subset, CountType
  <1>4. /\ IsFiniteSet(Charged(s) \ {t})
        /\ Cardinality(Charged(s) \ {t}) = Cardinality(Charged(s)) - 1
        /\ Cardinality(Charged(s) \ {t}) \in Nat
    BY <1>2, <1>3, FS_RemoveElement, FS_CardinalityType
  <1>5. /\ Outstanding(s) = 0 /\ Due(s) = 1
        /\ Cardinality(Charged(s) \ {t}) = 0
    BY <1>1, <1>3, <1>4
  <1>6. Charged(s) \ {t} = {}
    BY <1>4, <1>5, FS_EmptySet
  <1>. QED
    BY <1>5, <1>6 DEF Charged, Due

(* A slot with an AcceptEx has one, and nobody is in charge of it.         *)
LEMMA AcceptIsAlone ==
    ASSUME TypeInv, SlotInv, NEW s \in Slots, Outstanding(s) > 0
    PROVE  /\ Outstanding(s) = 1 /\ owned[s]
           /\ \A u \in Threads : ~(slot[u] = s /\ Charge(u))
  <1>1. /\ Outstanding(s) \in Nat /\ Due(s) \in 0 .. 1
        /\ Outstanding(s) + Cardinality(Charged(s)) = Due(s)
    BY OutstandingType DEF SlotInv, TypeInv, Due
  <1>2. Cardinality(Charged(s)) \in Nat
    BY CountType DEF Charged
  <1>3. Outstanding(s) = 1 /\ Due(s) = 1
    BY <1>1, <1>2
  <1>4. \A u \in Threads : ~(slot[u] = s /\ Charge(u))
    BY <1>3, ChargeIsAlone
  <1>. QED
    BY <1>3, <1>4 DEF Due

-----------------------------------------------------------------------------
(* A step of one thread moves charges and shares, and makes none.          *)

(* At most slot x gains or loses an AcceptEx.                              *)
PostedBalanced(t, x) ==
    /\ \A s \in Slots \ {x} : Outstanding(s)' = Outstanding(s)
    /\ posted' = posted + One(x \in Busy)' - One(x \in Busy)
                        - One(t \in Uncounted)' + One(t \in Uncounted)
                        + One(t \in Arrived)' - One(t \in Arrived)

Balanced(t) ==
    /\ \A s \in Slots :
          /\ Due(s)' = Due(s) + Outstanding(s)' - Outstanding(s)
                     + One(t \in Charged(s))' - One(t \in Charged(s))
          /\ ioCount'[s] = ioCount[s] + Outstanding(s)' - Outstanding(s)
                           + One(t \in Sharing(s))' - One(t \in Sharing(s))
                           + One(t \in Raised(s))' - One(t \in Raised(s))
    /\ \E x \in Slots : PostedBalanced(t, x)
    /\ strays' = {}

LEMMA Balance ==
    ASSUME TypeInv, TypeInv', SlotInv, NEW t \in Threads, Local(t), Balanced(t)
    PROVE  SlotInv'
  <1>0. ASSUME NEW u \in Threads \ {t}
        PROVE  /\ \A s \in Slots :
                     /\ u \in Charged(s)' <=> u \in Charged(s)
                     /\ u \in Sharing(s)' <=> u \in Sharing(s)
                     /\ u \in Raised(s)' <=> u \in Raised(s)
               /\ u \in Uncounted' <=> u \in Uncounted
               /\ u \in Arrived' <=> u \in Arrived
    <2>1. pc'[u] = pc[u] /\ slot'[u] = slot[u] /\ next'[u] = next[u]
      BY DEF Local
    <2>. QED
      BY <2>1 DEF Charged, Sharing, Raised, Uncounted, Arrived, Charge, Share, Early
  <1>1. ASSUME NEW s \in Slots
        PROVE  Outstanding(s)' + Cardinality(Charged(s))' = Due(s)'
    <2>1. /\ Charged(s) \in SUBSET Threads /\ Charged(s)' \in SUBSET Threads
          /\ \A u \in Threads \ {t} : u \in Charged(s) <=> u \in Charged(s)'
      BY <1>0 DEF Charged
    <2>2. /\ Cardinality(Charged(s)) \in Nat /\ Cardinality(Charged(s)') \in Nat
          /\ Cardinality(Charged(s)') = Cardinality(Charged(s))
               + One(t \in Charged(s)') - One(t \in Charged(s))
      BY <2>1, ThreadsFinite, CountChange
    <2>3. Outstanding(s) + Cardinality(Charged(s)) = Due(s)
      BY DEF SlotInv
    <2>4. Due(s)' = Due(s) + Outstanding(s)' - Outstanding(s)
                 + One(t \in Charged(s)') - One(t \in Charged(s))
      BY DEF Balanced
    <2>5. /\ Outstanding(s) \in Nat /\ Outstanding(s)' \in Nat
          /\ Due(s) \in Int /\ Due(s)' \in Int
          /\ One(t \in Charged(s)) \in Int /\ One(t \in Charged(s)') \in Int
      BY OutstandingType DEF TypeInv, One, Due, Outstanding, TypeOK, Phases
    <2>6. Outstanding(s)' + Cardinality(Charged(s)') = Due(s)'
      BY <2>2, <2>3, <2>4, <2>5
    <2>. QED
      BY <2>6
  <1>2. ASSUME NEW s \in Slots
        PROVE  ioCount'[s] = Outstanding(s)' + Cardinality(Sharing(s))'
                                             + Cardinality(Raised(s))'
    <2>1. /\ Sharing(s) \in SUBSET Threads /\ Sharing(s)' \in SUBSET Threads
          /\ Raised(s) \in SUBSET Threads /\ Raised(s)' \in SUBSET Threads
          /\ \A u \in Threads \ {t} : /\ u \in Sharing(s) <=> u \in Sharing(s)'
                                      /\ u \in Raised(s) <=> u \in Raised(s)'
      BY <1>0 DEF Sharing, Raised
    <2>2. /\ Cardinality(Sharing(s)) \in Nat /\ Cardinality(Sharing(s)') \in Nat
          /\ Cardinality(Sharing(s)') = Cardinality(Sharing(s))
               + One(t \in Sharing(s)') - One(t \in Sharing(s))
      BY <2>1, ThreadsFinite, CountChange
    <2>3. /\ Cardinality(Raised(s)) \in Nat /\ Cardinality(Raised(s)') \in Nat
          /\ Cardinality(Raised(s)') = Cardinality(Raised(s))
               + One(t \in Raised(s)') - One(t \in Raised(s))
      BY <2>1, ThreadsFinite, CountChange
    <2>4. ioCount[s] = Outstanding(s) + Cardinality(Sharing(s))
                                      + Cardinality(Raised(s))
      BY DEF SlotInv
    <2>5. ioCount'[s] = ioCount[s] + Outstanding(s)' - Outstanding(s)
                 + One(t \in Sharing(s)') - One(t \in Sharing(s))
                 + One(t \in Raised(s)') - One(t \in Raised(s))
      BY DEF Balanced
    <2>6. /\ Outstanding(s) \in Nat /\ Outstanding(s)' \in Nat
          /\ One(t \in Sharing(s)) \in Int /\ One(t \in Sharing(s)') \in Int
          /\ One(t \in Raised(s)) \in Int /\ One(t \in Raised(s)') \in Int
      BY OutstandingType DEF TypeInv, One, Due, Outstanding, TypeOK, Phases
    <2>. QED
      BY <2>2, <2>3, <2>4, <2>5, <2>6
  <1>3. posted' = Cardinality(Busy)' - Cardinality(Uncounted)' + Cardinality(Arrived)'
    <2>1. PICK x \in Slots : PostedBalanced(t, x)
      BY DEF Balanced
    <2>2. /\ Uncounted \in SUBSET Threads /\ Uncounted' \in SUBSET Threads
          /\ Arrived \in SUBSET Threads /\ Arrived' \in SUBSET Threads
          /\ Busy \in SUBSET Slots /\ Busy' \in SUBSET Slots
          /\ \A u \in Threads \ {t} : /\ u \in Uncounted <=> u \in Uncounted'
                                      /\ u \in Arrived <=> u \in Arrived'
      BY <1>0 DEF Uncounted, Arrived, Busy
    <2>3. \A s \in Slots \ {x} : s \in Busy <=> s \in Busy'
      BY <2>1 DEF PostedBalanced, Busy
    <2>4. /\ Cardinality(Uncounted) \in Nat /\ Cardinality(Uncounted') \in Nat
          /\ Cardinality(Uncounted') = Cardinality(Uncounted)
               + One(t \in Uncounted') - One(t \in Uncounted)
      BY <2>2, ThreadsFinite, CountChange
    <2>5. /\ Cardinality(Arrived) \in Nat /\ Cardinality(Arrived') \in Nat
          /\ Cardinality(Arrived') = Cardinality(Arrived)
               + One(t \in Arrived') - One(t \in Arrived)
      BY <2>2, ThreadsFinite, CountChange
    <2>6. /\ Cardinality(Busy) \in Nat /\ Cardinality(Busy') \in Nat
          /\ Cardinality(Busy') = Cardinality(Busy)
               + One(x \in Busy') - One(x \in Busy)
      BY <2>2, <2>3, ThreadsFinite, CountChange
    <2>7. posted = Cardinality(Busy) - Cardinality(Uncounted) + Cardinality(Arrived)
      BY DEF SlotInv
    <2>8. posted' = posted + One(x \in Busy') - One(x \in Busy)
                        - One(t \in Uncounted') + One(t \in Uncounted)
                        + One(t \in Arrived') - One(t \in Arrived)
      BY <2>1 DEF PostedBalanced
    <2>9. /\ One(t \in Uncounted) \in Int /\ One(t \in Uncounted') \in Int
          /\ One(t \in Arrived) \in Int /\ One(t \in Arrived') \in Int
          /\ One(x \in Busy) \in Int /\ One(x \in Busy') \in Int
      BY DEF One
    <2>. QED
      BY <2>4, <2>5, <2>6, <2>7, <2>8, <2>9
  <1>. QED
    BY <1>1, <1>2, <1>3 DEF SlotInv, Balanced

(* Slots, their AcceptEx and their counts stay what they are.              *)
SlotsKept ==
    /\ \A s \in Slots : /\ Outstanding(s)' = Outstanding(s)
                        /\ owned'[s] = owned[s] /\ ioCount'[s] = ioCount[s]
    /\ posted' = posted /\ strays' = strays

(* And so does what t has of them.                                         *)
RoleKept(t) ==
    /\ \A s \in Slots : /\ t \in Charged(s)' <=> t \in Charged(s)
                        /\ t \in Sharing(s)' <=> t \in Sharing(s)
                        /\ t \in Raised(s)' <=> t \in Raised(s)
    /\ t \in Uncounted' <=> t \in Uncounted
    /\ t \in Arrived' <=> t \in Arrived

LEMMA KeptStep ==
    ASSUME TypeInv, SlotInv, SlotsKept, \A t \in Threads : RoleKept(t)
    PROVE  SlotInv'
  <1>1. \A s \in Slots : /\ Charged(s)' = Charged(s) /\ Sharing(s)' = Sharing(s)
                         /\ Raised(s)' = Raised(s)
    BY DEF RoleKept, Charged, Sharing, Raised
  <1>2. Uncounted' = Uncounted /\ Arrived' = Arrived
    BY DEF RoleKept, Uncounted, Arrived
  <1>3. Busy' = Busy
    BY DEF SlotsKept, Busy
  <1>. QED
    BY <1>1, <1>2, <1>3 DEF SlotInv, SlotsKept, Due

LEMMA LocalRoles ==
    ASSUME NEW t \in Threads, Local(t), RoleKept(t)
    PROVE  \A u \in Threads : RoleKept(u)
  <1>1. ASSUME NEW u \in Threads \ {t} PROVE RoleKept(u)
    <2>1. pc'[u] = pc[u] /\ slot'[u] = slot[u] /\ next'[u] = next[u]
      BY DEF Local
    <2>. QED
      BY <2>1 DEF RoleKept, Charged, Sharing, Raised, Uncounted, Arrived, Charge,
         Share, Early
  <1>. QED
    BY <1>1

(* Closing a socket cancels an AcceptEx: it is as outstanding as before.   *)
LEMMA DetachKeeps ==
    ASSUME TypeOK, NEW s \in Slots, DetachSocket(s)
    PROVE  \A x \in Slots : /\ Outstanding(x)' = Outstanding(x)
                            /\ x # s => io'[x] = io[x]
                            /\ io'[s].pending = 0
  <1>. TAKE x \in Slots
  <1>1. /\ io[s] \in [Phases -> Nat]
        /\ io' = [io EXCEPT ![s].cancelled = @ + io[s].pending,
                            ![s].pending = 0]
    BY DEF TypeOK, DetachSocket, CloseAborts
  <1>2. /\ x # s => io'[x] = io[x]
        /\ io'[s].pending = 0 /\ io'[s].accepted = io[s].accepted
        /\ io'[s].cancelled = io[s].cancelled + io[s].pending
    BY <1>1 DEF TypeOK, Phases
  <1>3. /\ io[s].pending \in Nat /\ io[s].accepted \in Nat
        /\ io[s].cancelled \in Nat
    BY <1>1 DEF Phases
  <1>. QED
    BY <1>2, <1>3 DEF Outstanding

LEMMA KernelKeeps ==
    ASSUME io' = io
    PROVE  \A s \in Slots : Outstanding(s)' = Outstanding(s)
  BY DEF Outstanding

LEMMA RoleMoves ==
    ASSUME NEW t \in Threads, slot'[t] = slot[t], Charge(t)' <=> Charge(t),
           Share(t)' <=> Share(t), Early(t)' <=> Early(t),
           pc'[t] = "counted" <=> pc[t] = "counted",
           pc'[t] \in {"accepted", "cancelled"}
              <=> pc[t] \in {"accepted", "cancelled"}
    PROVE  RoleKept(t)
  BY DEF RoleKept, Charged, Sharing, Raised, Uncounted, Arrived

LEMMA NoRole ==
    ASSUME NEW t \in Threads, ~Charge(t), ~Share(t), ~Early(t),
           ~Charge(t)', ~Share(t)', ~Early(t)',
           pc'[t] \notin {"counted", "accepted", "cancelled"},
           pc[t] \notin {"counted", "accepted", "cancelled"}
    PROVE  RoleKept(t)
  BY DEF RoleKept, Charged, Sharing, Raised, Uncounted, Arrived

LEMMA JumpsTo ==
    ASSUME TypeOK, NEW t \in Threads, NEW l, Goto(t, l)
    PROVE  pc'[t] = l
  BY DEF TypeOK

LEMMA KeptWorker ==
    ASSUME TypeInv, NEW w \in Workers,
           \/ CheckAddress(w) \/ CheckFull(w) \/ Acquire(w) \/ Refuse(w)
           \/ Attach(w) \/ Bail(w) \/ ResetSession(w) \/ Finish(w)
    PROVE  SlotsKept /\ RoleKept(w)
  <1>. w \in Threads /\ w # Heartbeat /\ w # Main
    BY Distinct
  <1>. TypeOK /\ HasSlot(w) /\ KnowsNext(w)
    BY DEF TypeInv, Placed
  <1>1. CASE CheckAddress(w) \/ CheckFull(w) \/ Acquire(w) \/ Attach(w)
    <2>1. /\ pc[w] \in {"count", "full", "acquire", "attach"}
          /\ pc'[w] \in {"full", "acquire", "refuse", "attach", "post"}
          /\ slot' = slot /\ io' = io
      BY <1>1 DEF CheckAddress, CheckFull, Acquire, Attach, TypeOK
    <2>2. RoleKept(w)
      BY <2>1, RoleMoves DEF Charge, Share, Early, Handling, Posting, PostPCs
    <2>3. posted' = posted /\ strays' = strays /\ ioCount' = ioCount
          /\ owned' = owned
      BY <1>1 DEF CheckAddress, CheckFull, Acquire, Attach
    <2>. QED
      BY <2>1, <2>2, <2>3, KernelKeeps DEF SlotsKept
  <1>2. CASE Refuse(w) \/ Bail(w)
    <2>1. PICK s \in Slots : s = slot[w]
      BY <1>2 DEF HasSlot, Refuse, Bail, WorkerPCs
    <2>2. /\ pc[w] \in {"refuse", "bail"} /\ pc'[w] \in {"reset", "bailCount"}
          /\ slot' = slot /\ DetachSocket(s)
      BY <1>2, <2>1 DEF Refuse, Bail, TypeOK
    <2>3. RoleKept(w)
      BY <2>2, RoleMoves DEF Charge, Share, Early, Handling, Posting, PostPCs
    <2>4. posted' = posted /\ strays' = strays /\ ioCount' = ioCount
          /\ owned' = owned
      BY <1>2 DEF Refuse, Bail
    <2>5. \A x \in Slots : Outstanding(x)' = Outstanding(x)
      BY <2>2, DetachKeeps
    <2>. QED
      BY <2>3, <2>4, <2>5 DEF SlotsKept
  <1>3. CASE ResetSession(w)
    <2>1. /\ pc[w] = "bailReset" /\ pc'[w] = "vacate"
          /\ slot' = slot /\ next' = next /\ io' = io
      BY <1>3 DEF ResetSession, TypeOK
    <2>2. next'[w] = "done"
      BY <2>1 DEF KnowsNext
    <2>3. RoleKept(w)
      BY <2>1, <2>2, RoleMoves
         DEF Charge, Share, Early, Handling, Posting, PostPCs
    <2>4. posted' = posted /\ strays' = strays /\ ioCount' = ioCount
          /\ owned' = owned
      BY <1>3 DEF ResetSession
    <2>. QED
      BY <2>1, <2>3, <2>4, KernelKeeps DEF SlotsKept
  <1>4. CASE Finish(w)
    <2>1. pc[w] = "finish" /\ pc'[w] = "idle" /\ io' = io
      BY <1>4 DEF Finish, TypeOK
    <2>2. RoleKept(w)
      BY <2>1, NoRole DEF Charge, Share, Early, Handling, Posting, PostPCs
    <2>3. posted' = posted /\ strays' = strays /\ ioCount' = ioCount
          /\ owned' = owned
      BY <1>4 DEF Finish
    <2>. QED
      BY <2>1, <2>2, <2>3, KernelKeeps DEF SlotsKept
  <1>. QED
    BY <1>1, <1>2, <1>3, <1>4

(* AcceptEx has failed, or was not called for want of a socket.            *)
Fruitless(t) == AcceptEx(t) /\ io' = io

LEMMA KeptPost ==
    ASSUME TypeInv, NEW t \in Workers \cup {Heartbeat},
           \/ ResetForRepost(t) \/ PostAccept(t) \/ Decline(t)
           \/ CreateSocket(t) \/ RecheckShutdown(t) \/ SetStateWait(t)
           \/ Abort(t) \/ Fruitless(t)
    PROVE  SlotsKept /\ RoleKept(t)
  <1>. t \in Threads /\ t # Main
    BY Distinct
  <1>. TypeOK /\ HasSlot(t) /\ KnowsNext(t)
    BY DEF TypeInv, Placed
  <1>1. CASE ResetForRepost(t) \/ PostAccept(t) \/ CreateSocket(t)
    <2>1. /\ pc[t] \in {"reset", "withdraw", "post", "create"}
          /\ pc'[t] \in {"post", "vacate", "decline", "create", "raise"}
          /\ slot' = slot /\ next' = next /\ io' = io
      BY <1>1 DEF ResetForRepost, PostAccept, CreateSocket, TypeOK
    <2>2. next[t] # "done"
      BY <2>1 DEF KnowsNext
    <2>3. RoleKept(t)
      BY <2>1, <2>2, RoleMoves
         DEF Charge, Share, Early, Handling, Posting, PostPCs
    <2>4. posted' = posted /\ strays' = strays /\ ioCount' = ioCount
          /\ owned' = owned
      BY <1>1 DEF ResetForRepost, PostAccept, CreateSocket
    <2>. QED
      BY <2>1, <2>3, <2>4, KernelKeeps DEF SlotsKept
  <1>2. CASE Decline(t) \/ Abort(t)
    <2>1. PICK s \in Slots : s = slot[t]
      BY <1>2 DEF HasSlot, Decline, Abort, PostPCs
    <2>2. /\ pc[t] \in {"decline", "abort"} /\ pc'[t] = "withdraw"
          /\ slot' = slot /\ DetachSocket(s)
      BY <1>2, <2>1 DEF Decline, Abort, TypeOK
    <2>3. RoleKept(t)
      BY <2>2, RoleMoves DEF Charge, Share, Early, Handling, Posting, PostPCs
    <2>4. posted' = posted /\ strays' = strays /\ ioCount' = ioCount
          /\ owned' = owned
      BY <1>2 DEF Decline, Abort
    <2>5. \A x \in Slots : Outstanding(x)' = Outstanding(x)
      BY <2>2, DetachKeeps
    <2>. QED
      BY <2>3, <2>4, <2>5 DEF SlotsKept
  <1>3. CASE RecheckShutdown(t) \/ SetStateWait(t) \/ Fruitless(t)
    <2>1. /\ pc[t] \in {"recheck", "wait", "issue"}
          /\ slot' = slot /\ io' = io
      BY <1>3 DEF RecheckShutdown, SetStateWait, Fruitless, AcceptEx
    <2>2. pc'[t] \in {"wait", "issue", "lower"}
      <3>1. CASE RecheckShutdown(t) \/ SetStateWait(t)
        BY <3>1 DEF RecheckShutdown, SetStateWait, TypeOK
      <3>2. CASE Fruitless(t)
        <4>1. PICK s \in Slots : s = slot[t]
          BY <2>1 DEF HasSlot, PostPCs
        <4>2. io' # [io EXCEPT ![s].pending = @ + 1]
          BY <3>2 DEF Fruitless, TypeOK, Phases
        <4>. QED
          BY <3>2, <4>1, <4>2 DEF Fruitless, AcceptEx, TypeOK
      <3>. QED
        BY <1>3, <3>1, <3>2
    <2>3. RoleKept(t)
      BY <2>1, <2>2, RoleMoves DEF Charge, Share, Early, Handling, Posting, PostPCs
    <2>4. posted' = posted /\ strays' = strays /\ ioCount' = ioCount
          /\ owned' = owned
      BY <1>3 DEF RecheckShutdown, SetStateWait, Fruitless, AcceptEx
    <2>. QED
      BY <2>1, <2>3, <2>4, KernelKeeps DEF SlotsKept
  <1>. QED
    BY <1>1, <1>2, <1>3

(* The heartbeat thread passes over a slot that is owned.                  *)
PassesOver == TryAcquireSlot /\ owned[slot[Heartbeat]]

LEMMA KeptRefill ==
    ASSUME TypeInv, RefillAcceptSlots \/ PassesOver
    PROVE  SlotsKept /\ RoleKept(Heartbeat)
  <1>. Heartbeat \in Threads /\ TypeOK
    BY DEF TypeInv
  <1>1. /\ pc[Heartbeat] \in {"idle", "claim"}
        /\ pc'[Heartbeat] \in {"idle", "claim"}
    BY DEF RefillAcceptSlots, PassesOver, TryAcquireSlot, NextClaim, EndOfRefill,
       TypeOK
  <1>2. RoleKept(Heartbeat)
    BY <1>1, NoRole DEF Charge, Share, Early, Handling, Posting, PostPCs
  <1>3. posted' = posted /\ strays' = strays /\ ioCount' = ioCount
        /\ owned' = owned /\ io' = io
    BY DEF RefillAcceptSlots, PassesOver, TryAcquireSlot
  <1>. QED
    BY <1>2, <1>3, KernelKeeps DEF SlotsKept

LEMMA KeptStop ==
    ASSUME TypeInv, StopServer \/ StopSteps
    PROVE  SlotsKept /\ \A t \in Threads : RoleKept(t)
  <1>. /\ Main \in Threads /\ Heartbeat \in Threads /\ Heartbeat # Main
       /\ Main \notin Workers /\ TypeOK
    BY Distinct DEF TypeInv
  <1>1. SlotsKept
    <2>1. posted' = posted /\ strays' = strays /\ ioCount' = ioCount
          /\ owned' = owned
      BY DEF StopServer, StopSteps, JoinHeartbeat, RequestAcceptIOCancel,
         AwaitAcceptIOCancel, CloseListenSocket, JoinWorkers
    <2>2. CASE RequestAcceptIOCancel
      <3>1. PICK s \in Slots : s = slot[Main]
        BY <2>2 DEF RequestAcceptIOCancel, HasSlot, TypeInv, Placed
      <3>2. DetachSocket(s) \/ io' = io
        BY <2>2, <3>1 DEF RequestAcceptIOCancel
      <3>. QED
        BY <2>1, <3>2, DetachKeeps, KernelKeeps DEF SlotsKept
    <2>3. CASE CloseListenSocket
      <3>1. ASSUME NEW s \in Slots PROVE Outstanding(s)' = Outstanding(s)
        <4>1. io'[s] = [io[s] EXCEPT !.cancelled = @ + io[s].pending,
                                     !.pending = 0]
          BY <2>3 DEF CloseListenSocket
        <4>2. io[s] \in [Phases -> Nat]
          BY DEF TypeOK
        <4>3. /\ io'[s].pending = 0 /\ io'[s].accepted = io[s].accepted
              /\ io'[s].cancelled = io[s].cancelled + io[s].pending
          BY <4>1, <4>2 DEF Phases
        <4>4. /\ io[s].pending \in Nat /\ io[s].accepted \in Nat
              /\ io[s].cancelled \in Nat
          BY <4>2 DEF Phases
        <4>. QED
          BY <4>3, <4>4 DEF Outstanding
      <3>. QED
        BY <2>1, <3>1 DEF SlotsKept
    <2>4. CASE ~RequestAcceptIOCancel /\ ~CloseListenSocket
      <3>1. io' = io
        BY <2>4 DEF StopServer, StopSteps, JoinHeartbeat, AwaitAcceptIOCancel,
           JoinWorkers
      <3>. QED
        BY <2>1, <3>1, KernelKeeps DEF SlotsKept
    <2>. QED
      BY <2>2, <2>3, <2>4
  <1>2. ASSUME NEW t \in Threads PROVE RoleKept(t)
    <2>1. CASE t = Main
      <3>1. pc[t] \in StopPCs /\ pc'[t] \in StopPCs
        BY <2>1, TypeStop DEF TypeInv, Placed, AtHome
      <3>. QED
        BY <3>1, NoRole
           DEF Charge, Share, Early, Handling, Posting, PostPCs, StopPCs
    <2>2. CASE t # Main /\ ~JoinHeartbeat /\ ~JoinWorkers
      <3>1. pc'[t] = pc[t] /\ slot'[t] = slot[t] /\ next'[t] = next[t]
        BY <2>2 DEF StopServer, StopSteps, RequestAcceptIOCancel, NextOfMain,
           AwaitAcceptIOCancel, CloseListenSocket, TypeOK
      <3>. QED
        BY <3>1 DEF RoleKept, Charged, Sharing, Raised, Uncounted, Arrived,
           Charge, Share, Early
    <2>3. CASE t # Main /\ JoinHeartbeat
      <3>1. slot'[t] = slot[t] /\ next'[t] = next[t]
        BY <2>3 DEF JoinHeartbeat, TypeOK
      <3>2. CASE t = Heartbeat
        <4>1. pc[t] = "idle" /\ pc'[t] = "ended"
          BY <2>3, <3>2 DEF JoinHeartbeat, TypeOK
        <4>. QED
          BY <4>1, NoRole DEF Charge, Share, Early, Handling, Posting, PostPCs
      <3>3. CASE t # Heartbeat
        <4>1. pc'[t] = pc[t]
          BY <2>3, <3>3 DEF JoinHeartbeat, TypeOK
        <4>. QED
          BY <3>1, <4>1 DEF RoleKept, Charged, Sharing, Raised, Uncounted,
             Arrived, Charge, Share, Early
      <3>. QED
        BY <3>2, <3>3
    <2>4. CASE t # Main /\ JoinWorkers
      <3>1. pc[Heartbeat] = "ended"
        BY <2>4 DEF JoinWorkers, TypeInv, Placed, StopInOrder, StopPCs
      <3>2. pc[t] \in {"idle", "ended"} /\ pc'[t] = "ended"
        BY <2>4, <3>1 DEF JoinWorkers
      <3>. QED
        BY <3>2, NoRole DEF Charge, Share, Early, Handling, Posting, PostPCs
    <2>. QED
      BY <2>1, <2>2, <2>3, <2>4
  <1>. QED
    BY <1>1, <1>2

LEMMA KeptEnvironment ==
    ASSUME TypeInv, Environment
    PROVE  SlotsKept /\ \A t \in Threads : RoleKept(t)
  <1>. TypeOK
    BY DEF TypeInv
  <1>1. /\ pc' = pc /\ slot' = slot /\ next' = next /\ posted' = posted
        /\ strays' = strays /\ ioCount' = ioCount /\ owned' = owned
    BY DEF Environment, PeerConnects, AcceptFails, SessionEnds
  <1>2. ASSUME NEW t \in Threads PROVE RoleKept(t)
    BY <1>1 DEF RoleKept, Charged, Sharing, Raised, Uncounted, Arrived, Charge,
       Share, Early
  <1>3. ASSUME NEW s \in Slots, PeerConnects(s) \/ AcceptFails(s)
        PROVE  \A x \in Slots : Outstanding(x)' = Outstanding(x)
    <2>1. PICK p \in {"accepted", "cancelled"} :
             io' = [io EXCEPT ![s]["pending"] = @ - 1, ![s][p] = @ + 1]
      BY <1>3 DEF PeerConnects, AcceptFails, Moved
    <2>2. /\ io[s] \in [Phases -> Nat]
          /\ io[s].pending \in Nat /\ io[s].accepted \in Nat
          /\ io[s].cancelled \in Nat
      BY DEF TypeOK, Phases
    <2>3. /\ \A x \in Slots \ {s} : io'[x] = io[x]
          /\ io'[s].pending = io[s].pending - 1
          /\ io'[s].accepted = io[s].accepted + One(p = "accepted")
          /\ io'[s].cancelled = io[s].cancelled + One(p = "cancelled")
      BY <2>1, <2>2 DEF TypeOK, Phases, One
    <2>4. Outstanding(s)' = Outstanding(s)
      BY <2>2, <2>3 DEF Outstanding, One
    <2>. QED
      BY <2>3, <2>4 DEF Outstanding
  <1>4. ASSUME NEW c \in Sessions, SessionEnds(c)
        PROVE  \A x \in Slots : Outstanding(x)' = Outstanding(x)
    BY <1>4, KernelKeeps DEF SessionEnds
  <1>5. \A x \in Slots : Outstanding(x)' = Outstanding(x)
    BY <1>3, <1>4 DEF Environment
  <1>. QED
    BY <1>1, <1>2, <1>5 DEF SlotsKept

(* The steps that change what a slot has.                                  *)
Idles(t) == ~Charge(t) /\ ~Share(t) /\ ~Early(t)

(* A step of t on slot s, by the changes it makes there.                   *)
LEMMA BalanceOn ==
    ASSUME TypeInv, NEW t \in Threads, NEW s \in Slots,
           slot[t] = s \/ Idles(t), slot'[t] = s \/ Idles(t)',
           \A x \in Slots \ {s} : /\ Outstanding(x)' = Outstanding(x)
                                  /\ owned'[x] = owned[x]
                                  /\ ioCount'[x] = ioCount[x],
           Due(s)' = Due(s) + Outstanding(s)' - Outstanding(s)
                     + One(Charge(t))' - One(Charge(t)),
           ioCount'[s] = ioCount[s] + Outstanding(s)' - Outstanding(s)
                         + One(Share(t))' - One(Share(t))
                         + One(Early(t))' - One(Early(t)),
           PostedBalanced(t, s), strays' = {}
    PROVE  Balanced(t)
  <1>1. ASSUME NEW x \in Slots \ {s}
        PROVE  /\ Due(x)' = Due(x) + Outstanding(x)' - Outstanding(x)
                     + One(t \in Charged(x))' - One(t \in Charged(x))
               /\ ioCount'[x] = ioCount[x] + Outstanding(x)' - Outstanding(x)
                           + One(t \in Sharing(x))' - One(t \in Sharing(x))
                           + One(t \in Raised(x))' - One(t \in Raised(x))
    <2>1. /\ t \notin Charged(x) /\ t \notin Charged(x)'
          /\ t \notin Sharing(x) /\ t \notin Sharing(x)'
          /\ t \notin Raised(x) /\ t \notin Raised(x)'
      BY <1>1 DEF Charged, Sharing, Raised, Idles
    <2>2. /\ Outstanding(x)' = Outstanding(x) /\ Outstanding(x) \in Nat
          /\ Due(x)' = Due(x) /\ Due(x) \in Int
          /\ ioCount'[x] = ioCount[x] /\ ioCount[x] \in Int
      BY OutstandingType DEF Due, TypeInv, TypeOK
    <2>. QED
      BY <2>1, <2>2 DEF One
  <1>2. /\ t \in Charged(s) <=> Charge(t)
        /\ t \in Charged(s)' <=> Charge(t)'
        /\ t \in Sharing(s) <=> Share(t)
        /\ t \in Sharing(s)' <=> Share(t)'
        /\ t \in Raised(s) <=> Early(t)
        /\ t \in Raised(s)' <=> Early(t)'
    BY DEF Charged, Sharing, Raised, Idles
  <1>3. /\ Due(s)' = Due(s) + Outstanding(s)' - Outstanding(s)
                     + One(t \in Charged(s))' - One(t \in Charged(s))
        /\ ioCount'[s] = ioCount[s] + Outstanding(s)' - Outstanding(s)
                         + One(t \in Sharing(s))' - One(t \in Sharing(s))
                         + One(t \in Raised(s))' - One(t \in Raised(s))
    BY <1>2 DEF One
  <1>. QED
    BY <1>1, <1>3 DEF Balanced

LEMMA BalanceDequeue ==
    ASSUME TypeInv, SlotInv, NEW w \in Workers, Dequeue(w)
    PROVE  Balanced(w)
  <1>. w \in Threads /\ w # Heartbeat /\ w # Main /\ TypeOK
    BY Distinct DEF TypeInv
  <1>1. PICK s \in Slots, phase \in {"accepted", "cancelled"} :
             /\ io[s][phase] > 0
             /\ io' = [io EXCEPT ![s][phase] = @ - 1]
             /\ slot' = [slot EXCEPT ![w] = s]
             /\ pc' = [pc EXCEPT ![w] = phase]
    BY DEF Dequeue
  <1>2. /\ pc[w] = "idle" /\ pc'[w] \in {"accepted", "cancelled"}
        /\ slot'[w] = s /\ posted' = posted /\ strays' = {}
        /\ owned' = owned /\ ioCount' = ioCount /\ next' = next
    BY <1>1 DEF Dequeue, TypeOK, SlotInv
  <1>3. /\ io[s] \in [Phases -> Nat]
        /\ io'[s] = [io[s] EXCEPT ![phase] = @ - 1]
        /\ \A x \in Slots \ {s} : io'[x] = io[x]
    BY <1>1 DEF TypeOK
  <1>4. /\ Outstanding(s)' = Outstanding(s) - 1
        /\ Outstanding(s) \in Nat /\ Outstanding(s) > 0
    <2>1. /\ io[s].pending \in Nat /\ io[s].accepted \in Nat
          /\ io[s].cancelled \in Nat /\ io'[s].pending = io[s].pending
          /\ io'[s].accepted = io[s].accepted - One(phase = "accepted")
          /\ io'[s].cancelled = io[s].cancelled - One(phase = "cancelled")
          /\ io[s].accepted > 0 \/ io[s].cancelled > 0
      BY <1>1, <1>3 DEF Phases, One
    <2>. QED
      BY <2>1 DEF Outstanding, One
  <1>5. Outstanding(s) = 1 /\ Outstanding(s)' = 0
    BY <1>4, AcceptIsAlone
  <1>6. \A x \in Slots \ {s} : Outstanding(x)' = Outstanding(x)
    BY <1>3 DEF Outstanding
  <1>7. /\ ~Charge(w) /\ Charge(w)' /\ ~Share(w) /\ Share(w)'
        /\ ~Early(w) /\ ~Early(w)'
    BY <1>2 DEF Charge, Share, Early, Handling, Posting, PostPCs
  <1>8. /\ s \in Busy /\ s \notin Busy' /\ w \notin Uncounted /\ w \notin Uncounted'
        /\ w \notin Arrived /\ w \in Arrived'
    BY <1>2, <1>5 DEF Busy, Uncounted, Arrived
  <1>9. PostedBalanced(w, s)
    BY <1>2, <1>6, <1>8 DEF PostedBalanced, One, TypeOK
  <1>10. /\ Due(s)' = Due(s) + Outstanding(s)' - Outstanding(s)
                     + One(Charge(w))' - One(Charge(w))
         /\ ioCount'[s] = ioCount[s] + Outstanding(s)' - Outstanding(s)
                         + One(Share(w))' - One(Share(w))
                         + One(Early(w))' - One(Early(w))
    <2>1. Due(s)' = Due(s) /\ Due(s) \in Int /\ ioCount[s] \in Int
      BY <1>2 DEF Due, TypeOK
    <2>. QED
      BY <1>2, <1>5, <1>7, <2>1 DEF One
  <1>. QED
    BY <1>2, <1>6, <1>7, <1>9, <1>10, BalanceOn DEF Idles

LEMMA BalanceHandle ==
    ASSUME TypeInv, SlotInv, NEW w \in Workers,
           HandleAcceptIOCancelled(w) \/ HandleAccept(w)
    PROVE  Balanced(w)
  <1>. w \in Threads /\ w # Heartbeat /\ w # Main /\ TypeOK
    BY Distinct DEF TypeInv
  <1>1. /\ pc[w] \in {"accepted", "cancelled"}
        /\ pc'[w] \in {"cancelCount", "bail", "count", "full"}
        /\ slot' = slot /\ posted' = posted - 1 /\ strays' = {}
        /\ owned' = owned /\ ioCount' = ioCount /\ io' = io
    BY DEF HandleAcceptIOCancelled, HandleAccept, TypeOK, SlotInv
  <1>2. PICK s \in Slots : s = slot[w]
    BY <1>1 DEF TypeInv, Placed, HasSlot, WorkerPCs
  <1>3. /\ Charge(w) /\ Charge(w)' /\ Share(w) /\ Share(w)'
        /\ ~Early(w) /\ ~Early(w)'
    BY <1>1 DEF Charge, Share, Early, Handling, Posting, PostPCs
  <1>4. \A x \in Slots : /\ Outstanding(x)' = Outstanding(x)
                         /\ Outstanding(x) \in Nat
    BY <1>1, KernelKeeps, OutstandingType
  <1>5. /\ s \in Busy <=> s \in Busy'
        /\ w \notin Uncounted /\ w \notin Uncounted'
        /\ w \in Arrived /\ w \notin Arrived'
    BY <1>1, <1>4 DEF Busy, Uncounted, Arrived
  <1>6. PostedBalanced(w, s)
    BY <1>1, <1>4, <1>5 DEF PostedBalanced, One, TypeOK
  <1>7. /\ Due(s)' = Due(s) + Outstanding(s)' - Outstanding(s)
                     + One(Charge(w))' - One(Charge(w))
        /\ ioCount'[s] = ioCount[s] + Outstanding(s)' - Outstanding(s)
                         + One(Share(w))' - One(Share(w))
                         + One(Early(w))' - One(Early(w))
    <2>1. Due(s)' = Due(s) /\ Due(s) \in Int /\ ioCount[s] \in Int
      BY <1>1 DEF Due, TypeOK
    <2>. QED
      BY <1>1, <1>3, <1>4, <2>1 DEF One
  <1>. QED
    BY <1>1, <1>2, <1>4, <1>6, <1>7, BalanceOn

(* The count changes with a share, and nothing else does.                  *)
LEMMA BalanceShare ==
    ASSUME TypeInv, SlotInv, NEW t \in Workers \cup {Heartbeat},
           DecrementIO(t) \/ IncrementIO(t) \/ Lower(t)
    PROVE  Balanced(t)
  <1>. t \in Threads /\ t # Main /\ TypeOK /\ AtHome(t) /\ HasSlot(t)
       /\ KnowsNext(t)
    BY Distinct DEF TypeInv, Placed
  <1>1. /\ pc[t] \in {"bailCount", "cancelCount", "drop", "raise", "lower"}
        /\ slot' = slot /\ posted' = posted /\ strays' = {}
        /\ owned' = owned /\ io' = io /\ next' = next
    BY DEF DecrementIO, IncrementIO, Lower, SlotInv
  <1>2. PICK s \in Slots : s = slot[t]
    BY <1>1 DEF HasSlot, WorkerPCs, PostPCs
  <1>3. /\ ioCount[s] \in Int
        /\ \A x \in Slots \ {s} : ioCount'[x] = ioCount[x]
        /\ pc[t] = "raise" => ioCount'[s] = ioCount[s] + 1
        /\ pc[t] # "raise" => ioCount'[s] = ioCount[s] - 1
    BY <1>2 DEF DecrementIO, IncrementIO, Lower, TypeOK
  <1>4. /\ pc[t] = "bailCount" => pc'[t] = "bailReset"
        /\ pc[t] = "cancelCount" => pc'[t] = "vacate" /\ next[t] = "done"
        /\ pc[t] = "drop" => pc'[t] = "finish"
        /\ pc[t] = "raise" => pc'[t] = "recheck"
        /\ pc[t] = "lower" => pc'[t] = "abort"
    BY DEF DecrementIO, IncrementIO, Lower, TypeOK, KnowsNext
  <1>5. /\ Charge(t) <=> Charge(t)'
        /\ One(Share(t))' - One(Share(t)) + One(Early(t))' - One(Early(t))
             = IF pc[t] = "raise" THEN 1 ELSE -1
    <2>1. Charge(t) <=> Charge(t)'
      BY <1>1, <1>4 DEF Charge, Handling, Posting, PostPCs
    <2>2. pc[t] = "raise" \/ pc[t] = "lower" => /\ Share(t) <=> Share(t)'
                                                /\ Early(t) <=> pc[t] = "lower"
                                                /\ Early(t)' <=> pc[t] = "raise"
      BY <1>1, <1>4 DEF Share, Early, Handling, PostPCs
    <2>3. pc[t] \in {"bailCount", "cancelCount", "drop"} => t # Heartbeat
      BY Distinct DEF AtHome, PostPCs
    <2>4. pc[t] \in {"bailCount", "cancelCount", "drop"} =>
            Share(t) /\ ~Share(t)' /\ ~Early(t) /\ ~Early(t)'
      BY <1>1, <1>4, <2>3 DEF Share, Early, Handling, PostPCs
    <2>. QED
      BY <1>1, <2>1, <2>2, <2>4 DEF One
  <1>6. \A x \in Slots : /\ Outstanding(x)' = Outstanding(x)
                         /\ Outstanding(x) \in Nat
    BY <1>1, KernelKeeps, OutstandingType
  <1>7. /\ s \in Busy <=> s \in Busy'
        /\ t \notin Uncounted /\ t \notin Uncounted'
        /\ t \notin Arrived /\ t \notin Arrived'
    BY <1>1, <1>4, <1>6 DEF Busy, Uncounted, Arrived
  <1>8. PostedBalanced(t, s)
    BY <1>1, <1>6, <1>7 DEF PostedBalanced, One, TypeOK
  <1>9. Due(s)' = Due(s) + Outstanding(s)' - Outstanding(s)
                    + One(Charge(t))' - One(Charge(t))
    <2>1. Due(s)' = Due(s) /\ Due(s) \in Int
      BY <1>1 DEF Due
    <2>. QED
      BY <1>5, <1>6, <2>1 DEF One
  <1>10. ioCount'[s] = ioCount[s] + Outstanding(s)' - Outstanding(s)
                         + One(Share(t))' - One(Share(t))
                         + One(Early(t))' - One(Early(t))
    <2>1. /\ One(Share(t)) \in Int /\ One(Share(t))' \in Int
          /\ One(Early(t)) \in Int /\ One(Early(t))' \in Int
      BY DEF One
    <2>2. ioCount'[s] = ioCount[s] + (IF pc[t] = "raise" THEN 1 ELSE -1)
      BY <1>3
    <2>. QED
      BY <1>3, <1>5, <1>6, <2>1, <2>2
  <1>. QED
    BY <1>1, <1>2, <1>3, <1>6, <1>8, <1>9, <1>10, BalanceOn

(* AcceptEx: the thread gives its charge to the kernel.                    *)
LEMMA BalanceAcceptEx ==
    ASSUME TypeInv, SlotInv, NEW t \in Workers \cup {Heartbeat},
           AcceptEx(t), ~Fruitless(t)
    PROVE  Balanced(t)
  <1>. t \in Threads /\ t # Main /\ TypeOK /\ HasSlot(t) /\ KnowsNext(t)
    BY Distinct DEF TypeInv, Placed
  <1>1. PICK s \in Slots : s = slot[t]
    BY DEF AcceptEx, HasSlot, PostPCs
  <1>2. /\ pc[t] = "issue" /\ pc'[t] = "counted" /\ slot' = slot
        /\ io' = [io EXCEPT ![s].pending = @ + 1]
        /\ posted' = posted /\ strays' = {} /\ next' = next
        /\ owned' = owned /\ ioCount' = ioCount
    BY <1>1 DEF AcceptEx, Fruitless, TypeOK, SlotInv
  <1>3. next[t] # "done"
    BY <1>2 DEF KnowsNext
  <1>4. /\ Charge(t) /\ ~Charge(t)'
        /\ Share(t) <=> Share(t)'
        /\ Early(t) /\ ~Early(t)'
    BY <1>2, <1>3 DEF Charge, Share, Early, Handling, Posting, PostPCs
  <1>5. /\ io[s] \in [Phases -> Nat]
        /\ io'[s] = [io[s] EXCEPT !.pending = @ + 1]
        /\ \A x \in Slots \ {s} : io'[x] = io[x]
    BY <1>2 DEF TypeOK
  <1>6. Outstanding(s) = 0 /\ Outstanding(s)' = 1
    <2>1. Outstanding(s) = 0
      BY <1>1, <1>4, ChargeIsAlone
    <2>2. /\ io[s].pending \in Nat /\ io[s].accepted \in Nat
          /\ io[s].cancelled \in Nat /\ io'[s].pending = io[s].pending + 1
          /\ io'[s].accepted = io[s].accepted
          /\ io'[s].cancelled = io[s].cancelled
      BY <1>5 DEF Phases
    <2>. QED
      BY <2>1, <2>2 DEF Outstanding
  <1>7. \A x \in Slots \ {s} : Outstanding(x)' = Outstanding(x)
    BY <1>5 DEF Outstanding
  <1>8. /\ s \notin Busy /\ s \in Busy' /\ t \notin Uncounted /\ t \in Uncounted'
        /\ t \notin Arrived /\ t \notin Arrived'
    BY <1>2, <1>6 DEF Busy, Uncounted, Arrived
  <1>9. PostedBalanced(t, s)
    BY <1>2, <1>7, <1>8 DEF PostedBalanced, One, TypeOK
  <1>10. /\ Due(s)' = Due(s) + Outstanding(s)' - Outstanding(s)
                     + One(Charge(t))' - One(Charge(t))
         /\ ioCount'[s] = ioCount[s] + Outstanding(s)' - Outstanding(s)
                         + One(Share(t))' - One(Share(t))
                         + One(Early(t))' - One(Early(t))
    <2>1. Due(s)' = Due(s) /\ Due(s) \in Int /\ ioCount[s] \in Int
      BY <1>2 DEF Due, TypeOK
    <2>. QED
      BY <1>2, <1>4, <1>6, <2>1 DEF One
  <1>. QED
    BY <1>1, <1>2, <1>7, <1>9, <1>10, BalanceOn

LEMMA BalanceCount ==
    ASSUME TypeInv, SlotInv, NEW t \in Workers \cup {Heartbeat}, CountPosted(t)
    PROVE  Balanced(t)
  <1>. t \in Threads /\ t # Main /\ TypeOK /\ HasSlot(t) /\ KnowsNext(t)
    BY Distinct DEF TypeInv, Placed
  <1>1. PICK s \in Slots : s = slot[t]
    BY DEF CountPosted, HasSlot, PostPCs
  <1>2. /\ pc[t] = "counted" /\ posted' = posted + 1 /\ strays' = {}
        /\ owned' = owned /\ ioCount' = ioCount /\ io' = io /\ next' = next
    BY DEF CountPosted, SlotInv
  <1>3. /\ t = Heartbeat => pc'[t] \in {"idle", "claim"}
        /\ t # Heartbeat => pc'[t] = "drop" /\ slot' = slot
    BY DEF CountPosted, NextClaim, EndOfRefill, TypeOK
  <1>4. /\ ~Charge(t) /\ ~Charge(t)'
        /\ Share(t) <=> Share(t)'
        /\ ~Early(t) /\ ~Early(t)'
        /\ slot'[t] = s \/ Idles(t)'
    BY <1>1, <1>2, <1>3
       DEF Charge, Share, Early, Handling, Posting, PostPCs, Idles, KnowsNext
  <1>5. \A x \in Slots : /\ Outstanding(x)' = Outstanding(x)
                         /\ Outstanding(x) \in Nat
    BY <1>2, KernelKeeps, OutstandingType
  <1>6. /\ s \in Busy <=> s \in Busy'
        /\ t \in Uncounted /\ t \notin Uncounted'
        /\ t \notin Arrived /\ t \notin Arrived'
    BY <1>2, <1>3, <1>5 DEF Busy, Uncounted, Arrived
  <1>7. PostedBalanced(t, s)
    BY <1>2, <1>5, <1>6 DEF PostedBalanced, One, TypeOK
  <1>8. /\ Due(s)' = Due(s) + Outstanding(s)' - Outstanding(s)
                     + One(Charge(t))' - One(Charge(t))
        /\ ioCount'[s] = ioCount[s] + Outstanding(s)' - Outstanding(s)
                         + One(Share(t))' - One(Share(t))
                         + One(Early(t))' - One(Early(t))
    <2>1. Due(s)' = Due(s) /\ Due(s) \in Int /\ ioCount[s] \in Int
      BY <1>2 DEF Due, TypeOK
    <2>. QED
      BY <1>2, <1>4, <1>5, <2>1 DEF One
  <1>. QED
    BY <1>1, <1>2, <1>4, <1>5, <1>7, <1>8, BalanceOn

(* The thread in charge gives its slot up: it is owned, so nobody reports. *)
LEMMA BalanceRelease ==
    ASSUME TypeInv, SlotInv, NEW t \in Workers \cup {Heartbeat}, ReleaseSlot(t)
    PROVE  Balanced(t)
  <1>. t \in Threads /\ t # Main /\ TypeOK /\ HasSlot(t) /\ KnowsNext(t)
    BY Distinct DEF TypeInv, Placed
  <1>1. PICK s \in Slots : s = slot[t]
    BY DEF ReleaseSlot, HasSlot, PostPCs
  <1>2. /\ pc[t] = "vacate" /\ posted' = posted
        /\ strays' = strays \cup {x \in {s} : ~owned[x]}
        /\ owned' = [owned EXCEPT ![s] = FALSE]
        /\ ioCount' = ioCount /\ io' = io /\ next'[t] = "idle"
    BY <1>1 DEF ReleaseSlot, TypeOK
  <1>3. /\ t = Heartbeat => pc'[t] = "idle"
        /\ t # Heartbeat =>
             /\ slot' = slot
             /\ pc'[t] = IF next[t] = "done" THEN "finish" ELSE "drop"
    <2>1. CASE t = Heartbeat /\ EndOfRefill
      BY <2>1 DEF EndOfRefill, TypeOK
    <2>2. CASE ~(t = Heartbeat /\ EndOfRefill)
      <3>1. /\ t \in Workers /\ slot' = slot
            /\ Goto(t, IF next[t] = "done" THEN "finish" ELSE "drop")
        BY <2>2 DEF ReleaseSlot
      <3>. QED
        BY <3>1, Distinct, JumpsTo
    <2>. QED
      BY <2>1, <2>2
  <1>4. /\ Charge(t) /\ ~Charge(t)'
        /\ Share(t) <=> Share(t)'
        /\ ~Early(t) /\ ~Early(t)'
        /\ slot'[t] = s \/ Idles(t)'
    BY <1>1, <1>2, <1>3
       DEF Charge, Share, Early, Handling, Posting, PostPCs, Idles
  <1>5. owned[s] /\ strays' = {}
    BY <1>1, <1>2, <1>4, ChargeIsAlone DEF SlotInv
  <1>6. \A x \in Slots : /\ Outstanding(x)' = Outstanding(x)
                         /\ Outstanding(x) \in Nat
    BY <1>2, KernelKeeps, OutstandingType
  <1>7. /\ s \in Busy <=> s \in Busy'
        /\ t \notin Uncounted /\ t \notin Uncounted'
        /\ t \notin Arrived /\ t \notin Arrived'
    BY <1>2, <1>3, <1>6 DEF Busy, Uncounted, Arrived
  <1>8. PostedBalanced(t, s)
    BY <1>2, <1>6, <1>7 DEF PostedBalanced, One, TypeOK
  <1>9. Due(s)' = 0 /\ Due(s) = 1 /\ ioCount[s] \in Int
        /\ \A x \in Slots \ {s} : owned'[x] = owned[x]
    BY <1>2, <1>5 DEF Due, TypeOK
  <1>10. /\ Due(s)' = Due(s) + Outstanding(s)' - Outstanding(s)
                     + One(Charge(t))' - One(Charge(t))
         /\ ioCount'[s] = ioCount[s] + Outstanding(s)' - Outstanding(s)
                         + One(Share(t))' - One(Share(t))
                         + One(Early(t))' - One(Early(t))
    BY <1>2, <1>4, <1>6, <1>9 DEF One
  <1>. QED
    BY <1>1, <1>2, <1>4, <1>5, <1>6, <1>8, <1>9, <1>10, BalanceOn

LEMMA BalanceClaim ==
    ASSUME TypeInv, SlotInv, TryAcquireSlot, ~PassesOver
    PROVE  Balanced(Heartbeat)
  <1>. Heartbeat \in Threads /\ Heartbeat # Main /\ TypeOK
    BY Distinct DEF TypeInv
  <1>1. PICK s \in Slots : s = slot[Heartbeat]
    BY DEF TryAcquireSlot, TypeInv, Placed, HasSlot
  <1>2. /\ pc[Heartbeat] = "claim" /\ pc'[Heartbeat] = "post" /\ slot' = slot
        /\ ~owned[s] /\ owned' = [owned EXCEPT ![s] = TRUE]
        /\ posted' = posted /\ strays' = {} /\ ioCount' = ioCount /\ io' = io
    BY <1>1 DEF TryAcquireSlot, PassesOver, TypeOK, SlotInv
  <1>3. /\ ~Charge(Heartbeat) /\ Charge(Heartbeat)'
        /\ ~Share(Heartbeat) /\ ~Share(Heartbeat)'
        /\ ~Early(Heartbeat) /\ ~Early(Heartbeat)'
    BY <1>2 DEF Charge, Share, Early, Handling, Posting, PostPCs
  <1>4. \A x \in Slots : /\ Outstanding(x)' = Outstanding(x)
                         /\ Outstanding(x) \in Nat
    BY <1>2, KernelKeeps, OutstandingType
  <1>5. /\ s \in Busy <=> s \in Busy'
        /\ Heartbeat \notin Uncounted /\ Heartbeat \notin Uncounted'
        /\ Heartbeat \notin Arrived /\ Heartbeat \notin Arrived'
    BY <1>2, <1>4 DEF Busy, Uncounted, Arrived
  <1>6. PostedBalanced(Heartbeat, s)
    BY <1>2, <1>4, <1>5 DEF PostedBalanced, One, TypeOK
  <1>7. Due(s)' = 1 /\ Due(s) = 0 /\ ioCount[s] \in Int
        /\ \A x \in Slots \ {s} : owned'[x] = owned[x]
    BY <1>2 DEF Due, TypeOK
  <1>8. /\ Due(s)' = Due(s) + Outstanding(s)' - Outstanding(s)
                     + One(Charge(Heartbeat))' - One(Charge(Heartbeat))
        /\ ioCount'[s] = ioCount[s] + Outstanding(s)' - Outstanding(s)
                         + One(Share(Heartbeat))' - One(Share(Heartbeat))
                         + One(Early(Heartbeat))' - One(Early(Heartbeat))
    BY <1>2, <1>3, <1>4, <1>7 DEF One
  <1>. QED
    BY <1>1, <1>2, <1>4, <1>6, <1>7, <1>8, BalanceOn

LEMMA SlotThread ==
    ASSUME TypeInv, SlotInv, NEW t \in Workers \cup {Heartbeat}, ThreadStep(t)
    PROVE  SlotInv'
  <1>. t \in Threads
    OBVIOUS
  <1>0. TypeInv' /\ Local(t)
    BY TypeThread
  <1>1. CASE SlotsKept /\ RoleKept(t)
    BY <1>0, <1>1, LocalRoles, KeptStep
  <1>2. CASE Balanced(t)
    BY <1>0, <1>2, Balance
  <1>3. CASE PostSteps(t)
    BY <1>1, <1>2, <1>3, KeptPost, BalanceShare, BalanceAcceptEx, BalanceCount,
       BalanceRelease DEF PostSteps
  <1>4. CASE t \in Workers /\ WorkerSteps(t) /\ ~PostSteps(t)
    BY <1>1, <1>2, <1>4, KeptWorker, BalanceDequeue, BalanceHandle, BalanceShare
       DEF WorkerSteps
  <1>5. CASE t = Heartbeat /\ (RefillAcceptSlots \/ TryAcquireSlot)
    BY <1>1, <1>2, <1>5, KeptRefill, BalanceClaim
  <1>. QED
    BY <1>3, <1>4, <1>5 DEF ThreadStep, HeartbeatSteps

LEMMA SlotInit == Init => SlotInv
  <1>. SUFFICES ASSUME Init PROVE SlotInv
    OBVIOUS
  <1>1. ASSUME NEW s \in Slots
        PROVE  /\ Outstanding(s) = 1 /\ Due(s) = 1 /\ ioCount[s] = 1
               /\ Charged(s) = {} /\ Sharing(s) = {} /\ Raised(s) = {}
    <2>1. Outstanding(s) = 1
      BY DEF Init, Outstanding, Phases
    <2>2. \A t \in Threads : pc[t] \in {"idle", "running"}
      BY DEF Init
    <2>. QED
      BY <2>1, <2>2 DEF Init, Due, Charged, Sharing, Raised, Charge, Share,
         Early, Handling, Posting, PostPCs
  <1>2. Busy = Slots /\ Uncounted = {} /\ Arrived = {}
    BY <1>1 DEF Init, Busy, Uncounted, Arrived
  <1>3. posted = Cardinality(Slots) /\ strays = {}
    BY DEF Init
  <1>4. Cardinality({}) = 0 /\ Cardinality(Slots) \in Nat
    BY FS_EmptySet, SlotsNumbered
  <1>5. posted = Cardinality(Busy) - Cardinality(Uncounted) + Cardinality(Arrived)
    BY <1>2, <1>3, <1>4
  <1>6. ASSUME NEW s \in Slots
        PROVE  /\ Outstanding(s) + Cardinality(Charged(s)) = Due(s)
               /\ ioCount[s] = Outstanding(s) + Cardinality(Sharing(s))
                                              + Cardinality(Raised(s))
    BY <1>1, <1>4
  <1>. QED
    BY <1>3, <1>5, <1>6 DEF SlotInv

OwnerInv == TypeInv /\ SlotInv

LEMMA OwnerInit == Init => OwnerInv
  BY TypeInit, SlotInit DEF OwnerInv

LEMMA OwnerStep == OwnerInv /\ [Next]_vars => OwnerInv'
  <1>. SUFFICES ASSUME TypeInv, SlotInv, [Next]_vars PROVE OwnerInv'
    BY DEF OwnerInv
  <1>0. TypeInv'
    BY TypeStep
  <1>1. CASE UNCHANGED vars
    <2>1. SlotsKept
      BY <1>1, KernelKeeps DEF vars, SlotsKept
    <2>2. \A t \in Threads : RoleKept(t)
      BY <1>1 DEF vars, RoleKept, Charged, Sharing, Raised, Uncounted, Arrived,
         Charge, Share, Early
    <2>. QED
      BY <1>0, <2>1, <2>2, KeptStep DEF OwnerInv
  <1>2. CASE \E t \in Workers \cup {Heartbeat} : ThreadStep(t)
    BY <1>0, <1>2, SlotThread DEF OwnerInv
  <1>3. CASE StopServer \/ StopSteps
    BY <1>0, <1>3, KeptStop, KeptStep DEF OwnerInv
  <1>4. CASE Environment
    BY <1>0, <1>4, KeptEnvironment, KeptStep DEF OwnerInv
  <1>. QED
    BY <1>1, <1>2, <1>3, <1>4 DEF Next, ThreadStep

LEMMA OwnerMeans == OwnerInv => SlotHasOwner /\ CountsAreHeld
  BY SameInvariant DEF OwnerInv, TypeInv

(* A slot is owned exactly while an AcceptEx of it is outstanding or one   *)
(* thread is in charge of it, whatever fails and whenever the server stops *)
(* (AcceptSession::m_slotOwned, between HandleAccept and the heartbeat's   *)
(* RefillAcceptSlots).                                                     *)
THEOREM SlotOwned == Spec => []SlotHasOwner
  BY OwnerInit, OwnerStep, OwnerMeans, PTL DEF Spec

(* The I/O count of a slot, for which StopServer waits, and                *)
(* m_postedAcceptCount are what is outstanding and held, no less and no    *)
(* more.                                                                   *)
THEOREM CountsHeld == Spec => []CountsAreHeld
  BY OwnerInit, OwnerStep, OwnerMeans, PTL DEF Spec

-----------------------------------------------------------------------------
(* StopServer leaves nothing outstanding.                                  *)

(* StopServer has closed the socket of slot s; it has waited for s.        *)
Passed(s)  == \/ pc[Main] = "cancel" /\ s < slot[Main]
              \/ pc[Main] \in {"await", "listen", "stop", "ended"}
Awaited(s) == \/ pc[Main] = "await" /\ s < slot[Main]
              \/ pc[Main] \in {"listen", "stop", "ended"}

Issuing(s) == {t \in Threads : slot[t] = s /\ pc[t] \in {"wait", "issue"}}

(* An AcceptEx is pending on an open socket, so that closing it ends it.   *)
PendingIsOpen(s) == io[s].pending > 0 => socket[s]

(* A slot does not look ready from shortly before the AcceptEx to its      *)
(* completion: the wait does not pass over it.                             *)
BusyIsNotReady(s) ==
    Outstanding(s) > 0 \/ (\E t \in Threads : slot[t] = s /\ pc[t] = "issue")
        => state[s] # "ready"

(* Where the stop has passed, a thread that was too late to read the flag  *)
(* finds its socket closed; any other reads the flag.                      *)
PassedIsClosed(s) ==
    Passed(s) => io[s].pending = 0 /\ (Issuing(s) # {} => ~socket[s])

AwaitedIsDrained(s) == Awaited(s) => Outstanding(s) = 0

StopInv ==
    \A s \in Slots : /\ PendingIsOpen(s) /\ BusyIsNotReady(s)
                     /\ PassedIsClosed(s) /\ AwaitedIsDrained(s)

StopOk(s) == /\ PendingIsOpen(s) /\ BusyIsNotReady(s)
             /\ PassedIsClosed(s) /\ AwaitedIsDrained(s)

LEMMA PassedReads ==
    ASSUME TypeInv, NEW s \in Slots, Passed(s)
    PROVE  shutdown
  BY DEF Passed, TypeInv, Placed, StopInOrder, TypeOK

LEMMA IoType ==
    ASSUME TypeOK, NEW s \in Slots
    PROVE  /\ io[s].pending \in Nat /\ Outstanding(s) \in Nat
           /\ Outstanding(s) = 0 => io[s].pending = 0
  <1>1. /\ io[s].pending \in Nat /\ io[s].accepted \in Nat
        /\ io[s].cancelled \in Nat
    BY DEF TypeOK, Phases
  <1>2. ASSUME NEW p \in Nat, NEW a \in Nat, NEW c \in Nat
        PROVE  p + a + c \in Nat /\ (p + a + c = 0 => p = 0)
    OBVIOUS
  <1>3. Outstanding(s) = io[s].pending + io[s].accepted + io[s].cancelled
    BY DEF Outstanding
  <1>. QED
    BY <1>1, <1>2, <1>3

(* A thread that reads a flag not set goes on to its AcceptEx.             *)
GoesOn(t) == ~shutdown /\ pc[t] = "recheck" /\ pc'[t] = "wait"

(* A step that leaves slot x alone, but that it may take a completion.     *)
LEMMA Elsewhere ==
    ASSUME TypeInv, TypeInv', NEW t \in Workers \cup {Heartbeat}, Local(t),
           NEW x \in Slots, StopOk(x), state'[x] = state[x],
           socket'[x] = socket[x], io'[x].pending = io[x].pending,
           Outstanding(x)' <= Outstanding(x),
           slot'[t] = x /\ pc'[t] \in {"wait", "issue"} => GoesOn(t)
    PROVE  StopOk(x)'
  <1>. t \in Threads /\ Main \in Threads /\ t # Main
    BY Distinct
  <1>0. /\ \A u \in Threads \ {t} : pc'[u] = pc[u] /\ slot'[u] = slot[u]
        /\ Passed(x)' <=> Passed(x)
        /\ Awaited(x)' <=> Awaited(x)
    BY DEF Local, Passed, Awaited
  <1>1. Outstanding(x) \in Nat /\ Outstanding(x)' \in Nat
    BY IoType, OutstandingType DEF TypeInv, Outstanding, TypeOK, Phases
  <1>2. PendingIsOpen(x)'
    BY DEF StopOk, PendingIsOpen
  <1>3. BusyIsNotReady(x)'
    <2>1. Outstanding(x)' > 0 => Outstanding(x) > 0
      BY <1>1
    <2>2. ASSUME NEW u \in Threads, slot'[u] = x, pc'[u] = "issue"
          PROVE  slot[u] = x /\ pc[u] = "issue"
      BY <1>0, <2>2 DEF GoesOn
    <2>. QED
      BY <2>1, <2>2 DEF StopOk, BusyIsNotReady
  <1>4. PassedIsClosed(x)'
    <2>1. Passed(x) => Issuing(x)' \subseteq Issuing(x)
      BY <1>0, PassedReads DEF GoesOn, Issuing
    <2>. QED
      BY <1>0, <2>1 DEF StopOk, PassedIsClosed
  <1>5. AwaitedIsDrained(x)'
    BY <1>0, <1>1 DEF StopOk, AwaitedIsDrained
  <1>. QED
    BY <1>2, <1>3, <1>4, <1>5 DEF StopOk

(* The kinds of step of a thread.                                          *)
Bystands(t) ==
    /\ state' = state /\ socket' = socket
    /\ \A x \in Slots : /\ io'[x].pending = io[x].pending
                        /\ Outstanding(x)' <= Outstanding(x)
    /\ pc'[t] \in {"wait", "issue"} => GoesOn(t)

OnlyOn(s) == \A x \in Slots \ {s} : /\ state'[x] = state[x]
                                    /\ socket'[x] = socket[x] /\ io'[x] = io[x]

WritesOn(t, s) ==
    /\ s = slot[t] /\ Charge(t) /\ slot' = slot /\ OnlyOn(s)
    /\ Outstanding(s)' = Outstanding(s)
    /\ pc'[t] \notin {"wait", "issue"}

Announces(t, s) ==
    /\ s = slot[t] /\ slot' = slot /\ pc[t] = "wait" /\ pc'[t] = "issue"
    /\ state'[s] = "wait" /\ OnlyOn(s) /\ socket' = socket /\ io' = io

Accepts(t, s) ==
    /\ s = slot[t] /\ slot' = slot /\ pc[t] = "issue" /\ pc'[t] = "counted"
    /\ socket[s] /\ socket' = socket /\ state' = state /\ OnlyOn(s)

LEMMA KindOfWorker ==
    ASSUME TypeInv, NEW w \in Workers, WorkerSteps(w), ~PostSteps(w)
    PROVE  Bystands(w) \/ \E s \in Slots : WritesOn(w, s)
  <1>. w \in Threads /\ w # Heartbeat /\ w # Main /\ TypeOK /\ HasSlot(w)
    BY Distinct DEF TypeInv, Placed
  <1>1. CASE CheckAddress(w) \/ CheckFull(w) \/ Acquire(w) \/ DecrementIO(w)
             \/ Finish(w)
    <2>1. state' = state /\ socket' = socket /\ io' = io
      BY <1>1 DEF CheckAddress, CheckFull, Acquire, DecrementIO, Finish
    <2>2. pc'[w] \notin {"wait", "issue"}
      BY <1>1 DEF CheckAddress, CheckFull, Acquire, DecrementIO, Finish, TypeOK
    <2>3. \A x \in Slots : Outstanding(x)' <= Outstanding(x)
      BY <2>1, KernelKeeps, IoType
    <2>. QED
      BY <2>1, <2>2, <2>3 DEF Bystands
  <1>2. CASE Dequeue(w)
    <2>1. PICK s \in Slots, phase \in {"accepted", "cancelled"} :
             /\ io[s][phase] > 0
             /\ io' = [io EXCEPT ![s][phase] = @ - 1]
             /\ pc' = [pc EXCEPT ![w] = phase]
      BY <1>2 DEF Dequeue
    <2>2. state' = state /\ socket' = socket /\ pc'[w] \notin {"wait", "issue"}
      BY <1>2, <2>1 DEF Dequeue, TypeOK
    <2>3. ASSUME NEW x \in Slots
          PROVE  io'[x].pending = io[x].pending
                 /\ Outstanding(x)' <= Outstanding(x)
      <3>1. CASE x # s
        <4>1. io'[x] = io[x]
          BY <2>1, <3>1 DEF TypeOK
        <4>. QED
          BY <4>1, IoType DEF Outstanding
      <3>2. CASE x = s
        <4>1. /\ io[s] \in [Phases -> Nat]
              /\ io'[s] = [io[s] EXCEPT ![phase] = @ - 1]
          BY <2>1 DEF TypeOK
        <4>2. /\ io[s].pending \in Nat /\ io[s].accepted \in Nat
              /\ io[s].cancelled \in Nat /\ io'[s].pending = io[s].pending
              /\ io'[s].accepted = io[s].accepted - One(phase = "accepted")
              /\ io'[s].cancelled = io[s].cancelled - One(phase = "cancelled")
          BY <4>1 DEF Phases, One
        <4>. QED
          BY <3>2, <4>2 DEF Outstanding, One
      <3>. QED
        BY <3>1, <3>2
    <2>. QED
      BY <2>2, <2>3 DEF Bystands
  <1>3. CASE HandleAcceptIOCancelled(w) \/ HandleAccept(w) \/ Refuse(w)
             \/ Attach(w) \/ Bail(w) \/ ResetSession(w)
    <2>1. /\ pc[w] \in {"cancelled", "accepted", "refuse", "attach", "bail",
                        "bailReset"}
          /\ slot' = slot
          /\ pc'[w] \notin {"wait", "issue"}
      BY <1>3 DEF HandleAcceptIOCancelled, HandleAccept, Refuse, Attach, Bail,
         ResetSession, TypeOK
    <2>2. PICK s \in Slots : s = slot[w]
      BY <2>1 DEF HasSlot, WorkerPCs
    <2>3. Charge(w)
      BY <2>1 DEF Charge, Handling
    <2>4. DetachSocket(s) \/ io' = io
      BY <1>3, <2>2 DEF HandleAcceptIOCancelled, HandleAccept, Refuse, Attach,
         Bail, ResetSession
    <2>5. \A x \in Slots : /\ Outstanding(x)' = Outstanding(x)
                           /\ x # s => io'[x] = io[x]
      BY <2>4, DetachKeeps, KernelKeeps
    <2>6. \A x \in Slots \ {s} : socket'[x] = socket[x]
      BY <1>3, <2>2 DEF HandleAcceptIOCancelled, HandleAccept, Refuse, Attach,
         Bail, ResetSession, DetachSocket, TypeOK
    <2>7. \A x \in Slots \ {s} : state'[x] = state[x]
      BY <1>3, <2>2 DEF HandleAcceptIOCancelled, HandleAccept, Refuse, Attach,
         Bail, ResetSession, OnDisconnect, TypeOK
    <2>. QED
      BY <2>1, <2>2, <2>3, <2>5, <2>6, <2>7 DEF WritesOn, OnlyOn
  <1>. QED
    BY <1>1, <1>2, <1>3 DEF WorkerSteps

LEMMA KindOfPost ==
    ASSUME TypeInv, NEW t \in Workers \cup {Heartbeat}, PostSteps(t)
    PROVE  \/ Bystands(t)
           \/ \E s \in Slots : WritesOn(t, s) \/ Announces(t, s) \/ Accepts(t, s)
  <1>. t \in Threads /\ t # Main /\ TypeOK /\ HasSlot(t)
    BY Distinct DEF TypeInv, Placed
  <1>1. CASE PostAccept(t) \/ IncrementIO(t) \/ Lower(t) \/ CountPosted(t)
             \/ ReleaseSlot(t) \/ RecheckShutdown(t) \/ Fruitless(t)
    <2>1. state' = state /\ socket' = socket /\ io' = io
      BY <1>1 DEF PostAccept, IncrementIO, Lower, CountPosted, ReleaseSlot,
         RecheckShutdown, Fruitless, AcceptEx
    <2>2. pc'[t] \in {"wait", "issue"} => GoesOn(t)
      <3>1. CASE PostAccept(t) \/ IncrementIO(t) \/ Lower(t)
        BY <3>1 DEF PostAccept, IncrementIO, Lower, TypeOK
      <3>2. CASE CountPosted(t)
        BY <3>2 DEF CountPosted, NextClaim, EndOfRefill, TypeOK
      <3>3. CASE ReleaseSlot(t)
        BY <3>3 DEF ReleaseSlot, EndOfRefill, TypeOK
      <3>4. CASE RecheckShutdown(t)
        BY <3>4 DEF RecheckShutdown, GoesOn, TypeOK
      <3>5. CASE Fruitless(t)
        BY <3>5 DEF Fruitless, AcceptEx, TypeOK
      <3>. QED
        BY <1>1, <3>1, <3>2, <3>3, <3>4, <3>5
    <2>3. \A x \in Slots : Outstanding(x)' <= Outstanding(x)
      BY <2>1, KernelKeeps, IoType
    <2>. QED
      BY <2>1, <2>2, <2>3 DEF Bystands
  <1>2. CASE ResetForRepost(t) \/ Decline(t) \/ CreateSocket(t) \/ Abort(t)
    <2>1. /\ pc[t] \in {"reset", "withdraw", "decline", "create", "abort"}
          /\ slot' = slot
          /\ pc'[t] \notin {"wait", "issue"}
      BY <1>2 DEF ResetForRepost, Decline, CreateSocket, Abort, TypeOK
    <2>2. PICK s \in Slots : s = slot[t]
      BY <2>1 DEF HasSlot, WorkerPCs, PostPCs
    <2>3. Charge(t)
      BY <2>1 DEF Charge, Handling, Posting, PostPCs
    <2>4. DetachSocket(s) \/ io' = io
      BY <1>2, <2>2 DEF ResetForRepost, Decline, CreateSocket, Abort
    <2>5. \A x \in Slots : /\ Outstanding(x)' = Outstanding(x)
                           /\ x # s => io'[x] = io[x]
      BY <2>4, DetachKeeps, KernelKeeps
    <2>6. \A x \in Slots \ {s} : socket'[x] = socket[x]
      BY <1>2, <2>2 DEF ResetForRepost, Decline, CreateSocket, Abort,
         DetachSocket, TypeOK
    <2>7. \A x \in Slots \ {s} : state'[x] = state[x]
      BY <1>2, <2>2 DEF ResetForRepost, Decline, CreateSocket, Abort,
         OnDisconnect, TypeOK
    <2>. QED
      BY <2>1, <2>2, <2>3, <2>5, <2>6, <2>7 DEF WritesOn, OnlyOn
  <1>3. CASE SetStateWait(t)
    <2>1. PICK s \in Slots : s = slot[t]
      BY <1>3 DEF SetStateWait, HasSlot, PostPCs
    <2>. QED
      BY <1>3, <2>1 DEF SetStateWait, Announces, OnlyOn, TypeOK
  <1>4. CASE AcceptEx(t) /\ ~Fruitless(t)
    <2>1. PICK s \in Slots : s = slot[t]
      BY <1>4 DEF AcceptEx, HasSlot, PostPCs
    <2>2. /\ pc[t] = "issue" /\ pc'[t] = "counted" /\ slot' = slot
          /\ socket[s] /\ socket' = socket /\ state' = state
          /\ io' = [io EXCEPT ![s].pending = @ + 1]
      BY <1>4, <2>1 DEF AcceptEx, Fruitless, TypeOK
    <2>3. \A x \in Slots \ {s} : io'[x] = io[x]
      BY <2>2 DEF TypeOK
    <2>. QED
      BY <2>1, <2>2, <2>3 DEF Accepts, OnlyOn
  <1>. QED
    BY <1>1, <1>2, <1>3, <1>4 DEF PostSteps

LEMMA KindOfRefill ==
    ASSUME TypeInv, RefillAcceptSlots \/ TryAcquireSlot
    PROVE  Bystands(Heartbeat)
  <1>. Heartbeat \in Threads /\ TypeOK
    BY DEF TypeInv
  <1>1. state' = state /\ socket' = socket /\ io' = io
    BY DEF RefillAcceptSlots, TryAcquireSlot
  <1>2. pc'[Heartbeat] \notin {"wait", "issue"}
    BY DEF RefillAcceptSlots, TryAcquireSlot, NextClaim, EndOfRefill, TypeOK
  <1>3. \A x \in Slots : Outstanding(x)' <= Outstanding(x)
    BY <1>1, KernelKeeps, IoType
  <1>. QED
    BY <1>1, <1>2, <1>3 DEF Bystands

LEMMA StopThread ==
    ASSUME OwnerInv, OwnerInv', StopInv, NEW t \in Workers \cup {Heartbeat},
           ThreadStep(t)
    PROVE  StopInv'
  <1>. /\ TypeInv /\ TypeInv' /\ SlotInv /\ TypeOK /\ TypeOK'
       /\ t \in Threads /\ t # Main /\ Main \in Threads
    BY Distinct DEF OwnerInv, TypeInv
  <1>0. Local(t) /\ pc'[Main] = pc[Main] /\ slot'[Main] = slot[Main]
    BY TypeThread DEF Local
  <1>. \A x \in Slots : StopOk(x)
    BY DEF StopInv, StopOk
  <1>1. CASE Bystands(t)
    <2>1. ASSUME NEW x \in Slots PROVE StopOk(x)'
      BY <1>0, <1>1, Elsewhere DEF Bystands
    <2>. QED
      BY <2>1 DEF StopInv, StopOk
  <1>2. ASSUME NEW s \in Slots, slot[t] = s, slot' = slot, OnlyOn(s),
               StopOk(s)'
        PROVE  StopInv'
    <2>1. ASSUME NEW x \in Slots, x # s PROVE StopOk(x)'
      <3>1. /\ state'[x] = state[x] /\ socket'[x] = socket[x]
            /\ io'[x] = io[x] /\ slot'[t] # x
        BY <1>2, <2>1 DEF OnlyOn
      <3>2. Outstanding(x)' <= Outstanding(x)
        BY <3>1, IoType DEF Outstanding
      <3>. QED
        BY <1>0, <3>1, <3>2, Elsewhere
    <2>. QED
      BY <1>2, <2>1 DEF StopInv, StopOk
  <1>3. ASSUME NEW s \in Slots, WritesOn(t, s) PROVE StopInv'
    <2>1. /\ Outstanding(s) = 0 /\ Outstanding(s)' = 0 /\ io'[s].pending = 0
          /\ \A u \in Threads \ {t} : ~(slot[u] = s /\ Charge(u))
      <3>1. /\ Outstanding(s) = 0 /\ Outstanding(s)' = 0
            /\ \A u \in Threads \ {t} : ~(slot[u] = s /\ Charge(u))
        BY <1>3, ChargeIsAlone DEF WritesOn
      <3>2. /\ io'[s].pending \in Nat /\ io'[s].accepted \in Nat
            /\ io'[s].cancelled \in Nat
        BY DEF TypeOK, Phases
      <3>3. io'[s].pending + io'[s].accepted + io'[s].cancelled = 0
        BY <3>1 DEF Outstanding
      <3>4. io'[s].pending = 0
        BY <3>2, <3>3
      <3>. QED
        BY <3>1, <3>4
    <2>2. ASSUME NEW u \in Threads, slot'[u] = s
          PROVE  pc'[u] \notin {"wait", "issue"}
      <3>1. CASE u = t
        BY <1>3, <3>1 DEF WritesOn
      <3>2. CASE u # t
        <4>1. pc'[u] = pc[u] /\ slot[u] = s
          BY <1>0, <2>2, <3>2 DEF Local
        <4>. QED
          BY <2>1, <3>2, <4>1 DEF Charge, Posting, PostPCs
      <3>. QED
        BY <3>1, <3>2
    <2>3. StopOk(s)'
      BY <2>1, <2>2 DEF StopOk, PendingIsOpen, BusyIsNotReady, PassedIsClosed,
         AwaitedIsDrained, Issuing
    <2>. QED
      BY <1>2, <1>3, <2>3 DEF WritesOn
  <1>4. ASSUME NEW s \in Slots, Announces(t, s) PROVE StopInv'
    <2>1. Charge(t)
      BY <1>4 DEF Announces, Charge, Posting, PostPCs
    <2>2. /\ Outstanding(s) = 0 /\ Outstanding(s)' = 0 /\ io'[s].pending = 0
      BY <1>4, <2>1, ChargeIsAlone, IoType, KernelKeeps DEF Announces
    <2>3. Passed(s)' => ~socket'[s]
      BY <1>0, <1>4 DEF Passed, StopOk, PassedIsClosed, Issuing, Announces
    <2>4. StopOk(s)'
      BY <1>4, <2>2, <2>3 DEF StopOk, PendingIsOpen, BusyIsNotReady,
         PassedIsClosed, AwaitedIsDrained, Announces
    <2>. QED
      BY <1>2, <1>4, <2>4 DEF Announces
  <1>5. ASSUME NEW s \in Slots, Accepts(t, s) PROVE StopInv'
    <2>1. ~Passed(s)' /\ ~Awaited(s)'
      <3>1. ~Passed(s)
        BY <1>5 DEF Accepts, StopOk, PassedIsClosed, Issuing
      <3>. QED
        BY <1>0, <3>1 DEF Passed, Awaited
    <2>2. state'[s] # "ready" /\ socket'[s]
      BY <1>5 DEF Accepts, StopOk, BusyIsNotReady
    <2>3. StopOk(s)'
      BY <2>1, <2>2 DEF StopOk, PendingIsOpen, BusyIsNotReady, PassedIsClosed,
         AwaitedIsDrained
    <2>. QED
      BY <1>2, <1>5, <2>3 DEF Accepts
  <1>6. CASE PostSteps(t)
    BY <1>1, <1>3, <1>4, <1>5, <1>6, KindOfPost
  <1>7. CASE t \in Workers /\ WorkerSteps(t) /\ ~PostSteps(t)
    BY <1>1, <1>3, <1>7, KindOfWorker
  <1>8. CASE t = Heartbeat /\ (RefillAcceptSlots \/ TryAcquireSlot)
    BY <1>1, <1>8, KindOfRefill
  <1>. QED
    BY <1>6, <1>7, <1>8 DEF ThreadStep, HeartbeatSteps

(* A step after which no thread is nearer to an AcceptEx, and what is      *)
(* outstanding is still so.                                                *)
LEMMA StopAdvances ==
    ASSUME TypeInv, TypeInv', NEW x \in Slots, StopOk(x),
           \A t \in Threads \ {Main} :
              slot'[t] = x /\ pc'[t] \in {"wait", "issue"}
                 => slot[t] = slot'[t] /\ pc[t] = pc'[t],
           Outstanding(x)' = Outstanding(x),
           socket'[x] => socket[x],
           \/ io'[x].pending = 0
           \/ io'[x].pending <= io[x].pending /\ socket'[x] = socket[x],
           \/ state'[x] = state[x]
           \/ Outstanding(x) = 0 /\ Raised(x) = {},
           Passed(x)' => \/ Passed(x)
                         \/ io'[x].pending = 0 /\ ~socket'[x],
           Awaited(x)' => Awaited(x) \/ Outstanding(x) = 0
    PROVE  StopOk(x)'
  <1>. /\ TypeOK /\ TypeOK' /\ Main \in Threads
       /\ pc[Main] \in StopPCs /\ pc'[Main] \in StopPCs
    BY DEF TypeInv, Placed, AtHome
  <1>1. ASSUME NEW t \in Threads, slot'[t] = x, pc'[t] \in {"wait", "issue"}
        PROVE  t # Main /\ slot[t] = x /\ pc[t] = pc'[t]
    BY <1>1 DEF StopPCs
  <1>2. /\ io[x].pending \in Nat /\ io'[x].pending \in Nat
    BY DEF TypeOK, Phases
  <1>3. PendingIsOpen(x)'
    BY <1>2 DEF StopOk, PendingIsOpen
  <1>4. BusyIsNotReady(x)'
    <2>1. \A t \in Threads : slot[t] = x /\ pc[t] = "issue" => t \in Raised(x)
      BY DEF Raised, Early
    <2>. QED
      BY <1>1, <2>1, IoType DEF StopOk, BusyIsNotReady
  <1>5. PassedIsClosed(x)'
    <2>1. Issuing(x)' \subseteq Issuing(x)
      BY <1>1 DEF Issuing
    <2>2. CASE ~Passed(x)' \/ (io'[x].pending = 0 /\ ~socket'[x])
      BY <2>2 DEF PassedIsClosed
    <2>3. CASE Passed(x)
      <3>1. io[x].pending = 0
        BY <2>3 DEF StopOk, PassedIsClosed
      <3>2. io'[x].pending = 0
        BY <1>2, <3>1
      <3>3. Issuing(x)' # {} => ~socket'[x]
        BY <2>1, <2>3 DEF StopOk, PassedIsClosed
      <3>. QED
        BY <3>2, <3>3 DEF PassedIsClosed
    <2>. QED
      BY <2>2, <2>3
  <1>6. AwaitedIsDrained(x)'
    BY DEF StopOk, AwaitedIsDrained
  <1>. QED
    BY <1>3, <1>4, <1>5, <1>6 DEF StopOk

LEMMA StopEnvironment ==
    ASSUME OwnerInv, OwnerInv', StopInv, Environment
    PROVE  StopInv'
  <1>. /\ TypeInv /\ TypeInv' /\ SlotInv /\ TypeOK
    BY DEF OwnerInv, TypeInv
  <1>1. /\ pc' = pc /\ slot' = slot /\ socket' = socket /\ state' = state
    BY DEF Environment, PeerConnects, AcceptFails, SessionEnds
  <1>2. \A x \in Slots : Outstanding(x)' = Outstanding(x)
    BY KeptEnvironment DEF SlotsKept
  <1>3. ASSUME NEW x \in Slots PROVE io'[x].pending <= io[x].pending
    <2>1. CASE io' = io
      BY <2>1, IoType
    <2>2. ASSUME NEW s \in Slots, NEW p \in {"accepted", "cancelled"},
                 io' = [io EXCEPT ![s]["pending"] = @ - 1, ![s][p] = @ + 1]
          PROVE  io'[x].pending <= io[x].pending
      <3>1. CASE x # s
        BY <2>2, <3>1, IoType DEF TypeOK
      <3>2. CASE x = s
        <4>1. /\ io[s] \in [Phases -> Nat] /\ io[s].pending \in Nat
              /\ io'[s].pending = io[s].pending - 1
          BY <2>2 DEF TypeOK, Phases
        <4>. QED
          BY <3>2, <4>1
      <3>. QED
        BY <3>1, <3>2
    <2>. QED
      BY <2>1, <2>2
         DEF Environment, PeerConnects, AcceptFails, SessionEnds, Moved
  <1>4. ASSUME NEW x \in Slots PROVE StopOk(x)'
    <2>1. /\ Passed(x)' <=> Passed(x)
          /\ Awaited(x)' <=> Awaited(x)
          /\ StopOk(x)
      BY <1>1 DEF Passed, Awaited, StopInv, StopOk
    <2>. QED
      BY <1>1, <1>2, <1>3, <2>1, StopAdvances
  <1>. QED
    BY <1>4 DEF StopInv, StopOk

LEMMA StopMain ==
    ASSUME OwnerInv, OwnerInv', StopInv, StopServer \/ StopSteps
    PROVE  StopInv'
  <1>. /\ TypeInv /\ TypeInv' /\ SlotInv /\ TypeOK /\ Main \in Threads
       /\ Heartbeat \in Threads /\ Heartbeat # Main /\ Main \notin Workers
    BY Distinct DEF OwnerInv, TypeInv
  <1>0. \A x \in Slots : StopOk(x) /\ Outstanding(x)' = Outstanding(x)
    BY KeptStop DEF StopInv, StopOk, SlotsKept
  <1>1. ASSUME NEW t \in Threads \ {Main}, pc'[t] \in {"wait", "issue"}
        PROVE  slot[t] = slot'[t] /\ pc[t] = pc'[t]
    BY <1>1 DEF StopServer, StopSteps, JoinHeartbeat, RequestAcceptIOCancel,
       AwaitAcceptIOCancel, NextOfMain, CloseListenSocket, JoinWorkers, TypeOK
  <1>2. CASE StopServer \/ JoinHeartbeat
    <2>1. /\ socket' = socket /\ io' = io /\ state' = state
      BY <1>2 DEF StopServer, JoinHeartbeat
    <2>2. \/ pc'[Main] = "join"
          \/ pc'[Main] = "cancel" /\ slot'[Main] = 1
      BY <1>2 DEF StopServer, JoinHeartbeat, TypeOK
    <2>3. ASSUME NEW x \in Slots PROVE StopOk(x)'
      <3>1. ~(x < 1)
        BY SlotsNumbered
      <3>2. ~Passed(x)' /\ ~Awaited(x)'
        BY <2>2, <3>1 DEF Passed, Awaited
      <3>3. io'[x].pending <= io[x].pending
        BY <2>1, IoType
      <3>. QED
        BY <1>0, <1>1, <2>1, <3>2, <3>3, StopAdvances
    <2>. QED
      BY <2>3 DEF StopInv, StopOk
  <1>3. CASE RequestAcceptIOCancel
    <2>1. PICK s \in Slots : s = slot[Main]
      BY <1>3 DEF RequestAcceptIOCancel, TypeInv, Placed, HasSlot
    <2>2. /\ pc[Main] = "cancel" /\ state' = state
          /\ IF socket[s] THEN DetachSocket(s) ELSE socket' = socket /\ io' = io
      BY <1>3, <2>1 DEF RequestAcceptIOCancel
    <2>3. /\ s = Cardinality(Slots) => pc'[Main] = "await" /\ slot'[Main] = 1
          /\ s # Cardinality(Slots) => pc'[Main] = "cancel"
                                       /\ slot'[Main] = s + 1
      BY <1>3, <2>1 DEF RequestAcceptIOCancel, NextOfMain, TypeOK
    <2>4. ~socket'[s] /\ io'[s].pending = 0
      <3>1. CASE socket[s]
        BY <2>2, <3>1, DetachKeeps DEF DetachSocket, TypeOK
      <3>2. CASE ~socket[s]
        BY <1>0, <2>2, <3>2, IoType DEF StopOk, PendingIsOpen
      <3>. QED
        BY <3>1, <3>2
    <2>5. \A x \in Slots \ {s} : socket'[x] = socket[x] /\ io'[x] = io[x]
      BY <2>2, DetachKeeps DEF DetachSocket, TypeOK
    <2>6. ASSUME NEW x \in Slots PROVE StopOk(x)'
      <3>1. /\ x \in Nat /\ s \in Nat /\ ~(x < 1)
            /\ Cardinality(Slots) \in Nat /\ x <= Cardinality(Slots)
        BY SlotsNumbered
      <3>2. ~Awaited(x)'
        BY <2>3, <3>1 DEF Awaited
      <3>3. Passed(x)' => Passed(x) \/ x = s
        BY <2>1, <2>2, <2>3, <3>1 DEF Passed
      <3>4. \/ io'[x].pending = 0
            \/ io'[x].pending <= io[x].pending /\ socket'[x] = socket[x]
        BY <2>4, <2>5, IoType
      <3>. QED
        BY <1>0, <1>1, <2>2, <2>4, <2>5, <3>2, <3>3, <3>4, StopAdvances
    <2>. QED
      BY <2>6 DEF StopInv, StopOk
  <1>4. CASE AwaitAcceptIOCancel
    <2>1. PICK s \in Slots : s = slot[Main]
      BY <1>4 DEF AwaitAcceptIOCancel, TypeInv, Placed, HasSlot
    <2>2. /\ pc[Main] = "await" /\ socket' = socket /\ io' = io
          /\ state[s] = "ready" \/ ioCount[s] = 0
          /\ state' = [state EXCEPT ![s] = "ready"]
      BY <1>4, <2>1 DEF AwaitAcceptIOCancel
    <2>3. /\ s = Cardinality(Slots) => pc'[Main] = "listen"
          /\ s # Cardinality(Slots) => pc'[Main] = "await"
                                       /\ slot'[Main] = s + 1
      BY <1>4, <2>1 DEF AwaitAcceptIOCancel, NextOfMain, TypeOK
    <2>4. ioCount[s] = 0 => Outstanding(s) = 0 /\ Raised(s) = {}
      <3>1. /\ Outstanding(s) \in Nat /\ Cardinality(Sharing(s)) \in Nat
            /\ Cardinality(Raised(s)) \in Nat /\ IsFiniteSet(Raised(s))
        BY IoType, CountType, ThreadsFinite, FS_Subset DEF Sharing, Raised
      <3>2. ioCount[s] = Outstanding(s) + Cardinality(Sharing(s))
                                        + Cardinality(Raised(s))
        BY DEF SlotInv
      <3>3. ioCount[s] = 0 => Outstanding(s) = 0 /\ Cardinality(Raised(s)) = 0
        BY <3>1, <3>2
      <3>. QED
        BY <3>1, <3>3, FS_EmptySet
    <2>5. Outstanding(s) = 0
      BY <1>0, <2>2, <2>4, IoType DEF StopOk, BusyIsNotReady
    <2>6. ASSUME NEW x \in Slots PROVE StopOk(x)'
      <3>1. /\ x \in Nat /\ s \in Nat
            /\ Cardinality(Slots) \in Nat /\ x <= Cardinality(Slots)
        BY SlotsNumbered
      <3>2. Awaited(x)' => Awaited(x) \/ x = s
        BY <2>1, <2>2, <2>3, <3>1 DEF Awaited
      <3>3. Passed(x)
        BY <2>2 DEF Passed
      <3>4. \/ state'[x] = state[x]
            \/ Outstanding(x) = 0 /\ Raised(x) = {}
        BY <2>2, <2>4 DEF TypeOK
      <3>5. io'[x].pending <= io[x].pending
        BY <2>2, IoType
      <3>. QED
        BY <1>0, <1>1, <2>2, <2>5, <3>2, <3>3, <3>4, <3>5, StopAdvances
    <2>. QED
      BY <2>6 DEF StopInv, StopOk
  <1>5. CASE CloseListenSocket \/ JoinWorkers
    <2>1. /\ socket' = socket /\ state' = state
          /\ pc[Main] \in {"listen", "stop"}
      BY <1>5 DEF CloseListenSocket, JoinWorkers
    <2>2. ASSUME NEW x \in Slots PROVE StopOk(x)'
      <3>1. Passed(x) /\ Awaited(x)
        BY <2>1 DEF Passed, Awaited
      <3>2. \/ io'[x].pending = 0
            \/ io'[x].pending <= io[x].pending /\ socket'[x] = socket[x]
        <4>1. CASE CloseListenSocket
          <5>1. io'[x] = [io[x] EXCEPT !.cancelled = @ + io[x].pending,
                                       !.pending = 0]
            BY <4>1 DEF CloseListenSocket
          <5>2. io[x] \in [Phases -> Nat]
            BY DEF TypeOK
          <5>. QED
            BY <5>1, <5>2 DEF Phases
        <4>2. CASE JoinWorkers
          <5>1. io' = io
            BY <4>2 DEF JoinWorkers
          <5>. QED
            BY <5>1, <2>1, IoType
        <4>. QED
          BY <1>5, <4>1, <4>2
      <3>. QED
        BY <1>0, <1>1, <2>1, <3>1, <3>2, StopAdvances
    <2>. QED
      BY <2>2 DEF StopInv, StopOk
  <1>. QED
    BY <1>2, <1>3, <1>4, <1>5 DEF StopSteps

LEMMA StopInit == Init => StopInv
  <1>. SUFFICES ASSUME Init, NEW s \in Slots PROVE StopOk(s)
    BY DEF StopInv, StopOk
  <1>. Main \in Threads
    OBVIOUS
  <1>1. pc[Main] = "running" /\ socket[s] /\ state[s] = "wait"
    BY DEF Init
  <1>. QED
    BY <1>1 DEF StopOk, PendingIsOpen, BusyIsNotReady, PassedIsClosed,
       AwaitedIsDrained, Passed, Awaited

SafeInv == OwnerInv /\ StopInv

LEMMA SafeStep == SafeInv /\ [Next]_vars => SafeInv'
  <1>. SUFFICES ASSUME OwnerInv, StopInv, [Next]_vars PROVE SafeInv'
    BY DEF SafeInv
  <1>0. OwnerInv'
    BY OwnerStep
  <1>1. CASE UNCHANGED vars
    BY <1>0, <1>1 DEF SafeInv, vars, StopInv, PendingIsOpen, BusyIsNotReady,
       PassedIsClosed, AwaitedIsDrained, Passed, Awaited, Issuing, Outstanding
  <1>2. CASE \E t \in Workers \cup {Heartbeat} : ThreadStep(t)
    BY <1>0, <1>2, StopThread DEF SafeInv
  <1>3. CASE StopServer \/ StopSteps
    BY <1>0, <1>3, StopMain DEF SafeInv
  <1>4. CASE Environment
    BY <1>0, <1>4, StopEnvironment DEF SafeInv
  <1>. QED
    BY <1>1, <1>2, <1>3, <1>4 DEF Next, ThreadStep

(* Once StopServer has waited, no AcceptEx is outstanding: neither one     *)
(* that was posted across the stop, nor one on a slot that the wait passed *)
(* over because it looked ready (WaitForAllAcceptIOCancelComplete).        *)
THEOREM NoneAfterStop == Spec => []NoAcceptAfterStop
  <1>1. Init => SafeInv
    BY OwnerInit, StopInit DEF SafeInv
  <1>2. SafeInv => NoAcceptAfterStop
    BY DEF SafeInv, StopInv, AwaitedIsDrained, Awaited, NoAcceptAfterStop
  <1>. QED
    BY <1>1, <1>2, SafeStep, PTL DEF Spec
================================================================================
