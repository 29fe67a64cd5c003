-------------------------- MODULE ReceiveFlowProofs --------------------------
(* Proofs about ReceiveFlow: the count of a session is what is held, one   *)
(* thread or the ready queue has it in hand, one receive of it is posted,  *)
(* and its jobs run in the order their packets came.                       *)
EXTENDS ReceiveFlow, FiniteSetTheorems, TLAPS

-----------------------------------------------------------------------------
(* The stack of a thread fits the step it is at.                           *)

Then(r, q) == <<r>> \o q

Posters == Workers \cup JobWorkers

(* Below a resume: the handler that paused, or nothing.                    *)
Base(t) == IF t \in Workers THEN Then("finish", <<>>) ELSE <<>>

(* What goes on below a receive that was not posted, ...                   *)
BelowNotPosted(t, q) ==
    \/ t \in Posters /\ q = Then("resumeFailed", Base(t))
    \/ t \in Workers /\ q = Then("recvNotPosted", <<>>)

(* ... below an UndoIO, ...                                                *)
BelowUndo(t, q) ==
    \/ BelowNotPosted(t, q)
    \/ t \in Workers /\ q = Then("finish", <<>>)

(* ... below a Release, ...                                                *)
BelowRelease(t, q) ==
    \/ /\ t \in Posters
       /\ \/ q = Then("undoIO", Then("resumeFailed", Base(t)))
          \/ q = Then("dropPause", Base(t))
    \/ /\ t \in Workers
       /\ \/ q = Then("undoIO", Then("recvNotPosted", <<>>))
          \/ q = Then("finish", <<>>)
    \/ t \in JobWorkers /\ q = Then("drain", <<>>)
    \/ t \in Closers /\ q = <<>>

(* ... and below the drop of a pause by the cancel in it.                  *)
BelowDrop(t, q) == q = Then("reserve", Tail(q)) /\ BelowRelease(t, Tail(q))

InReleasePcs == {"release", "cancel", "cancelIoEx", "dropUnposted", "reserve",
                 "readCount", "claim"}
PostPcs      == {"connected", "begin", "gate", "issue"}
LastPcs      == {"token", "complete", "reset"}

Fits(t) ==
    /\ pc[t] = "idle" => stack[t] = <<>>
    /\ pc[t] \in HandlerPcs => t \in Workers /\ stack[t] = <<>>
    /\ pc[t] \in WorkerPcs => t \in JobWorkers /\ stack[t] = <<>>
    /\ pc[t] \in ResumePcs => t \in Posters /\ stack[t] = Base(t)
    /\ pc[t] \in PostPcs /\ post[t] = "next" =>
         t \in Workers /\ stack[t] = <<>>
    /\ pc[t] \in PostPcs /\ post[t] = "resume" =>
         t \in Posters /\ stack[t] = Base(t)
    /\ pc[t] = "undoIO" => BelowUndo(t, stack[t])
    /\ pc[t] \in InReleasePcs => BelowRelease(t, stack[t])
    /\ pc[t] = "dropCount" => BelowDrop(t, stack[t])
    /\ pc[t] \in LastPcs =>
         \/ stack[t] = <<>>
         \/ BelowUndo(t, stack[t])
         \/ BelowRelease(t, stack[t])
         \/ BelowDrop(t, stack[t])

-----------------------------------------------------------------------------
(* What a thread is to the session it works on.                            *)

Undoing(q)   == "undoIO" \in Range(q)
Pausing(q)   == "resumeFailed" \in Range(q) \/ "dropPause" \in Range(q)
Draining(q)  == "drain" \in Range(q) \/ "execute" \in Range(q)
Reserving(q) == "reserve" \in Range(q)

Handles(t) ==
    t \in Workers /\ pc[t] # "idle" /\ ~(pc[t] \in LastPcs /\ stack[t] = <<>>)

Issues(t) == pc[t] \in {"gate", "issue", "undoIO"} \/ Undoing(stack[t])

Pauses(t) ==
    \/ pc[t] \in {"gatePause", "mark", "dropCount", "resumeFailed", "dropPause"}
    \/ Pausing(stack[t])
    \/ pc[t] \in PostPcs /\ post[t] = "resume"

(* It may post the next receive, or has failed to.                         *)
Receives(t) ==
    pc[t] \in ParsePcs \cup PostPcs \cup {"resumeFailed"} \/ Pausing(stack[t])

(* It has the session in hand.                                             *)
Serves(t) ==
    \/ pc[t] \in {"push", "unschedule", "pushAgain", "unclaim", "clear",
                  "drain", "execute"}
    \/ Draining(stack[t])

(* It has to reserve the release, or to complete it.                       *)
Owns(t) ==
    \/ pc[t] \in {"cancel", "cancelIoEx", "dropUnposted", "dropCount",
                  "reserve", "complete", "reset"}
    \/ Reserving(stack[t])

Weight(t) == (IF Handles(t) THEN 1 ELSE 0) + (IF Issues(t) THEN 1 ELSE 0)
             + (IF Pauses(t) THEN 1 ELSE 0)

-----------------------------------------------------------------------------
(* What holds of a session that was never reset under the hands of another *)
(* thread.                                                                 *)

Pending(s) == Outstanding(s, "recv") + Outstanding(s, "send") + paused[s]

Counted(s) ==
    ioCount[s] = Pending(s) + Cardinality({t \in On(s) : HandlerHolds(t)})
                            + Cardinality({t \in On(s) : IoHolds(t)})
                            + Cardinality({t \in On(s) : PauseHolds(t)})

(* One thread releases, or the token waits for one.                        *)
Owned(s) ==
    /\ \A t \in On(s) : Owns(t) => /\ poolState[s] = "RELEASING"
                                   /\ releasePending[s] = 0
    /\ \A t, u \in On(s) : Owns(t) /\ Owns(u) => t = u
    /\ releasePending[s] = 1 => poolState[s] = "RELEASING"
    /\ \A t \in On(s) : pc[t] \in {"complete", "reset"} => ~Reserving(stack[t])

(* Who completes a release, or may be about to, has seen the last count go.*)
Drained(s) ==
    /\ \A t \in On(s) : pc[t] \in LastPcs \cup {"claim"} => ioCount[s] = 0
    /\ \A t \in On(s) : pc[t] = "reset" => ~open[s]

InQueue(s)     == \E i \in DOMAIN ready : ready[i] = s
OnceInQueue(s) == \A i, k \in DOMAIN ready : ready[i] = s /\ ready[k] = s => i = k

(* A free session is nobody's.                                             *)
Unused(s) ==
    poolState[s] = "FREE" =>
        /\ On(s) = {} /\ ~open[s] /\ ioCount[s] = 0 /\ jobs[s] = <<>>
        /\ ~InQueue(s)

(* The ready queue or one thread has it in hand, if m_processing says so.  *)
Scheduled(s) ==
    /\ OnceInQueue(s)
    /\ \A t \in On(s) : Serves(t) => ~InQueue(s)
    /\ \A t, u \in On(s) : Serves(t) /\ Serves(u) => t = u
    /\ processing[s] = 1 <=> InQueue(s) \/ \E t \in On(s) : Serves(t)

(* One receive is posted, paused or in the hands of one thread.            *)
ReceivedOnce(s) ==
    /\ Outstanding(s, "recv") + paused[s] <= 1
    /\ \A t \in On(s) : Receives(t) =>
         Outstanding(s, "recv") = 0 /\ paused[s] = 0
    /\ \A t, u \in On(s) : Receives(t) /\ Receives(u) => t = u
    /\ \A t \in On(s) : pc[t] = "dropCount" => ~Pausing(stack[t])

(* The packets queued are the jobs done, the one in hand and those waiting.*)
InHand(s) == IF \E t \in On(s) : pc[t] = "execute" THEN 1 ELSE 0

InOrder(s) ==
    poolState[s] # "FREE" =>
        /\ received[s] = done[s] + InHand(s) + Len(jobs[s])
        /\ \A i \in 1 .. Len(jobs[s]) : jobs[s][i] = done[s] + InHand(s) + i
        /\ \A t \in On(s) : pc[t] = "execute" => job[t] = done[s] + 1

SessionInv(s) ==
    /\ Counted(s) /\ Owned(s) /\ Drained(s) /\ Unused(s)
    /\ Scheduled(s) /\ ReceivedOnce(s) /\ InOrder(s)

IInv ==
    /\ TypeOK
    /\ \A t \in Threads : Fits(t)
    /\ \A s \in Sessions : ~left[s] => SessionInv(s)

-----------------------------------------------------------------------------
(* The stack. *)

LEMMA ThenFacts ==
    ASSUME NEW r \in Pcs, NEW q \in Seq(Pcs)
    PROVE  /\ Then(r, q) \in Seq(Pcs) /\ Then(r, q) # <<>>
           /\ Head(Then(r, q)) = r /\ Tail(Then(r, q)) = q
           /\ Undoing(Then(r, q)) <=> r = "undoIO" \/ Undoing(q)
           /\ Pausing(Then(r, q)) <=> r \in {"resumeFailed", "dropPause"} \/ Pausing(q)
           /\ Draining(Then(r, q)) <=> r \in {"drain", "execute"} \/ Draining(q)
           /\ Reserving(Then(r, q)) <=> r = "reserve" \/ Reserving(q)
  <1>. DEFINE p == <<r>> \o q
  <1>1. p \in Seq(Pcs) /\ Len(p) = Len(q) + 1 /\ p # <<>>
    OBVIOUS
  <1>2. p[1] = r /\ \A i \in 1 .. Len(q) : p[i + 1] = q[i]
    OBVIOUS
  <1>3. Head(p) = r
    BY <1>1, <1>2
  <1>4. Tail(p) = q
    <2>1. Tail(p) \in Seq(Pcs) /\ Len(Tail(p)) = Len(q)
      BY <1>1
    <2>2. \A i \in 1 .. Len(q) : Tail(p)[i] = q[i]
      BY <1>1, <1>2
    <2>. QED
      BY <2>1, <2>2
  <1>5. \A x : x \in Range(p) <=> x = r \/ x \in Range(q)
    <2>1. DOMAIN p = 1 .. Len(p) /\ DOMAIN q = 1 .. Len(q)
      BY <1>1
    <2>2. ASSUME NEW x, x \in Range(p)
          PROVE  x = r \/ x \in Range(q)
      <3>1. PICK i \in 1 .. Len(p) : x = p[i]
        BY <2>1, <2>2 DEF Range
      <3>2. CASE i = 1
        BY <3>1, <3>2, <1>2
      <3>3. CASE i # 1
        <4>1. i - 1 \in 1 .. Len(q) /\ i = (i - 1) + 1
          BY <3>1, <3>3, <1>1
        <4>2. x = q[i - 1]
          BY <3>1, <4>1, <1>2
        <4>. QED
          BY <4>1, <4>2, <2>1 DEF Range
      <3>. QED
        BY <3>2, <3>3
    <2>3. r \in Range(p)
      <3>1. 1 \in DOMAIN p
        BY <1>1, <2>1
      <3>. QED
        BY <3>1, <1>2 DEF Range
    <2>4. ASSUME NEW x, x \in Range(q)
          PROVE  x \in Range(p)
      <3>1. PICK i \in 1 .. Len(q) : x = q[i]
        BY <2>1, <2>4 DEF Range
      <3>2. i + 1 \in DOMAIN p /\ p[i + 1] = x
        BY <3>1, <1>1, <1>2, <2>1
      <3>. QED
        BY <3>2 DEF Range
    <2>. QED
      BY <2>2, <2>3, <2>4
  <1>. HIDE DEF p
  <1>6. Then(r, q) = p
    BY DEF Then, p
  <1>. QED
    BY <1>1, <1>3, <1>4, <1>5, <1>6
       DEF Undoing, Pausing, Draining, Reserving

LEMMA EmptyFacts ==
    /\ <<>> \in Seq(Pcs) /\ ~Undoing(<<>>) /\ ~Pausing(<<>>)
    /\ ~Draining(<<>>) /\ ~Reserving(<<>>)
  BY DEF Undoing, Pausing, Draining, Reserving, Range

-----------------------------------------------------------------------------
(* Control flow: a step brings t to l, with q on its stack.                *)

At(t, l, q) ==
    /\ pc' \in [Threads -> Pcs] /\ stack' \in [Threads -> Seq(Pcs)]
    /\ pc'[t] = l /\ stack'[t] = q
    /\ \A u \in Threads \ {t} : pc'[u] = pc[u] /\ stack'[u] = stack[u]

LEMMA GotoAt ==
    ASSUME TypeOK, NEW t \in Threads, NEW l \in Pcs, Goto(t, l)
    PROVE  At(t, l, stack[t])
  BY DEF TypeOK, Goto, At

LEMMA CallAt ==
    ASSUME TypeOK, NEW t \in Threads, NEW l \in Pcs, NEW r \in Pcs,
           Call(t, l, r)
    PROVE  At(t, l, Then(r, stack[t]))
  <1>1. stack[t] \in Seq(Pcs) /\ stack \in [Threads -> Seq(Pcs)]
        /\ pc \in [Threads -> Pcs]
    BY DEF TypeOK
  <1>2. Then(r, stack[t]) \in Seq(Pcs)
    BY <1>1, ThenFacts
  <1>3. stack' = [stack EXCEPT ![t] = Then(r, stack[t])]
    BY <1>1 DEF Call, Then
  <1>4. pc' = [pc EXCEPT ![t] = l]
    BY DEF Call
  <1>. QED
    BY <1>1, <1>2, <1>3, <1>4 DEF At

LEMMA ReturnAt ==
    ASSUME TypeOK, NEW t \in Threads, Return(t)
    PROVE  /\ stack[t] = <<>> => At(t, "idle", <<>>)
           /\ \A r \in Pcs, q \in Seq(Pcs) :
                stack[t] = Then(r, q) => At(t, r, q)
  <1>1. /\ stack[t] \in Seq(Pcs) /\ stack \in [Threads -> Seq(Pcs)]
        /\ pc \in [Threads -> Pcs] /\ "idle" \in Pcs
    BY DEF TypeOK, Pcs
  <1>2. CASE stack[t] = <<>>
    <2>1. /\ pc' = [pc EXCEPT ![t] = "idle"]
          /\ stack' = [stack EXCEPT ![t] = <<>>]
      BY <1>1, <1>2 DEF Return
    <2>2. \A r \in Pcs, q \in Seq(Pcs) : stack[t] # Then(r, q)
      BY <1>2, ThenFacts
    <2>. QED
      BY <1>1, <1>2, <2>1, <2>2 DEF At
  <1>3. CASE stack[t] # <<>>
    <2>1. /\ pc' = [pc EXCEPT ![t] = Head(stack[t])]
          /\ stack' = [stack EXCEPT ![t] = Tail(stack[t])]
      BY <1>1, <1>3 DEF Return
    <2>2. ASSUME NEW r \in Pcs, NEW q \in Seq(Pcs), stack[t] = Then(r, q)
          PROVE  At(t, r, q)
      <3>1. Head(stack[t]) = r /\ Tail(stack[t]) = q
        BY <2>2, ThenFacts
      <3>. QED
        BY <1>1, <2>1, <3>1 DEF At
    <2>. QED
      BY <1>3, <2>2
  <1>. QED
    BY <1>2, <1>3

LEMMA BeginAt ==
    ASSUME TypeOK, NEW t \in Threads, NEW s \in Sessions, NEW l \in Pcs,
           NEW q \in Seq(Pcs), Begin(t, s, l, q)
    PROVE  /\ At(t, l, q) /\ pc[t] = "idle"
           /\ ses' \in [Threads -> Sessions] /\ ses'[t] = s
           /\ \A u \in Threads \ {t} : ses'[u] = ses[u]
  BY DEF TypeOK, Begin, At

(* The shapes of a stack that is returned to.                              *)
Returns(t, q) ==
    q = <<>> \/ BelowUndo(t, q) \/ BelowRelease(t, q) \/ BelowDrop(t, q)

ReturnPcs == {"finish", "recvNotPosted", "resumeFailed", "dropPause", "undoIO",
              "drain", "reserve"}

LEMMA FramesOf ==
    ASSUME NEW t \in Threads, NEW q \in Seq(Pcs), Returns(t, q)
    PROVE  \/ q = <<>>
           \/ \E r \in ReturnPcs, p \in Seq(Pcs) :
                /\ q = Then(r, p)
                /\ r = "finish" => t \in Workers /\ p = <<>>
                /\ r = "recvNotPosted" => t \in Workers /\ p = <<>>
                /\ r = "drain" => t \in JobWorkers /\ p = <<>>
                /\ r \in {"resumeFailed", "dropPause"} =>
                     t \in Posters /\ p = Base(t)
                /\ r = "undoIO" => BelowUndo(t, p)
                /\ r = "reserve" => BelowRelease(t, p)
  <1>1. /\ "finish" \in Pcs /\ "recvNotPosted" \in Pcs /\ "undoIO" \in Pcs
        /\ "resumeFailed" \in Pcs /\ "dropPause" \in Pcs /\ "drain" \in Pcs
        /\ "reserve" \in Pcs
    BY DEF Pcs, HandlerPcs, WorkerPcs, ResumePcs, IoPcs, ReleasePcs
  <1>2. <<>> \in Seq(Pcs) /\ Base(t) \in Seq(Pcs)
    BY <1>1, ThenFacts, EmptyFacts DEF Base
  <1>3. CASE BelowNotPosted(t, q)
    BY <1>1, <1>2, <1>3 DEF BelowNotPosted, ReturnPcs
  <1>4. CASE t \in Workers /\ q = Then("finish", <<>>)
    BY <1>1, <1>2, <1>4 DEF ReturnPcs
  <1>5. CASE BelowUndo(t, q)
    BY <1>3, <1>4, <1>5 DEF BelowUndo
  <1>6. CASE BelowRelease(t, q)
    <2>1. CASE t \in Posters /\ q = Then("undoIO", Then("resumeFailed", Base(t)))
      <3>. DEFINE p == Then("resumeFailed", Base(t))
      <3>1. p \in Seq(Pcs) /\ BelowUndo(t, p)
        BY <2>1, <1>1, <1>2, ThenFacts DEF BelowUndo, BelowNotPosted
      <3>. HIDE DEF p
      <3>2. q = Then("undoIO", p)
        BY <2>1 DEF p
      <3>. QED
        BY <3>1, <3>2 DEF ReturnPcs
    <2>2. CASE t \in Workers /\ q = Then("undoIO", Then("recvNotPosted", <<>>))
      <3>. DEFINE p == Then("recvNotPosted", <<>>)
      <3>1. p \in Seq(Pcs) /\ BelowUndo(t, p)
        BY <2>2, <1>1, <1>2, ThenFacts DEF BelowUndo, BelowNotPosted
      <3>. HIDE DEF p
      <3>2. q = Then("undoIO", p)
        BY <2>2 DEF p
      <3>. QED
        BY <3>1, <3>2 DEF ReturnPcs
    <2>3. CASE t \in Posters /\ q = Then("dropPause", Base(t))
      BY <2>3, <1>2 DEF ReturnPcs
    <2>4. CASE t \in JobWorkers /\ q = Then("drain", <<>>)
      BY <2>4, <1>2 DEF ReturnPcs
    <2>. QED
      BY <1>4, <1>6, <2>1, <2>2, <2>3, <2>4 DEF BelowRelease
  <1>7. CASE BelowDrop(t, q) /\ q # <<>>
    <2>1. Tail(q) \in Seq(Pcs)
      BY <1>7
    <2>. QED
      BY <1>7, <2>1 DEF BelowDrop, ReturnPcs
  <1>. QED
    BY <1>5, <1>6, <1>7 DEF Returns

(* A return takes up the roles that were left on the stack.                *)
Returned(t) ==
    /\ Fits(t)'
    /\ Handles(t)' <=> stack[t] # <<>> /\ t \in Workers
    /\ Issues(t)' <=> Undoing(stack[t])
    /\ Pauses(t)' <=> Pausing(stack[t])
    /\ Receives(t)' => Pausing(stack[t])
    /\ Serves(t)' <=> Draining(stack[t])
    /\ Owns(t)' <=> Reserving(stack[t])
    /\ pc'[t] \in {"idle"} \cup ReturnPcs

LEMMA ReturnRoles ==
    ASSUME TypeOK, NEW t \in Threads, Returns(t, stack[t]), Return(t)
    PROVE  /\ Returned(t)
           /\ pc' \in [Threads -> Pcs] /\ stack' \in [Threads -> Seq(Pcs)]
           /\ \A u \in Threads \ {t} : pc'[u] = pc[u] /\ stack'[u] = stack[u]
  <1>0. stack[t] \in Seq(Pcs)
    BY DEF TypeOK
  <1>1. CASE stack[t] = <<>>
    <2>1. At(t, "idle", <<>>)
      BY <1>1, ReturnAt
    <2>2. pc'[t] = "idle" /\ stack'[t] = <<>>
      BY <2>1 DEF At
    <2>3. Fits(t)'
      BY <2>2 DEF Fits, HandlerPcs, WorkerPcs, ResumePcs, PostPcs, InReleasePcs,
         LastPcs
    <2>4. /\ ~Handles(t)' /\ ~Issues(t)' /\ ~Pauses(t)' /\ ~Receives(t)'
          /\ ~Serves(t)' /\ ~Owns(t)'
      BY <2>2, EmptyFacts DEF Handles, Issues, Pauses, Receives, Serves, Owns,
         ParsePcs, PostPcs
    <2>. QED
      BY <1>1, <2>1, <2>2, <2>3, <2>4, EmptyFacts DEF At, Returned
  <1>2. CASE stack[t] # <<>>
    <2>1. PICK r \in ReturnPcs, p \in Seq(Pcs) :
            /\ stack[t] = Then(r, p)
            /\ r = "finish" => t \in Workers /\ p = <<>>
            /\ r = "recvNotPosted" => t \in Workers /\ p = <<>>
            /\ r = "drain" => t \in JobWorkers /\ p = <<>>
            /\ r \in {"resumeFailed", "dropPause"} =>
                 t \in Posters /\ p = Base(t)
            /\ r = "undoIO" => BelowUndo(t, p)
            /\ r = "reserve" => BelowRelease(t, p)
      BY <1>0, <1>2, FramesOf
    <2>2. r \in Pcs
      BY DEF ReturnPcs, Pcs, HandlerPcs, WorkerPcs, ResumePcs, IoPcs, ReleasePcs
    <2>3. At(t, r, p)
      BY <2>1, <2>2, ReturnAt
    <2>4. pc'[t] = r /\ stack'[t] = p
      BY <2>3 DEF At
    <2>5. Fits(t)'
      BY <2>1, <2>4 DEF Fits, HandlerPcs, WorkerPcs, ResumePcs, PostPcs,
         InReleasePcs, LastPcs, ReturnPcs
    <2>6. /\ Undoing(stack[t]) <=> r = "undoIO" \/ Undoing(p)
          /\ Pausing(stack[t]) <=> r \in {"resumeFailed", "dropPause"} \/ Pausing(p)
          /\ Draining(stack[t]) <=> r \in {"drain", "execute"} \/ Draining(p)
          /\ Reserving(stack[t]) <=> r = "reserve" \/ Reserving(p)
      BY <2>1, <2>2, ThenFacts
    <2>7. Handles(t)' <=> t \in Workers
      BY <2>4 DEF Handles, LastPcs, ReturnPcs
    <2>8. /\ Issues(t)' <=> Undoing(stack[t])
          /\ Pauses(t)' <=> Pausing(stack[t])
      BY <2>4, <2>6 DEF Issues, Pauses, PostPcs, ReturnPcs
    <2>9. /\ Receives(t)' => Pausing(stack[t])
          /\ Serves(t)' <=> Draining(stack[t])
          /\ Owns(t)' <=> Reserving(stack[t])
      BY <2>4, <2>6 DEF Receives, Serves, Owns, ParsePcs, PostPcs, ReturnPcs
    <2>. QED
      BY <1>2, <2>3, <2>4, <2>5, <2>7, <2>8, <2>9 DEF At, Returned
  <1>. QED
    BY <1>1, <1>2

-----------------------------------------------------------------------------
(* A step of t is about session s alone.                                   *)

Local(t, s) ==
    /\ \A u \in Threads \ {t} :
         /\ pc'[u] = pc[u] /\ ses'[u] = ses[u] /\ stack'[u] = stack[u]
         /\ post'[u] = post[u] /\ job'[u] = job[u]
    /\ pc[t] = "idle" \/ ses[t] = s
    /\ ses'[t] = s
    /\ \A x \in Sessions \ {s} :
         /\ poolState'[x] = poolState[x] /\ open'[x] = open[x]
         /\ ioCount'[x] = ioCount[x] /\ releasePending'[x] = releasePending[x]
         /\ live'[x] = live[x] /\ dying'[x] = dying[x]
         /\ jobs'[x] = jobs[x] /\ processing'[x] = processing[x]
         /\ paused'[x] = paused[x] /\ received'[x] = received[x]
         /\ done'[x] = done[x] /\ left'[x] = left[x]

Sound(t, s) == TypeOK' /\ Fits(t)' /\ Local(t, s)

LEMMA Bystander ==
    ASSUME NEW t \in Threads, NEW s \in Sessions, Local(t, s),
           NEW u \in Threads \ {t}
    PROVE  /\ Fits(u) => Fits(u)'
           /\ \A x \in Sessions : u \in On(x)' <=> u \in On(x)
           /\ pc'[u] = pc[u] /\ stack'[u] = stack[u] /\ job'[u] = job[u]
           /\ Handles(u)' <=> Handles(u)
           /\ Issues(u)' <=> Issues(u)
           /\ Pauses(u)' <=> Pauses(u)
           /\ Receives(u)' <=> Receives(u)
           /\ Serves(u)' <=> Serves(u)
           /\ Owns(u)' <=> Owns(u)
  <1>1. /\ pc'[u] = pc[u] /\ ses'[u] = ses[u] /\ stack'[u] = stack[u]
        /\ post'[u] = post[u] /\ job'[u] = job[u]
    BY DEF Local
  <1>2. Fits(u) => Fits(u)'
    BY <1>1 DEF Fits
  <1>3. \A x \in Sessions : u \in On(x)' <=> u \in On(x)
    BY <1>1 DEF On
  <1>4. /\ Handles(u)' <=> Handles(u)
        /\ Issues(u)' <=> Issues(u)
        /\ Pauses(u)' <=> Pauses(u)
    BY <1>1 DEF Handles, Issues, Pauses
  <1>5. /\ Receives(u)' <=> Receives(u)
        /\ Serves(u)' <=> Serves(u)
        /\ Owns(u)' <=> Owns(u)
    BY <1>1 DEF Receives, Serves, Owns
  <1>. QED
    BY <1>1, <1>2, <1>3, <1>4, <1>5

LEMMA IdleHasNoRole ==
    ASSUME NEW t \in Threads, Fits(t), pc[t] = "idle"
    PROVE  /\ ~Handles(t) /\ ~Issues(t) /\ ~Pauses(t)
           /\ ~Receives(t) /\ ~Serves(t) /\ ~Owns(t)
  <1>1. stack[t] = <<>>
    BY DEF Fits
  <1>. QED
    BY <1>1, EmptyFacts
       DEF Handles, Issues, Pauses, Receives, Serves, Owns, ParsePcs, PostPcs

LEMMA OnSession ==
    ASSUME NEW t \in Threads, NEW s \in Sessions, Local(t, s), Fits(t)
    PROVE  /\ \A x \in Sessions \ {s} : t \notin On(x) /\ t \notin On(x)'
           /\ t \in On(s) <=> pc[t] # "idle"
           /\ t \in On(s)' <=> pc'[t] # "idle"
           /\ Handles(t) \/ Issues(t) \/ Pauses(t) \/ Receives(t) \/ Serves(t)
                \/ Owns(t) => t \in On(s)
  <1>1. /\ \A x \in Sessions \ {s} : t \notin On(x) /\ t \notin On(x)'
        /\ t \in On(s) <=> pc[t] # "idle"
        /\ t \in On(s)' <=> pc'[t] # "idle"
    BY DEF Local, On
  <1>2. pc[t] = "idle" => ~(Handles(t) \/ Issues(t) \/ Pauses(t) \/ Receives(t)
                            \/ Serves(t) \/ Owns(t))
    BY IdleHasNoRole
  <1>. QED
    BY <1>1, <1>2

LEMMA Roles ==
    ASSUME NEW t \in Threads, pc[t] # "idle"
    PROVE  /\ HandlerHolds(t) <=> Handles(t)
           /\ IoHolds(t) <=> Issues(t)
           /\ PauseHolds(t) <=> Pauses(t)
  BY DEF HandlerHolds, IoHolds, PauseHolds, Handles, Issues, Pauses, Frames,
     LastPcs, PostPcs, Undoing, Pausing

LEMMA RolesThen ==
    ASSUME NEW t \in Threads, pc'[t] # "idle"
    PROVE  /\ HandlerHolds(t)' <=> Handles(t)'
           /\ IoHolds(t)' <=> Issues(t)'
           /\ PauseHolds(t)' <=> Pauses(t)'
  BY DEF HandlerHolds, IoHolds, PauseHolds, Handles, Issues, Pauses, Frames,
     LastPcs, PostPcs, Undoing, Pausing

-----------------------------------------------------------------------------
(* Counts *)

Handlers(s) == {t \in On(s) : Handles(t)}
Issuers(s)  == {t \in On(s) : Issues(t)}
Pausers(s)  == {t \in On(s) : Pauses(t)}

LEMMA Holders ==
    ASSUME NEW s \in Sessions
    PROVE  /\ {t \in On(s) : HandlerHolds(t)} = Handlers(s)
           /\ {t \in On(s) : IoHolds(t)} = Issuers(s)
           /\ {t \in On(s) : PauseHolds(t)} = Pausers(s)
           /\ {t \in On(s) : HandlerHolds(t)}' = Handlers(s)'
           /\ {t \in On(s) : IoHolds(t)}' = Issuers(s)'
           /\ {t \in On(s) : PauseHolds(t)}' = Pausers(s)'
  <1>1. \A t \in On(s) : /\ HandlerHolds(t) <=> Handles(t)
                         /\ IoHolds(t) <=> Issues(t)
                         /\ PauseHolds(t) <=> Pauses(t)
    BY Roles DEF On
  <1>2. \A t \in On(s)' : /\ HandlerHolds(t)' <=> Handles(t)'
                          /\ IoHolds(t)' <=> Issues(t)'
                          /\ PauseHolds(t)' <=> Pauses(t)'
    <2>1. \A t \in On(s)' : t \in Threads /\ pc'[t] # "idle"
      BY DEF On
    <2>. QED
      BY <2>1, RolesThen
  <1>. QED
    BY <1>1, <1>2 DEF Handlers, Issuers, Pausers

LEMMA CountChange ==
    ASSUME NEW A \in SUBSET Threads, NEW B \in SUBSET Threads,
           NEW t \in Threads, \A u \in Threads \ {t} : u \in A <=> u \in B
    PROVE  /\ Cardinality(A) \in Nat /\ Cardinality(B) \in Nat
           /\ Cardinality(B) = Cardinality(A) + (IF t \in B THEN 1 ELSE 0)
                                             - (IF t \in A THEN 1 ELSE 0)
  <1>1. IsFiniteSet(A) /\ IsFiniteSet(B)
    BY ThreadsAssumption, FS_Subset
  <1>2. Cardinality(A) \in Nat /\ Cardinality(B) \in Nat
    BY <1>1, FS_CardinalityType
  <1>3. CASE t \in A /\ t \notin B
    <2>1. B = A \ {t}
      BY <1>3
    <2>. QED
      BY <1>1, <1>2, <1>3, <2>1, FS_RemoveElement
  <1>4. CASE t \notin A /\ t \in B
    <2>1. B = A \cup {t}
      BY <1>4
    <2>. QED
      BY <1>1, <1>2, <1>4, <2>1, FS_AddElement
  <1>5. CASE t \in A <=> t \in B
    <2>1. A = B
      BY <1>5
    <2>. QED
      BY <1>2, <2>1
  <1>. QED
    BY <1>3, <1>4, <1>5

(* What a step does to the count it does to what is held.                  *)
Balanced(t, s) ==
    ioCount'[s] = ioCount[s] + Pending(s)' - Pending(s) + Weight(t)' - Weight(t)

LEMMA PendingType ==
    ASSUME TypeOK, NEW s \in Sessions
    PROVE  /\ Outstanding(s, "recv") \in Nat /\ Outstanding(s, "send") \in Nat
           /\ paused[s] \in Nat /\ Pending(s) \in Nat /\ ioCount[s] \in Int
  <1>. "recv" \in Kinds /\ "send" \in Kinds
    BY DEF Kinds
  <1>1. /\ live[s] \in [Kinds -> Nat] /\ dying[s] \in [Kinds -> Nat]
        /\ paused[s] \in 0 .. 1 /\ ioCount[s] \in Int
    BY DEF TypeOK
  <1>. QED
    BY <1>1 DEF Pending, Outstanding

LEMMA PendingTypeThen ==
    ASSUME TypeOK', NEW s \in Sessions
    PROVE  /\ Outstanding(s, "recv")' \in Nat /\ Outstanding(s, "send")' \in Nat
           /\ paused'[s] \in Nat /\ Pending(s)' \in Nat /\ ioCount'[s] \in Int
  <1>. "recv" \in Kinds /\ "send" \in Kinds
    BY DEF Kinds
  <1>1. /\ live'[s] \in [Kinds -> Nat] /\ dying'[s] \in [Kinds -> Nat]
        /\ paused'[s] \in 0 .. 1 /\ ioCount'[s] \in Int
    BY DEF TypeOK
  <1>. QED
    BY <1>1 DEF Pending, Outstanding

LEMMA WeightType ==
    ASSUME NEW t \in Threads
    PROVE  /\ Weight(t) \in Nat /\ Weight(t)' \in Nat
           /\ Handles(t) \/ Issues(t) \/ Pauses(t) => Weight(t) >= 1
  BY DEF Weight

LEMMA CountedMeans ==
    ASSUME NEW s \in Sessions
    PROVE  /\ Counted(s) <=>
                ioCount[s] = Pending(s) + Cardinality(Handlers(s))
                             + Cardinality(Issuers(s)) + Cardinality(Pausers(s))
           /\ Counted(s)' <=>
                ioCount'[s] = Pending(s)' + Cardinality(Handlers(s)')
                              + Cardinality(Issuers(s)')
                              + Cardinality(Pausers(s)')
  <1>1. Counted(s) <=>
                ioCount[s] = Pending(s) + Cardinality(Handlers(s))
                             + Cardinality(Issuers(s)) + Cardinality(Pausers(s))
    BY Holders DEF Counted
  <1>2. /\ {t \in On(s) : HandlerHolds(t)}' = Handlers(s)'
        /\ {t \in On(s) : IoHolds(t)}' = Issuers(s)'
        /\ {t \in On(s) : PauseHolds(t)}' = Pausers(s)'
    BY Holders
  <1>3. Counted(s)' <=>
                ioCount'[s] = Pending(s)'
                              + Cardinality({t \in On(s) : HandlerHolds(t)}')
                              + Cardinality({t \in On(s) : IoHolds(t)}')
                              + Cardinality({t \in On(s) : PauseHolds(t)}')
    BY DEF Counted
  <1>. QED
    BY <1>1, <1>2, <1>3

LEMMA CountedStep ==
    ASSUME TypeOK, TypeOK', NEW t \in Threads, NEW s \in Sessions,
           Local(t, s), Fits(t), Fits(t)', Counted(s), Balanced(t, s)
    PROVE  Counted(s)'
  <1>1. /\ Handlers(s) \in SUBSET Threads /\ Handlers(s)' \in SUBSET Threads
        /\ Issuers(s) \in SUBSET Threads /\ Issuers(s)' \in SUBSET Threads
        /\ Pausers(s) \in SUBSET Threads /\ Pausers(s)' \in SUBSET Threads
    BY DEF Handlers, Issuers, Pausers, On
  <1>2. \A u \in Threads \ {t} : /\ u \in Handlers(s) <=> u \in Handlers(s)'
                                 /\ u \in Issuers(s) <=> u \in Issuers(s)'
                                 /\ u \in Pausers(s) <=> u \in Pausers(s)'
    BY Bystander DEF Handlers, Issuers, Pausers
  <1>3. /\ t \in Handlers(s) <=> Handles(t)
        /\ t \in Issuers(s) <=> Issues(t)
        /\ t \in Pausers(s) <=> Pauses(t)
    BY OnSession DEF Handlers, Issuers, Pausers
  <1>4. /\ t \in Handlers(s)' <=> Handles(t)'
        /\ t \in Issuers(s)' <=> Issues(t)'
        /\ t \in Pausers(s)' <=> Pauses(t)'
    <2>1. t \in On(s)' <=> pc'[t] # "idle"
      BY OnSession
    <2>2. pc'[t] = "idle" => ~Handles(t)' /\ ~Issues(t)' /\ ~Pauses(t)'
      <3>1. pc'[t] = "idle" => stack'[t] = <<>>
        BY DEF Fits
      <3>. QED
        BY <3>1, EmptyFacts DEF Handles, Issues, Pauses, PostPcs
    <2>. QED
      BY <2>1, <2>2 DEF Handlers, Issuers, Pausers
  <1>5. /\ Cardinality(Handlers(s)) \in Nat /\ Cardinality(Handlers(s)') \in Nat
        /\ Cardinality(Handlers(s)') = Cardinality(Handlers(s))
             + (IF Handles(t)' THEN 1 ELSE 0) - (IF Handles(t) THEN 1 ELSE 0)
    BY <1>1, <1>2, <1>3, <1>4, CountChange
  <1>6. /\ Cardinality(Issuers(s)) \in Nat /\ Cardinality(Issuers(s)') \in Nat
        /\ Cardinality(Issuers(s)') = Cardinality(Issuers(s))
             + (IF Issues(t)' THEN 1 ELSE 0) - (IF Issues(t) THEN 1 ELSE 0)
    BY <1>1, <1>2, <1>3, <1>4, CountChange
  <1>7. /\ Cardinality(Pausers(s)) \in Nat /\ Cardinality(Pausers(s)') \in Nat
        /\ Cardinality(Pausers(s)') = Cardinality(Pausers(s))
             + (IF Pauses(t)' THEN 1 ELSE 0) - (IF Pauses(t) THEN 1 ELSE 0)
    BY <1>1, <1>2, <1>3, <1>4, CountChange
  <1>8. /\ Pending(s) \in Nat /\ Pending(s)' \in Nat
        /\ ioCount[s] \in Int /\ ioCount'[s] \in Int
    BY PendingType, PendingTypeThen
  <1>9. Weight(t)' - Weight(t) =
            (Cardinality(Handlers(s)') - Cardinality(Handlers(s)))
          + (Cardinality(Issuers(s)') - Cardinality(Issuers(s)))
          + (Cardinality(Pausers(s)') - Cardinality(Pausers(s)))
    BY <1>5, <1>6, <1>7 DEF Weight
  <1>10. /\ Weight(t) \in Nat /\ Weight(t)' \in Nat
    BY WeightType
  <1>11. ioCount[s] = Pending(s) + Cardinality(Handlers(s))
                      + Cardinality(Issuers(s)) + Cardinality(Pausers(s))
    BY CountedMeans
  <1>12. ioCount'[s] = Pending(s)' + Cardinality(Handlers(s)')
                       + Cardinality(Issuers(s)') + Cardinality(Pausers(s)')
    BY <1>5, <1>6, <1>7, <1>8, <1>9, <1>10, <1>11 DEF Balanced
  <1>. QED
    BY <1>12, CountedMeans

(* At a count of 0 nothing is outstanding and nobody holds any.            *)
LEMMA NothingHeld ==
    ASSUME TypeOK, NEW s \in Sessions, Counted(s)
    PROVE  /\ ioCount[s] >= 0
           /\ ioCount[s] = 0 =>
                /\ Outstanding(s, "recv") = 0 /\ Outstanding(s, "send") = 0
                /\ paused[s] = 0
                /\ \A t \in On(s) : ~Handles(t) /\ ~Issues(t) /\ ~Pauses(t)
  <1>1. /\ IsFiniteSet(Handlers(s)) /\ IsFiniteSet(Issuers(s))
        /\ IsFiniteSet(Pausers(s))
    BY ThreadsAssumption, FS_Subset DEF Handlers, Issuers, Pausers, On
  <1>2. /\ Cardinality(Handlers(s)) \in Nat /\ Cardinality(Issuers(s)) \in Nat
        /\ Cardinality(Pausers(s)) \in Nat
    BY <1>1, FS_CardinalityType
  <1>3. ioCount[s] = Pending(s) + Cardinality(Handlers(s))
                     + Cardinality(Issuers(s)) + Cardinality(Pausers(s))
    BY CountedMeans
  <1>4. /\ Outstanding(s, "recv") \in Nat /\ Outstanding(s, "send") \in Nat
        /\ paused[s] \in Nat
    BY PendingType
  <1>5. ASSUME ioCount[s] = 0
        PROVE  /\ Outstanding(s, "recv") = 0 /\ Outstanding(s, "send") = 0
               /\ paused[s] = 0
               /\ Handlers(s) = {} /\ Issuers(s) = {} /\ Pausers(s) = {}
    <2>. DEFINE a == Outstanding(s, "recv")
                b == Outstanding(s, "send")
                c == paused[s]
                d == Cardinality(Handlers(s))
                e == Cardinality(Issuers(s))
                f == Cardinality(Pausers(s))
    <2>1. a = 0 /\ b = 0 /\ c = 0 /\ d = 0 /\ e = 0 /\ f = 0
      <3>1. (a + b + c) + d + e + f = 0
        BY <1>3, <1>5 DEF Pending
      <3>2. /\ a \in Nat /\ b \in Nat /\ c \in Nat
            /\ d \in Nat /\ e \in Nat /\ f \in Nat
        BY <1>2, <1>4
      <3>. HIDE DEF a, b, c, d, e, f
      <3>. QED
        BY <3>1, <3>2
    <2>. QED
      BY <1>1, <2>1, FS_EmptySet
  <1>6. ioCount[s] >= 0
    BY <1>2, <1>3, <1>4 DEF Pending
  <1>. QED
    BY <1>5, <1>6 DEF Handlers, Issuers, Pausers

-----------------------------------------------------------------------------
(* Steps that give their thread no new role in a release, ...              *)

LEMMA OwnedStep ==
    ASSUME NEW t \in Threads, NEW s \in Sessions, Local(t, s), Fits(t),
           Owned(s), poolState'[s] = poolState[s],
           releasePending'[s] = releasePending[s],
           Owns(t)' => Owns(t), pc'[t] \notin {"complete", "reset"}
    PROVE  Owned(s)'
  <1>1. \A u \in On(s)' : Owns(u)' => u \in On(s) /\ Owns(u)
    <2>. SUFFICES ASSUME NEW u \in On(s)', Owns(u)'
                  PROVE  u \in On(s) /\ Owns(u)
      OBVIOUS
    <2>1. u \in Threads
      BY DEF On
    <2>2. CASE u = t
      BY <2>2, OnSession
    <2>3. CASE u # t
      BY <2>1, <2>3, Bystander
    <2>. QED
      BY <2>2, <2>3
  <1>2. \A u \in On(s)' : pc'[u] \in {"complete", "reset"} =>
            /\ u \in On(s) /\ pc[u] \in {"complete", "reset"}
            /\ stack'[u] = stack[u]
    <2>. SUFFICES ASSUME NEW u \in On(s)', pc'[u] \in {"complete", "reset"}
                  PROVE  /\ u \in On(s) /\ pc[u] \in {"complete", "reset"}
                         /\ stack'[u] = stack[u]
      OBVIOUS
    <2>1. u \in Threads /\ u # t
      BY DEF On
    <2>. QED
      BY <2>1, Bystander
  <1>3. \A u \in On(s)' : Owns(u)' => /\ poolState'[s] = "RELEASING"
                                      /\ releasePending'[s] = 0
    BY <1>1 DEF Owned
  <1>4. \A u, v \in On(s)' : Owns(u)' /\ Owns(v)' => u = v
    BY <1>1 DEF Owned
  <1>5. releasePending'[s] = 1 => poolState'[s] = "RELEASING"
    BY DEF Owned
  <1>6. \A u \in On(s)' : pc'[u] \in {"complete", "reset"} =>
                            ~Reserving(stack'[u])
    BY <1>2 DEF Owned
  <1>. QED
    BY <1>3, <1>4, <1>5, <1>6 DEF Owned

(* ... that do not raise a count from 0, ...                               *)
LEMMA DrainedStep ==
    ASSUME NEW t \in Threads, NEW s \in Sessions, Local(t, s), Drained(s),
           ioCount[s] = 0 => ioCount'[s] = 0,
           ~open[s] => ~open'[s],
           pc'[t] \in LastPcs \cup {"claim"} => ioCount'[s] = 0,
           pc'[t] = "reset" => ~open'[s]
    PROVE  Drained(s)'
  <1>1. \A u \in On(s)' : pc'[u] \in LastPcs \cup {"claim"} => ioCount'[s] = 0
    <2>. SUFFICES ASSUME NEW u \in On(s)', pc'[u] \in LastPcs \cup {"claim"}
                  PROVE  ioCount'[s] = 0
      OBVIOUS
    <2>1. u \in Threads
      BY DEF On
    <2>2. CASE u # t
      <3>1. u \in On(s) /\ pc[u] \in LastPcs \cup {"claim"}
        BY <2>1, <2>2, Bystander
      <3>. QED
        BY <3>1 DEF Drained
    <2>. QED
      BY <2>2
  <1>2. \A u \in On(s)' : pc'[u] = "reset" => ~open'[s]
    <2>. SUFFICES ASSUME NEW u \in On(s)', pc'[u] = "reset"
                  PROVE  ~open'[s]
      OBVIOUS
    <2>1. u \in Threads
      BY DEF On
    <2>2. CASE u # t
      <3>1. u \in On(s) /\ pc[u] = "reset"
        BY <2>1, <2>2, Bystander
      <3>. QED
        BY <3>1 DEF Drained
    <2>. QED
      BY <2>2
  <1>. QED
    BY <1>1, <1>2 DEF Drained

(* ... that leave the session with who has it in hand, ...                 *)
LEMMA ScheduledStep ==
    ASSUME NEW t \in Threads, NEW s \in Sessions, Local(t, s), Fits(t), Fits(t)',
           Scheduled(s), ready' = ready, processing'[s] = processing[s],
           Serves(t)' <=> Serves(t)
    PROVE  Scheduled(s)'
  <1>1. \A u \in Threads :
            u \in On(s)' /\ Serves(u)' <=> u \in On(s) /\ Serves(u)
    <2>. SUFFICES ASSUME NEW u \in Threads
                  PROVE  u \in On(s)' /\ Serves(u)' <=> u \in On(s) /\ Serves(u)
      OBVIOUS
    <2>1. CASE u = t
      <3>1. t \in On(s)' <=> pc'[t] # "idle"
        BY OnSession
      <3>2. pc'[t] = "idle" => ~Serves(t)'
        <4>1. pc'[t] = "idle" => stack'[t] = <<>>
          BY DEF Fits
        <4>. QED
          BY <4>1, EmptyFacts DEF Serves
      <3>3. Serves(t) => t \in On(s)
        BY OnSession
      <3>. QED
        BY <2>1, <3>1, <3>2, <3>3
    <2>2. CASE u # t
      BY <2>2, Bystander
    <2>. QED
      BY <2>1, <2>2
  <1>2. \A u \in On(s) \cup On(s)' : u \in Threads
    BY DEF On
  <1>3. InQueue(s)' <=> InQueue(s)
    BY DEF InQueue
  <1>4. OnceInQueue(s)'
    BY DEF OnceInQueue, Scheduled
  <1>5. \A u \in On(s)' : Serves(u)' => ~InQueue(s)'
    BY <1>1, <1>2, <1>3 DEF Scheduled
  <1>6. \A u, v \in On(s)' : Serves(u)' /\ Serves(v)' => u = v
    BY <1>1, <1>2 DEF Scheduled
  <1>7. (\E u \in On(s)' : Serves(u)') <=> \E u \in On(s) : Serves(u)
    BY <1>1, <1>2
  <1>8. processing'[s] = 1 <=> InQueue(s)' \/ \E u \in On(s)' : Serves(u)'
    BY <1>3, <1>7 DEF Scheduled
  <1>. QED
    BY <1>4, <1>5, <1>6, <1>8 DEF Scheduled

(* ... that give their thread no right to receive, ...                     *)
LEMMA ReceivedStep ==
    ASSUME TypeOK, TypeOK', NEW t \in Threads, NEW s \in Sessions, Local(t, s),
           Fits(t), ReceivedOnce(s),
           Outstanding(s, "recv")' <= Outstanding(s, "recv"),
           paused'[s] <= paused[s],
           Receives(t)' => Receives(t),
           pc'[t] = "dropCount" => ~Pausing(stack'[t])
    PROVE  ReceivedOnce(s)'
  <1>1. /\ Outstanding(s, "recv") \in Nat /\ Outstanding(s, "recv")' \in Nat
        /\ paused[s] \in Nat /\ paused'[s] \in Nat
    BY PendingType, PendingTypeThen
  <1>2. \A u \in On(s)' : Receives(u)' => u \in On(s) /\ Receives(u)
    <2>. SUFFICES ASSUME NEW u \in On(s)', Receives(u)'
                  PROVE  u \in On(s) /\ Receives(u)
      OBVIOUS
    <2>1. u \in Threads
      BY DEF On
    <2>2. CASE u = t
      BY <2>2, OnSession
    <2>3. CASE u # t
      BY <2>1, <2>3, Bystander
    <2>. QED
      BY <2>2, <2>3
  <1>3. Outstanding(s, "recv")' + paused'[s] <= 1
    <2>1. Outstanding(s, "recv") + paused[s] <= 1
      BY DEF ReceivedOnce
    <2>. QED
      BY <1>1, <2>1
  <1>4. \A u \in On(s)' : Receives(u)' =>
            Outstanding(s, "recv")' = 0 /\ paused'[s] = 0
    <2>. SUFFICES ASSUME NEW u \in On(s)', Receives(u)'
                  PROVE  Outstanding(s, "recv")' = 0 /\ paused'[s] = 0
      OBVIOUS
    <2>1. Outstanding(s, "recv") = 0 /\ paused[s] = 0
      BY <1>2 DEF ReceivedOnce
    <2>. QED
      BY <1>1, <2>1
  <1>5. \A u, v \in On(s)' : Receives(u)' /\ Receives(v)' => u = v
    BY <1>2 DEF ReceivedOnce
  <1>6. \A u \in On(s)' : pc'[u] = "dropCount" => ~Pausing(stack'[u])
    <2>. SUFFICES ASSUME NEW u \in On(s)', pc'[u] = "dropCount"
                  PROVE  ~Pausing(stack'[u])
      OBVIOUS
    <2>1. u \in Threads
      BY DEF On
    <2>2. CASE u # t
      <3>1. u \in On(s) /\ pc[u] = "dropCount" /\ stack'[u] = stack[u]
        BY <2>1, <2>2, Bystander
      <3>. QED
        BY <3>1 DEF ReceivedOnce
    <2>. QED
      BY <2>2
  <1>. QED
    BY <1>3, <1>4, <1>5, <1>6 DEF ReceivedOnce

(* ... and that neither queue, take, nor end a job.                        *)
LEMMA InOrderStep ==
    ASSUME NEW t \in Threads, NEW s \in Sessions, Local(t, s), InOrder(s),
           jobs'[s] = jobs[s], received'[s] = received[s], done'[s] = done[s],
           poolState[s] # "FREE", pc[t] # "execute", pc'[t] # "execute"
    PROVE  InOrder(s)'
  <1>1. \A u \in Threads : u \in On(s)' /\ pc'[u] = "execute"
                             <=> u \in On(s) /\ pc[u] = "execute"
    BY Bystander
  <1>2. \A u \in On(s) \cup On(s)' : u \in Threads
    BY DEF On
  <1>3. InHand(s)' = InHand(s)
    BY <1>1, <1>2 DEF InHand
  <1>4. /\ received'[s] = done'[s] + InHand(s)' + Len(jobs'[s])
        /\ \A i \in 1 .. Len(jobs'[s]) : jobs'[s][i] = done'[s] + InHand(s)' + i
    BY <1>3 DEF InOrder
  <1>5. \A u \in On(s)' : pc'[u] = "execute" => job'[u] = done'[s] + 1
    <2>. SUFFICES ASSUME NEW u \in On(s)', pc'[u] = "execute"
                  PROVE  job'[u] = done'[s] + 1
      OBVIOUS
    <2>1. u \in Threads /\ u # t /\ u \in On(s) /\ pc[u] = "execute"
      BY <1>1, <1>2
    <2>2. job'[u] = job[u]
      BY <2>1, Bystander
    <2>. QED
      BY <2>1, <2>2 DEF InOrder
  <1>. QED
    BY <1>4, <1>5 DEF InOrder

LEMMA NotFree ==
    ASSUME NEW s \in Sessions, Unused(s), NEW t \in On(s)
    PROVE  poolState[s] # "FREE"
  BY DEF Unused

(* A step that changes nothing the invariant speaks of but where its       *)
(* thread is, and gives it no role.                                        *)
Turns(t) ==
    /\ Weight(t)' = Weight(t)
    /\ Owns(t)' => Owns(t)
    /\ Receives(t)' => Receives(t)
    /\ Serves(t)' <=> Serves(t)
    /\ pc[t] # "execute"
    /\ pc'[t] \notin {"complete", "reset", "dropCount", "execute"}

Same(s) ==
    /\ poolState'[s] = poolState[s] /\ open'[s] = open[s]
    /\ ioCount'[s] = ioCount[s] /\ releasePending'[s] = releasePending[s]
    /\ jobs'[s] = jobs[s] /\ received'[s] = received[s] /\ done'[s] = done[s]
    /\ processing'[s] = processing[s] /\ paused'[s] = paused[s]
    /\ ready' = ready
    /\ Outstanding(s, "recv")' = Outstanding(s, "recv")
    /\ Outstanding(s, "send")' = Outstanding(s, "send")

LEMMA CalmStep ==
    ASSUME TypeOK, TypeOK', NEW t \in Threads, NEW s \in Sessions, Local(t, s),
           Fits(t), Fits(t)', SessionInv(s), poolState[s] # "FREE",
           Turns(t), Same(s),
           pc'[t] \in LastPcs \cup {"claim"} => ioCount[s] = 0
    PROVE  SessionInv(s)'
  <1>1. Counted(s)'
    <2>1. Pending(s)' = Pending(s)
      BY DEF Same, Pending
    <2>2. /\ Pending(s) \in Nat /\ Weight(t) \in Nat /\ ioCount[s] \in Int
      BY PendingType, WeightType
    <2>3. Balanced(t, s)
      BY <2>1, <2>2 DEF Balanced, Same, Turns
    <2>. QED
      BY <2>3, CountedStep DEF SessionInv
  <1>2. Owned(s)'
    BY OwnedStep DEF SessionInv, Same, Turns
  <1>3. Drained(s)'
    BY DrainedStep DEF SessionInv, Same, Turns
  <1>4. Unused(s)'
    BY DEF Unused, Same
  <1>5. Scheduled(s)'
    BY ScheduledStep DEF SessionInv, Same, Turns
  <1>6. ReceivedOnce(s)'
    <2>1. Outstanding(s, "recv") \in Nat /\ paused[s] \in Nat
      BY PendingType
    <2>2. Outstanding(s, "recv")' <= Outstanding(s, "recv") /\ paused'[s] <= paused[s]
      BY <2>1 DEF Same
    <2>. QED
      BY <2>2, ReceivedStep DEF SessionInv, Turns
  <1>7. InOrder(s)'
    BY InOrderStep DEF SessionInv, Same, Turns
  <1>. QED
    BY <1>1, <1>2, <1>3, <1>4, <1>5, <1>6, <1>7 DEF SessionInv

Quiet ==
    UNCHANGED <<leaseVars, ioCount, releasePending, kernelVars, jobVars,
                schedVars, paused, ses, job>>

LEMMA QuietStep ==
    ASSUME TypeOK, NEW t \in Threads, NEW l, NEW q, At(t, l, q), Quiet,
           cancelIo' \in [Sessions -> 0 .. 1],
           post' \in [Threads -> {"next", "resume"}],
           \A u \in Threads \ {t} : post'[u] = post[u],
           batch' \in [Threads -> Nat]
    PROVE  TypeOK' /\ Local(t, ses[t]) /\ Same(ses[t])
  <1>. USE DEF leaseVars, kernelVars, jobVars, schedVars
  <1>1. TypeOK'
    BY DEF TypeOK, At, Quiet
  <1>2. Local(t, ses[t])
    BY DEF At, Quiet, Local
  <1>3. Same(ses[t])
    BY DEF Quiet, Same, Outstanding
  <1>. QED
    BY <1>1, <1>2, <1>3

(* What a step that is quiet comes to.                                     *)
Calm(t) ==
    /\ TypeOK' /\ Local(t, ses[t]) /\ Same(ses[t])
    /\ Fits(t)' /\ Turns(t)
    /\ pc'[t] \in LastPcs \cup {"claim"} => ioCount[ses[t]] = 0

(* BeginIO taken back before a receive that was not posted is reported.    *)
LEMMA UndoTurns ==
    ASSUME NEW t \in Threads, Fits(t), stack[t] \in Seq(Pcs),
           pc[t] \in {"gate", "issue"}, post[t] \in {"next", "resume"},
           post'[t] = post[t],
           pc'[t] = "undoIO", stack'[t] = Then(NotPosted(t), stack[t])
    PROVE  Fits(t)' /\ Turns(t)
  <1>1. NotPosted(t) \in {"recvNotPosted", "resumeFailed"}
        /\ NotPosted(t) \in Pcs
    BY DEF NotPosted, Pcs, HandlerPcs, ResumePcs
  <1>2. /\ Undoing(stack'[t]) <=> Undoing(stack[t])
        /\ Pausing(stack'[t]) <=> post[t] = "resume" \/ Pausing(stack[t])
        /\ Draining(stack'[t]) <=> Draining(stack[t])
        /\ Reserving(stack'[t]) <=> Reserving(stack[t])
    <2>. DEFINE r == NotPosted(t)
                q == Then(r, stack[t])
    <2>1. /\ Undoing(q) <=> Undoing(stack[t])
          /\ Pausing(q) <=> r = "resumeFailed" \/ Pausing(stack[t])
          /\ Draining(q) <=> Draining(stack[t])
          /\ Reserving(q) <=> Reserving(stack[t])
      <3>. r \in Pcs /\ r \in {"recvNotPosted", "resumeFailed"}
        BY <1>1
      <3>. HIDE DEF r
      <3>. QED
        BY ThenFacts
    <2>2. r = "resumeFailed" <=> post[t] = "resume"
      BY DEF NotPosted
    <2>3. stack'[t] = q
      OBVIOUS
    <2>. HIDE DEF q
    <2>. QED
      BY <2>1, <2>2, <2>3
  <1>3. BelowUndo(t, stack'[t])
    BY DEF Fits, NotPosted, BelowUndo, BelowNotPosted, PostPcs
  <1>4. Fits(t)'
    BY <1>3 DEF Fits, HandlerPcs, WorkerPcs, ResumePcs, PostPcs,
       InReleasePcs, LastPcs
  <1>5. Turns(t)
    BY <1>2 DEF Turns, Weight, Handles, Issues, Pauses, Owns,
       Receives, Serves, PostPcs, LastPcs, ParsePcs
  <1>. QED
    BY <1>4, <1>5

LEMMA CalmPost ==
    ASSUME TypeOK, NEW t \in Threads, Fits(t),
           CheckConnected(t) \/ Gate(t) \/ IssueFails(t) \/ ResumeFailed(t)
    PROVE  Calm(t)
  <1>. USE DEF leaseVars, ioVars, kernelVars, jobVars, schedVars, locals
  <1>0. /\ Quiet /\ cancelIo' = cancelIo /\ post' = post /\ batch' = batch
    BY DEF CheckConnected, Gate, IssueFails, ResumeFailed, Quiet
  <1>a. /\ cancelIo' \in [Sessions -> 0 .. 1]
        /\ post' \in [Threads -> {"next", "resume"}]
        /\ \A u \in Threads \ {t} : post'[u] = post[u]
        /\ batch' \in [Threads -> Nat]
    BY <1>0 DEF TypeOK
  <1>1. CASE CheckConnected(t)
    <2>1. PICK l \in {"begin", NotPosted(t)} : Goto(t, l)
      BY <1>1 DEF CheckConnected
    <2>2. l \in Pcs
      BY DEF NotPosted, Pcs, HandlerPcs, ResumePcs, IoPcs
    <2>3. At(t, l, stack[t])
      BY <2>1, <2>2, GotoAt
    <2>4. TypeOK' /\ Local(t, ses[t]) /\ Same(ses[t])
      BY <1>0, <1>a, <2>3, QuietStep
    <2>5. pc[t] = "connected" /\ pc'[t] = l /\ stack'[t] = stack[t] /\ post'[t] = post[t]
          /\ post[t] \in {"next", "resume"}
      BY <1>0, <1>1, <2>3 DEF CheckConnected, At, TypeOK
    <2>6. Fits(t)'
      BY <2>5 DEF Fits, NotPosted, HandlerPcs, WorkerPcs, ResumePcs, PostPcs,
         InReleasePcs, LastPcs
    <2>7. Turns(t)
      BY <2>5 DEF Fits, NotPosted, Turns, Weight, Handles, Issues, Pauses, Owns,
         Receives, Serves, PostPcs, LastPcs, ParsePcs
    <2>. QED
      BY <2>4, <2>5, <2>6, <2>7 DEF Calm, NotPosted, LastPcs
  <1>2. CASE Gate(t)
    <2>1. PICK l \in {"issue", "undoIO"} :
             /\ l = "issue" => Goto(t, l)
             /\ l = "undoIO" => Call(t, l, NotPosted(t))
      BY <1>2 DEF Gate
    <2>2. l \in Pcs /\ NotPosted(t) \in Pcs
      BY DEF NotPosted, Pcs, HandlerPcs, ResumePcs, IoPcs
    <2>3. /\ stack[t] \in Seq(Pcs) /\ pc[t] = "gate"
          /\ post'[t] = post[t] /\ post[t] \in {"next", "resume"}
      BY <1>0, <1>2 DEF TypeOK, Gate
    <2>4. CASE l = "issue"
      <3>1. At(t, "issue", stack[t])
        BY <2>1, <2>2, <2>4, GotoAt
      <3>2. TypeOK' /\ Local(t, ses[t]) /\ Same(ses[t])
        BY <1>0, <1>a, <3>1, QuietStep
      <3>3. pc'[t] = "issue" /\ stack'[t] = stack[t]
        BY <3>1 DEF At
      <3>4. Fits(t)'
        BY <2>3, <3>3 DEF Fits, HandlerPcs, WorkerPcs, ResumePcs, PostPcs,
           InReleasePcs, LastPcs
      <3>5. Turns(t)
        BY <2>3, <3>3 DEF Turns, Weight, Handles, Issues, Pauses, Owns,
           Receives, Serves, PostPcs, LastPcs, ParsePcs
      <3>. QED
        BY <3>2, <3>3, <3>4, <3>5 DEF Calm, LastPcs
    <2>5. CASE l = "undoIO"
      <3>1. At(t, "undoIO", Then(NotPosted(t), stack[t]))
        BY <2>1, <2>2, <2>5, CallAt
      <3>2. TypeOK' /\ Local(t, ses[t]) /\ Same(ses[t])
        BY <1>0, <1>a, <3>1, QuietStep
      <3>3. pc'[t] = "undoIO" /\ stack'[t] = Then(NotPosted(t), stack[t])
        BY <3>1 DEF At
      <3>. QED
        BY <2>3, <3>2, <3>3, UndoTurns DEF Calm, LastPcs
    <2>. QED
      BY <2>4, <2>5
  <1>3. CASE IssueFails(t)
    <2>2. NotPosted(t) \in Pcs /\ "undoIO" \in Pcs /\ "release" \in Pcs
      BY DEF NotPosted, Pcs, HandlerPcs, ResumePcs, IoPcs, ReleasePcs
    <2>3. /\ stack[t] \in Seq(Pcs) /\ pc[t] = "issue"
          /\ post'[t] = post[t] /\ post[t] \in {"next", "resume"}
      BY <1>0, <1>3 DEF TypeOK, IssueFails
    <2>4. CASE Call(t, "undoIO", NotPosted(t))
      <3>1. At(t, "undoIO", Then(NotPosted(t), stack[t]))
        BY <2>2, <2>4, CallAt
      <3>2. TypeOK' /\ Local(t, ses[t]) /\ Same(ses[t])
        BY <1>0, <1>a, <3>1, QuietStep
      <3>3. pc'[t] = "undoIO" /\ stack'[t] = Then(NotPosted(t), stack[t])
        BY <3>1 DEF At
      <3>. QED
        BY <2>3, <3>2, <3>3, UndoTurns DEF Calm, LastPcs
    <2>5. CASE /\ pc' = [pc EXCEPT ![t] = "release"]
               /\ stack' = [stack EXCEPT ![t] = <<"undoIO", NotPosted(t)>> \o @]
      <3>. DEFINE p == Then(NotPosted(t), stack[t])
      <3>0. p \in Seq(Pcs) /\ Then("undoIO", p) \in Seq(Pcs)
        BY <2>2, <2>3, ThenFacts
      <3>a. <<"undoIO", NotPosted(t)>> \o stack[t] = Then("undoIO", p)
        BY <2>2, <2>3 DEF Then
      <3>. HIDE DEF p
      <3>1. At(t, "release", Then("undoIO", p))
        <4>1. pc \in [Threads -> Pcs] /\ stack \in [Threads -> Seq(Pcs)]
          BY DEF TypeOK
        <4>2. stack' = [stack EXCEPT ![t] = Then("undoIO", p)]
          BY <2>5, <3>a, <4>1
        <4>. QED
          BY <2>2, <2>5, <3>0, <4>1, <4>2 DEF At
      <3>2. TypeOK' /\ Local(t, ses[t]) /\ Same(ses[t])
        BY <1>0, <1>a, <3>1, QuietStep
      <3>3. pc'[t] = "release" /\ stack'[t] = Then("undoIO", p)
        BY <3>1 DEF At
      <3>4. /\ Undoing(Then("undoIO", p))
            /\ Pausing(Then("undoIO", p)) <=> Pausing(p)
            /\ Draining(Then("undoIO", p)) <=> Draining(p)
            /\ Reserving(Then("undoIO", p)) <=> Reserving(p)
        BY <2>2, <3>0, ThenFacts
      <3>5. /\ Pausing(p) <=> post[t] = "resume" \/ Pausing(stack[t])
            /\ Draining(p) <=> Draining(stack[t])
            /\ Reserving(p) <=> Reserving(stack[t])
        <4>1. /\ Pausing(p) <=> NotPosted(t) \in {"resumeFailed", "dropPause"}
                                  \/ Pausing(stack[t])
              /\ Draining(p) <=> NotPosted(t) \in {"drain", "execute"}
                                   \/ Draining(stack[t])
              /\ Reserving(p) <=> NotPosted(t) = "reserve" \/ Reserving(stack[t])
          BY <2>2, <2>3, ThenFacts DEF p
        <4>2. NotPosted(t) = IF post[t] = "next" THEN "recvNotPosted"
                                                 ELSE "resumeFailed"
          BY DEF NotPosted
        <4>. QED
          BY <2>3, <4>1, <4>2
      <3>6. BelowRelease(t, Then("undoIO", p))
        BY <2>3 DEF p, NotPosted, Fits, BelowRelease, PostPcs
      <3>7. Fits(t)'
        BY <3>3, <3>6 DEF Fits, HandlerPcs, WorkerPcs, ResumePcs, PostPcs,
           InReleasePcs, LastPcs
      <3>8. Turns(t)
        BY <2>3, <3>3, <3>4, <3>5 DEF Turns, Weight, Handles, Issues, Pauses,
           Owns, Receives, Serves, PostPcs, LastPcs, ParsePcs
      <3>. QED
        BY <3>2, <3>3, <3>7, <3>8 DEF Calm, LastPcs
    <2>. QED
      BY <1>3, <2>4, <2>5 DEF IssueFails
  <1>4. CASE ResumeFailed(t)
    <2>2. "dropPause" \in Pcs /\ "release" \in Pcs
      BY DEF Pcs, ResumePcs, ReleasePcs
    <2>3. /\ stack[t] \in Seq(Pcs) /\ pc[t] = "resumeFailed"
          /\ post'[t] = post[t]
      BY <1>0, <1>4 DEF TypeOK, ResumeFailed
    <2>4. At(t, "release", Then("dropPause", stack[t]))
      BY <1>4, <2>2, CallAt DEF ResumeFailed
    <2>5. TypeOK' /\ Local(t, ses[t]) /\ Same(ses[t])
      BY <1>0, <1>a, <2>4, QuietStep
    <2>6. pc'[t] = "release" /\ stack'[t] = Then("dropPause", stack[t])
      BY <2>4 DEF At
    <2>7. /\ Undoing(stack'[t]) <=> Undoing(stack[t])
          /\ Pausing(stack'[t])
          /\ Draining(stack'[t]) <=> Draining(stack[t])
          /\ Reserving(stack'[t]) <=> Reserving(stack[t])
      <3>. DEFINE q == Then("dropPause", stack[t])
      <3>1. /\ Undoing(q) <=> Undoing(stack[t])
            /\ Pausing(q)
            /\ Draining(q) <=> Draining(stack[t])
            /\ Reserving(q) <=> Reserving(stack[t])
        BY <2>2, <2>3, ThenFacts
      <3>2. stack'[t] = q
        BY <2>6
      <3>. HIDE DEF q
      <3>. QED
        BY <3>1, <3>2
    <2>8. BelowRelease(t, stack'[t])
      BY <2>3, <2>6 DEF Fits, BelowRelease, ResumePcs
    <2>9. Fits(t)'
      BY <2>6, <2>8 DEF Fits, HandlerPcs, WorkerPcs, ResumePcs, PostPcs,
         InReleasePcs, LastPcs
    <2>10. Turns(t)
      BY <2>3, <2>6, <2>7 DEF Turns, Weight, Handles, Issues, Pauses,
         Owns, Receives, Serves, PostPcs, LastPcs, ParsePcs
    <2>. QED
      BY <2>5, <2>6, <2>9, <2>10 DEF Calm, LastPcs
  <1>. QED
    BY <1>1, <1>2, <1>3, <1>4

LEMMA FinishFrame ==
    /\ Then("finish", <<>>) \in Seq(Pcs) /\ Then("finish", <<>>) # <<>>
    /\ ~Undoing(Then("finish", <<>>)) /\ ~Pausing(Then("finish", <<>>))
    /\ ~Draining(Then("finish", <<>>)) /\ ~Reserving(Then("finish", <<>>))
  <1>1. "finish" \in Pcs
    BY DEF Pcs, HandlerPcs
  <1>. QED
    BY <1>1, ThenFacts, EmptyFacts

(* The handler goes on, or to another routine that returns to its end.     *)
LEMMA CalmHandler ==
    ASSUME TypeOK, NEW w \in Threads, Fits(w),
           \/ ParseDone(w) \/ ParseBad(w) \/ CheckPending(w)
           \/ PostReceiveOrPause(w) \/ GatePause(w) \/ RecheckDepth(w)
           \/ RecvNotPosted(w)
    PROVE  Calm(w)
  <1>. USE DEF leaseVars, ioVars, kernelVars, jobVars, schedVars, locals
  <1>0. /\ Quiet /\ cancelIo' = cancelIo
        /\ post' = post \/ post' = [post EXCEPT ![w] = "next"]
        /\ batch' = batch \/ batch' = [batch EXCEPT ![w] = 0]
    BY DEF ParseDone, ParseBad, CheckPending, PostReceiveOrPause,
       GatePause, RecheckDepth, RecvNotPosted, Quiet
  <1>1. /\ Quiet /\ cancelIo' = cancelIo
        /\ \A u \in Threads \ {w} : post'[u] = post[u]
        /\ post' \in [Threads -> {"next", "resume"}]
        /\ batch' \in [Threads -> Nat]
    <2>1. /\ post \in [Threads -> {"next", "resume"}]
          /\ batch \in [Threads -> Nat]
      BY DEF TypeOK
    <2>2. \A u \in Threads \ {w} : post'[u] = post[u]
      BY <1>0, <2>1
    <2>3. post' \in [Threads -> {"next", "resume"}]
      BY <1>0, <2>1
    <2>4. batch' \in [Threads -> Nat]
      BY <1>0, <2>1
    <2>. QED
      BY <1>0, <2>2, <2>3, <2>4
  <1>2. cancelIo' \in [Sessions -> 0 .. 1]
    BY <1>1 DEF TypeOK
  <1>3. pc[w] \in {"parse", "checkPending", "depth", "gatePause", "recheck",
                   "recvNotPosted"}
    BY DEF ParseDone, ParseBad, CheckPending, PostReceiveOrPause,
       GatePause, RecheckDepth, RecvNotPosted
  <1>4. w \in Workers /\ stack[w] = <<>>
    BY <1>3 DEF Fits, HandlerPcs
  <1>5. CASE \/ ParseDone(w) \/ CheckPending(w) \/ PostReceiveOrPause(w)
             \/ GatePause(w) /\ Goto(w, "mark")
             \/ RecheckDepth(w) /\ Goto(w, "finish")
             \/ RecvNotPosted(w) /\ Goto(w, "finish")
    <2>1. PICK l \in {"checkPending", "finish", "depth", "connected", "beginPause",
                      "mark"} :
            /\ Goto(w, l)
            /\ l = "connected" => post'[w] = "next"
            /\ l = "mark" <=> pc[w] = "gatePause"
            /\ l \in {"checkPending", "depth", "connected", "beginPause"} =>
                 pc[w] \in {"parse", "checkPending", "depth"}
      <3>1. CASE PostReceiveOrPause(w)
        <4>1. post'[w] = "next"
          BY <3>1 DEF PostReceiveOrPause, TypeOK
        <4>. QED
          BY <3>1, <4>1 DEF PostReceiveOrPause
      <3>. QED
        BY <1>5, <3>1 DEF ParseDone, CheckPending, GatePause, RecheckDepth,
           RecvNotPosted
    <2>2. l \in Pcs
      BY DEF Pcs, HandlerPcs, IoPcs
    <2>3. At(w, l, <<>>)
      BY <1>4, <2>1, <2>2, GotoAt
    <2>4. TypeOK' /\ Local(w, ses[w]) /\ Same(ses[w])
      BY <1>1, <1>2, <2>3, QuietStep
    <2>5. pc'[w] = l /\ stack'[w] = <<>>
      BY <2>3 DEF At
    <2>6. Fits(w)'
      BY <1>4, <2>1, <2>5 DEF Fits, HandlerPcs, WorkerPcs, ResumePcs, PostPcs,
         InReleasePcs, LastPcs
    <2>7. Turns(w)
      BY <1>3, <1>4, <2>1, <2>5, EmptyFacts DEF Turns, Weight, Handles, Issues,
         Pauses, Owns, Receives, Serves, PostPcs, LastPcs, ParsePcs
    <2>. QED
      BY <2>4, <2>5, <2>6, <2>7 DEF Calm, LastPcs
  <1>6. CASE \E l \in {"release", "undoIO", "resume"} :
               /\ Call(w, l, "finish")
               /\ l = "undoIO" <=> pc[w] = "gatePause"
    <2>1. PICK l \in {"release", "undoIO", "resume"} :
            /\ Call(w, l, "finish")
            /\ l = "undoIO" <=> pc[w] = "gatePause"
      BY <1>6
    <2>2. l \in Pcs /\ "finish" \in Pcs
      BY DEF Pcs, HandlerPcs, IoPcs, ResumePcs, ReleasePcs
    <2>3. At(w, l, Then("finish", <<>>))
      BY <1>4, <2>1, <2>2, CallAt
    <2>4. TypeOK' /\ Local(w, ses[w]) /\ Same(ses[w])
      BY <1>1, <1>2, <2>3, QuietStep
    <2>5. pc'[w] = l /\ stack'[w] = Then("finish", <<>>)
      BY <2>3 DEF At
    <2>6. w \in Posters
      BY <1>4 DEF Posters
    <2>7. Fits(w)'
      BY <1>4, <2>5, <2>6 DEF Fits, Base, BelowUndo, BelowRelease, HandlerPcs,
         WorkerPcs, ResumePcs, PostPcs, InReleasePcs, LastPcs
    <2>8. Turns(w)
      BY <1>3, <1>4, <2>1, <2>5, EmptyFacts, FinishFrame
         DEF Turns, Weight, Handles, Issues,
         Pauses, Owns, Receives, Serves, PostPcs, LastPcs, ParsePcs
    <2>. QED
      BY <2>4, <2>5, <2>7, <2>8 DEF Calm, LastPcs
  <1>. QED
    BY <1>5, <1>6 DEF ParseDone, ParseBad, CheckPending, PostReceiveOrPause,
       GatePause, RecheckDepth, RecvNotPosted

(* The job worker goes on, or is done with the session.                    *)
LEMMA CalmWorker ==
    ASSUME TypeOK, NEW j \in Threads, Fits(j),
           RecheckJobs(j) \/ ResumeIfPaused(j) \/ ResumeIfDrained(j)
    PROVE  Calm(j)
  <1>. USE DEF leaseVars, ioVars, kernelVars, jobVars, schedVars, locals
  <1>1. /\ Quiet /\ cancelIo' = cancelIo /\ post' = post /\ batch' = batch
    BY DEF RecheckJobs, ResumeIfPaused, ResumeIfDrained, Quiet
  <1>2. /\ cancelIo' \in [Sessions -> 0 .. 1]
        /\ post' \in [Threads -> {"next", "resume"}]
        /\ \A u \in Threads \ {j} : post'[u] = post[u]
        /\ batch' \in [Threads -> Nat]
    BY <1>1 DEF TypeOK
  <1>3. pc[j] \in {"recheckJobs", "resumeCheck", "resumeDepth"}
    BY DEF RecheckJobs, ResumeIfPaused, ResumeIfDrained
  <1>4. j \in JobWorkers /\ j \notin Workers /\ j \in Posters /\ stack[j] = <<>>
    BY <1>3, ThreadsAssumption DEF Fits, WorkerPcs, Posters
  <1>5. PICK l \in {"claimAgain", "resumeCheck", "resumeDepth", "resume", "idle"} :
          At(j, l, <<>>)
    <2>1. CASE RecheckJobs(j)
      <3>1. PICK l \in {"claimAgain", "resumeCheck"} : Goto(j, l)
        BY <2>1 DEF RecheckJobs
      <3>2. l \in Pcs
        BY DEF Pcs, WorkerPcs
      <3>. QED
        BY <1>4, <3>1, <3>2, GotoAt
    <2>2. CASE ResumeIfPaused(j) \/ ResumeIfDrained(j)
      <3>1. PICK l \in {"resumeDepth", "resume"} : Goto(j, l) \/ Return(j)
        BY <2>2 DEF ResumeIfPaused, ResumeIfDrained, GotoOrReturn
      <3>2. l \in Pcs
        BY DEF Pcs, WorkerPcs, ResumePcs
      <3>3. CASE Goto(j, l)
        BY <1>4, <3>2, <3>3, GotoAt
      <3>4. CASE Return(j)
        BY <1>4, <3>4, ReturnAt
      <3>. QED
        BY <3>1, <3>3, <3>4
    <2>. QED
      BY <2>1, <2>2
  <1>6. TypeOK' /\ Local(j, ses[j]) /\ Same(ses[j])
    BY <1>1, <1>2, <1>5, QuietStep
  <1>7. pc'[j] = l /\ stack'[j] = <<>>
    BY <1>5 DEF At
  <1>8. Fits(j)'
    BY <1>4, <1>7 DEF Fits, Base, HandlerPcs, WorkerPcs, ResumePcs, PostPcs,
       InReleasePcs, LastPcs
  <1>9. Turns(j)
    BY <1>3, <1>4, <1>7, EmptyFacts DEF Turns, Weight, Handles, Issues,
       Pauses, Owns, Receives, Serves, PostPcs, LastPcs, ParsePcs
  <1>. QED
    BY <1>6, <1>7, <1>8, <1>9 DEF Calm, LastPcs

LEMMA WorkerStack ==
    ASSUME NEW t \in Workers
    PROVE  ~BelowRelease(t, <<>>) /\ Base(t) # <<>> /\ ~BelowDrop(t, <<>>)
  <1>1. /\ "finish" \in Pcs /\ "recvNotPosted" \in Pcs /\ "undoIO" \in Pcs
        /\ "resumeFailed" \in Pcs /\ "dropPause" \in Pcs /\ "reserve" \in Pcs
    BY DEF Pcs, HandlerPcs, ResumePcs, IoPcs, ReleasePcs
  <1>2. Then("finish", <<>>) # <<>> /\ Base(t) \in Seq(Pcs) /\ Base(t) # <<>>
    BY EmptyFacts, FinishFrame DEF Base
  <1>3. /\ Then("dropPause", Base(t)) # <<>>
        /\ Then("recvNotPosted", <<>>) \in Seq(Pcs)
        /\ Then("resumeFailed", Base(t)) \in Seq(Pcs)
    BY <1>1, <1>2, EmptyFacts, ThenFacts
  <1>4. /\ Then("undoIO", Then("recvNotPosted", <<>>)) # <<>>
        /\ Then("undoIO", Then("resumeFailed", Base(t))) # <<>>
    BY <1>1, <1>3, ThenFacts
  <1>5. ~BelowRelease(t, <<>>)
    BY <1>2, <1>3, <1>4, ThreadsAssumption DEF BelowRelease
  <1>6. ~BelowDrop(t, <<>>)
    <2>1. SUFFICES ASSUME <<>> = <<"reserve">> \o Tail(<<>>), BelowRelease(t, Tail(<<>>))
                   PROVE  FALSE
      BY DEF BelowDrop, Then
    <2>. QED
      BY <2>1
  <1>. QED
    BY <1>2, <1>5, <1>6

(* A return from a routine that holds nothing itself.                      *)
LEMMA CalmReturn ==
    ASSUME TypeOK, NEW t \in Threads, Fits(t), Return(t), Quiet,
           cancelIo' = cancelIo, batch' = batch,
           post' \in [Threads -> {"next", "resume"}],
           \A u \in Threads \ {t} : post'[u] = post[u],
           \/ pc[t] \in {"release", "token", "claim", "readCount"}
           \/ pc[t] = "resume"
    PROVE  Calm(t)
  <1>1. Returns(t, stack[t])
    BY DEF Fits, Returns, InReleasePcs, LastPcs, ResumePcs, Base, BelowUndo
  <1>2. Returned(t)
    BY <1>1, ReturnRoles
  <1>3. /\ pc' \in [Threads -> Pcs] /\ stack' \in [Threads -> Seq(Pcs)]
        /\ \A u \in Threads \ {t} : pc'[u] = pc[u] /\ stack'[u] = stack[u]
    BY <1>1, ReturnRoles
  <1>4. At(t, pc'[t], stack'[t])
    BY <1>3 DEF At
  <1>5. cancelIo' \in [Sessions -> 0 .. 1] /\ batch' \in [Threads -> Nat]
    BY DEF TypeOK
  <1>6. TypeOK' /\ Local(t, ses[t]) /\ Same(ses[t])
    BY <1>4, <1>5, QuietStep
  <1>7. Fits(t)' /\ pc'[t] \notin LastPcs \cup {"claim", "dropCount", "execute"}
    BY <1>2 DEF Returned, ReturnPcs, LastPcs
  <1>8. /\ pc[t] \notin {"idle", "execute"}
        /\ Handles(t) <=> stack[t] # <<>> /\ t \in Workers
        /\ Issues(t) <=> Undoing(stack[t])
        /\ Pauses(t) <=> Pausing(stack[t])
        /\ Receives(t) <=> Pausing(stack[t])
        /\ Serves(t) <=> Draining(stack[t])
        /\ Owns(t) <=> Reserving(stack[t])
    <2>1. stack[t] = <<>> => pc[t] \in LastPcs \/ t \notin Workers
      <3>1. pc[t] \in {"release", "claim", "readCount"} => BelowRelease(t, stack[t])
        BY DEF Fits, InReleasePcs
      <3>2. pc[t] = "resume" => stack[t] = Base(t)
        BY DEF Fits, ResumePcs
      <3>. QED
        BY <3>1, <3>2, WorkerStack DEF LastPcs
    <2>2. /\ Handles(t) <=> stack[t] # <<>> /\ t \in Workers
      BY <2>1 DEF Handles, LastPcs
    <2>3. /\ Issues(t) <=> Undoing(stack[t])
          /\ Pauses(t) <=> Pausing(stack[t])
          /\ Receives(t) <=> Pausing(stack[t])
      BY DEF Issues, Pauses, Receives, PostPcs, ParsePcs
    <2>4. /\ Serves(t) <=> Draining(stack[t])
          /\ Owns(t) <=> Reserving(stack[t])
      BY DEF Serves, Owns
    <2>. QED
      BY <2>2, <2>3, <2>4
  <1>9. Turns(t)
    BY <1>2, <1>7, <1>8 DEF Returned, Turns, Weight, LastPcs
  <1>. QED
    BY <1>6, <1>7, <1>9 DEF Calm

(* The steps of a release that change no role.                             *)
LEMMA CalmRelease ==
    ASSUME TypeOK, NEW t \in Threads, Fits(t),
           \/ TakeToken(t) /\ releasePending[ses[t]] # 1
           \/ Release(t) /\ poolState[ses[t]] # "IN_USE"
           \/ CancelPendingIO(t)
           \/ ReleaseUnpostedIO(t) /\ paused[ses[t]] # 1
           \/ ReadCount(t)
    PROVE  Calm(t)
  <1>. USE DEF leaseVars, ioVars, kernelVars, jobVars, schedVars, locals
  <1>0. ses[t] \in Sessions
    BY DEF TypeOK
  <1>1. CASE TakeToken(t) /\ releasePending[ses[t]] # 1
    <2>1. releasePending' = releasePending
      BY <1>0, <1>1 DEF TakeToken, TypeOK
    <2>2. Quiet /\ cancelIo' = cancelIo /\ post' = post /\ batch' = batch
      BY <1>1, <2>1 DEF TakeToken, Quiet
    <2>3. Return(t) /\ pc[t] \in {"token", "claim"}
      BY <1>1 DEF TakeToken, GotoOrReturn
    <2>4. post' \in [Threads -> {"next", "resume"}]
      BY <2>2 DEF TypeOK
    <2>. QED
      BY <2>2, <2>3, <2>4, CalmReturn
  <1>2. CASE Release(t) /\ poolState[ses[t]] # "IN_USE"
    <2>2. Quiet /\ cancelIo' = cancelIo /\ post' = post /\ batch' = batch
      BY <1>2 DEF Release, Quiet
    <2>3. Return(t) /\ pc[t] = "release"
      BY <1>2 DEF Release, GotoOrReturn
    <2>4. post' \in [Threads -> {"next", "resume"}]
      BY <2>2 DEF TypeOK
    <2>. QED
      BY <2>2, <2>3, <2>4, CalmReturn
  <1>3. CASE ReadCount(t) /\ ioCount[ses[t]] # 0
    <2>2. Quiet /\ cancelIo' = cancelIo /\ post' = post /\ batch' = batch
      BY <1>3 DEF ReadCount, Quiet
    <2>3. Return(t) /\ pc[t] = "readCount"
      BY <1>3 DEF ReadCount, GotoOrReturn
    <2>4. post' \in [Threads -> {"next", "resume"}]
      BY <2>2 DEF TypeOK
    <2>. QED
      BY <2>2, <2>3, <2>4, CalmReturn
  <1>4. CASE \/ CancelPendingIO(t)
             \/ ReleaseUnpostedIO(t) /\ paused[ses[t]] # 1
             \/ ReadCount(t) /\ ioCount[ses[t]] = 0
    <2>1. /\ Quiet /\ post' = post /\ batch' = batch
          /\ cancelIo' \in [Sessions -> 0 .. 1]
      <3>1. CASE CancelPendingIO(t)
        BY <3>1, <1>0 DEF CancelPendingIO, Quiet, TypeOK
      <3>2. CASE ReleaseUnpostedIO(t) /\ paused[ses[t]] # 1
        <4>1. paused' = paused
          BY <1>0, <3>2 DEF ReleaseUnpostedIO, TypeOK
        <4>. QED
          BY <3>2, <4>1 DEF ReleaseUnpostedIO, Quiet, TypeOK
      <3>3. CASE ReadCount(t)
        BY <3>3 DEF ReadCount, Quiet, TypeOK
      <3>. QED
        BY <1>4, <3>1, <3>2, <3>3
    <2>2. post' \in [Threads -> {"next", "resume"}] /\ batch' \in [Threads -> Nat]
      BY <2>1 DEF TypeOK
    <2>3. PICK l \in {"reserve", "cancelIoEx", "dropUnposted", "claim"} :
            /\ Goto(t, l)
            /\ l = "claim" => ioCount[ses[t]] = 0
            /\ l = "claim" <=> pc[t] = "readCount"
            /\ pc[t] \in {"cancel", "dropUnposted", "readCount"}
      BY <1>4 DEF CancelPendingIO, ReleaseUnpostedIO, ReadCount, GotoOrReturn
    <2>4. l \in Pcs
      BY DEF Pcs, ReleasePcs
    <2>5. At(t, l, stack[t])
      BY <2>3, <2>4, GotoAt
    <2>6. TypeOK' /\ Local(t, ses[t]) /\ Same(ses[t])
      BY <2>1, <2>2, <2>5, QuietStep
    <2>7. pc'[t] = l /\ stack'[t] = stack[t]
      BY <2>5 DEF At
    <2>8. Fits(t)'
      <3>1. BelowRelease(t, stack[t])
        BY <2>3 DEF Fits, InReleasePcs
      <3>. QED
        BY <2>7, <3>1 DEF Fits, HandlerPcs, WorkerPcs, ResumePcs, PostPcs,
           InReleasePcs, LastPcs
    <2>9. Turns(t)
      BY <2>3, <2>7 DEF Turns, Weight, Handles, Issues, Pauses, Owns,
         Receives, Serves, PostPcs, LastPcs, ParsePcs
    <2>. QED
      BY <2>3, <2>6, <2>7, <2>8, <2>9 DEF Calm, LastPcs
  <1>. QED
    BY <1>1, <1>2, <1>3, <1>4

LEMMA AbortKeeps ==
    ASSUME TypeOK, NEW s \in Sessions, AbortOperations(s)
    PROVE  /\ live' \in [Sessions -> [Kinds -> Nat]]
           /\ dying' \in [Sessions -> [Kinds -> Nat]]
           /\ \A x \in Sessions \ {s} : live'[x] = live[x] /\ dying'[x] = dying[x]
           /\ \A k \in Kinds : Outstanding(s, k)' = Outstanding(s, k)
  <1>1. /\ live \in [Sessions -> [Kinds -> Nat]]
        /\ dying \in [Sessions -> [Kinds -> Nat]]
    BY DEF TypeOK
  <1>2. \A k \in Kinds : live[s][k] \in Nat /\ dying[s][k] \in Nat
    BY <1>1
  <1>3. live' \in [Sessions -> [Kinds -> Nat]]
    BY <1>1 DEF AbortOperations
  <1>4. dying' \in [Sessions -> [Kinds -> Nat]]
    <2>1. [k \in Kinds |-> dying[s][k] + live[s][k]] \in [Kinds -> Nat]
      BY <1>2
    <2>. QED
      BY <1>1, <2>1 DEF AbortOperations
  <1>5. \A x \in Sessions \ {s} : live'[x] = live[x] /\ dying'[x] = dying[x]
    BY <1>1 DEF AbortOperations
  <1>6. ASSUME NEW k \in Kinds
        PROVE  Outstanding(s, k)' = Outstanding(s, k)
    <2>1. live'[s][k] = 0 /\ dying'[s][k] = dying[s][k] + live[s][k]
      BY <1>1 DEF AbortOperations
    <2>. QED
      BY <1>2, <2>1 DEF Outstanding
  <1>. QED
    BY <1>3, <1>4, <1>5, <1>6

LEMMA CalmCancel ==
    ASSUME TypeOK, NEW t \in Threads, Fits(t), CancelIoEx(t)
    PROVE  Calm(t)
  <1>. USE DEF leaseVars, ioVars, kernelVars, jobVars, schedVars, locals
  <1>0. ses[t] \in Sessions /\ "recv" \in Kinds /\ "send" \in Kinds
    BY DEF TypeOK, Kinds
  <1>1. AbortOperations(ses[t]) /\ pc[t] = "cancelIoEx"
    BY DEF CancelIoEx
  <1>2. PICK l \in {"dropUnposted", "reserve"} : Goto(t, l)
    BY DEF CancelIoEx
  <1>3. l \in Pcs
    BY DEF Pcs, ReleasePcs
  <1>4. At(t, l, stack[t])
    BY <1>2, <1>3, GotoAt
  <1>5. TypeOK'
    BY <1>0, <1>1, <1>4, AbortKeeps DEF CancelIoEx, TypeOK, At
  <1>6. Local(t, ses[t])
    BY <1>0, <1>1, <1>4, AbortKeeps DEF CancelIoEx, Local, At
  <1>7. Same(ses[t])
    BY <1>0, <1>1, AbortKeeps DEF CancelIoEx, Same
  <1>8. pc'[t] = l /\ stack'[t] = stack[t] /\ post'[t] = post[t]
    BY <1>4 DEF At, CancelIoEx
  <1>9. Fits(t)'
    BY <1>1, <1>8 DEF Fits, HandlerPcs, WorkerPcs, ResumePcs, PostPcs,
       InReleasePcs, LastPcs
  <1>10. Turns(t)
    BY <1>1, <1>8 DEF Turns, Weight, Handles, Issues, Pauses, Owns,
       Receives, Serves, PostPcs, LastPcs, ParsePcs
  <1>. QED
    BY <1>5, <1>6, <1>7, <1>8, <1>9, <1>10 DEF Calm, LastPcs

LEMMA CalmResume ==
    ASSUME TypeOK, NEW t \in Threads, Fits(t), ResumeReceive(t),
           paused[ses[t]] # 1
    PROVE  Calm(t)
  <1>. USE DEF leaseVars, ioVars, kernelVars, jobVars, schedVars, locals
  <1>0. ses[t] \in Sessions
    BY DEF TypeOK
  <1>1. paused' = paused
    BY <1>0 DEF ResumeReceive, TypeOK
  <1>2. Quiet /\ cancelIo' = cancelIo /\ batch' = batch
    BY <1>1 DEF ResumeReceive, Quiet
  <1>3. Return(t) /\ pc[t] = "resume"
    BY DEF ResumeReceive, GotoOrReturn
  <1>4. /\ post' \in [Threads -> {"next", "resume"}]
        /\ \A u \in Threads \ {t} : post'[u] = post[u]
    BY DEF ResumeReceive, TypeOK
  <1>. QED
    BY <1>2, <1>3, <1>4, CalmReturn

-----------------------------------------------------------------------------
(* The steps that do change something keep the invariant of the session.   *)

(* The invariant at every session, but for the one a step is about.        *)
LEMMA OtherSession ==
    ASSUME TypeOK, NEW t \in Threads, NEW s \in Sessions, Local(t, s), Fits(t),
           NEW x \in Sessions \ {s}, SessionInv(x),
           InQueue(x)' <=> InQueue(x), OnceInQueue(x)'
    PROVE  SessionInv(x)'
  <1>1. /\ \A u \in Threads : u \in On(x)' <=> u \in On(x)
        /\ t \notin On(x)
    BY OnSession, Bystander
  <1>2. On(x)' = On(x) /\ \A u \in On(x) : u \in Threads \ {t}
    BY <1>1 DEF On
  <1>3. \A u \in On(x) :
          /\ pc'[u] = pc[u] /\ stack'[u] = stack[u] /\ job'[u] = job[u]
          /\ Handles(u)' <=> Handles(u)
          /\ Issues(u)' <=> Issues(u)
          /\ Pauses(u)' <=> Pauses(u)
          /\ Receives(u)' <=> Receives(u)
          /\ Serves(u)' <=> Serves(u)
          /\ Owns(u)' <=> Owns(u)
    BY <1>2, Bystander
  <1>4. /\ poolState'[x] = poolState[x] /\ open'[x] = open[x]
        /\ ioCount'[x] = ioCount[x] /\ releasePending'[x] = releasePending[x]
        /\ jobs'[x] = jobs[x] /\ processing'[x] = processing[x]
        /\ paused'[x] = paused[x] /\ received'[x] = received[x]
        /\ done'[x] = done[x]
    BY DEF Local
  <1>5. \A k : Outstanding(x, k)' = Outstanding(x, k)
    BY DEF Local, Outstanding
  <1>6. Counted(x)'
    <2>1. /\ Handlers(x)' = Handlers(x) /\ Issuers(x)' = Issuers(x)
          /\ Pausers(x)' = Pausers(x)
      BY <1>2, <1>3 DEF Handlers, Issuers, Pausers
    <2>2. Pending(x)' = Pending(x)
      BY <1>4, <1>5 DEF Pending
    <2>. QED
      BY <1>4, <2>1, <2>2, CountedMeans DEF SessionInv
  <1>7. Owned(x)'
    BY <1>2, <1>3, <1>4 DEF SessionInv, Owned
  <1>8. Drained(x)'
    BY <1>2, <1>3, <1>4 DEF SessionInv, Drained
  <1>9. Unused(x)'
    BY <1>2, <1>4 DEF SessionInv, Unused
  <1>10. Scheduled(x)'
    BY <1>2, <1>3, <1>4 DEF SessionInv, Scheduled
  <1>11. ReceivedOnce(x)'
    BY <1>2, <1>3, <1>4, <1>5 DEF SessionInv, ReceivedOnce
  <1>12. InOrder(x)'
    <2>1. InHand(x)' = InHand(x)
      BY <1>2, <1>3 DEF InHand
    <2>. QED
      BY <1>2, <1>3, <1>4, <2>1 DEF SessionInv, InOrder
  <1>. QED
    BY <1>6, <1>7, <1>8, <1>9, <1>10, <1>11, <1>12 DEF SessionInv

(* A step about session s keeps what is to hold of it, and the places of   *)
(* the others in the ready queue.                                          *)
Keeps(t, s) ==
    /\ TypeOK' /\ Fits(t)' /\ Local(t, s)
    /\ ~left'[s] => ~left[s]
    /\ ~left'[s] /\ SessionInv(s) => SessionInv(s)'
    /\ \A x \in Sessions \ {s} : /\ InQueue(x)' <=> InQueue(x)
                                 /\ OnceInQueue(x) => OnceInQueue(x)'

LEMMA QueueKept ==
    ASSUME ready' = ready
    PROVE  \A x \in Sessions : /\ InQueue(x)' <=> InQueue(x)
                               /\ OnceInQueue(x) => OnceInQueue(x)'
  BY DEF InQueue, OnceInQueue

LEMMA CalmKeeps ==
    ASSUME TypeOK, NEW t \in Threads, NEW s \in Sessions, ses[t] = s, Fits(t),
           Calm(t), pc[t] # "idle", left' = left
    PROVE  Keeps(t, s)
  <1>1. Local(t, s) /\ ses'[t] = s
    BY DEF Calm, Local
  <1>a. Same(s)
    BY <1>1 DEF Calm, Same, Outstanding
  <1>2. ASSUME SessionInv(s)
        PROVE  SessionInv(s)'
    <2>1. t \in On(s)
      BY DEF On
    <2>2. poolState[s] # "FREE"
      BY <1>2, <2>1, NotFree DEF SessionInv
    <2>3. /\ TypeOK' /\ Fits(t)' /\ Turns(t)
          /\ pc'[t] \in LastPcs \cup {"claim"} => ioCount[s] = 0
      BY DEF Calm
    <2>. QED
      BY <1>1, <1>2, <1>a, <2>2, <2>3, CalmStep
  <1>3. ready' = ready
    BY DEF Calm, Same
  <1>. QED
    BY <1>1, <1>2, <1>3, QueueKept DEF Keeps, Calm

(* The thread that takes the token completes the release.                  *)
LEMMA KeepsToken ==
    ASSUME TypeOK, NEW t \in Threads, NEW s \in Sessions, ses[t] = s, Fits(t),
           TakeToken(t), releasePending[s] = 1
    PROVE  Keeps(t, s)
  <1>. USE DEF leaseVars, ioVars, kernelVars, jobVars, schedVars, locals
  <1>0. s \in Sessions /\ t \in On(s) /\ pc[t] \in {"token", "claim"}
    BY DEF TypeOK, TakeToken, On
  <1>1. At(t, "complete", stack[t])
    <2>1. "complete" \in Pcs
      BY DEF Pcs, ReleasePcs
    <2>. QED
      BY <2>1, GotoAt DEF TakeToken, GotoOrReturn
  <1>2. TypeOK'
    <2>1. releasePending' \in [Sessions -> 0 .. 1]
      BY DEF TakeToken, TypeOK
    <2>2. pc' \in [Threads -> Pcs] /\ stack' \in [Threads -> Seq(Pcs)]
      BY <1>1 DEF At
    <2>. QED
      BY <2>1, <2>2 DEF TakeToken, TypeOK
  <1>3. Local(t, s)
    BY <1>0, <1>1 DEF TakeToken, TypeOK, Local, At
  <1>4. /\ pc'[t] = "complete" /\ stack'[t] = stack[t] /\ post'[t] = post[t]
        /\ releasePending'[s] = 0 /\ left' = left /\ ready' = ready
    BY <1>0, <1>1 DEF TakeToken, TypeOK, At
  <1>5. Fits(t)'
    BY <1>0, <1>4 DEF Fits, HandlerPcs, WorkerPcs, ResumePcs, PostPcs,
       InReleasePcs, LastPcs
  <1>6. /\ Weight(t)' = Weight(t)
        /\ Receives(t)' <=> Receives(t)
        /\ Serves(t)' <=> Serves(t)
    <2>1. pc[t] = "claim" => (t \in Workers => stack[t] # <<>>)
      <3>1. ASSUME pc[t] = "claim", t \in Workers, stack[t] = <<>>
            PROVE  FALSE
        <4>1. BelowRelease(t, stack[t])
          BY <3>1 DEF Fits, InReleasePcs
        <4>. QED
          BY <3>1, <4>1, WorkerStack
      <3>. QED
        BY <3>1
    <2>. QED
      BY <1>0, <1>4, <2>1 DEF Weight, Handles, Issues, Pauses, Receives, Serves,
         LastPcs, PostPcs, ParsePcs
  <1>8. ASSUME SessionInv(s)
        PROVE  SessionInv(s)'
    <2>0. poolState[s] # "FREE" /\ ioCount[s] = 0
      BY <1>0, <1>8, NotFree DEF SessionInv, Drained, LastPcs
    <2>1. /\ poolState' = poolState /\ ioCount' = ioCount /\ open' = open
          /\ live' = live /\ dying' = dying /\ paused' = paused
          /\ jobs' = jobs /\ received' = received /\ done' = done
          /\ processing' = processing /\ ready' = ready
      BY DEF TakeToken
    <2>2. /\ Outstanding(s, "recv")' = Outstanding(s, "recv")
          /\ Pending(s)' = Pending(s)
      BY <2>1 DEF Pending, Outstanding
    <2>3. /\ Pending(s) \in Nat /\ Weight(t) \in Nat /\ ioCount[s] \in Int
          /\ Outstanding(s, "recv") \in Nat /\ paused[s] \in Nat
      BY <1>0, PendingType, WeightType
    <2>4. Counted(s)'
      <3>1. Balanced(t, s)
        BY <1>6, <2>1, <2>2, <2>3 DEF Balanced
      <3>. QED
        BY <1>0, <1>2, <1>3, <1>5, <1>8, <3>1, CountedStep DEF SessionInv
    <2>5. Owned(s)'
      <3>1. /\ poolState[s] = "RELEASING" /\ \A u \in On(s) : ~Owns(u)
        BY <1>8 DEF SessionInv, Owned
      <3>2. \A u \in On(s)' : Owns(u)' => u = t
        <4>. SUFFICES ASSUME NEW u \in On(s)', Owns(u)', u # t
                      PROVE  FALSE
          OBVIOUS
        <4>1. u \in Threads
          BY DEF On
        <4>2. u \in On(s) /\ Owns(u)
          BY <1>0, <1>3, <4>1, Bystander
        <4>. QED
          BY <3>1, <4>2
      <3>3. ~Reserving(stack[t])
        BY <1>0, <3>1 DEF Owns
      <3>4. \A u \in On(s)' : pc'[u] \in {"complete", "reset"} => u = t
        BY <3>2 DEF Owns
      <3>. QED
        BY <1>4, <2>1, <3>1, <3>2, <3>3, <3>4 DEF Owned
    <2>6. Drained(s)'
      BY <1>0, <1>3, <1>4, <1>8, <2>0, <2>1, DrainedStep DEF SessionInv
    <2>7. Unused(s)'
      BY <2>0, <2>1 DEF Unused
    <2>8. Scheduled(s)'
      BY <1>0, <1>3, <1>5, <1>6, <1>8, <2>1, ScheduledStep DEF SessionInv
    <2>9. ReceivedOnce(s)'
      BY <1>0, <1>2, <1>3, <1>4, <1>6, <1>8, <2>1, <2>2, <2>3, ReceivedStep
         DEF SessionInv
    <2>10. InOrder(s)'
      BY <1>0, <1>3, <1>4, <1>8, <2>0, <2>1, InOrderStep DEF SessionInv
    <2>. QED
      BY <2>4, <2>5, <2>6, <2>7, <2>8, <2>9, <2>10 DEF SessionInv
  <1>. QED
    BY <1>0, <1>2, <1>3, <1>4, <1>5, <1>8, QueueKept DEF Keeps

LEMMA BaseFacts ==
    ASSUME NEW t \in Threads
    PROVE  /\ Base(t) \in Seq(Pcs)
           /\ ~Undoing(Base(t)) /\ ~Pausing(Base(t))
           /\ ~Draining(Base(t)) /\ ~Reserving(Base(t))
           /\ t \in Workers <=> Base(t) # <<>>
  BY EmptyFacts, FinishFrame DEF Base

LEMMA UndoStack ==
    ASSUME NEW t \in Threads, NEW q, BelowUndo(t, q)
    PROVE  ~Undoing(q) /\ (t \in Workers => q # <<>>)
  <1>1. "recvNotPosted" \in Pcs /\ "resumeFailed" \in Pcs
    BY DEF Pcs, HandlerPcs, ResumePcs
  <1>2. /\ ~Undoing(Then("recvNotPosted", <<>>))
        /\ Then("recvNotPosted", <<>>) # <<>>
    BY <1>1, EmptyFacts, ThenFacts
  <1>3. /\ ~Undoing(Then("resumeFailed", Base(t)))
        /\ Then("resumeFailed", Base(t)) # <<>>
    BY <1>1, BaseFacts, ThenFacts
  <1>. QED
    BY <1>2, <1>3, FinishFrame DEF BelowUndo, BelowNotPosted

LEMMA ReleaseStack ==
    ASSUME NEW t \in Threads, NEW q, BelowRelease(t, q)
    PROVE  ~Reserving(q) /\ (t \in Workers => q # <<>>)
  <1>1. /\ "recvNotPosted" \in Pcs /\ "resumeFailed" \in Pcs /\ "undoIO" \in Pcs
        /\ "dropPause" \in Pcs /\ "drain" \in Pcs
    BY DEF Pcs, HandlerPcs, WorkerPcs, ResumePcs, IoPcs
  <1>2. /\ Then("recvNotPosted", <<>>) \in Seq(Pcs)
        /\ ~Reserving(Then("recvNotPosted", <<>>))
        /\ ~Reserving(Then("drain", <<>>))
    BY <1>1, EmptyFacts, ThenFacts
  <1>3. /\ Then("resumeFailed", Base(t)) \in Seq(Pcs)
        /\ ~Reserving(Then("resumeFailed", Base(t)))
        /\ ~Reserving(Then("dropPause", Base(t)))
    BY <1>1, BaseFacts, ThenFacts
  <1>4. /\ ~Reserving(Then("undoIO", Then("recvNotPosted", <<>>)))
        /\ ~Reserving(Then("undoIO", Then("resumeFailed", Base(t))))
    BY <1>1, <1>2, <1>3, ThenFacts
  <1>5. ~Reserving(q)
    BY <1>2, <1>3, <1>4, FinishFrame, EmptyFacts DEF BelowRelease
  <1>. QED
    BY <1>5, WorkerStack

CountPcs == {"dropCount", "undoIO", "dropPause", "finish"}

(* DecrementIO: what the thread has left is on its stack.                  *)
LEMMA DecrementAt ==
    ASSUME TypeOK, NEW t \in Threads, Fits(t), DecrementIO(t), pc[t] \in CountPcs
    PROVE  /\ Fits(t)'
           /\ pc' \in [Threads -> Pcs] /\ stack' \in [Threads -> Seq(Pcs)]
           /\ \A u \in Threads \ {t} : pc'[u] = pc[u] /\ stack'[u] = stack[u]
           /\ Handles(t)' <=> stack[t] # <<>> /\ t \in Workers
           /\ Issues(t)' <=> Undoing(stack[t])
           /\ Pauses(t)' <=> Pausing(stack[t])
           /\ Receives(t)' => Pausing(stack[t])
           /\ Serves(t)' <=> Draining(stack[t])
           /\ Owns(t)' <=> Reserving(stack[t])
           /\ pc'[t] \notin {"complete", "reset", "dropCount", "execute", "claim"}
           /\ pc'[t] = "token" => ioCount[ses[t]] = 1
  <1>1. Returns(t, stack[t])
    BY DEF Fits, CountPcs, Returns, ResumePcs, HandlerPcs, Base, BelowUndo
  <1>2. CASE ioCount[ses[t]] = 1
    <2>1. "token" \in Pcs
      BY DEF Pcs, ReleasePcs
    <2>2. At(t, "token", stack[t])
      BY <1>2, <2>1, GotoAt DEF DecrementIO, GotoOrReturn
    <2>3. pc'[t] = "token" /\ stack'[t] = stack[t]
      BY <2>2 DEF At
    <2>4. Fits(t)'
      BY <1>1, <2>3 DEF Fits, Returns, HandlerPcs, WorkerPcs, ResumePcs, PostPcs,
         InReleasePcs, LastPcs
    <2>5. /\ Handles(t)' <=> stack[t] # <<>> /\ t \in Workers
          /\ Issues(t)' <=> Undoing(stack[t])
          /\ Pauses(t)' <=> Pausing(stack[t])
      BY <2>3 DEF Handles, Issues, Pauses, LastPcs, PostPcs
    <2>6. /\ Receives(t)' => Pausing(stack[t])
          /\ Serves(t)' <=> Draining(stack[t])
          /\ Owns(t)' <=> Reserving(stack[t])
      BY <2>3 DEF Receives, Serves, Owns, PostPcs, ParsePcs
    <2>. QED
      BY <1>2, <2>2, <2>3, <2>4, <2>5, <2>6 DEF At
  <1>3. CASE ioCount[ses[t]] # 1
    <2>1. Return(t)
      BY <1>3 DEF DecrementIO, GotoOrReturn
    <2>2. /\ Returned(t)
          /\ pc' \in [Threads -> Pcs] /\ stack' \in [Threads -> Seq(Pcs)]
          /\ \A u \in Threads \ {t} : pc'[u] = pc[u] /\ stack'[u] = stack[u]
      BY <1>1, <2>1, ReturnRoles
    <2>. QED
      BY <2>2 DEF Returned, ReturnPcs
  <1>. QED
    BY <1>2, <1>3

LEMMA KeepsDecrement ==
    ASSUME TypeOK, NEW t \in Threads, NEW s \in Sessions, ses[t] = s, Fits(t),
           DecrementIO(t), pc[t] \in CountPcs
    PROVE  Keeps(t, s)
  <1>. USE DEF leaseVars, ioVars, kernelVars, jobVars, schedVars, locals
  <1>0. /\ t \in On(s) /\ stack[t] \in Seq(Pcs)
        /\ ioCount' = [ioCount EXCEPT ![s] = @ - 1]
    BY DEF TypeOK, On, CountPcs, DecrementIO
  <1>1. /\ Fits(t)'
        /\ pc' \in [Threads -> Pcs] /\ stack' \in [Threads -> Seq(Pcs)]
        /\ \A u \in Threads \ {t} : pc'[u] = pc[u] /\ stack'[u] = stack[u]
    BY DecrementAt
  <1>2. TypeOK'
    <2>1. ioCount' \in [Sessions -> Int]
      BY <1>0 DEF TypeOK
    <2>. QED
      BY <1>1, <2>1 DEF DecrementIO, TypeOK
  <1>3. Local(t, s)
    BY <1>0, <1>1 DEF DecrementIO, TypeOK, Local
  <1>4. left' = left /\ ready' = ready
    BY DEF DecrementIO
  <1>5. ASSUME SessionInv(s)
        PROVE  SessionInv(s)'
    <2>0. poolState[s] # "FREE"
      BY <1>0, <1>5, NotFree DEF SessionInv
    <2>1. /\ poolState' = poolState /\ open' = open
          /\ releasePending' = releasePending
          /\ live' = live /\ dying' = dying /\ paused' = paused
          /\ jobs' = jobs /\ received' = received /\ done' = done
          /\ processing' = processing /\ ready' = ready
      BY DEF DecrementIO
    <2>2. /\ Outstanding(s, "recv")' = Outstanding(s, "recv")
          /\ Pending(s)' = Pending(s)
      BY <2>1 DEF Pending, Outstanding
    <2>3. /\ Pending(s) \in Nat /\ Weight(t) \in Nat /\ ioCount[s] \in Int
          /\ Outstanding(s, "recv") \in Nat /\ paused[s] \in Nat
      BY PendingType, WeightType
    <2>4. /\ Handles(t) <=> t \in Workers
          /\ Issues(t) <=> pc[t] = "undoIO" \/ Undoing(stack[t])
          /\ Pauses(t) <=> pc[t] \in {"dropCount", "dropPause"} \/ Pausing(stack[t])
      BY DEF Handles, Issues, Pauses, CountPcs, LastPcs, PostPcs
    <2>5. /\ Receives(t) <=> Pausing(stack[t])
          /\ Serves(t) <=> Draining(stack[t])
          /\ Reserving(stack[t]) => Owns(t)
      BY DEF Receives, Serves, Owns, CountPcs, PostPcs, ParsePcs
    <2>6. /\ pc[t] = "finish" => t \in Workers /\ stack[t] = <<>>
          /\ pc[t] # "finish" /\ t \in Workers => stack[t] # <<>>
          /\ pc[t] = "undoIO" => ~Undoing(stack[t])
          /\ pc[t] = "dropPause" => ~Pausing(stack[t])
      <3>1. pc[t] = "finish" => t \in Workers /\ stack[t] = <<>>
        BY DEF Fits, HandlerPcs
      <3>2. pc[t] = "undoIO" =>
                ~Undoing(stack[t]) /\ (t \in Workers => stack[t] # <<>>)
        BY UndoStack DEF Fits
      <3>3. pc[t] = "dropPause" =>
                ~Pausing(stack[t]) /\ (t \in Workers => stack[t] # <<>>)
        BY BaseFacts DEF Fits, ResumePcs
      <3>4. pc[t] = "dropCount" => (t \in Workers => stack[t] # <<>>)
        BY WorkerStack DEF Fits
      <3>. QED
        BY <3>1, <3>2, <3>3, <3>4 DEF CountPcs
    <2>7. pc[t] = "dropCount" => ~Pausing(stack[t])
      BY <1>0, <1>5 DEF SessionInv, ReceivedOnce
    <2>8. /\ Handles(t)' <=> stack[t] # <<>> /\ t \in Workers
          /\ Issues(t)' <=> Undoing(stack[t])
          /\ Pauses(t)' <=> Pausing(stack[t])
      BY DecrementAt
    <2>9. Weight(t)' = Weight(t) - 1
      <3>1. CASE pc[t] = "finish"
        <4>1. Handles(t) /\ ~Handles(t)' /\ (Issues(t)' <=> Issues(t))
              /\ (Pauses(t)' <=> Pauses(t))
          BY <2>4, <2>6, <2>8, <3>1
        <4>. QED
          BY <4>1 DEF Weight
      <3>2. CASE pc[t] = "undoIO"
        <4>1. Issues(t) /\ ~Issues(t)' /\ (Handles(t)' <=> Handles(t))
              /\ (Pauses(t)' <=> Pauses(t))
          BY <2>4, <2>6, <2>8, <3>2
        <4>. QED
          BY <4>1 DEF Weight
      <3>3. CASE pc[t] \in {"dropPause", "dropCount"}
        <4>1. Pauses(t) /\ ~Pauses(t)' /\ (Handles(t)' <=> Handles(t))
              /\ (Issues(t)' <=> Issues(t))
          BY <2>4, <2>6, <2>7, <2>8, <3>3
        <4>. QED
          BY <4>1 DEF Weight
      <3>. QED
        BY <3>1, <3>2, <3>3 DEF CountPcs
    <2>10. ioCount[s] # 0
      <3>1. Handles(t) \/ Issues(t) \/ Pauses(t)
        BY <2>4, <2>6 DEF CountPcs
      <3>. QED
        BY <1>0, <1>5, <3>1, NothingHeld DEF SessionInv
    <2>11. ioCount'[s] = ioCount[s] - 1
      BY <1>0 DEF TypeOK
    <2>12. Counted(s)'
      <3>1. Balanced(t, s)
        BY <2>2, <2>3, <2>9, <2>11 DEF Balanced
      <3>. QED
        BY <1>1, <1>2, <1>3, <1>5, <3>1, CountedStep DEF SessionInv
    <2>13. /\ Owns(t)' => Owns(t)
           /\ Receives(t)' => Receives(t)
           /\ Serves(t)' <=> Serves(t)
           /\ pc'[t] \notin {"complete", "reset", "dropCount", "execute", "claim"}
           /\ pc[t] # "execute"
           /\ pc'[t] = "token" => ioCount[s] = 1
      BY <2>5, DecrementAt DEF CountPcs
    <2>14. Owned(s)'
      BY <1>3, <1>5, <2>1, <2>13, OwnedStep DEF SessionInv
    <2>15. Drained(s)'
      BY <1>3, <1>5, <2>1, <2>3, <2>10, <2>11, <2>13, DrainedStep
         DEF SessionInv, LastPcs
    <2>16. Unused(s)'
      BY <2>0, <2>1 DEF Unused
    <2>17. Scheduled(s)'
      BY <1>1, <1>3, <1>5, <2>1, <2>13, ScheduledStep DEF SessionInv
    <2>18. ReceivedOnce(s)'
      BY <1>2, <1>3, <1>5, <2>1, <2>2, <2>3, <2>13, ReceivedStep DEF SessionInv
    <2>19. InOrder(s)'
      BY <1>3, <1>5, <2>0, <2>1, <2>13, InOrderStep DEF SessionInv
    <2>. QED
      BY <2>12, <2>14, <2>15, <2>16, <2>17, <2>18, <2>19 DEF SessionInv
  <1>. QED
    BY <1>1, <1>2, <1>3, <1>4, <1>5, QueueKept DEF Keeps

(* The compare-exchange of Release that wins: IN_USE to RELEASING.         *)
LEMMA KeepsRelease ==
    ASSUME TypeOK, NEW t \in Threads, NEW s \in Sessions, ses[t] = s, Fits(t),
           Release(t), poolState[s] = "IN_USE"
    PROVE  Keeps(t, s)
  <1>. USE DEF leaseVars, ioVars, kernelVars, jobVars, schedVars, locals
  <1>0. /\ t \in On(s) /\ pc[t] = "release"
        /\ poolState' = [poolState EXCEPT ![s] = "RELEASING"]
    BY DEF Release, On
  <1>1. At(t, "cancel", stack[t])
    <2>1. "cancel" \in Pcs
      BY DEF Pcs, ReleasePcs
    <2>. QED
      BY <2>1, GotoAt DEF Release, GotoOrReturn
  <1>2. TypeOK'
    <2>1. poolState' \in [Sessions -> {"FREE", "IN_USE", "RELEASING"}]
      BY <1>0 DEF TypeOK
    <2>2. pc' \in [Threads -> Pcs] /\ stack' \in [Threads -> Seq(Pcs)]
      BY <1>1 DEF At
    <2>. QED
      BY <2>1, <2>2 DEF Release, TypeOK
  <1>3. Local(t, s)
    BY <1>0, <1>1 DEF Release, TypeOK, Local, At
  <1>4. /\ pc'[t] = "cancel" /\ stack'[t] = stack[t] /\ post'[t] = post[t]
        /\ poolState'[s] = "RELEASING" /\ left' = left /\ ready' = ready
    BY <1>0, <1>1 DEF Release, TypeOK, At
  <1>5. Fits(t)'
    BY <1>0, <1>4 DEF Fits, HandlerPcs, WorkerPcs, ResumePcs, PostPcs,
       InReleasePcs, LastPcs
  <1>6. /\ Weight(t)' = Weight(t)
        /\ Receives(t)' <=> Receives(t)
        /\ Serves(t)' <=> Serves(t)
    BY <1>0, <1>4 DEF Weight, Handles, Issues, Pauses, Receives, Serves,
       LastPcs, PostPcs, ParsePcs
  <1>7. ASSUME SessionInv(s)
        PROVE  SessionInv(s)'
    <2>1. /\ ioCount' = ioCount /\ open' = open /\ releasePending' = releasePending
          /\ live' = live /\ dying' = dying /\ paused' = paused
          /\ jobs' = jobs /\ received' = received /\ done' = done
          /\ processing' = processing /\ ready' = ready
      BY DEF Release
    <2>2. /\ Outstanding(s, "recv")' = Outstanding(s, "recv")
          /\ Pending(s)' = Pending(s)
      BY <2>1 DEF Pending, Outstanding
    <2>3. /\ Pending(s) \in Nat /\ Weight(t) \in Nat /\ ioCount[s] \in Int
          /\ Outstanding(s, "recv") \in Nat /\ paused[s] \in Nat
      BY PendingType, WeightType
    <2>4. Counted(s)'
      <3>1. Balanced(t, s)
        BY <1>6, <2>1, <2>2, <2>3 DEF Balanced
      <3>. QED
        BY <1>2, <1>3, <1>5, <1>7, <3>1, CountedStep DEF SessionInv
    <2>5. Owned(s)'
      <3>1. releasePending[s] # 1 /\ \A u \in On(s) : ~Owns(u)
        BY <1>7 DEF SessionInv, Owned
      <3>2. \A u \in On(s)' : Owns(u)' => u = t
        <4>. SUFFICES ASSUME NEW u \in On(s)', Owns(u)', u # t
                      PROVE  FALSE
          OBVIOUS
        <4>1. u \in Threads
          BY DEF On
        <4>2. u \in On(s) /\ Owns(u)
          BY <1>3, <4>1, Bystander
        <4>. QED
          BY <3>1, <4>2
      <3>3. \A u \in On(s)' : pc'[u] \notin {"complete", "reset"}
        BY <1>4, <3>2 DEF Owns
      <3>4. releasePending'[s] = 0
        BY <2>1, <3>1 DEF TypeOK
      <3>. QED
        BY <1>4, <3>2, <3>3, <3>4 DEF Owned
    <2>6. Drained(s)'
      BY <1>3, <1>4, <1>7, <2>1, DrainedStep DEF SessionInv, LastPcs
    <2>7. Unused(s)'
      BY <1>4 DEF Unused
    <2>8. Scheduled(s)'
      BY <1>3, <1>5, <1>6, <1>7, <2>1, ScheduledStep DEF SessionInv
    <2>9. ReceivedOnce(s)'
      BY <1>2, <1>3, <1>4, <1>6, <1>7, <2>1, <2>2, <2>3, ReceivedStep
         DEF SessionInv
    <2>10. InOrder(s)'
      BY <1>0, <1>3, <1>4, <1>7, <2>1, InOrderStep DEF SessionInv
    <2>. QED
      BY <2>4, <2>5, <2>6, <2>7, <2>8, <2>9, <2>10 DEF SessionInv
  <1>. QED
    BY <1>2, <1>3, <1>4, <1>5, <1>7, QueueKept DEF Keeps

(* The owner leaves the release to the token.                              *)
LEMMA KeepsReserve ==
    ASSUME TypeOK, NEW t \in Threads, NEW s \in Sessions, ses[t] = s, Fits(t),
           Reserve(t)
    PROVE  Keeps(t, s)
  <1>. USE DEF leaseVars, ioVars, kernelVars, jobVars, schedVars, locals
  <1>0. /\ t \in On(s) /\ pc[t] = "reserve"
        /\ releasePending' = [releasePending EXCEPT ![s] = 1]
    BY DEF Reserve, On
  <1>1. At(t, "readCount", stack[t])
    <2>1. "readCount" \in Pcs
      BY DEF Pcs, ReleasePcs
    <2>. QED
      BY <2>1, GotoAt DEF Reserve
  <1>2. TypeOK'
    <2>1. releasePending' \in [Sessions -> 0 .. 1]
      BY <1>0 DEF TypeOK
    <2>2. pc' \in [Threads -> Pcs] /\ stack' \in [Threads -> Seq(Pcs)]
      BY <1>1 DEF At
    <2>. QED
      BY <2>1, <2>2 DEF Reserve, TypeOK
  <1>3. Local(t, s)
    BY <1>0, <1>1 DEF Reserve, TypeOK, Local, At
  <1>4. /\ pc'[t] = "readCount" /\ stack'[t] = stack[t] /\ post'[t] = post[t]
        /\ releasePending'[s] = 1 /\ left' = left /\ ready' = ready
    BY <1>0, <1>1 DEF Reserve, TypeOK, At
  <1>5. Fits(t)' /\ BelowRelease(t, stack[t])
    BY <1>0, <1>4 DEF Fits, HandlerPcs, WorkerPcs, ResumePcs, PostPcs,
       InReleasePcs, LastPcs
  <1>6. /\ Weight(t)' = Weight(t)
        /\ Receives(t)' <=> Receives(t)
        /\ Serves(t)' <=> Serves(t)
    BY <1>0, <1>4 DEF Weight, Handles, Issues, Pauses, Receives, Serves,
       LastPcs, PostPcs, ParsePcs
  <1>7. ASSUME SessionInv(s)
        PROVE  SessionInv(s)'
    <2>0. poolState[s] # "FREE"
      BY <1>0, <1>7, NotFree DEF SessionInv
    <2>1. /\ ioCount' = ioCount /\ open' = open /\ poolState' = poolState
          /\ live' = live /\ dying' = dying /\ paused' = paused
          /\ jobs' = jobs /\ received' = received /\ done' = done
          /\ processing' = processing /\ ready' = ready
      BY DEF Reserve
    <2>2. /\ Outstanding(s, "recv")' = Outstanding(s, "recv")
          /\ Pending(s)' = Pending(s)
      BY <2>1 DEF Pending, Outstanding
    <2>3. /\ Pending(s) \in Nat /\ Weight(t) \in Nat /\ ioCount[s] \in Int
          /\ Outstanding(s, "recv") \in Nat /\ paused[s] \in Nat
      BY PendingType, WeightType
    <2>4. Counted(s)'
      <3>1. Balanced(t, s)
        BY <1>6, <2>1, <2>2, <2>3 DEF Balanced
      <3>. QED
        BY <1>2, <1>3, <1>5, <1>7, <3>1, CountedStep DEF SessionInv
    <2>5. Owned(s)'
      <3>1. Owns(t)
        BY <1>0 DEF Owns
      <3>2. poolState[s] = "RELEASING" /\ \A u \in On(s) : Owns(u) => u = t
        BY <1>0, <1>7, <3>1 DEF SessionInv, Owned
      <3>3. ~Owns(t)'
        BY <1>4, <1>5, ReleaseStack DEF Owns
      <3>4. \A u \in On(s)' : ~Owns(u)'
        <4>. SUFFICES ASSUME NEW u \in On(s)', Owns(u)'
                      PROVE  FALSE
          OBVIOUS
        <4>1. u \in Threads /\ u # t
          BY <3>3 DEF On
        <4>2. u \in On(s) /\ Owns(u)
          BY <1>3, <4>1, Bystander
        <4>. QED
          BY <3>2, <4>1, <4>2
      <3>5. \A u \in On(s)' : pc'[u] \notin {"complete", "reset"}
        BY <3>4 DEF Owns
      <3>. QED
        BY <2>1, <3>2, <3>4, <3>5 DEF Owned
    <2>6. Drained(s)'
      BY <1>3, <1>4, <1>7, <2>1, DrainedStep DEF SessionInv, LastPcs
    <2>7. Unused(s)'
      BY <2>0, <2>1 DEF Unused
    <2>8. Scheduled(s)'
      BY <1>3, <1>5, <1>6, <1>7, <2>1, ScheduledStep DEF SessionInv
    <2>9. ReceivedOnce(s)'
      BY <1>2, <1>3, <1>4, <1>6, <1>7, <2>1, <2>2, <2>3, ReceivedStep
         DEF SessionInv
    <2>10. InOrder(s)'
      BY <1>0, <1>3, <1>4, <1>7, <2>0, <2>1, InOrderStep DEF SessionInv
    <2>. QED
      BY <2>4, <2>5, <2>6, <2>7, <2>8, <2>9, <2>10 DEF SessionInv
  <1>. QED
    BY <1>2, <1>3, <1>4, <1>5, <1>7, QueueKept DEF Keeps

(* The socket is closed, and what was outstanding cancelled.               *)
LEMMA KeepsComplete ==
    ASSUME TypeOK, NEW t \in Threads, NEW s \in Sessions, ses[t] = s, Fits(t),
           CompleteRelease(t)
    PROVE  Keeps(t, s)
  <1>. USE DEF leaseVars, ioVars, kernelVars, jobVars, schedVars, locals
  <1>0. /\ t \in On(s) /\ pc[t] = "complete" /\ AbortOperations(s)
        /\ open' = [open EXCEPT ![s] = FALSE]
        /\ "recv" \in Kinds /\ "send" \in Kinds
    BY DEF CompleteRelease, On, Kinds
  <1>1. At(t, "reset", stack[t])
    <2>1. "reset" \in Pcs
      BY DEF Pcs, ReleasePcs
    <2>. QED
      BY <2>1, GotoAt DEF CompleteRelease
  <1>2. TypeOK'
    <2>1. open' \in [Sessions -> BOOLEAN]
      BY <1>0 DEF TypeOK
    <2>2. pc' \in [Threads -> Pcs] /\ stack' \in [Threads -> Seq(Pcs)]
      BY <1>1 DEF At
    <2>3. /\ live' \in [Sessions -> [Kinds -> Nat]]
          /\ dying' \in [Sessions -> [Kinds -> Nat]]
      BY <1>0, AbortKeeps
    <2>. QED
      BY <2>1, <2>2, <2>3 DEF CompleteRelease, TypeOK
  <1>3. Local(t, s)
    <2>1. \A x \in Sessions \ {s} : live'[x] = live[x] /\ dying'[x] = dying[x]
      BY <1>0, AbortKeeps
    <2>. QED
      BY <1>0, <1>1, <2>1 DEF CompleteRelease, TypeOK, Local, At
  <1>4. /\ pc'[t] = "reset" /\ stack'[t] = stack[t] /\ post'[t] = post[t]
        /\ ~open'[s] /\ left' = left /\ ready' = ready
    BY <1>0, <1>1 DEF CompleteRelease, TypeOK, At
  <1>5. Fits(t)'
    BY <1>0, <1>4 DEF Fits, HandlerPcs, WorkerPcs, ResumePcs, PostPcs,
       InReleasePcs, LastPcs
  <1>6. /\ Weight(t)' = Weight(t)
        /\ Receives(t)' <=> Receives(t)
        /\ Serves(t)' <=> Serves(t)
    BY <1>0, <1>4 DEF Weight, Handles, Issues, Pauses, Receives, Serves,
       LastPcs, PostPcs, ParsePcs
  <1>7. ASSUME SessionInv(s)
        PROVE  SessionInv(s)'
    <2>0. poolState[s] # "FREE" /\ ioCount[s] = 0 /\ ~Reserving(stack[t])
      BY <1>0, <1>7, NotFree DEF SessionInv, Drained, LastPcs, Owned
    <2>1. /\ ioCount' = ioCount /\ poolState' = poolState
          /\ releasePending' = releasePending /\ paused' = paused
          /\ jobs' = jobs /\ received' = received /\ done' = done
          /\ processing' = processing /\ ready' = ready
      BY DEF CompleteRelease
    <2>2. /\ Outstanding(s, "recv")' = Outstanding(s, "recv")
          /\ Pending(s)' = Pending(s)
      <3>1. \A k \in Kinds : Outstanding(s, k)' = Outstanding(s, k)
        BY <1>0, AbortKeeps
      <3>. QED
        BY <1>0, <2>1, <3>1 DEF Pending
    <2>3. /\ Pending(s) \in Nat /\ Weight(t) \in Nat /\ ioCount[s] \in Int
          /\ Outstanding(s, "recv") \in Nat /\ paused[s] \in Nat
      BY PendingType, WeightType
    <2>4. Counted(s)'
      <3>1. Balanced(t, s)
        BY <1>6, <2>1, <2>2, <2>3 DEF Balanced
      <3>. QED
        BY <1>2, <1>3, <1>5, <1>7, <3>1, CountedStep DEF SessionInv
    <2>5. Owned(s)'
      <3>1. Owns(t)
        BY <1>0 DEF Owns
      <3>2. /\ poolState[s] = "RELEASING" /\ releasePending[s] = 0
            /\ \A u \in On(s) : Owns(u) => u = t
        BY <1>0, <1>7, <3>1 DEF SessionInv, Owned
      <3>3. \A u \in On(s)' : Owns(u)' => u = t
        <4>. SUFFICES ASSUME NEW u \in On(s)', Owns(u)', u # t
                      PROVE  FALSE
          OBVIOUS
        <4>1. u \in Threads
          BY DEF On
        <4>2. u \in On(s) /\ Owns(u)
          BY <1>3, <4>1, Bystander
        <4>. QED
          BY <3>2, <4>2
      <3>4. \A u \in On(s)' : pc'[u] \in {"complete", "reset"} => u = t
        BY <3>3 DEF Owns
      <3>. QED
        BY <1>4, <2>0, <2>1, <3>2, <3>3, <3>4 DEF Owned
    <2>6. Drained(s)'
      BY <1>3, <1>4, <1>7, <2>0, <2>1, DrainedStep DEF SessionInv
    <2>7. Unused(s)'
      BY <2>0, <2>1 DEF Unused
    <2>8. Scheduled(s)'
      BY <1>3, <1>5, <1>6, <1>7, <2>1, ScheduledStep DEF SessionInv
    <2>9. ReceivedOnce(s)'
      BY <1>2, <1>3, <1>4, <1>6, <1>7, <2>1, <2>2, <2>3, ReceivedStep
         DEF SessionInv
    <2>10. InOrder(s)'
      BY <1>0, <1>3, <1>4, <1>7, <2>0, <2>1, InOrderStep DEF SessionInv
    <2>. QED
      BY <2>4, <2>5, <2>6, <2>7, <2>8, <2>9, <2>10 DEF SessionInv
  <1>. QED
    BY <1>2, <1>3, <1>4, <1>5, <1>7, QueueKept DEF Keeps

-----------------------------------------------------------------------------
(* Claims *)

Places(s)  == {i \in DOMAIN ready : ready[i] = s}
Servers(s) == {t \in On(s) : Serves(t)}

LEMMA ClaimsAre ==
    ASSUME TypeOK, NEW s \in Sessions
    PROVE  /\ Claims(s) = Cardinality(Places(s)) + Cardinality(Servers(s))
           /\ IsFiniteSet(Places(s)) /\ IsFiniteSet(Servers(s))
           /\ Cardinality(Places(s)) \in Nat /\ Cardinality(Servers(s)) \in Nat
  <1>1. Servers(s) = {t \in On(s) :
          \/ pc[t] \in {"push", "unschedule", "pushAgain", "unclaim", "clear"}
          \/ {"drain", "execute"} \cap Frames(t) # {}}
    BY DEF Servers, Serves, Draining, Frames
  <1>2. IsFiniteSet(Places(s))
    <2>1. ready \in Seq(Sessions)
      BY DEF TypeOK
    <2>2. DOMAIN ready = 1 .. Len(ready) /\ Len(ready) \in Nat
      BY <2>1
    <2>3. IsFiniteSet(1 .. Len(ready))
      BY <2>2, FS_Interval
    <2>. QED
      BY <2>2, <2>3, FS_Subset DEF Places
  <1>3. IsFiniteSet(Servers(s))
    BY ThreadsAssumption, FS_Subset DEF Servers, On
  <1>. QED
    BY <1>1, <1>2, <1>3, FS_CardinalityType DEF Claims, Places

LEMMA NoClaims ==
    ASSUME TypeOK, NEW s \in Sessions, ~(Claims(s) > 0)
    PROVE  ~InQueue(s) /\ \A t \in On(s) : ~Serves(t)
  <1>1. Cardinality(Places(s)) = 0 /\ Cardinality(Servers(s)) = 0
    BY ClaimsAre
  <1>2. Places(s) = {} /\ Servers(s) = {}
    BY <1>1, ClaimsAre, FS_EmptySet
  <1>. QED
    BY <1>2 DEF Places, Servers, InQueue

-----------------------------------------------------------------------------
(* The reset, and a pause: taken away, marked, resumed.                    *)

(* A session that is reset with nobody else at it is nobody's afterwards.  *)
LEMMA ResetStack ==
    ASSUME NEW t \in Threads, Fits(t), pc[t] = "reset",
           ~Handles(t), ~Undoing(stack[t]), ~Pausing(stack[t]),
           ~Draining(stack[t]), ~Reserving(stack[t])
    PROVE  stack[t] = <<>>
  <1>1. /\ "recvNotPosted" \in Pcs /\ "resumeFailed" \in Pcs /\ "undoIO" \in Pcs
        /\ "dropPause" \in Pcs /\ "drain" \in Pcs /\ "reserve" \in Pcs
    BY DEF Pcs, HandlerPcs, WorkerPcs, ResumePcs, IoPcs, ReleasePcs
  <1>2. t \in Workers => stack[t] = <<>>
    BY DEF Handles, LastPcs
  <1>3. /\ Pausing(Then("resumeFailed", Base(t)))
        /\ Pausing(Then("dropPause", Base(t)))
        /\ Then("resumeFailed", Base(t)) \in Seq(Pcs)
        /\ Then("recvNotPosted", <<>>) \in Seq(Pcs)
        /\ Draining(Then("drain", <<>>))
    BY <1>1, BaseFacts, EmptyFacts, ThenFacts
  <1>4. /\ Undoing(Then("undoIO", Then("resumeFailed", Base(t))))
        /\ Undoing(Then("undoIO", Then("recvNotPosted", <<>>)))
    BY <1>1, <1>3, ThenFacts
  <1>5. CASE BelowUndo(t, stack[t])
    BY <1>2, <1>3, <1>5 DEF BelowUndo, BelowNotPosted
  <1>6. CASE BelowRelease(t, stack[t])
    BY <1>2, <1>3, <1>4, <1>6 DEF BelowRelease
  <1>7. CASE BelowDrop(t, stack[t])
    <2>1. stack[t] = Then("reserve", Tail(stack[t]))
      BY <1>7 DEF BelowDrop
    <2>2. Reserving(stack[t])
      <3>1. 1 \in DOMAIN (<<"reserve">> \o Tail(stack[t]))
            /\ (<<"reserve">> \o Tail(stack[t]))[1] = "reserve"
        OBVIOUS
      <3>. QED
        BY <2>1, <3>1 DEF Then, Reserving, Range
    <2>. QED
      BY <2>2
  <1>. QED
    BY <1>5, <1>6, <1>7 DEF Fits, LastPcs

LEMMA KeepsReset ==
    ASSUME TypeOK, NEW t \in Threads, NEW s \in Sessions, ses[t] = s, Fits(t),
           ResetSession(t)
    PROVE  Keeps(t, s)
  <1>. USE DEF leaseVars, ioVars, kernelVars, jobVars, schedVars, locals
  <1>0. /\ t \in On(s) /\ pc[t] = "reset" /\ stack[t] \in Seq(Pcs)
        /\ Return(t)
    BY DEF ResetSession, On, TypeOK
  <1>1. Returns(t, stack[t])
    BY <1>0 DEF Fits, Returns, LastPcs
  <1>2. /\ Returned(t)
        /\ pc' \in [Threads -> Pcs] /\ stack' \in [Threads -> Seq(Pcs)]
        /\ \A u \in Threads \ {t} : pc'[u] = pc[u] /\ stack'[u] = stack[u]
    BY <1>0, <1>1, ReturnRoles
  <1>3. TypeOK'
    <2>1. /\ cancelIo' \in [Sessions -> 0 .. 1]
          /\ releasePending' \in [Sessions -> 0 .. 1]
          /\ processing' \in [Sessions -> 0 .. 1]
          /\ paused' \in [Sessions -> 0 .. 1]
      BY DEF ResetSession, TypeOK
    <2>2. jobs' \in [Sessions -> Seq(Nat)]
      BY DEF ResetSession, TypeOK
    <2>3. poolState' \in [Sessions -> {"FREE", "IN_USE", "RELEASING"}]
      BY DEF ResetSession, TypeOK
    <2>4. left' \in [Sessions -> BOOLEAN]
      <3>1. left \in [Sessions -> BOOLEAN] /\ left[s] \in BOOLEAN
        BY DEF TypeOK
      <3>2. left' = [left EXCEPT ![s] = left[s] \/ Claims(s) > 0 \/ On(s) # {t}]
        BY DEF ResetSession
      <3>. DEFINE b == left[s] \/ Claims(s) > 0 \/ On(s) # {t}
      <3>3. b \in BOOLEAN /\ left' = [left EXCEPT ![s] = b]
        BY <3>2
      <3>. HIDE DEF b
      <3>. QED
        BY <3>1, <3>3
    <2>. QED
      BY <1>2, <2>1, <2>2, <2>3, <2>4 DEF ResetSession, TypeOK
  <1>4. Local(t, s)
    BY <1>0, <1>2 DEF ResetSession, TypeOK, Local
  <1>5. /\ releasePending'[s] = 0 /\ processing'[s] = 0 /\ paused'[s] = 0
        /\ jobs'[s] = <<>> /\ poolState'[s] = "FREE"
        /\ ready' = ready /\ open' = open /\ ioCount' = ioCount
        /\ live' = live /\ dying' = dying
    BY DEF ResetSession, TypeOK
  <1>6. ~left'[s] => ~left[s] /\ ~(Claims(s) > 0) /\ On(s) = {t}
    BY DEF ResetSession, TypeOK
  <1>7. ASSUME ~left'[s], SessionInv(s)
        PROVE  SessionInv(s)'
    <2>1. ioCount[s] = 0 /\ ~open[s] /\ ~Reserving(stack[t])
      BY <1>0, <1>7 DEF SessionInv, Drained, LastPcs, Owned
    <2>2. /\ Outstanding(s, "recv") = 0 /\ Outstanding(s, "send") = 0
          /\ paused[s] = 0 /\ ~Handles(t) /\ ~Issues(t) /\ ~Pauses(t)
      BY <1>0, <1>7, <2>1, NothingHeld DEF SessionInv
    <2>3. ~InQueue(s) /\ ~Serves(t)
      BY <1>0, <1>6, <1>7, NoClaims
    <2>4. stack[t] = <<>>
      <3>1. ~Undoing(stack[t]) /\ ~Pausing(stack[t]) /\ ~Draining(stack[t])
        BY <2>2, <2>3 DEF Issues, Pauses, Serves
      <3>. QED
        BY <1>0, <2>1, <2>2, <3>1, ResetStack
    <2>5. pc'[t] = "idle"
      BY <1>0, <2>4, ReturnAt DEF At
    <2>6. On(s)' = {}
      <3>1. \A u \in Threads : u \notin On(s)'
        BY <1>4, <1>6, <1>7, <2>5, Bystander, OnSession
      <3>. QED
        BY <3>1 DEF On
    <2>7. Counted(s)'
      <3>1. /\ Outstanding(s, "recv")' = Outstanding(s, "recv")
            /\ Outstanding(s, "send")' = Outstanding(s, "send")
        BY <1>5 DEF Outstanding
      <3>2. Pending(s)' = Pending(s)
        BY <1>5, <2>2, <3>1 DEF Pending
      <3>3. ~Handles(t)' /\ ~Issues(t)' /\ ~Pauses(t)'
        BY <1>2, <2>4, EmptyFacts DEF Returned
      <3>4. Weight(t)' = Weight(t)
        BY <2>2, <3>3 DEF Weight
      <3>5. Pending(s) \in Nat /\ Weight(t) \in Nat /\ ioCount[s] \in Int
        BY PendingType, WeightType
      <3>6. Balanced(t, s)
        BY <1>5, <3>2, <3>4, <3>5 DEF Balanced
      <3>7. Fits(t)'
        BY <1>2 DEF Returned
      <3>. QED
        BY <1>3, <1>4, <1>7, <3>6, <3>7, CountedStep DEF SessionInv
    <2>8. Owned(s)' /\ Drained(s)'
      BY <1>5, <2>6 DEF Owned, Drained
    <2>9. Unused(s)'
      BY <1>5, <2>1, <2>3, <2>6, QueueKept DEF Unused
    <2>10. Scheduled(s)'
      <3>1. OnceInQueue(s)' /\ ~InQueue(s)'
        BY <1>5, <1>7, <2>3, QueueKept DEF SessionInv, Scheduled
      <3>. QED
        BY <1>5, <2>6, <3>1 DEF Scheduled
    <2>11. ReceivedOnce(s)'
      <3>1. Outstanding(s, "recv")' = 0
        BY <1>5, <2>2 DEF Outstanding
      <3>. QED
        BY <1>5, <2>6, <3>1 DEF ReceivedOnce
    <2>12. InOrder(s)'
      BY <1>5 DEF InOrder
    <2>. QED
      BY <2>7, <2>8, <2>9, <2>10, <2>11, <2>12 DEF SessionInv
  <1>8. Fits(t)'
    BY <1>2 DEF Returned
  <1>. QED
    BY <1>3, <1>4, <1>5, <1>6, <1>7, <1>8, QueueKept DEF Keeps

(* A step about the count, the pause and the receive alone.                *)
Apart(s) ==
    /\ poolState'[s] = poolState[s] /\ open'[s] = open[s]
    /\ releasePending'[s] = releasePending[s]
    /\ jobs'[s] = jobs[s] /\ received'[s] = received[s] /\ done'[s] = done[s]
    /\ processing'[s] = processing[s] /\ ready' = ready

LEMMA HeldStep ==
    ASSUME TypeOK, TypeOK', NEW t \in Threads, NEW s \in Sessions, Local(t, s),
           Fits(t), Fits(t)', SessionInv(s), poolState[s] # "FREE",
           Apart(s), Balanced(t, s), ioCount[s] # 0,
           Owns(t)' => Owns(t), Serves(t)' <=> Serves(t), pc[t] # "execute",
           pc'[t] \notin LastPcs \cup {"claim", "execute"},
           ReceivedOnce(s)'
    PROVE  SessionInv(s)'
  <1>1. Counted(s)'
    BY CountedStep DEF SessionInv
  <1>2. Owned(s)'
    BY OwnedStep DEF SessionInv, Apart, LastPcs
  <1>3. Drained(s)'
    BY DrainedStep DEF SessionInv, Apart, LastPcs
  <1>4. Unused(s)'
    BY DEF Unused, Apart
  <1>5. Scheduled(s)'
    BY ScheduledStep DEF SessionInv, Apart
  <1>6. InOrder(s)'
    BY InOrderStep DEF SessionInv, Apart
  <1>. QED
    BY <1>1, <1>2, <1>3, <1>4, <1>5, <1>6 DEF SessionInv

(* When nobody but t could post a receive, what t does decides.            *)
LEMMA PassStep ==
    ASSUME NEW t \in Threads, NEW s \in Sessions, Local(t, s), ReceivedOnce(s),
           \A u \in On(s) : Receives(u) => u = t,
           Outstanding(s, "recv")' + paused'[s] <= 1,
           Receives(t)' => Outstanding(s, "recv")' = 0 /\ paused'[s] = 0,
           pc'[t] = "dropCount" => ~Pausing(stack'[t])
    PROVE  ReceivedOnce(s)'
  <1>1. \A u \in On(s)' : Receives(u)' => u = t
    <2>. SUFFICES ASSUME NEW u \in On(s)', Receives(u)', u # t
                  PROVE  FALSE
      OBVIOUS
    <2>1. u \in Threads
      BY DEF On
    <2>2. u \in On(s) /\ Receives(u)
      BY <2>1, Bystander
    <2>. QED
      BY <2>2
  <1>2. \A u \in On(s)' : pc'[u] = "dropCount" => ~Pausing(stack'[u])
    <2>. SUFFICES ASSUME NEW u \in On(s)', pc'[u] = "dropCount", u # t
                  PROVE  ~Pausing(stack'[u])
      OBVIOUS
    <2>1. u \in Threads
      BY DEF On
    <2>2. u \in On(s) /\ pc[u] = "dropCount" /\ stack'[u] = stack[u]
      BY <2>1, Bystander
    <2>. QED
      BY <2>2 DEF ReceivedOnce
  <1>. QED
    BY <1>1, <1>2 DEF ReceivedOnce

(* ReleaseUnpostedIO takes the count of the pause over.                    *)
LEMMA KeepsUnposted ==
    ASSUME TypeOK, NEW t \in Threads, NEW s \in Sessions, ses[t] = s, Fits(t),
           ReleaseUnpostedIO(t), paused[s] = 1
    PROVE  Keeps(t, s)
  <1>. USE DEF leaseVars, ioVars, kernelVars, jobVars, schedVars, locals
  <1>0. /\ t \in On(s) /\ pc[t] = "dropUnposted" /\ stack[t] \in Seq(Pcs)
        /\ paused' = [paused EXCEPT ![s] = 0]
        /\ "reserve" \in Pcs /\ "dropCount" \in Pcs
    BY DEF ReleaseUnpostedIO, On, TypeOK, Pcs, ReleasePcs
  <1>1. At(t, "dropCount", Then("reserve", stack[t]))
    BY <1>0, CallAt DEF ReleaseUnpostedIO
  <1>2. TypeOK'
    <2>1. paused' \in [Sessions -> 0 .. 1]
      BY <1>0 DEF TypeOK
    <2>2. pc' \in [Threads -> Pcs] /\ stack' \in [Threads -> Seq(Pcs)]
      BY <1>1 DEF At
    <2>. QED
      BY <2>1, <2>2 DEF ReleaseUnpostedIO, TypeOK
  <1>3. Local(t, s)
    BY <1>0, <1>1 DEF ReleaseUnpostedIO, TypeOK, Local, At
  <1>4. /\ pc'[t] = "dropCount" /\ stack'[t] = Then("reserve", stack[t])
        /\ post'[t] = post[t] /\ paused'[s] = 0 /\ left' = left /\ ready' = ready
    BY <1>0, <1>1 DEF ReleaseUnpostedIO, TypeOK, At
  <1>5. Fits(t)'
    <2>1. BelowRelease(t, stack[t])
      BY <1>0 DEF Fits, InReleasePcs
    <2>2. Tail(stack'[t]) = stack[t]
      <3>. DEFINE q == Then("reserve", stack[t])
      <3>1. Tail(q) = stack[t]
        BY <1>0, ThenFacts
      <3>2. stack'[t] = q
        BY <1>4
      <3>. HIDE DEF q
      <3>. QED
        BY <3>1, <3>2
    <2>3. BelowDrop(t, stack'[t])
      BY <1>4, <2>1, <2>2 DEF BelowDrop
    <2>. QED
      BY <1>4, <2>3 DEF Fits, HandlerPcs, WorkerPcs, ResumePcs, PostPcs,
         InReleasePcs, LastPcs
  <1>6. /\ Undoing(stack'[t]) <=> Undoing(stack[t])
        /\ Pausing(stack'[t]) <=> Pausing(stack[t])
        /\ Draining(stack'[t]) <=> Draining(stack[t])
    <2>. DEFINE q == Then("reserve", stack[t])
    <2>1. /\ Undoing(q) <=> Undoing(stack[t])
          /\ Pausing(q) <=> Pausing(stack[t])
          /\ Draining(q) <=> Draining(stack[t])
      BY <1>0, ThenFacts
    <2>2. stack'[t] = q
      BY <1>4
    <2>. HIDE DEF q
    <2>. QED
      BY <2>1, <2>2
  <1>7. ASSUME SessionInv(s)
        PROVE  SessionInv(s)'
    <2>0. poolState[s] # "FREE" /\ ioCount[s] # 0
      BY <1>0, <1>7, NotFree, NothingHeld DEF SessionInv
    <2>1. /\ Apart(s) /\ ioCount' = ioCount /\ live' = live /\ dying' = dying
      BY DEF ReleaseUnpostedIO, Apart
    <2>2. /\ \A u \in On(s) : ~Receives(u)
          /\ Outstanding(s, "recv")' = Outstanding(s, "recv")
          /\ Outstanding(s, "send")' = Outstanding(s, "send")
      BY <1>7, <2>1 DEF SessionInv, ReceivedOnce, Outstanding
    <2>3. ~Pausing(stack[t]) /\ ~Receives(t)'
      BY <1>0, <1>4, <1>6, <2>2 DEF Receives, ParsePcs, PostPcs
    <2>4. Weight(t)' = Weight(t) + 1
      BY <1>0, <1>4, <1>6, <2>3
         DEF Weight, Handles, Issues, Pauses, LastPcs, PostPcs
    <2>5. Balanced(t, s)
      <3>. DEFINE a == Outstanding(s, "recv")
                  b == Outstanding(s, "send")
                  w == Weight(t)
      <3>1. a \in Nat /\ b \in Nat /\ w \in Nat /\ ioCount[s] \in Int
        BY PendingType, WeightType
      <3>2. Pending(s) = a + b + 1 /\ Pending(s)' = a + b + 0
        BY <1>4, <2>2 DEF Pending
      <3>3. Weight(t)' = w + 1 /\ Weight(t) = w /\ ioCount'[s] = ioCount[s]
        BY <2>1, <2>4
      <3>. HIDE DEF a, b, w
      <3>. QED
        BY <3>1, <3>2, <3>3 DEF Balanced
    <2>6. Owns(t) /\ (Serves(t)' <=> Serves(t))
      BY <1>0, <1>4, <1>6 DEF Owns, Serves
    <2>7. ReceivedOnce(s)'
      <3>1. Outstanding(s, "recv")' + paused'[s] <= 1
        BY <1>4, <1>7, <2>2, PendingType DEF SessionInv, ReceivedOnce
      <3>. QED
        BY <1>3, <1>6, <1>7, <2>2, <2>3, <3>1, PassStep DEF SessionInv
    <2>. QED
      BY <1>0, <1>2, <1>3, <1>4, <1>5, <1>7, <2>0, <2>1, <2>5, <2>6, <2>7,
         HeldStep DEF LastPcs
  <1>. QED
    BY <1>2, <1>3, <1>4, <1>5, <1>7, QueueKept DEF Keeps

(* A count is taken before the gate is looked at.                          *)
LEMMA KeepsBeginIO ==
    ASSUME TypeOK, NEW t \in Threads, NEW s \in Sessions, ses[t] = s, Fits(t),
           BeginIO(t)
    PROVE  Keeps(t, s)
  <1>. USE DEF leaseVars, ioVars, kernelVars, jobVars, schedVars, locals
  <1>. DEFINE l == IF pc[t] = "begin" THEN "gate" ELSE "gatePause"
  <1>0. /\ t \in On(s) /\ pc[t] \in {"begin", "beginPause"}
        /\ stack[t] \in Seq(Pcs) /\ post[t] \in {"next", "resume"}
        /\ ioCount' = [ioCount EXCEPT ![s] = @ + 1]
        /\ l \in Pcs
    BY DEF BeginIO, On, TypeOK, Pcs, IoPcs, HandlerPcs
  <1>1. At(t, l, stack[t])
    BY <1>0, GotoAt DEF BeginIO
  <1>2. TypeOK'
    <2>1. ioCount' \in [Sessions -> Int]
      BY <1>0 DEF TypeOK
    <2>2. pc' \in [Threads -> Pcs] /\ stack' \in [Threads -> Seq(Pcs)]
      BY <1>1 DEF At
    <2>. QED
      BY <2>1, <2>2 DEF BeginIO, TypeOK
  <1>3. Local(t, s)
    BY <1>0, <1>1 DEF BeginIO, TypeOK, Local, At
  <1>4. /\ pc'[t] = l /\ stack'[t] = stack[t] /\ post'[t] = post[t]
        /\ ioCount'[s] = ioCount[s] + 1 /\ left' = left /\ ready' = ready
    BY <1>0, <1>1 DEF BeginIO, TypeOK, At
  <1>5. Fits(t)'
    BY <1>0, <1>4 DEF Fits, HandlerPcs, WorkerPcs, ResumePcs, PostPcs,
       InReleasePcs, LastPcs
  <1>6. /\ ~Undoing(stack[t]) /\ ~Pausing(stack[t])
        /\ pc[t] = "beginPause" => t \in Workers
        /\ pc[t] = "begin" /\ post[t] = "next" => t \in Workers
    <2>1. stack[t] = <<>> \/ stack[t] = Base(t)
      BY <1>0 DEF Fits, HandlerPcs, PostPcs
    <2>2. ~Undoing(stack[t]) /\ ~Pausing(stack[t])
      BY <2>1, EmptyFacts, BaseFacts
    <2>. QED
      BY <1>0, <2>2 DEF Fits, HandlerPcs, PostPcs
  <1>7. /\ Weight(t)' = Weight(t) + 1
        /\ Handles(t) \/ Pauses(t)
        /\ Receives(t)' <=> Receives(t)
        /\ Serves(t)' <=> Serves(t)
        /\ Owns(t)' <=> Owns(t)
    <2>1. CASE pc[t] = "begin"
      <3>1. pc'[t] = "gate"
        BY <1>4, <2>1
      <3>2. /\ ~Issues(t) /\ Issues(t)'
            /\ Handles(t)' <=> Handles(t)
            /\ Pauses(t)' <=> Pauses(t)
        BY <1>4, <1>6, <2>1, <3>1 DEF Issues, Handles, Pauses, PostPcs, LastPcs
      <3>3. Handles(t) \/ Pauses(t)
        BY <1>0, <1>6, <2>1 DEF Handles, Pauses, PostPcs, LastPcs
      <3>4. Weight(t)' = Weight(t) + 1
        BY <3>2 DEF Weight
      <3>. QED
        BY <1>4, <2>1, <3>1, <3>3, <3>4 DEF Receives, Serves, Owns, PostPcs,
           ParsePcs
    <2>2. CASE pc[t] = "beginPause"
      <3>1. pc'[t] = "gatePause"
        BY <1>4, <2>2
      <3>2. /\ ~Pauses(t) /\ Pauses(t)' /\ Handles(t)
            /\ Handles(t)' <=> Handles(t)
            /\ Issues(t)' <=> Issues(t)
        BY <1>4, <1>6, <2>2, <3>1 DEF Issues, Handles, Pauses, PostPcs, LastPcs
      <3>3. Weight(t)' = Weight(t) + 1
        BY <3>2 DEF Weight
      <3>. QED
        BY <1>4, <2>2, <3>1, <3>2, <3>3 DEF Receives, Serves, Owns, PostPcs,
           ParsePcs
    <2>. QED
      BY <1>0, <2>1, <2>2
  <1>8. pc'[t] \notin LastPcs \cup {"claim", "execute", "dropCount"}
    BY <1>4 DEF LastPcs
  <1>. HIDE DEF l
  <1>9. ASSUME SessionInv(s)
        PROVE  SessionInv(s)'
    <2>0. poolState[s] # "FREE" /\ ioCount[s] # 0
      BY <1>0, <1>7, <1>9, NotFree, NothingHeld DEF SessionInv
    <2>1. /\ Apart(s) /\ live' = live /\ dying' = dying /\ paused' = paused
      BY DEF BeginIO, Apart
    <2>2. /\ Outstanding(s, "recv")' = Outstanding(s, "recv")
          /\ Pending(s)' = Pending(s)
      BY <2>1 DEF Pending, Outstanding
    <2>3. /\ Pending(s) \in Nat /\ Weight(t) \in Nat /\ ioCount[s] \in Int
          /\ Outstanding(s, "recv") \in Nat /\ paused[s] \in Nat
      BY PendingType, WeightType
    <2>4. Balanced(t, s)
      BY <1>4, <1>7, <2>2, <2>3 DEF Balanced
    <2>5. ReceivedOnce(s)'
      BY <1>2, <1>3, <1>7, <1>8, <1>9, <2>1, <2>2, <2>3, ReceivedStep
         DEF SessionInv
    <2>. QED
      BY <1>0, <1>2, <1>3, <1>5, <1>7, <1>8, <1>9, <2>0, <2>1, <2>4, <2>5,
         HeldStep
  <1>. QED
    BY <1>2, <1>3, <1>4, <1>5, <1>9, QueueKept DEF Keeps

(* The receive is posted: its completion carries the count on.             *)
LEMMA KeepsIssue ==
    ASSUME TypeOK, NEW t \in Threads, NEW s \in Sessions, ses[t] = s, Fits(t),
           IssueSucceeds(t)
    PROVE  Keeps(t, s)
  <1>. USE DEF leaseVars, ioVars, kernelVars, jobVars, schedVars, locals
  <1>0. /\ t \in On(s) /\ pc[t] = "issue" /\ post[t] \in {"next", "resume"}
        /\ stack[t] \in Seq(Pcs) /\ Posted(t) \in Pcs
        /\ "recv" \in Kinds /\ "send" \in Kinds
    BY DEF IssueSucceeds, On, TypeOK, Posted, Pcs, HandlerPcs, ResumePcs, Kinds
  <1>a. live' = [live EXCEPT ![s] = [live[s] EXCEPT !["recv"] = live[s]["recv"] + 1]]
    BY DEF IssueSucceeds
  <1>b. live \in [Sessions -> [Kinds -> Nat]] /\ live[s] \in [Kinds -> Nat]
        /\ live[s]["recv"] \in Nat /\ live[s]["send"] \in Nat
        /\ dying[s]["recv"] \in Nat /\ dying[s]["send"] \in Nat
    BY <1>0 DEF TypeOK
  <1>1. At(t, Posted(t), stack[t])
    BY <1>0, GotoAt DEF IssueSucceeds
  <1>2. TypeOK'
    <2>1. live' \in [Sessions -> [Kinds -> Nat]]
      <3>. DEFINE f == [live[s] EXCEPT !["recv"] = live[s]["recv"] + 1]
      <3>1. f \in [Kinds -> Nat]
        BY <1>0, <1>b
      <3>2. live' = [live EXCEPT ![s] = f]
        BY <1>a
      <3>. HIDE DEF f
      <3>. QED
        BY <1>b, <3>1, <3>2
    <2>2. pc' \in [Threads -> Pcs] /\ stack' \in [Threads -> Seq(Pcs)]
      BY <1>1 DEF At
    <2>. QED
      BY <2>1, <2>2 DEF IssueSucceeds, TypeOK
  <1>3. Local(t, s)
    BY <1>0, <1>1, <1>a, <1>b DEF IssueSucceeds, TypeOK, Local, At
  <1>4. /\ pc'[t] = Posted(t) /\ stack'[t] = stack[t] /\ post'[t] = post[t]
        /\ left' = left /\ ready' = ready
    BY <1>0, <1>1 DEF IssueSucceeds, TypeOK, At
  <1>5. /\ Outstanding(s, "recv")' = Outstanding(s, "recv") + 1
        /\ Outstanding(s, "send")' = Outstanding(s, "send")
    <2>1. live'[s]["recv"] = live[s]["recv"] + 1 /\ live'[s]["send"] = live[s]["send"]
      <3>. DEFINE f == [live[s] EXCEPT !["recv"] = live[s]["recv"] + 1]
      <3>1. f["recv"] = live[s]["recv"] + 1 /\ f["send"] = live[s]["send"]
        BY <1>0, <1>b
      <3>2. live' = [live EXCEPT ![s] = f]
        BY <1>a
      <3>. HIDE DEF f
      <3>. QED
        BY <1>b, <3>1, <3>2
    <2>2. dying' = dying
      BY DEF IssueSucceeds
    <2>3. Outstanding(s, "recv")' = Outstanding(s, "recv") + 1
      <3>1. Outstanding(s, "recv")' = (live[s]["recv"] + 1) + dying[s]["recv"]
        BY <2>1, <2>2 DEF Outstanding
      <3>2. Outstanding(s, "recv") = live[s]["recv"] + dying[s]["recv"]
        BY DEF Outstanding
      <3>. QED
        BY <1>b, <3>1, <3>2
    <2>4. Outstanding(s, "send")' = Outstanding(s, "send")
      BY <2>1, <2>2 DEF Outstanding
    <2>. QED
      BY <2>3, <2>4
  <1>8. /\ Fits(t)' /\ Weight(t) = Weight(t)' + 1 /\ Issues(t)
        /\ Receives(t) /\ ~Receives(t)' /\ ~Owns(t)'
        /\ Serves(t)' <=> Serves(t)
    <2>6. CASE post[t] = "next"
      <3>1. pc'[t] = "finish" /\ t \in Workers /\ stack[t] = <<>>
        BY <1>0, <1>4, <2>6 DEF Posted, Fits, PostPcs
      <3>2. Fits(t)'
        BY <1>4, <3>1 DEF Fits, HandlerPcs, WorkerPcs, ResumePcs, PostPcs,
           InReleasePcs, LastPcs
      <3>3. /\ Weight(t) = Weight(t)' + 1 /\ Issues(t)
            /\ Receives(t) /\ ~Receives(t)' /\ ~Owns(t)'
            /\ Serves(t)' <=> Serves(t)
        BY <1>0, <1>4, <2>6, <3>1, EmptyFacts
           DEF Weight, Issues, Handles, Pauses, Receives, Serves, Owns, PostPcs,
           LastPcs, ParsePcs
      <3>. QED
        BY <3>1, <3>2, <3>3
    <2>7. CASE post[t] = "resume"
      <3>1. pc'[t] = "dropPause" /\ t \in Posters /\ stack[t] = Base(t)
        BY <1>0, <1>4, <2>7 DEF Posted, Fits, PostPcs
      <3>2. Fits(t)'
        BY <1>4, <3>1 DEF Fits, HandlerPcs, WorkerPcs, ResumePcs, PostPcs,
           InReleasePcs, LastPcs
      <3>3. /\ ~Undoing(stack[t]) /\ ~Pausing(stack[t]) /\ ~Reserving(stack[t])
        BY <3>1, BaseFacts
      <3>4. /\ Weight(t) = Weight(t)' + 1 /\ Issues(t)
            /\ Receives(t) /\ ~Receives(t)' /\ ~Owns(t)'
            /\ Serves(t)' <=> Serves(t)
        BY <1>0, <1>4, <2>7, <3>1, <3>3
           DEF Weight, Issues, Handles, Pauses, Receives, Serves, Owns, PostPcs,
           LastPcs, ParsePcs
      <3>. QED
        BY <3>1, <3>2, <3>4
    <2>. QED
      BY <1>0, <2>6, <2>7
  <1>9. ASSUME SessionInv(s)
        PROVE  SessionInv(s)'
    <2>0. poolState[s] # "FREE" /\ ioCount[s] # 0
      BY <1>0, <1>8, <1>9, NotFree, NothingHeld DEF SessionInv
    <2>1. /\ Apart(s) /\ paused' = paused /\ ioCount' = ioCount
      BY DEF IssueSucceeds, Apart
    <2>2. /\ Outstanding(s, "recv") = 0 /\ paused[s] = 0
          /\ \A u \in On(s) : Receives(u) => u = t
      BY <1>0, <1>8, <1>9 DEF SessionInv, ReceivedOnce
    <2>3. Balanced(t, s)
      <3>. DEFINE b == Outstanding(s, "send")
                  w == Weight(t)'
      <3>1. b \in Nat /\ w \in Nat /\ ioCount[s] \in Int
        BY PendingType, WeightType
      <3>2. Pending(s) = 0 + b + 0 /\ Pending(s)' = 1 + b + 0
        BY <1>5, <2>1, <2>2 DEF Pending
      <3>3. Weight(t)' = w /\ Weight(t) = w + 1 /\ ioCount'[s] = ioCount[s]
        BY <1>8, <2>1
      <3>. HIDE DEF b, w
      <3>. QED
        BY <3>1, <3>2, <3>3 DEF Balanced
    <2>4. ReceivedOnce(s)'
      <3>1. Outstanding(s, "recv")' + paused'[s] <= 1
        BY <1>5, <2>1, <2>2
      <3>2. pc'[t] # "dropCount"
        BY <1>4 DEF Posted
      <3>. QED
        BY <1>3, <1>8, <1>9, <2>2, <3>1, <3>2, PassStep DEF SessionInv
    <2>5. pc'[t] \notin LastPcs \cup {"claim", "execute"}
      BY <1>4 DEF Posted, LastPcs
    <2>. QED
      BY <1>0, <1>2, <1>3, <1>8, <1>9, <2>0, <2>1, <2>3, <2>4, <2>5, HeldStep
  <1>. QED
    BY <1>2, <1>3, <1>4, <1>8, <1>9, QueueKept DEF Keeps

(* The compare-exchange of ResumeReceive that wins takes the count of the  *)
(* pause, and the right to post the next receive.                          *)
LEMMA KeepsResume ==
    ASSUME TypeOK, NEW t \in Threads, NEW s \in Sessions, ses[t] = s, Fits(t),
           ResumeReceive(t), paused[s] = 1
    PROVE  Keeps(t, s)
  <1>. USE DEF leaseVars, ioVars, kernelVars, jobVars, schedVars, locals
  <1>0. /\ t \in On(s) /\ pc[t] = "resume" /\ stack[t] = Base(t)
        /\ t \in Posters /\ "connected" \in Pcs
        /\ paused' = [paused EXCEPT ![s] = 0]
        /\ post' = [post EXCEPT ![t] = "resume"]
    BY DEF ResumeReceive, On, Fits, ResumePcs, Pcs, IoPcs
  <1>1. At(t, "connected", stack[t])
    BY <1>0, GotoAt DEF ResumeReceive, GotoOrReturn
  <1>2. TypeOK'
    <2>1. paused' \in [Sessions -> 0 .. 1]
      BY <1>0 DEF TypeOK
    <2>2. post' \in [Threads -> {"next", "resume"}]
      BY <1>0 DEF TypeOK
    <2>3. pc' \in [Threads -> Pcs] /\ stack' \in [Threads -> Seq(Pcs)]
      BY <1>1 DEF At
    <2>. QED
      BY <2>1, <2>2, <2>3 DEF ResumeReceive, TypeOK
  <1>3. Local(t, s)
    BY <1>0, <1>1 DEF ResumeReceive, TypeOK, Local, At
  <1>4. /\ pc'[t] = "connected" /\ stack'[t] = stack[t] /\ post'[t] = "resume"
        /\ paused'[s] = 0 /\ left' = left /\ ready' = ready
    BY <1>0, <1>1 DEF ResumeReceive, TypeOK, At
  <1>5. Fits(t)'
    BY <1>0, <1>4 DEF Fits, HandlerPcs, WorkerPcs, ResumePcs, PostPcs,
       InReleasePcs, LastPcs
  <1>6. /\ ~Undoing(stack[t]) /\ ~Pausing(stack[t]) /\ ~Reserving(stack[t])
    BY <1>0, BaseFacts
  <1>7. /\ Weight(t)' = Weight(t) + 1 /\ ~Owns(t)'
        /\ Serves(t)' <=> Serves(t)
    BY <1>0, <1>4, <1>6 DEF Weight, Handles, Issues, Pauses, Serves, Owns,
       PostPcs, LastPcs
  <1>8. ASSUME SessionInv(s)
        PROVE  SessionInv(s)'
    <2>0. poolState[s] # "FREE" /\ ioCount[s] # 0
      BY <1>0, <1>8, NotFree, NothingHeld DEF SessionInv
    <2>1. /\ Apart(s) /\ ioCount' = ioCount /\ live' = live /\ dying' = dying
      BY DEF ResumeReceive, Apart
    <2>2. /\ Outstanding(s, "recv")' = Outstanding(s, "recv")
          /\ Outstanding(s, "send")' = Outstanding(s, "send")
      BY <2>1 DEF Outstanding
    <2>3. \A u \in On(s) : ~Receives(u)
      BY <1>8 DEF SessionInv, ReceivedOnce
    <2>4. Outstanding(s, "recv") = 0
      BY <1>8, PendingType DEF SessionInv, ReceivedOnce
    <2>5. Balanced(t, s)
      <3>. DEFINE b == Outstanding(s, "send")
                  w == Weight(t)
      <3>1. b \in Nat /\ w \in Nat /\ ioCount[s] \in Int
        BY PendingType, WeightType
      <3>2. Pending(s) = 0 + b + 1 /\ Pending(s)' = 0 + b + 0
        BY <1>4, <2>2, <2>4 DEF Pending
      <3>3. Weight(t)' = w + 1 /\ Weight(t) = w /\ ioCount'[s] = ioCount[s]
        BY <1>7, <2>1
      <3>. HIDE DEF b, w
      <3>. QED
        BY <3>1, <3>2, <3>3 DEF Balanced
    <2>6. ReceivedOnce(s)'
      BY <1>3, <1>4, <1>8, <2>2, <2>3, <2>4, PassStep DEF SessionInv
    <2>7. /\ pc[t] # "execute"
          /\ pc'[t] \notin LastPcs \cup {"claim", "execute"}
      BY <1>0, <1>4 DEF LastPcs
    <2>. QED
      BY <1>2, <1>3, <1>5, <1>7, <1>8, <2>0, <2>1, <2>5, <2>6, <2>7, HeldStep
  <1>. QED
    BY <1>2, <1>3, <1>4, <1>5, <1>8, QueueKept DEF Keeps

(* The mark stands for the count from here on.                             *)
LEMMA KeepsMark ==
    ASSUME TypeOK, NEW t \in Threads, NEW s \in Sessions, ses[t] = s, Fits(t),
           MarkPaused(t)
    PROVE  Keeps(t, s)
  <1>. USE DEF leaseVars, ioVars, kernelVars, jobVars, schedVars, locals
  <1>0. /\ t \in On(s) /\ pc[t] = "mark" /\ stack[t] = <<>> /\ t \in Workers
        /\ paused' = [paused EXCEPT ![s] = 1] /\ "recheck" \in Pcs
    BY DEF MarkPaused, On, Fits, HandlerPcs, Pcs
  <1>1. At(t, "recheck", stack[t])
    BY <1>0, GotoAt DEF MarkPaused
  <1>2. TypeOK'
    <2>1. paused' \in [Sessions -> 0 .. 1]
      BY <1>0 DEF TypeOK
    <2>2. pc' \in [Threads -> Pcs] /\ stack' \in [Threads -> Seq(Pcs)]
      BY <1>1 DEF At
    <2>. QED
      BY <2>1, <2>2 DEF MarkPaused, TypeOK
  <1>3. Local(t, s)
    BY <1>0, <1>1 DEF MarkPaused, TypeOK, Local, At
  <1>4. /\ pc'[t] = "recheck" /\ stack'[t] = stack[t] /\ post'[t] = post[t]
        /\ paused'[s] = 1 /\ left' = left /\ ready' = ready
    BY <1>0, <1>1 DEF MarkPaused, TypeOK, At
  <1>5. Fits(t)'
    BY <1>0, <1>4 DEF Fits, HandlerPcs, WorkerPcs, ResumePcs, PostPcs,
       InReleasePcs, LastPcs
  <1>6. /\ Weight(t) = Weight(t)' + 1 /\ Pauses(t) /\ ~Owns(t)'
        /\ Receives(t) /\ ~Receives(t)'
        /\ Serves(t)' <=> Serves(t)
    BY <1>0, <1>4, EmptyFacts DEF Weight, Handles, Issues, Pauses, Serves,
       Owns, Receives, PostPcs, LastPcs, ParsePcs
  <1>7. ASSUME SessionInv(s)
        PROVE  SessionInv(s)'
    <2>0. poolState[s] # "FREE" /\ ioCount[s] # 0
      BY <1>0, <1>6, <1>7, NotFree, NothingHeld DEF SessionInv
    <2>1. /\ Apart(s) /\ ioCount' = ioCount /\ live' = live /\ dying' = dying
      BY DEF MarkPaused, Apart
    <2>2. /\ Outstanding(s, "recv")' = Outstanding(s, "recv")
          /\ Outstanding(s, "send")' = Outstanding(s, "send")
      BY <2>1 DEF Outstanding
    <2>3. /\ Outstanding(s, "recv") = 0 /\ paused[s] = 0
          /\ \A u \in On(s) : Receives(u) => u = t
      BY <1>0, <1>6, <1>7 DEF SessionInv, ReceivedOnce
    <2>4. Balanced(t, s)
      <3>. DEFINE b == Outstanding(s, "send")
                  w == Weight(t)'
      <3>1. b \in Nat /\ w \in Nat /\ ioCount[s] \in Int
        BY PendingType, WeightType
      <3>2. Pending(s) = 0 + b + 0 /\ Pending(s)' = 0 + b + 1
        BY <1>4, <2>2, <2>3 DEF Pending
      <3>3. Weight(t)' = w /\ Weight(t) = w + 1 /\ ioCount'[s] = ioCount[s]
        BY <1>6, <2>1
      <3>. HIDE DEF b, w
      <3>. QED
        BY <3>1, <3>2, <3>3 DEF Balanced
    <2>5. ReceivedOnce(s)'
      BY <1>3, <1>4, <1>6, <1>7, <2>2, <2>3, PassStep DEF SessionInv
    <2>6. /\ pc[t] # "execute"
          /\ pc'[t] \notin LastPcs \cup {"claim", "execute"}
      BY <1>0, <1>4 DEF LastPcs
    <2>. QED
      BY <1>2, <1>3, <1>5, <1>6, <1>7, <2>0, <2>1, <2>4, <2>5, <2>6, HeldStep
  <1>. QED
    BY <1>2, <1>3, <1>4, <1>5, <1>7, QueueKept DEF Keeps

-----------------------------------------------------------------------------
(* Jobs and the ready queue.                                               *)

(* When nobody but t could have the session in hand, t and the queue       *)
(* decide.                                                                 *)
LEMMA ServeStep ==
    ASSUME NEW t \in Threads, NEW s \in Sessions, Local(t, s), Fits(t), Fits(t)',
           \A u \in On(s) : Serves(u) => u = t,
           OnceInQueue(s)', Serves(t)' => ~InQueue(s)',
           processing'[s] = 1 <=> InQueue(s)' \/ Serves(t)'
    PROVE  Scheduled(s)'
  <1>1. \A u \in On(s)' : Serves(u)' => u = t
    <2>. SUFFICES ASSUME NEW u \in On(s)', Serves(u)', u # t
                  PROVE  FALSE
      OBVIOUS
    <2>1. u \in Threads
      BY DEF On
    <2>2. u \in On(s) /\ Serves(u)
      BY <2>1, Bystander
    <2>. QED
      BY <2>2
  <1>2. Serves(t)' => t \in On(s)'
    <2>1. pc'[t] = "idle" => stack'[t] = <<>>
      BY DEF Fits
    <2>2. pc'[t] = "idle" => ~Serves(t)'
      BY <2>1, EmptyFacts DEF Serves
    <2>. QED
      BY <2>2, OnSession
  <1>3. \A u \in On(s)' : Serves(u)' => ~InQueue(s)'
    BY <1>1
  <1>4. (\E u \in On(s)' : Serves(u)') <=> Serves(t)'
    BY <1>1, <1>2
  <1>5. processing'[s] = 1 <=> InQueue(s)' \/ \E u \in On(s)' : Serves(u)'
    BY <1>4
  <1>. QED
    BY <1>1, <1>3, <1>5 DEF Scheduled

(* A step about the jobs and who has the session in hand alone.            *)
Steady(s) ==
    /\ poolState'[s] = poolState[s] /\ open'[s] = open[s]
    /\ ioCount'[s] = ioCount[s] /\ releasePending'[s] = releasePending[s]
    /\ paused'[s] = paused[s]
    /\ Outstanding(s, "recv")' = Outstanding(s, "recv")
    /\ Outstanding(s, "send")' = Outstanding(s, "send")

LEMMA JobStep ==
    ASSUME TypeOK, TypeOK', NEW t \in Threads, NEW s \in Sessions, Local(t, s),
           Fits(t), Fits(t)', SessionInv(s), poolState[s] # "FREE", Steady(s),
           Weight(t)' = Weight(t), Owns(t)' => Owns(t),
           Receives(t)' => Receives(t),
           pc'[t] \notin LastPcs \cup {"claim", "dropCount"},
           Scheduled(s)', InOrder(s)'
    PROVE  SessionInv(s)'
  <1>1. Counted(s)'
    <2>1. Pending(s)' = Pending(s)
      BY DEF Steady, Pending
    <2>2. Pending(s) \in Nat /\ Weight(t) \in Nat /\ ioCount[s] \in Int
      BY PendingType, WeightType
    <2>3. Balanced(t, s)
      BY <2>1, <2>2 DEF Balanced, Steady
    <2>. QED
      BY <2>3, CountedStep DEF SessionInv
  <1>2. Owned(s)'
    BY OwnedStep DEF SessionInv, Steady, LastPcs
  <1>3. Drained(s)'
    BY DrainedStep DEF SessionInv, Steady, LastPcs
  <1>4. Unused(s)'
    BY DEF Unused, Steady
  <1>5. ReceivedOnce(s)'
    <2>1. Outstanding(s, "recv") \in Nat /\ paused[s] \in Nat
      BY PendingType
    <2>2. /\ Outstanding(s, "recv")' <= Outstanding(s, "recv")
          /\ paused'[s] <= paused[s]
      BY <2>1 DEF Steady
    <2>. QED
      BY <2>2, ReceivedStep DEF SessionInv
  <1>. QED
    BY <1>1, <1>2, <1>3, <1>4, <1>5 DEF SessionInv

(* HandleRecv queues a packet as the next job.                             *)
LEMMA KeepsSubmit ==
    ASSUME TypeOK, NEW w \in Threads, NEW s \in Sessions, ses[w] = s, Fits(w),
           SubmitPacketJob(w)
    PROVE  Keeps(w, s)
  <1>. USE DEF leaseVars, ioVars, kernelVars, jobVars, schedVars, locals
  <1>0. /\ w \in On(s) /\ pc[w] = "parse" /\ stack[w] = <<>> /\ w \in Workers
        /\ batch[w] \in Nat /\ received[s] \in Nat /\ jobs[s] \in Seq(Nat)
        /\ done[s] \in Nat /\ "schedule" \in Pcs
    BY DEF SubmitPacketJob, On, TypeOK, Fits, HandlerPcs, Pcs
  <1>1. At(w, "schedule", stack[w])
    BY <1>0, GotoAt DEF SubmitPacketJob
  <1>2. TypeOK'
    <2>1. batch' \in [Threads -> Nat]
      BY <1>0 DEF SubmitPacketJob, TypeOK
    <2>2. received' \in [Sessions -> Nat]
      BY <1>0 DEF SubmitPacketJob, TypeOK
    <2>3. jobs' \in [Sessions -> Seq(Nat)]
      <3>1. Append(jobs[s], received[s] + 1) \in Seq(Nat)
        BY <1>0
      <3>. QED
        BY <3>1 DEF SubmitPacketJob, TypeOK
    <2>4. pc' \in [Threads -> Pcs] /\ stack' \in [Threads -> Seq(Pcs)]
      BY <1>1 DEF At
    <2>. QED
      BY <2>1, <2>2, <2>3, <2>4 DEF SubmitPacketJob, TypeOK
  <1>3. Local(w, s)
    BY <1>0, <1>1 DEF SubmitPacketJob, TypeOK, Local, At
  <1>4. /\ pc'[w] = "schedule" /\ stack'[w] = stack[w] /\ post'[w] = post[w]
        /\ received'[s] = received[s] + 1
        /\ jobs'[s] = Append(jobs[s], received[s] + 1)
        /\ left' = left /\ ready' = ready /\ done' = done
        /\ processing' = processing /\ poolState' = poolState
    BY <1>0, <1>1 DEF SubmitPacketJob, TypeOK, At
  <1>5. Fits(w)'
    BY <1>0, <1>4 DEF Fits, HandlerPcs, WorkerPcs, ResumePcs, PostPcs,
       InReleasePcs, LastPcs
  <1>6. /\ Weight(w)' = Weight(w) /\ ~Owns(w)' /\ Receives(w)
        /\ Serves(w)' <=> Serves(w)
    BY <1>0, <1>4, EmptyFacts DEF Weight, Handles, Issues, Pauses, Serves,
       Owns, Receives, PostPcs, LastPcs, ParsePcs
  <1>7. ASSUME SessionInv(s)
        PROVE  SessionInv(s)'
    <2>0. poolState[s] # "FREE"
      BY <1>0, <1>7, NotFree DEF SessionInv
    <2>1. Steady(s)
      BY DEF SubmitPacketJob, Steady, Outstanding
    <2>2. Scheduled(s)'
      BY <1>3, <1>4, <1>5, <1>6, <1>7, ScheduledStep DEF SessionInv
    <2>3. \A u \in Threads : u \in On(s)' /\ pc'[u] = "execute"
                               <=> u \in On(s) /\ pc[u] = "execute"
      BY <1>0, <1>3, <1>4, Bystander
    <2>4. InHand(s)' = InHand(s) /\ InHand(s) \in Nat
      BY <2>3 DEF InHand, On
    <2>5. InOrder(s)'
      <3>1. /\ received[s] = done[s] + InHand(s) + Len(jobs[s])
            /\ \A i \in 1 .. Len(jobs[s]) : jobs[s][i] = done[s] + InHand(s) + i
            /\ \A u \in On(s) : pc[u] = "execute" => job[u] = done[s] + 1
        BY <1>7, <2>0 DEF SessionInv, InOrder
      <3>2. /\ Len(jobs'[s]) = Len(jobs[s]) + 1
            /\ \A i \in 1 .. Len(jobs[s]) : jobs'[s][i] = jobs[s][i]
            /\ jobs'[s][Len(jobs[s]) + 1] = received[s] + 1
        BY <1>0, <1>4
      <3>3. received'[s] = done'[s] + InHand(s)' + Len(jobs'[s])
        BY <1>0, <1>4, <2>4, <3>1, <3>2
      <3>4. \A i \in 1 .. Len(jobs'[s]) : jobs'[s][i] = done'[s] + InHand(s)' + i
        <4>. SUFFICES ASSUME NEW i \in 1 .. Len(jobs'[s])
                      PROVE  jobs'[s][i] = done'[s] + InHand(s)' + i
          OBVIOUS
        <4>1. Len(jobs[s]) \in Nat
          BY <1>0
        <4>2. i \in 1 .. Len(jobs[s]) \/ i = Len(jobs[s]) + 1
          BY <3>2, <4>1
        <4>3. CASE i \in 1 .. Len(jobs[s])
          <5>1. jobs'[s][i] = done[s] + InHand(s) + i
            BY <3>1, <3>2, <4>3
          <5>. QED
            BY <1>4, <2>4, <5>1
        <4>4. CASE i = Len(jobs[s]) + 1
          <5>1. jobs'[s][i] = received[s] + 1
            BY <3>2, <4>4
          <5>2. received[s] = done[s] + InHand(s) + Len(jobs[s])
            BY <3>1
          <5>3. received[s] \in Nat /\ done[s] \in Nat
            BY <1>0
          <5>4. InHand(s) \in Nat
            BY <2>4
          <5>5. received[s] + 1 = done[s] + InHand(s) + i
            BY <4>1, <4>4, <5>2, <5>3, <5>4
          <5>. QED
            BY <1>4, <2>4, <5>1, <5>5
        <4>. QED
          BY <4>2, <4>3, <4>4
      <3>5. \A u \in On(s)' : pc'[u] = "execute" => job'[u] = done'[s] + 1
        <4>. SUFFICES ASSUME NEW u \in On(s)', pc'[u] = "execute"
                      PROVE  job'[u] = done'[s] + 1
          OBVIOUS
        <4>1. u \in Threads /\ u # w /\ u \in On(s) /\ pc[u] = "execute"
          BY <1>4, <2>3 DEF On
        <4>2. job'[u] = job[u]
          BY <1>3, <4>1, Bystander
        <4>. QED
          BY <1>4, <3>1, <4>1, <4>2
      <3>. QED
        BY <3>3, <3>4, <3>5 DEF InOrder
    <2>6. pc'[w] \notin LastPcs \cup {"claim", "dropCount"}
      BY <1>4 DEF LastPcs
    <2>. QED
      BY <1>2, <1>3, <1>5, <1>6, <1>7, <2>0, <2>1, <2>2, <2>5, <2>6, JobStep
  <1>. QED
    BY <1>2, <1>3, <1>4, <1>5, <1>7, QueueKept DEF Keeps

(* The compare-exchange on m_processing, by the handler or the job worker: *)
(* who turns it from 0 to 1 has the session in hand.                       *)
LEMMA KeepsClaim ==
    ASSUME TypeOK, NEW t \in Threads, NEW s \in Sessions, ses[t] = s, Fits(t),
           Schedule(t) \/ ClaimAgain(t)
    PROVE  Keeps(t, s)
  <1>. USE DEF leaseVars, ioVars, kernelVars, jobVars, schedVars, locals
  <1>. DEFINE l == IF pc[t] = "schedule"
                   THEN IF processing[s] = 0 THEN "push" ELSE "parse"
                   ELSE IF processing[s] = 0 THEN "pushAgain" ELSE "resumeCheck"
  <1>0. /\ t \in On(s) /\ pc[t] \in {"schedule", "claimAgain"}
        /\ stack[t] = <<>> /\ processing[s] \in {0, 1}
        /\ pc[t] = "schedule" => t \in Workers
        /\ pc[t] = "claimAgain" => t \in JobWorkers
        /\ processing' = [processing EXCEPT ![s] = 1]
        /\ Goto(t, l)
        /\ UNCHANGED <<leaseVars, ioVars, kernelVars, jobVars, ready, paused,
                       locals>>
    BY DEF Schedule, ClaimAgain, On, TypeOK, Fits, HandlerPcs, WorkerPcs
  <1>a. l \in Pcs
    BY DEF Pcs, HandlerPcs, WorkerPcs
  <1>1. At(t, l, stack[t])
    BY <1>0, <1>a, GotoAt
  <1>2. TypeOK'
    <2>1. processing' \in [Sessions -> 0 .. 1]
      BY <1>0 DEF TypeOK
    <2>2. pc' \in [Threads -> Pcs] /\ stack' \in [Threads -> Seq(Pcs)]
      BY <1>1 DEF At
    <2>. QED
      BY <1>0, <2>1, <2>2 DEF TypeOK
  <1>3. Local(t, s)
    BY <1>0, <1>1 DEF TypeOK, Local, At
  <1>4. /\ pc'[t] = l /\ stack'[t] = <<>> /\ processing'[s] = 1
    BY <1>0, <1>1 DEF TypeOK, At
  <1>5. Fits(t)'
    BY <1>0, <1>4 DEF Fits, HandlerPcs, WorkerPcs, ResumePcs, PostPcs,
       InReleasePcs, LastPcs
  <1>6. Weight(t)' = Weight(t) /\ ~Owns(t)' /\ ~Serves(t)
    BY <1>0, <1>4, EmptyFacts DEF Weight, Handles, Issues, Pauses, Serves,
       Owns, PostPcs, LastPcs
  <1>7. /\ Receives(t)' => Receives(t)
        /\ Serves(t)' <=> processing[s] = 0
        /\ pc'[t] \notin LastPcs \cup {"claim", "dropCount", "execute"}
    BY <1>0, <1>4, EmptyFacts DEF Serves, Receives, PostPcs, LastPcs, ParsePcs
  <1>. HIDE DEF l
  <1>8. ASSUME SessionInv(s)
        PROVE  SessionInv(s)'
    <2>0. poolState[s] # "FREE"
      BY <1>0, <1>8, NotFree DEF SessionInv
    <2>1. Steady(s)
      BY <1>0 DEF Steady, Outstanding
    <2>2. Scheduled(s)'
      <3>1. CASE processing[s] = 0
        <4>1. ~InQueue(s) /\ \A u \in On(s) : ~Serves(u)
          BY <1>8, <3>1 DEF SessionInv, Scheduled
        <4>2. OnceInQueue(s)' /\ ~InQueue(s)'
          BY <1>0, <1>8, <4>1, QueueKept DEF SessionInv, Scheduled
        <4>. QED
          BY <1>3, <1>4, <1>5, <1>7, <3>1, <4>1, <4>2, ServeStep
      <3>2. CASE processing[s] = 1
        BY <1>0, <1>3, <1>4, <1>5, <1>6, <1>7, <1>8, <3>2, ScheduledStep
           DEF SessionInv
      <3>. QED
        BY <1>0, <3>1, <3>2
    <2>3. InOrder(s)'
      BY <1>0, <1>3, <1>7, <1>8, <2>0, InOrderStep DEF SessionInv
    <2>. QED
      BY <1>2, <1>3, <1>5, <1>6, <1>7, <1>8, <2>0, <2>1, <2>2, <2>3, JobStep
  <1>. QED
    BY <1>0, <1>2, <1>3, <1>5, <1>8, QueueKept DEF Keeps

(* m_processing is given back: nobody has the session in hand.             *)
LEMMA KeepsGiveBack ==
    ASSUME TypeOK, NEW t \in Threads, NEW s \in Sessions, ses[t] = s, Fits(t),
           Unschedule(t) \/ ClearProcessing(t) \/ Unclaim(t)
    PROVE  Keeps(t, s)
  <1>. USE DEF leaseVars, ioVars, kernelVars, jobVars, schedVars, locals
  <1>. DEFINE l == IF pc[t] = "unschedule" THEN "parse"
                   ELSE IF pc[t] = "clear" THEN "recheckJobs" ELSE "resumeCheck"
  <1>0. /\ t \in On(s) /\ pc[t] \in {"unschedule", "clear", "unclaim"}
        /\ stack[t] = <<>>
        /\ pc[t] = "unschedule" => t \in Workers
        /\ pc[t] # "unschedule" => t \in JobWorkers
        /\ processing' = [processing EXCEPT ![s] = 0]
        /\ Goto(t, l)
        /\ UNCHANGED <<leaseVars, ioVars, kernelVars, jobVars, ready, paused,
                       locals>>
    BY DEF Unschedule, ClearProcessing, Unclaim, GiveBack, On, Fits, HandlerPcs,
       WorkerPcs
  <1>a. l \in Pcs
    BY DEF Pcs, HandlerPcs, WorkerPcs
  <1>1. At(t, l, stack[t])
    BY <1>0, <1>a, GotoAt
  <1>2. TypeOK'
    <2>1. processing' \in [Sessions -> 0 .. 1]
      BY <1>0 DEF TypeOK
    <2>2. pc' \in [Threads -> Pcs] /\ stack' \in [Threads -> Seq(Pcs)]
      BY <1>1 DEF At
    <2>. QED
      BY <1>0, <2>1, <2>2 DEF TypeOK
  <1>3. Local(t, s)
    BY <1>0, <1>1 DEF TypeOK, Local, At
  <1>4. /\ pc'[t] = l /\ stack'[t] = <<>> /\ processing'[s] = 0
    BY <1>0, <1>1 DEF TypeOK, At
  <1>5. Fits(t)'
    BY <1>0, <1>4 DEF Fits, HandlerPcs, WorkerPcs, ResumePcs, PostPcs,
       InReleasePcs, LastPcs
  <1>6. /\ Weight(t)' = Weight(t) /\ ~Owns(t)'
    BY <1>0, <1>4, EmptyFacts DEF Weight, Handles, Issues, Pauses,
       Owns, PostPcs, LastPcs
  <1>7. /\ Receives(t)' => Receives(t)
        /\ Serves(t) /\ ~Serves(t)'
        /\ pc'[t] \notin LastPcs \cup {"claim", "dropCount", "execute"}
    BY <1>0, <1>4, EmptyFacts DEF Serves, Receives, PostPcs, LastPcs, ParsePcs
  <1>. HIDE DEF l
  <1>8. ASSUME SessionInv(s)
        PROVE  SessionInv(s)'
    <2>0. poolState[s] # "FREE"
      BY <1>0, <1>8, NotFree DEF SessionInv
    <2>1. Steady(s)
      BY <1>0 DEF Steady, Outstanding
    <2>2. Scheduled(s)'
      <3>1. ~InQueue(s) /\ \A u \in On(s) : Serves(u) => u = t
        BY <1>0, <1>7, <1>8 DEF SessionInv, Scheduled
      <3>2. OnceInQueue(s)' /\ ~InQueue(s)'
        BY <1>0, <1>8, <3>1, QueueKept DEF SessionInv, Scheduled
      <3>. QED
        BY <1>3, <1>4, <1>5, <1>7, <3>1, <3>2, ServeStep
    <2>3. InOrder(s)'
      BY <1>0, <1>3, <1>7, <1>8, <2>0, InOrderStep DEF SessionInv
    <2>. QED
      BY <1>2, <1>3, <1>5, <1>6, <1>7, <1>8, <2>0, <2>1, <2>2, <2>3, JobStep
  <1>. QED
    BY <1>0, <1>2, <1>3, <1>5, <1>8, QueueKept DEF Keeps

(* The session goes to the end of the ready queue.                         *)
LEMMA QueueGrows ==
    ASSUME ready \in Seq(Sessions), NEW s \in Sessions, ready' = Append(ready, s)
    PROVE  /\ ready' \in Seq(Sessions) /\ InQueue(s)'
           /\ ~InQueue(s) => OnceInQueue(s)'
           /\ \A x \in Sessions \ {s} : /\ InQueue(x)' <=> InQueue(x)
                                        /\ OnceInQueue(x) => OnceInQueue(x)'
  <1>1. /\ ready' \in Seq(Sessions) /\ Len(ready') = Len(ready) + 1
        /\ ready'[Len(ready) + 1] = s
        /\ \A i \in 1 .. Len(ready) : ready'[i] = ready[i]
        /\ DOMAIN ready = 1 .. Len(ready)
        /\ DOMAIN ready' = 1 .. Len(ready) + 1
        /\ Len(ready) \in Nat
    OBVIOUS
  <1>2. \A i \in DOMAIN ready' : i \in DOMAIN ready \/ i = Len(ready) + 1
    BY <1>1
  <1>3. InQueue(s)'
    <2>1. Len(ready) + 1 \in DOMAIN ready'
      BY <1>1
    <2>. QED
      BY <1>1, <2>1 DEF InQueue
  <1>4. ASSUME ~InQueue(s)
        PROVE  OnceInQueue(s)'
    <2>1. \A i \in DOMAIN ready' : ready'[i] = s => i = Len(ready) + 1
      BY <1>1, <1>2, <1>4 DEF InQueue
    <2>. QED
      BY <2>1 DEF OnceInQueue
  <1>5. ASSUME NEW x \in Sessions \ {s}
        PROVE  /\ InQueue(x)' <=> InQueue(x)
               /\ OnceInQueue(x) => OnceInQueue(x)'
    <2>1. \A i : i \in DOMAIN ready' /\ ready'[i] = x
                   <=> i \in DOMAIN ready /\ ready[i] = x
      BY <1>1, <1>2
    <2>. QED
      BY <2>1 DEF InQueue, OnceInQueue
  <1>. QED
    BY <1>1, <1>3, <1>4, <1>5

(* ReadySessionQueue::Push, by the handler or the job worker.              *)
LEMMA KeepsPush ==
    ASSUME TypeOK, NEW t \in Threads, NEW s \in Sessions, ses[t] = s, Fits(t),
           PushReady(t) \/ PushAgain(t)
    PROVE  Keeps(t, s)
  <1>. USE DEF leaseVars, ioVars, kernelVars, jobVars, schedVars, locals
  <1>. DEFINE hasRoom == Len(ready) < Cardinality(Sessions)
              pushed == IF pc[t] = "push" THEN "parse" ELSE "resumeCheck"
              full == IF pc[t] = "push" THEN "unschedule" ELSE "unclaim"
              l == IF hasRoom THEN pushed ELSE full
  <1>0. /\ t \in On(s) /\ pc[t] \in {"push", "pushAgain"}
        /\ stack[t] = <<>> /\ ready \in Seq(Sessions)
        /\ pc[t] = "push" => t \in Workers
        /\ pc[t] # "push" => t \in JobWorkers
        /\ ready' = IF hasRoom THEN Append(ready, s) ELSE ready
        /\ Goto(t, l)
        /\ UNCHANGED <<leaseVars, ioVars, kernelVars, jobVars, processing,
                       paused, locals>>
    <2>1. CASE PushReady(t)
      BY <2>1 DEF PushReady, Push, On, Fits, HandlerPcs, TypeOK
    <2>2. CASE PushAgain(t)
      BY <2>2 DEF PushAgain, Push, On, Fits, WorkerPcs, TypeOK
    <2>. QED
      BY <2>1, <2>2
  <1>a. l \in Pcs
    BY DEF Pcs, HandlerPcs, WorkerPcs
  <1>1. At(t, l, stack[t])
    BY <1>0, <1>a, GotoAt
  <1>b. pc'[t] = l /\ stack'[t] = <<>>
    BY <1>0, <1>1 DEF At
  <1>4. /\ hasRoom => pc'[t] \in {"parse", "resumeCheck"}
        /\ ~hasRoom => pc'[t] \in {"unschedule", "unclaim"}
        /\ pc'[t] \in {"parse", "unschedule"} => t \in Workers /\ pc[t] = "push"
        /\ pc'[t] \in {"resumeCheck", "unclaim"} => t \in JobWorkers
    BY <1>0, <1>b
  <1>. HIDE DEF l, pushed, full, hasRoom
  <1>5. Fits(t)'
    BY <1>b, <1>4 DEF Fits, HandlerPcs, WorkerPcs, ResumePcs, PostPcs,
       InReleasePcs, LastPcs
  <1>6. /\ Weight(t)' = Weight(t) /\ ~Owns(t)'
    BY <1>0, <1>b, <1>4, EmptyFacts DEF Weight, Handles, Issues, Pauses,
       Owns, PostPcs, LastPcs
  <1>7. /\ Receives(t)' => Receives(t)
        /\ Serves(t)
        /\ Serves(t)' <=> ~hasRoom
        /\ pc'[t] \notin LastPcs \cup {"claim", "dropCount", "execute"}
    BY <1>0, <1>b, <1>4, EmptyFacts
       DEF Serves, Receives, PostPcs, LastPcs, ParsePcs
  <1>8. /\ ready' \in Seq(Sessions)
        /\ \A x \in Sessions \ {s} : /\ InQueue(x)' <=> InQueue(x)
                                     /\ OnceInQueue(x) => OnceInQueue(x)'
        /\ hasRoom => InQueue(s)' /\ (~InQueue(s) => OnceInQueue(s)')
        /\ ~hasRoom => ready' = ready
    <2>1. CASE hasRoom
      <3>1. ready' = Append(ready, s)
        BY <1>0, <2>1
      <3>. QED
        BY <1>0, <2>1, <3>1, QueueGrows
    <2>2. CASE ~hasRoom
      <3>1. ready' = ready
        BY <1>0, <2>2
      <3>. QED
        BY <1>0, <2>2, <3>1, QueueKept
    <2>. QED
      BY <2>1, <2>2
  <1>2. TypeOK'
    <2>1. pc' \in [Threads -> Pcs] /\ stack' \in [Threads -> Seq(Pcs)]
      BY <1>1 DEF At
    <2>. QED
      BY <1>0, <1>8, <2>1 DEF TypeOK
  <1>3. Local(t, s)
    BY <1>0, <1>1 DEF TypeOK, Local, At
  <1>9. ASSUME SessionInv(s)
        PROVE  SessionInv(s)'
    <2>0. poolState[s] # "FREE"
      BY <1>0, <1>9, NotFree DEF SessionInv
    <2>1. Steady(s)
      BY <1>0 DEF Steady, Outstanding
    <2>2. Scheduled(s)'
      <3>1. /\ ~InQueue(s) /\ processing[s] = 1 /\ OnceInQueue(s)
            /\ \A u \in On(s) : Serves(u) => u = t
        BY <1>0, <1>7, <1>9 DEF SessionInv, Scheduled
      <3>2. OnceInQueue(s)' /\ (InQueue(s)' <=> hasRoom)
        BY <1>8, <3>1, QueueKept
      <3>3. processing'[s] = 1
        BY <1>0, <3>1
      <3>. QED
        BY <1>3, <1>5, <1>7, <3>1, <3>2, <3>3, ServeStep
    <2>3. InOrder(s)'
      BY <1>0, <1>3, <1>7, <1>9, <2>0, InOrderStep DEF SessionInv
    <2>. QED
      BY <1>2, <1>3, <1>5, <1>6, <1>7, <1>9, <2>0, <2>1, <2>2, <2>3, JobStep
  <1>. QED
    BY <1>0, <1>2, <1>3, <1>5, <1>8, <1>9 DEF Keeps

(* Of a session in one thread's hand, no other thread runs a job.          *)
LEMMA OneExecutes ==
    ASSUME NEW s \in Sessions, Scheduled(s), NEW t \in On(s), Serves(t)
    PROVE  \A u \in On(s) : u # t => pc[u] # "execute" /\ ~Serves(u)
  BY DEF Scheduled, Serves

(* The worker takes the first job, or finds none.                          *)
LEMMA KeepsDequeue ==
    ASSUME TypeOK, NEW j \in Threads, NEW s \in Sessions, ses[j] = s, Fits(j),
           DequeueJob(j)
    PROVE  Keeps(j, s)
  <1>. USE DEF leaseVars, ioVars, kernelVars, jobVars, schedVars, locals
  <1>. DEFINE l == IF jobs[s] = <<>> THEN "clear" ELSE "execute"
  <1>0. /\ j \in On(s) /\ pc[j] = "drain" /\ stack[j] = <<>> /\ j \in JobWorkers
        /\ jobs[s] \in Seq(Nat) /\ done[s] \in Nat
        /\ Goto(j, l) /\ l \in Pcs
        /\ jobs[s] = <<>> => jobs' = jobs /\ job' = job
        /\ jobs[s] # <<>> => /\ jobs' = [jobs EXCEPT ![s] = Tail(@)]
                             /\ job' = [job EXCEPT ![j] = Head(jobs[s])]
        /\ UNCHANGED <<leaseVars, ioVars, kernelVars, received, done, schedVars,
                       paused, ses, post, batch>>
    BY DEF DequeueJob, On, TypeOK, Fits, WorkerPcs, Pcs
  <1>1. At(j, l, stack[j])
    BY <1>0, GotoAt
  <1>b. pc'[j] = l /\ stack'[j] = <<>>
    BY <1>0, <1>1 DEF At
  <1>c. /\ jobs[s] # <<>> => Head(jobs[s]) \in Nat /\ Tail(jobs[s]) \in Seq(Nat)
    BY <1>0
  <1>2. TypeOK'
    <2>1. pc' \in [Threads -> Pcs] /\ stack' \in [Threads -> Seq(Pcs)]
      BY <1>1 DEF At
    <2>2. jobs' \in [Sessions -> Seq(Nat)]
      BY <1>0, <1>c DEF TypeOK
    <2>3. job' \in [Threads -> Nat]
      BY <1>0, <1>c DEF TypeOK
    <2>. QED
      BY <1>0, <2>1, <2>2, <2>3 DEF TypeOK
  <1>3. Local(j, s)
    <2>1. /\ \A x \in Sessions \ {s} : jobs'[x] = jobs[x]
          /\ \A u \in Threads \ {j} : job'[u] = job[u]
      BY <1>0 DEF TypeOK
    <2>. QED
      BY <1>0, <1>1, <2>1 DEF Local, At
  <1>4. l \in {"clear", "execute"}
    OBVIOUS
  <1>5. Fits(j)'
    BY <1>0, <1>b, <1>4 DEF Fits, HandlerPcs, WorkerPcs, ResumePcs, PostPcs,
       InReleasePcs, LastPcs
  <1>6. /\ Weight(j)' = Weight(j) /\ ~Owns(j)' /\ ~Receives(j)'
        /\ Serves(j) /\ Serves(j)'
    BY <1>0, <1>b, <1>4, EmptyFacts DEF Weight, Handles, Issues, Pauses,
       Owns, Receives, Serves, ParsePcs, PostPcs, LastPcs
  <1>7. pc'[j] \notin LastPcs \cup {"claim", "dropCount"}
    BY <1>b, <1>4 DEF LastPcs
  <1>8. ASSUME SessionInv(s)
        PROVE  SessionInv(s)'
    <2>0. poolState[s] # "FREE"
      BY <1>0, <1>8, NotFree DEF SessionInv
    <2>1. Steady(s)
      BY <1>0 DEF Steady, Outstanding
    <2>2. Scheduled(s)'
      BY <1>0, <1>3, <1>5, <1>6, <1>8, ScheduledStep DEF SessionInv
    <2>3. /\ InHand(s) = 0
          /\ \A u \in On(s) : pc[u] # "execute"
      BY <1>0, <1>6, <1>8, OneExecutes DEF SessionInv, InHand
    <2>4. \A u \in On(s)' : u # j => pc'[u] # "execute"
      <3>. SUFFICES ASSUME NEW u \in On(s)', u # j
                    PROVE  pc'[u] # "execute"
        OBVIOUS
      <3>1. u \in Threads
        BY DEF On
      <3>2. u \in On(s) /\ pc'[u] = pc[u]
        BY <1>3, <3>1, Bystander
      <3>. QED
        BY <2>3, <3>2
    <2>5. /\ received[s] = done[s] + 0 + Len(jobs[s])
          /\ \A i \in 1 .. Len(jobs[s]) : jobs[s][i] = done[s] + 0 + i
      BY <1>8, <2>0, <2>3 DEF SessionInv, InOrder
    <2>6. InOrder(s)'
      <3>1. CASE jobs[s] = <<>>
        <4>1. pc'[j] = "clear"
          BY <1>b, <3>1
        <4>2. \A u \in On(s)' : pc'[u] # "execute"
          BY <2>4, <4>1
        <4>3. InHand(s)' = 0
          BY <4>2 DEF InHand
        <4>4. jobs'[s] = jobs[s] /\ done'[s] = done[s] /\ received'[s] = received[s]
          BY <1>0, <3>1
        <4>. QED
          BY <2>5, <4>2, <4>3, <4>4 DEF InOrder
      <3>2. CASE jobs[s] # <<>>
        <4>1. pc'[j] = "execute" /\ j \in On(s)'
          BY <1>0, <1>b, <1>3, <3>2, OnSession
        <4>2. InHand(s)' = 1
          BY <4>1 DEF InHand
        <4>3. /\ jobs'[s] = Tail(jobs[s]) /\ job'[j] = Head(jobs[s])
              /\ done'[s] = done[s] /\ received'[s] = received[s]
          BY <1>0, <3>2 DEF TypeOK
        <4>4. /\ Len(jobs'[s]) = Len(jobs[s]) - 1 /\ Len(jobs[s]) \in Nat
              /\ Len(jobs[s]) >= 1
              /\ Head(jobs[s]) = jobs[s][1]
              /\ \A i \in 1 .. Len(jobs'[s]) : jobs'[s][i] = jobs[s][i + 1]
          BY <1>0, <3>2, <4>3
        <4>5. received'[s] = done'[s] + InHand(s)' + Len(jobs'[s])
          BY <1>0, <2>5, <4>2, <4>3, <4>4
        <4>6. \A i \in 1 .. Len(jobs'[s]) :
                jobs'[s][i] = done'[s] + InHand(s)' + i
          <5>. SUFFICES ASSUME NEW i \in 1 .. Len(jobs'[s])
                        PROVE  jobs'[s][i] = done'[s] + InHand(s)' + i
            OBVIOUS
          <5>1. i + 1 \in 1 .. Len(jobs[s])
            BY <4>4
          <5>2. jobs'[s][i] = done[s] + 0 + (i + 1)
            BY <2>5, <4>4, <5>1
          <5>3. i \in Int /\ done[s] \in Int
            BY <1>0, <5>1, <4>4
          <5>4. done[s] + 0 + (i + 1) = done[s] + 1 + i
            BY <5>3
          <5>. QED
            BY <4>2, <4>3, <5>2, <5>4
        <4>7. job'[j] = done'[s] + 1
          <5>1. 1 \in 1 .. Len(jobs[s])
            BY <4>4
          <5>2. jobs[s][1] = done[s] + 0 + 1
            BY <2>5, <5>1
          <5>3. done[s] + 0 + 1 = done[s] + 1
            BY <1>0
          <5>. QED
            BY <4>3, <4>4, <5>2, <5>3
        <4>. QED
          BY <2>4, <4>5, <4>6, <4>7 DEF InOrder
      <3>. QED
        BY <3>1, <3>2
    <2>. QED
      BY <1>2, <1>3, <1>5, <1>6, <1>7, <1>8, <2>0, <2>1, <2>2, <2>6, JobStep
  <1>. QED
    BY <1>0, <1>2, <1>3, <1>5, <1>8, QueueKept DEF Keeps

(* A job has run; its handler may have retired the session.                *)
LEMMA KeepsExecute ==
    ASSUME TypeOK, NEW j \in Threads, NEW s \in Sessions, ses[j] = s, Fits(j),
           Execute(j)
    PROVE  Keeps(j, s)
  <1>. USE DEF leaseVars, ioVars, kernelVars, jobVars, schedVars, locals
  <1>0. /\ j \in On(s) /\ pc[j] = "execute" /\ stack[j] = <<>> /\ j \in JobWorkers
        /\ jobs[s] \in Seq(Nat) /\ done[s] \in Nat
        /\ "drain" \in Pcs /\ "release" \in Pcs
        /\ done' = [done EXCEPT ![s] = @ + 1]
        /\ job' = [job EXCEPT ![j] = 0]
        /\ Goto(j, "drain") \/ Call(j, "release", "drain")
        /\ UNCHANGED <<leaseVars, ioVars, kernelVars, jobs, received, schedVars,
                       paused, ses, post, batch>>
    BY DEF Execute, On, TypeOK, Fits, WorkerPcs, ReleasePcs, Pcs
  <1>1. \/ At(j, "drain", <<>>)
        \/ At(j, "release", Then("drain", <<>>))
    BY <1>0, GotoAt, CallAt
  <1>2. /\ pc' \in [Threads -> Pcs] /\ stack' \in [Threads -> Seq(Pcs)]
        /\ \A u \in Threads \ {j} : pc'[u] = pc[u] /\ stack'[u] = stack[u]
        /\ \/ pc'[j] = "drain" /\ stack'[j] = <<>>
           \/ pc'[j] = "release" /\ stack'[j] = Then("drain", <<>>)
    BY <1>1 DEF At
  <1>3. TypeOK'
    <2>1. done' \in [Sessions -> Nat] /\ job' \in [Threads -> Nat]
      BY <1>0 DEF TypeOK
    <2>. QED
      BY <1>0, <1>2, <2>1 DEF TypeOK
  <1>4. Local(j, s)
    <2>1. /\ \A x \in Sessions \ {s} : done'[x] = done[x]
          /\ \A u \in Threads \ {j} : job'[u] = job[u]
      BY <1>0 DEF TypeOK
    <2>. QED
      BY <1>0, <1>2, <2>1 DEF Local
  <1>5. j \notin Workers
    BY <1>0, ThreadsAssumption
  <1>6. Fits(j)'
    BY <1>0, <1>2 DEF Fits, BelowRelease, HandlerPcs, WorkerPcs, ResumePcs,
       PostPcs, InReleasePcs, LastPcs
  <1>7. /\ Then("drain", <<>>) \in Seq(Pcs)
        /\ ~Undoing(Then("drain", <<>>)) /\ ~Pausing(Then("drain", <<>>))
        /\ Draining(Then("drain", <<>>)) /\ ~Reserving(Then("drain", <<>>))
    BY <1>0, EmptyFacts, ThenFacts
  <1>8. /\ Weight(j)' = Weight(j) /\ ~Owns(j)' /\ ~Receives(j)'
        /\ Serves(j) /\ Serves(j)'
    <2>1. CASE pc'[j] = "drain" /\ stack'[j] = <<>>
      BY <1>0, <1>5, <2>1, EmptyFacts DEF Weight, Handles, Issues, Pauses,
         Owns, Receives, Serves, ParsePcs, PostPcs, LastPcs
    <2>2. CASE pc'[j] = "release" /\ stack'[j] = Then("drain", <<>>)
      <3>. DEFINE q == Then("drain", <<>>)
      <3>1. stack'[j] = q
        BY <2>2
      <3>2. ~Undoing(q) /\ ~Pausing(q) /\ Draining(q) /\ ~Reserving(q)
        BY <1>7
      <3>. HIDE DEF q
      <3>. QED
        BY <1>0, <1>5, <2>2, <3>1, <3>2, EmptyFacts
           DEF Weight, Handles, Issues, Pauses,
           Owns, Receives, Serves, ParsePcs, PostPcs, LastPcs
    <2>. QED
      BY <1>2, <2>1, <2>2
  <1>9. pc'[j] \notin LastPcs \cup {"claim", "dropCount", "execute"}
    BY <1>2 DEF LastPcs
  <1>10. ASSUME SessionInv(s)
         PROVE  SessionInv(s)'
    <2>0. poolState[s] # "FREE"
      BY <1>0, <1>10, NotFree DEF SessionInv
    <2>1. Steady(s)
      BY <1>0 DEF Steady, Outstanding
    <2>2. Scheduled(s)'
      BY <1>0, <1>4, <1>6, <1>8, <1>10, ScheduledStep DEF SessionInv
    <2>3. /\ InHand(s) = 1
          /\ \A u \in On(s) : u # j => pc[u] # "execute"
      BY <1>0, <1>8, <1>10, OneExecutes DEF SessionInv, InHand
    <2>4. \A u \in On(s)' : pc'[u] # "execute"
      <3>. SUFFICES ASSUME NEW u \in On(s)', pc'[u] = "execute"
                    PROVE  FALSE
        OBVIOUS
      <3>1. u \in Threads /\ u # j
        BY <1>9 DEF On
      <3>2. u \in On(s) /\ pc'[u] = pc[u]
        BY <1>4, <3>1, Bystander
      <3>. QED
        BY <2>3, <3>1, <3>2
    <2>5. InHand(s)' = 0
      BY <2>4 DEF InHand
    <2>6. /\ received[s] = done[s] + 1 + Len(jobs[s])
          /\ \A i \in 1 .. Len(jobs[s]) : jobs[s][i] = done[s] + 1 + i
      BY <1>10, <2>0, <2>3 DEF SessionInv, InOrder
    <2>7. /\ jobs'[s] = jobs[s] /\ received'[s] = received[s]
          /\ done'[s] = done[s] + 1
      BY <1>0 DEF TypeOK
    <2>8. /\ received'[s] = done'[s] + InHand(s)' + Len(jobs'[s])
          /\ \A i \in 1 .. Len(jobs'[s]) :
               jobs'[s][i] = done'[s] + InHand(s)' + i
      <3>1. done[s] + 1 = done'[s] + InHand(s)'
        BY <1>0, <2>5, <2>7
      <3>. QED
        BY <2>6, <2>7, <3>1
    <2>9. InOrder(s)'
      BY <2>4, <2>8 DEF InOrder
    <2>. QED
      BY <1>3, <1>4, <1>6, <1>8, <1>9, <1>10, <2>0, <2>1, <2>2, <2>9, JobStep
  <1>. QED
    BY <1>0, <1>3, <1>4, <1>6, <1>10, QueueKept DEF Keeps

-----------------------------------------------------------------------------
(* An idle thread takes a session up.                                      *)

LEMMA Taken ==
    ASSUME NEW f \in [Sessions -> [Kinds -> Nat]], NEW g,
           NEW s \in Sessions, NEW k \in Kinds, f[s][k] > 0,
           g = [f EXCEPT ![s][k] = @ - 1]
    PROVE  /\ g \in [Sessions -> [Kinds -> Nat]]
           /\ g[s][k] = f[s][k] - 1
           /\ \A i \in Kinds \ {k} : g[s][i] = f[s][i]
           /\ \A x \in Sessions \ {s} : g[x] = f[x]
  <1>. DEFINE h == [f[s] EXCEPT ![k] = f[s][k] - 1]
  <1>1. f[s] \in [Kinds -> Nat] /\ f[s][k] \in Nat
    OBVIOUS
  <1>2. /\ h \in [Kinds -> Nat] /\ h[k] = f[s][k] - 1
        /\ \A i \in Kinds \ {k} : h[i] = f[s][i]
    BY <1>1
  <1>3. g = [f EXCEPT ![s] = h]
    OBVIOUS
  <1>. HIDE DEF h
  <1>. QED
    BY <1>2, <1>3

(* A completion: the count of the operation is now the handler's.          *)
Completion(w, s, k) ==
    \/ live[s][k] > 0 /\ live' = [live EXCEPT ![s][k] = @ - 1] /\ dying' = dying
    \/ dying[s][k] > 0 /\ dying' = [dying EXCEPT ![s][k] = @ - 1] /\ live' = live

LEMMA CompletionTakes ==
    ASSUME TypeOK, NEW w \in Threads, NEW s \in Sessions, NEW k \in Kinds,
           Completion(w, s, k)
    PROVE  /\ live' \in [Sessions -> [Kinds -> Nat]]
           /\ dying' \in [Sessions -> [Kinds -> Nat]]
           /\ Outstanding(s, k) \in Nat /\ Outstanding(s, k) > 0
           /\ Outstanding(s, k)' = Outstanding(s, k) - 1
           /\ \A i \in Kinds \ {k} : Outstanding(s, i)' = Outstanding(s, i)
           /\ \A x \in Sessions \ {s} : live'[x] = live[x] /\ dying'[x] = dying[x]
  <1>1. /\ live \in [Sessions -> [Kinds -> Nat]]
        /\ dying \in [Sessions -> [Kinds -> Nat]]
        /\ live[s][k] \in Nat /\ dying[s][k] \in Nat
    BY DEF TypeOK
  <1>2. CASE live[s][k] > 0 /\ live' = [live EXCEPT ![s][k] = @ - 1]
             /\ dying' = dying
    <2>1. /\ live' \in [Sessions -> [Kinds -> Nat]]
          /\ live'[s][k] = live[s][k] - 1
          /\ \A i \in Kinds \ {k} : live'[s][i] = live[s][i]
          /\ \A x \in Sessions \ {s} : live'[x] = live[x]
      BY <1>1, <1>2, Taken
    <2>. QED
      BY <1>1, <1>2, <2>1 DEF Outstanding
  <1>3. CASE dying[s][k] > 0 /\ dying' = [dying EXCEPT ![s][k] = @ - 1]
             /\ live' = live
    <2>1. /\ dying' \in [Sessions -> [Kinds -> Nat]]
          /\ dying'[s][k] = dying[s][k] - 1
          /\ \A i \in Kinds \ {k} : dying'[s][i] = dying[s][i]
          /\ \A x \in Sessions \ {s} : dying'[x] = dying[x]
      BY <1>1, <1>3, Taken
    <2>. QED
      BY <1>1, <1>3, <2>1 DEF Outstanding
  <1>. QED
    BY <1>2, <1>3 DEF Completion

LEMMA KeepsCompletion ==
    ASSUME TypeOK, NEW w \in Workers, NEW s \in Sessions, NEW k \in Kinds,
           NEW l \in {"parse", "finish", "release"}, NEW q \in Seq(Pcs),
           Fits(w), Begin(w, s, l, q), Completion(w, s, k),
           l = "parse" => k = "recv",
           l = "release" => q = Then("finish", <<>>),
           l # "release" => q = <<>>,
           batch' \in [Threads -> Nat],
           UNCHANGED <<leaseVars, ioVars, jobVars, schedVars, paused, post, job>>
    PROVE  Keeps(w, s)
  <1>. USE DEF leaseVars, ioVars, kernelVars, jobVars, schedVars, locals
  <1>0. w \in Threads /\ l \in Pcs /\ "recv" \in Kinds /\ "send" \in Kinds
        /\ Kinds = {"recv", "send"}
    BY DEF Threads, Pcs, HandlerPcs, ReleasePcs, Kinds
  <1>1. /\ At(w, l, q) /\ pc[w] = "idle"
        /\ ses' \in [Threads -> Sessions] /\ ses'[w] = s
        /\ \A u \in Threads \ {w} : ses'[u] = ses[u]
    BY <1>0, BeginAt
  <1>2. TypeOK'
    <2>1. pc' \in [Threads -> Pcs] /\ stack' \in [Threads -> Seq(Pcs)]
      BY <1>1 DEF At
    <2>2. /\ live' \in [Sessions -> [Kinds -> Nat]]
          /\ dying' \in [Sessions -> [Kinds -> Nat]]
      BY <1>0, CompletionTakes
    <2>. QED
      BY <1>1, <2>1, <2>2 DEF TypeOK
  <1>3. Local(w, s)
    <2>1. \A x \in Sessions \ {s} : live'[x] = live[x] /\ dying'[x] = dying[x]
      BY <1>0, CompletionTakes
    <2>. QED
      BY <1>1, <2>1 DEF Local, At
  <1>4. pc'[w] = l /\ stack'[w] = q
    BY <1>1 DEF At
  <1>5. Fits(w)'
    BY <1>4 DEF Fits, BelowRelease, HandlerPcs, WorkerPcs, ResumePcs,
       PostPcs, InReleasePcs, LastPcs
  <1>6. ~Undoing(q) /\ ~Pausing(q) /\ ~Draining(q) /\ ~Reserving(q)
    BY EmptyFacts, FinishFrame
  <1>7. /\ ~Handles(w) /\ ~Issues(w) /\ ~Pauses(w) /\ ~Serves(w)
    BY <1>0, <1>1, IdleHasNoRole
  <1>8. /\ Handles(w)' /\ ~Issues(w)' /\ ~Pauses(w)' /\ ~Serves(w)' /\ ~Owns(w)'
        /\ Receives(w)' => l = "parse"
    BY <1>4, <1>6 DEF Handles, Issues, Pauses, Serves, Owns, Receives, ParsePcs,
       PostPcs, LastPcs
  <1>9. Weight(w) = 0 /\ Weight(w)' = 1
    BY <1>7, <1>8 DEF Weight
  <1>10. ASSUME SessionInv(s)
         PROVE  SessionInv(s)'
    <2>1. /\ Outstanding(s, k) \in Nat /\ Outstanding(s, k) > 0
          /\ Outstanding(s, k)' = Outstanding(s, k) - 1
          /\ \A i \in Kinds \ {k} : Outstanding(s, i)' = Outstanding(s, i)
      BY <1>0, CompletionTakes
    <2>2. ioCount[s] # 0
      BY <1>0, <1>10, <2>1, NothingHeld DEF SessionInv
    <2>3. poolState[s] # "FREE"
      BY <1>10, <2>2 DEF SessionInv, Unused
    <2>4. Apart(s) /\ paused' = paused /\ ioCount' = ioCount
      BY DEF Apart
    <2>5. Balanced(w, s)
      <3>. DEFINE a == Outstanding(s, "recv")
                  b == Outstanding(s, "send")
                  p == paused[s]
      <3>1. a \in Nat /\ b \in Nat /\ p \in Nat /\ ioCount[s] \in Int
        BY PendingType
      <3>2. Pending(s) = a + b + p
        BY DEF Pending
      <3>3. \/ Pending(s)' = (a - 1) + b + p
            \/ Pending(s)' = a + (b - 1) + p
        BY <1>0, <2>1, <2>4 DEF Pending
      <3>. HIDE DEF a, b, p
      <3>. QED
        BY <1>9, <2>4, <3>1, <3>2, <3>3 DEF Balanced
    <2>6. /\ Outstanding(s, "recv") \in Nat /\ paused[s] \in Nat
          /\ Outstanding(s, "recv")' <= Outstanding(s, "recv")
      BY <1>0, <2>1, PendingType
    <2>7. ReceivedOnce(s)'
      <3>1. CASE Receives(w)'
        <4>1. k = "recv"
          BY <1>8, <3>1
        <4>2. /\ Outstanding(s, "recv") + paused[s] <= 1
              /\ \A u \in On(s) : ~Receives(u)
          BY <1>10, <2>1, <4>1 DEF SessionInv, ReceivedOnce
        <4>3. Outstanding(s, "recv")' = 0 /\ paused'[s] = 0
          BY <2>1, <2>4, <2>6, <4>1, <4>2
        <4>4. pc'[w] # "dropCount"
          BY <1>4
        <4>. QED
          BY <1>0, <1>3, <1>10, <4>2, <4>3, <4>4, PassStep DEF SessionInv
      <3>2. CASE ~Receives(w)'
        BY <1>0, <1>2, <1>3, <1>4, <1>10, <2>4, <2>6, <3>2, ReceivedStep
           DEF SessionInv
      <3>. QED
        BY <3>1, <3>2
    <2>8. /\ pc[w] # "execute"
          /\ pc'[w] \notin LastPcs \cup {"claim", "execute"}
      BY <1>1, <1>4 DEF LastPcs
    <2>. QED
      BY <1>0, <1>2, <1>3, <1>5, <1>7, <1>8, <1>10, <2>2, <2>3, <2>4, <2>5,
         <2>7, <2>8, HeldStep
  <1>. QED
    BY <1>0, <1>2, <1>3, <1>5, <1>10, QueueKept DEF Keeps

LEMMA KeepsHandled ==
    ASSUME TypeOK, NEW w \in Workers, Fits(w), Complete(w)
    PROVE  \E s \in Sessions : Keeps(w, s)
  <1>1. PICK s \in Sessions :
          \/ RecvData(w, s)
          \/ SendDone(w, s)
          \/ \E k \in Kinds : ConnectionEnds(w, s, k) \/ IoCancelled(w, s, k)
    BY DEF Complete
  <1>2. <<>> \in Seq(Pcs) /\ Then("finish", <<>>) \in Seq(Pcs)
        /\ <<"finish">> = Then("finish", <<>>)
        /\ "recv" \in Kinds /\ "send" \in Kinds
    BY EmptyFacts, FinishFrame DEF Kinds, Then
  <1>3. batch \in [Threads -> Nat]
    BY DEF TypeOK
  <1>4. CASE RecvData(w, s)
    <2>1. PICK n \in 0 .. MaxBatch : batch' = [batch EXCEPT ![w] = n]
      BY <1>4 DEF RecvData
    <2>2. batch' \in [Threads -> Nat]
      <3>1. n \in Nat
        BY BoundsAssumption
      <3>. QED
        BY <1>3, <2>1, <3>1
    <2>3. /\ Completion(w, s, "recv") /\ Begin(w, s, "parse", <<>>)
          /\ UNCHANGED <<leaseVars, ioVars, jobVars, schedVars, paused, post, job>>
      BY <1>4 DEF RecvData, Dequeue, Completion
    <2>. QED
      BY <1>2, <2>2, <2>3, KeepsCompletion
  <1>5. CASE SendDone(w, s)
    <2>1. batch' \in [Threads -> Nat]
      BY <1>3, <1>5 DEF SendDone
    <2>2. /\ Completion(w, s, "send") /\ Begin(w, s, "finish", <<>>)
          /\ UNCHANGED <<leaseVars, ioVars, jobVars, schedVars, paused, post, job>>
      BY <1>5 DEF SendDone, Dequeue, Completion
    <2>. QED
      BY <1>2, <2>1, <2>2, KeepsCompletion
  <1>6. ASSUME NEW k \in Kinds, ConnectionEnds(w, s, k)
        PROVE  Keeps(w, s)
    <2>1. batch' \in [Threads -> Nat]
      BY <1>3, <1>6 DEF ConnectionEnds
    <2>2. /\ Completion(w, s, k) /\ Begin(w, s, "release", Then("finish", <<>>))
          /\ UNCHANGED <<leaseVars, ioVars, jobVars, schedVars, paused, post, job>>
      BY <1>2, <1>6 DEF ConnectionEnds, Dequeue, Completion
    <2>. QED
      BY <1>2, <2>1, <2>2, KeepsCompletion
  <1>7. ASSUME NEW k \in Kinds, IoCancelled(w, s, k)
        PROVE  Keeps(w, s)
    <2>1. batch' \in [Threads -> Nat]
      BY <1>3, <1>7 DEF IoCancelled
    <2>2. /\ Completion(w, s, k) /\ Begin(w, s, "finish", <<>>)
          /\ UNCHANGED <<leaseVars, ioVars, jobVars, schedVars, paused, post, job>>
      BY <1>7 DEF IoCancelled, Completion
    <2>. QED
      BY <1>2, <2>1, <2>2, KeepsCompletion
  <1>. QED
    BY <1>1, <1>4, <1>5, <1>6, <1>7

(* A session is retired from outside.                                      *)
LEMMA KeepsRetire ==
    ASSUME TypeOK, NEW t \in Closers, NEW s \in Sessions, Fits(t), Retire(t, s)
    PROVE  Keeps(t, s)
  <1>. USE DEF leaseVars, ioVars, kernelVars, jobVars, schedVars, locals
  <1>0. /\ t \in Threads /\ t \notin Workers /\ "release" \in Pcs
        /\ <<>> \in Seq(Pcs) /\ open[s]
    BY ThreadsAssumption, EmptyFacts DEF Threads, Pcs, ReleasePcs, Retire
  <1>1. /\ At(t, "release", <<>>) /\ pc[t] = "idle"
        /\ ses' \in [Threads -> Sessions] /\ ses'[t] = s
        /\ \A u \in Threads \ {t} : ses'[u] = ses[u]
    BY <1>0, BeginAt DEF Retire
  <1>2. TypeOK'
    BY <1>1 DEF TypeOK, At, Retire
  <1>3. Local(t, s)
    BY <1>1 DEF Local, At, Retire
  <1>4. pc'[t] = "release" /\ stack'[t] = <<>>
    BY <1>1 DEF At
  <1>5. Fits(t)'
    BY <1>4 DEF Fits, BelowRelease, HandlerPcs, WorkerPcs, ResumePcs,
       PostPcs, InReleasePcs, LastPcs
  <1>6. /\ ~Handles(t) /\ ~Issues(t) /\ ~Pauses(t) /\ ~Serves(t)
    BY <1>0, <1>1, IdleHasNoRole
  <1>7. /\ ~Handles(t)' /\ ~Issues(t)' /\ ~Pauses(t)' /\ ~Serves(t)' /\ ~Owns(t)'
        /\ ~Receives(t)'
    BY <1>0, <1>4, EmptyFacts DEF Handles, Issues, Pauses, Serves, Owns, Receives,
       ParsePcs, PostPcs, LastPcs
  <1>8. Turns(t)
    BY <1>1, <1>4, <1>6, <1>7 DEF Turns, Weight
  <1>9. Same(s) /\ left' = left /\ ready' = ready
    BY DEF Retire, Same, Outstanding
  <1>10. ASSUME SessionInv(s)
         PROVE  SessionInv(s)'
    <2>1. poolState[s] # "FREE"
      BY <1>0, <1>10 DEF SessionInv, Unused
    <2>2. pc'[t] \notin LastPcs \cup {"claim"}
      BY <1>4 DEF LastPcs
    <2>. QED
      BY <1>0, <1>2, <1>3, <1>5, <1>8, <1>9, <1>10, <2>1, <2>2, CalmStep
  <1>. QED
    BY <1>2, <1>3, <1>5, <1>9, <1>10, QueueKept DEF Keeps

(* The session at the head of the ready queue leaves it.                   *)
LEMMA QueueShrinks ==
    ASSUME ready \in Seq(Sessions), ready # <<>>, ready' = Tail(ready),
           NEW s \in Sessions, s = Head(ready)
    PROVE  /\ ready' \in Seq(Sessions) /\ InQueue(s)
           /\ OnceInQueue(s) => OnceInQueue(s)' /\ ~InQueue(s)'
           /\ \A x \in Sessions \ {s} : /\ InQueue(x)' <=> InQueue(x)
                                        /\ OnceInQueue(x) => OnceInQueue(x)'
  <1>1. /\ ready' \in Seq(Sessions) /\ Len(ready') = Len(ready) - 1
        /\ ready[1] = s /\ Len(ready) \in Nat /\ Len(ready) >= 1
        /\ \A i \in 1 .. Len(ready) - 1 : ready'[i] = ready[i + 1]
        /\ DOMAIN ready = 1 .. Len(ready)
        /\ DOMAIN ready' = 1 .. Len(ready) - 1
    OBVIOUS
  <1>2. \A i \in DOMAIN ready' : i + 1 \in DOMAIN ready /\ i + 1 # 1 /\ i \in Int
                                 /\ ready'[i] = ready[i + 1]
    BY <1>1
  <1>3. 1 \in DOMAIN ready
    BY <1>1
  <1>4. InQueue(s)
    BY <1>1, <1>3 DEF InQueue
  <1>5. ASSUME NEW x \in Sessions, OnceInQueue(x)
        PROVE  OnceInQueue(x)'
    <2>. SUFFICES ASSUME NEW i \in DOMAIN ready', NEW k \in DOMAIN ready',
                         ready'[i] = x, ready'[k] = x
                  PROVE  i = k
      BY DEF OnceInQueue
    <2>1. i + 1 = k + 1 /\ i \in Int /\ k \in Int
      BY <1>2, <1>5 DEF OnceInQueue
    <2>. QED
      BY <2>1
  <1>6. ASSUME OnceInQueue(s)
        PROVE  ~InQueue(s)'
    <2>. SUFFICES ASSUME NEW i \in DOMAIN ready', ready'[i] = s
                  PROVE  FALSE
      BY DEF InQueue
    <2>1. i + 1 = 1
      BY <1>1, <1>2, <1>3, <1>6 DEF OnceInQueue
    <2>. QED
      BY <1>2, <2>1
  <1>7. ASSUME NEW x \in Sessions \ {s}
        PROVE  InQueue(x)' <=> InQueue(x)
    <2>1. ASSUME InQueue(x)'
          PROVE  InQueue(x)
      <3>1. PICK i \in DOMAIN ready' : ready'[i] = x
        BY <2>1 DEF InQueue
      <3>. QED
        BY <1>2, <3>1 DEF InQueue
    <2>2. ASSUME InQueue(x)
          PROVE  InQueue(x)'
      <3>1. PICK i \in DOMAIN ready : ready[i] = x
        BY <2>2 DEF InQueue
      <3>2. i \in 1 .. Len(ready) /\ i # 1
        BY <1>1, <3>1
      <3>3. i - 1 \in DOMAIN ready' /\ (i - 1) + 1 = i
        BY <1>1, <3>2
      <3>4. ready'[i - 1] = x
        BY <1>2, <3>1, <3>3
      <3>. QED
        BY <3>3, <3>4 DEF InQueue
    <2>. QED
      BY <2>1, <2>2
  <1>. QED
    BY <1>1, <1>4, <1>5, <1>6, <1>7

(* ReadySessionQueue::Pop: the worker has in hand what the queue had.      *)
LEMMA KeepsPop ==
    ASSUME TypeOK, NEW j \in JobWorkers, NEW s \in Sessions, Fits(j), Pop(j),
           s = Head(ready)
    PROVE  Keeps(j, s)
  <1>. USE DEF leaseVars, ioVars, kernelVars, jobVars, schedVars, locals
  <1>0. /\ j \in Threads /\ j \notin Workers /\ "drain" \in Pcs
        /\ <<>> \in Seq(Pcs) /\ ready \in Seq(Sessions)
        /\ ready # <<>> /\ ready' = Tail(ready)
        /\ UNCHANGED <<leaseVars, ioVars, kernelVars, jobVars, processing, paused,
                       post, batch, job>>
    BY ThreadsAssumption, EmptyFacts DEF Threads, Pcs, WorkerPcs, Pop, TypeOK
  <1>1. /\ At(j, "drain", <<>>) /\ pc[j] = "idle"
        /\ ses' \in [Threads -> Sessions] /\ ses'[j] = s
        /\ \A u \in Threads \ {j} : ses'[u] = ses[u]
    BY <1>0, BeginAt DEF Pop
  <1>a. /\ ready' \in Seq(Sessions) /\ InQueue(s)
        /\ OnceInQueue(s) => OnceInQueue(s)' /\ ~InQueue(s)'
        /\ \A x \in Sessions \ {s} : /\ InQueue(x)' <=> InQueue(x)
                                     /\ OnceInQueue(x) => OnceInQueue(x)'
    BY <1>0, QueueShrinks
  <1>2. TypeOK'
    BY <1>0, <1>1, <1>a DEF TypeOK, At
  <1>3. Local(j, s)
    BY <1>0, <1>1 DEF Local, At
  <1>4. pc'[j] = "drain" /\ stack'[j] = <<>>
    BY <1>1 DEF At
  <1>5. Fits(j)'
    BY <1>4 DEF Fits, HandlerPcs, WorkerPcs, ResumePcs, PostPcs, InReleasePcs,
       LastPcs
  <1>6. /\ ~Handles(j) /\ ~Issues(j) /\ ~Pauses(j)
    BY <1>0, <1>1, IdleHasNoRole
  <1>7. /\ ~Handles(j)' /\ ~Issues(j)' /\ ~Pauses(j)' /\ Serves(j)' /\ ~Owns(j)'
        /\ ~Receives(j)'
    BY <1>0, <1>4, EmptyFacts DEF Handles, Issues, Pauses, Serves, Owns, Receives,
       ParsePcs, PostPcs, LastPcs
  <1>8. Weight(j)' = Weight(j)
    BY <1>6, <1>7 DEF Weight
  <1>9. ASSUME SessionInv(s)
        PROVE  SessionInv(s)'
    <2>1. poolState[s] # "FREE"
      BY <1>9, <1>a DEF SessionInv, Unused
    <2>2. Steady(s)
      BY <1>0 DEF Steady, Outstanding
    <2>3. Scheduled(s)'
      <3>1. /\ OnceInQueue(s) /\ processing[s] = 1
            /\ \A u \in On(s) : ~Serves(u)
        BY <1>9, <1>a DEF SessionInv, Scheduled
      <3>2. processing'[s] = 1
        BY <1>0, <3>1
      <3>. QED
        BY <1>0, <1>3, <1>5, <1>7, <1>a, <3>1, <3>2, ServeStep
    <2>4. InOrder(s)'
      <3>1. pc[j] # "execute" /\ pc'[j] # "execute"
        BY <1>1, <1>4
      <3>2. jobs'[s] = jobs[s] /\ received'[s] = received[s] /\ done'[s] = done[s]
        BY <1>0
      <3>. QED
        BY <1>0, <1>3, <1>9, <2>1, <3>1, <3>2, InOrderStep DEF SessionInv
    <2>5. pc'[j] \notin LastPcs \cup {"claim", "dropCount"}
      BY <1>4 DEF LastPcs
    <2>. QED
      BY <1>0, <1>2, <1>3, <1>5, <1>7, <1>8, <1>9, <2>1, <2>2, <2>3, <2>4, <2>5,
         JobStep
  <1>. QED
    BY <1>0, <1>2, <1>3, <1>5, <1>9, <1>a DEF Keeps

-----------------------------------------------------------------------------
(* A lease: a free session is nobody's, so nobody is disturbed.            *)

LEMMA LeaseTypes ==
    ASSUME TypeOK, NEW s \in Sessions, Lease(s)
    PROVE  /\ TypeOK'
           /\ \E sends \in 0 .. 1 :
                /\ live'[s] = [k \in Kinds |-> IF k = "recv" THEN 1 ELSE sends]
                /\ ioCount'[s] = ioCount[s] + 1 + sends
  <1>. USE DEF leaseVars, ioVars, kernelVars, jobVars, schedVars, locals
  <1>1. PICK sends \in 0 .. 1 :
          /\ live' = [live EXCEPT ![s] =
                        [k \in Kinds |-> IF k = "recv" THEN 1 ELSE sends]]
          /\ ioCount' = [ioCount EXCEPT ![s] = @ + 1 + sends]
    BY DEF Lease
  <1>2. [k \in Kinds |-> IF k = "recv" THEN 1 ELSE sends] \in [Kinds -> Nat]
    OBVIOUS
  <1>3. /\ live \in [Sessions -> [Kinds -> Nat]] /\ ioCount \in [Sessions -> Int]
        /\ lease[s] \in Nat
    BY DEF TypeOK
  <1>4. live' \in [Sessions -> [Kinds -> Nat]]
    BY <1>1, <1>2, <1>3
  <1>5. ioCount' \in [Sessions -> Int]
    BY <1>1, <1>3
  <1>6. /\ poolState' \in [Sessions -> {"FREE", "IN_USE", "RELEASING"}]
        /\ open' \in [Sessions -> BOOLEAN]
    BY DEF TypeOK, Lease
  <1>7. /\ lease' \in [Sessions -> Nat]
        /\ received' \in [Sessions -> Nat]
        /\ done' \in [Sessions -> Nat]
    BY <1>3 DEF TypeOK, Lease
  <1>8. TypeOK'
    BY <1>4, <1>5, <1>6, <1>7 DEF TypeOK, Lease
  <1>9. /\ live'[s] = [k \in Kinds |-> IF k = "recv" THEN 1 ELSE sends]
        /\ ioCount'[s] = ioCount[s] + 1 + sends
    BY <1>1, <1>3
  <1>. QED
    BY <1>8, <1>9

LEMMA LeaseStep ==
    ASSUME TypeOK, NEW s \in Sessions, Lease(s), ~left[s], SessionInv(s)
    PROVE  SessionInv(s)'
  <1>. USE DEF leaseVars, ioVars, kernelVars, jobVars, schedVars, locals
  <1>1. /\ poolState[s] = "FREE" /\ On(s) = {} /\ ioCount[s] = 0
        /\ jobs[s] = <<>>
    BY DEF Lease, SessionInv, Unused
  <1>2. /\ Outstanding(s, "recv") = 0 /\ Outstanding(s, "send") = 0
        /\ paused[s] = 0
    BY <1>1, NothingHeld DEF SessionInv
  <1>3. /\ "recv" \in Kinds /\ "send" \in Kinds
        /\ live[s]["recv"] \in Nat /\ dying[s]["recv"] \in Nat
        /\ live[s]["send"] \in Nat /\ dying[s]["send"] \in Nat
        /\ paused[s] \in Nat
    <2>1. "recv" \in Kinds /\ "send" \in Kinds
      BY DEF Kinds
    <2>2. live[s] \in [Kinds -> Nat] /\ dying[s] \in [Kinds -> Nat]
      BY DEF TypeOK
    <2>. QED
      BY <2>1, <2>2, PendingType
  <1>4. dying[s]["recv"] = 0 /\ dying[s]["send"] = 0
    BY <1>2, <1>3 DEF Outstanding
  <1>5. PICK sends \in 0 .. 1 :
          /\ live'[s] = [k \in Kinds |-> IF k = "recv" THEN 1 ELSE sends]
          /\ ioCount'[s] = ioCount[s] + 1 + sends
    BY LeaseTypes
  <1>6. /\ poolState'[s] = "IN_USE" /\ received'[s] = 0 /\ done'[s] = 0
        /\ dying' = dying /\ jobs' = jobs /\ ready' = ready
        /\ processing' = processing /\ paused' = paused
        /\ releasePending' = releasePending
        /\ pc' = pc /\ ses' = ses /\ stack' = stack
    BY DEF Lease, TypeOK
  <1>7. /\ Outstanding(s, "recv")' = 1 /\ Outstanding(s, "send")' = sends
    BY <1>3, <1>4, <1>5, <1>6 DEF Outstanding
  <1>8. On(s)' = {}
    BY <1>1, <1>6 DEF On
  <1>9. Counted(s)'
    <2>1. /\ Handlers(s)' = {} /\ Issuers(s)' = {} /\ Pausers(s)' = {}
      BY <1>8 DEF Handlers, Issuers, Pausers
    <2>2. /\ Cardinality(Handlers(s)') = 0 /\ Cardinality(Issuers(s)') = 0
          /\ Cardinality(Pausers(s)') = 0
      BY <2>1, FS_EmptySet
    <2>3. Pending(s)' = 1 + sends
      BY <1>2, <1>6, <1>7 DEF Pending
    <2>4. ioCount'[s] = 1 + sends
      BY <1>1, <1>5
    <2>. QED
      BY <2>2, <2>3, <2>4, CountedMeans
  <1>10. Owned(s)'
    BY <1>1, <1>6, <1>8 DEF SessionInv, Owned
  <1>11. Drained(s)' /\ Unused(s)'
    BY <1>6, <1>8 DEF Drained, Unused
  <1>12. Scheduled(s)'
    <2>1. (InQueue(s)' <=> InQueue(s)) /\ OnceInQueue(s)'
      BY <1>6, QueueKept DEF SessionInv, Scheduled
    <2>. QED
      BY <1>1, <1>6, <1>8, <2>1 DEF SessionInv, Scheduled
  <1>13. ReceivedOnce(s)'
    BY <1>2, <1>6, <1>7, <1>8 DEF ReceivedOnce
  <1>14. InOrder(s)'
    <2>1. InHand(s)' = 0
      BY <1>8 DEF InHand
    <2>. QED
      BY <1>1, <1>6, <1>8, <2>1 DEF InOrder
  <1>. QED
    BY <1>9, <1>10, <1>11, <1>12, <1>13, <1>14 DEF SessionInv

LEMMA LeaseOther ==
    ASSUME TypeOK, NEW s \in Sessions, Lease(s), NEW x \in Sessions \ {s},
           SessionInv(x)
    PROVE  SessionInv(x)'
  <1>. USE DEF leaseVars, ioVars, kernelVars, jobVars, schedVars, locals
  <1>1. /\ pc' = pc /\ ses' = ses /\ stack' = stack /\ post' = post /\ job' = job
        /\ ready' = ready
        /\ poolState'[x] = poolState[x] /\ open'[x] = open[x]
        /\ releasePending'[x] = releasePending[x]
        /\ jobs'[x] = jobs[x] /\ processing'[x] = processing[x]
        /\ paused'[x] = paused[x]
    BY DEF Lease, TypeOK
  <1>2. /\ ioCount'[x] = ioCount[x] /\ live'[x] = live[x] /\ dying'[x] = dying[x]
        /\ received'[x] = received[x] /\ done'[x] = done[x]
    BY DEF Lease, TypeOK
  <1>3. /\ On(x)' = On(x)
        /\ \A u \in Threads :
             /\ Handles(u)' <=> Handles(u)
             /\ Issues(u)' <=> Issues(u)
             /\ Pauses(u)' <=> Pauses(u)
    BY <1>1 DEF On, Handles, Issues, Pauses
  <1>4. \A u \in Threads :
             /\ Receives(u)' <=> Receives(u)
             /\ Serves(u)' <=> Serves(u)
             /\ Owns(u)' <=> Owns(u)
    BY <1>1 DEF Receives, Serves, Owns
  <1>5. \A u \in On(x) : u \in Threads
    BY DEF On
  <1>6. \A k : Outstanding(x, k)' = Outstanding(x, k)
    BY <1>2 DEF Outstanding
  <1>7. Counted(x)'
    <2>1. /\ Handlers(x)' = Handlers(x) /\ Issuers(x)' = Issuers(x)
          /\ Pausers(x)' = Pausers(x)
      BY <1>3, <1>5 DEF Handlers, Issuers, Pausers
    <2>2. Pending(x)' = Pending(x)
      BY <1>1, <1>6 DEF Pending
    <2>. QED
      BY <1>2, <2>1, <2>2, CountedMeans DEF SessionInv
  <1>8. Owned(x)'
    BY <1>1, <1>3, <1>4, <1>5 DEF SessionInv, Owned
  <1>9. Drained(x)'
    BY <1>1, <1>2, <1>3 DEF SessionInv, Drained
  <1>10. (InQueue(x)' <=> InQueue(x)) /\ (OnceInQueue(x)' <=> OnceInQueue(x))
    BY <1>1 DEF InQueue, OnceInQueue
  <1>11. Unused(x)'
    BY <1>1, <1>2, <1>3, <1>10 DEF SessionInv, Unused
  <1>12. Scheduled(x)'
    BY <1>1, <1>3, <1>4, <1>5, <1>10 DEF SessionInv, Scheduled
  <1>13. ReceivedOnce(x)'
    BY <1>1, <1>3, <1>4, <1>5, <1>6 DEF SessionInv, ReceivedOnce
  <1>14. InOrder(x)'
    <2>1. InHand(x)' = InHand(x)
      BY <1>1, <1>3 DEF InHand
    <2>. QED
      BY <1>1, <1>2, <1>3, <2>1 DEF SessionInv, InOrder
  <1>. QED
    BY <1>7, <1>8, <1>9, <1>11, <1>12, <1>13, <1>14 DEF SessionInv

-----------------------------------------------------------------------------
(* The invariant. *)

LEMMA StepKeeps ==
    ASSUME TypeOK, NEW t \in Threads, Fits(t), Step(t)
    PROVE  \E s \in Sessions : Keeps(t, s)
  <1>. DEFINE x == ses[t]
  <1>0. x \in Sessions
    BY DEF TypeOK
  <1>1. PICK s \in Sessions : s = ses[t]
    BY <1>0
  <1>. HIDE DEF x
  <1>2. Calm(t) /\ pc[t] # "idle" /\ left' = left => Keeps(t, s)
    BY <1>1, CalmKeeps
  <1>3. CASE ReleaseStep(t)
    <2>1. CASE \/ TakeToken(t) /\ releasePending[s] # 1
               \/ Release(t) /\ poolState[s] # "IN_USE"
               \/ CancelPendingIO(t)
               \/ ReleaseUnpostedIO(t) /\ paused[s] # 1
               \/ ReadCount(t)
      <3>1. Calm(t)
        BY <1>1, <2>1, CalmRelease
      <3>2. pc[t] # "idle" /\ left' = left
        BY <2>1 DEF TakeToken, Release, CancelPendingIO, ReleaseUnpostedIO,
           ReadCount, leaseVars
      <3>. QED
        BY <1>2, <3>1, <3>2
    <2>2. CASE CancelIoEx(t)
      <3>1. Calm(t)
        BY <2>2, CalmCancel
      <3>2. pc[t] # "idle" /\ left' = left
        BY <2>2 DEF CancelIoEx, leaseVars
      <3>. QED
        BY <1>2, <3>1, <3>2
    <2>3. CASE TakeToken(t) /\ releasePending[s] = 1
      BY <1>1, <2>3, KeepsToken
    <2>4. CASE Release(t) /\ poolState[s] = "IN_USE"
      BY <1>1, <2>4, KeepsRelease
    <2>5. CASE ReleaseUnpostedIO(t) /\ paused[s] = 1
      BY <1>1, <2>5, KeepsUnposted
    <2>6. CASE DropUnposted(t)
      BY <1>1, <2>6, KeepsDecrement DEF DropUnposted, CountPcs
    <2>7. CASE Reserve(t)
      BY <1>1, <2>7, KeepsReserve
    <2>8. CASE CompleteRelease(t)
      BY <1>1, <2>8, KeepsComplete
    <2>9. CASE ResetSession(t)
      BY <1>1, <2>9, KeepsReset
    <2>. QED
      BY <1>3, <2>1, <2>2, <2>3, <2>4, <2>5, <2>6, <2>7, <2>8, <2>9
         DEF ReleaseStep
  <1>4. CASE PostReceiveStep(t)
    <2>1. CASE CheckConnected(t) \/ Gate(t) \/ IssueFails(t)
      <3>1. Calm(t)
        BY <2>1, CalmPost
      <3>2. pc[t] # "idle" /\ left' = left
        BY <2>1 DEF CheckConnected, Gate, IssueFails, leaseVars
      <3>. QED
        BY <1>2, <3>1, <3>2
    <2>2. CASE BeginIO(t)
      BY <1>1, <2>2, KeepsBeginIO
    <2>3. CASE IssueSucceeds(t)
      BY <1>1, <2>3, KeepsIssue
    <2>4. CASE UndoIO(t)
      BY <1>1, <2>4, KeepsDecrement DEF UndoIO, CountPcs
    <2>. QED
      BY <1>4, <2>1, <2>2, <2>3, <2>4 DEF PostReceiveStep
  <1>5. CASE ResumeStep(t)
    <2>1. CASE (ResumeReceive(t) /\ paused[s] # 1) \/ ResumeFailed(t)
      <3>1. Calm(t)
        BY <1>1, <2>1, CalmResume, CalmPost
      <3>2. pc[t] # "idle" /\ left' = left
        BY <2>1 DEF ResumeReceive, ResumeFailed, leaseVars
      <3>. QED
        BY <1>2, <3>1, <3>2
    <2>2. CASE ResumeReceive(t) /\ paused[s] = 1
      BY <1>1, <2>2, KeepsResume
    <2>3. CASE DropPause(t)
      BY <1>1, <2>3, KeepsDecrement DEF DropPause, CountPcs
    <2>. QED
      BY <1>5, <2>1, <2>2, <2>3 DEF ResumeStep
  <1>6. CASE HandlerStep(t)
    <2>1. CASE \/ ParseDone(t) \/ ParseBad(t) \/ CheckPending(t)
               \/ PostReceiveOrPause(t) \/ GatePause(t) \/ RecheckDepth(t)
               \/ RecvNotPosted(t)
      <3>1. Calm(t)
        BY <2>1, CalmHandler
      <3>2. pc[t] # "idle" /\ left' = left
        BY <2>1 DEF ParseDone, ParseBad, CheckPending, PostReceiveOrPause,
           GatePause, RecheckDepth, RecvNotPosted, leaseVars
      <3>. QED
        BY <1>2, <3>1, <3>2
    <2>2. CASE SubmitPacketJob(t)
      BY <1>1, <2>2, KeepsSubmit
    <2>3. CASE Schedule(t)
      BY <1>1, <2>3, KeepsClaim
    <2>4. CASE PushReady(t)
      BY <1>1, <2>4, KeepsPush
    <2>5. CASE Unschedule(t)
      BY <1>1, <2>5, KeepsGiveBack
    <2>6. CASE MarkPaused(t)
      BY <1>1, <2>6, KeepsMark
    <2>7. CASE Finish(t)
      BY <1>1, <2>7, KeepsDecrement DEF Finish, CountPcs
    <2>. QED
      BY <1>6, <2>1, <2>2, <2>3, <2>4, <2>5, <2>6, <2>7 DEF HandlerStep
  <1>7. CASE WorkerStep(t)
    <2>1. CASE RecheckJobs(t) \/ ResumeIfPaused(t) \/ ResumeIfDrained(t)
      <3>1. Calm(t)
        BY <2>1, CalmWorker
      <3>2. pc[t] # "idle" /\ left' = left
        BY <2>1 DEF RecheckJobs, ResumeIfPaused, ResumeIfDrained, leaseVars
      <3>. QED
        BY <1>2, <3>1, <3>2
    <2>2. CASE DequeueJob(t)
      BY <1>1, <2>2, KeepsDequeue
    <2>3. CASE Execute(t)
      BY <1>1, <2>3, KeepsExecute
    <2>4. CASE ClearProcessing(t) \/ Unclaim(t)
      BY <1>1, <2>4, KeepsGiveBack
    <2>5. CASE ClaimAgain(t)
      BY <1>1, <2>5, KeepsClaim
    <2>6. CASE PushAgain(t)
      BY <1>1, <2>6, KeepsPush
    <2>. QED
      BY <1>7, <2>1, <2>2, <2>3, <2>4, <2>5, <2>6 DEF WorkerStep
  <1>. QED
    BY <1>3, <1>4, <1>5, <1>6, <1>7 DEF Step

(* What a thread's step keeps of its session, it keeps of all.             *)
LEMMA KeepsAll ==
    ASSUME IInv, NEW t \in Threads, NEW s \in Sessions, Keeps(t, s)
    PROVE  IInv'
  <1>1. TypeOK' /\ Local(t, s)
    BY DEF Keeps
  <1>2. \A u \in Threads : Fits(u)'
    <2>. SUFFICES ASSUME NEW u \in Threads
                  PROVE  Fits(u)'
      OBVIOUS
    <2>1. CASE u = t
      BY <2>1 DEF Keeps
    <2>2. CASE u # t
      BY <1>1, <2>2, Bystander DEF IInv
    <2>. QED
      BY <2>1, <2>2
  <1>3. \A x \in Sessions : ~left'[x] => SessionInv(x)'
    <2>. SUFFICES ASSUME NEW x \in Sessions, ~left'[x]
                  PROVE  SessionInv(x)'
      OBVIOUS
    <2>1. CASE x = s
      BY <2>1 DEF Keeps, IInv
    <2>2. CASE x # s
      <3>1. x \in Sessions \ {s} /\ ~left[x]
        BY <1>1, <2>2 DEF Local
      <3>2. SessionInv(x) /\ Fits(t) /\ TypeOK
        BY <3>1 DEF IInv
      <3>3. (InQueue(x)' <=> InQueue(x)) /\ OnceInQueue(x)'
        BY <3>1, <3>2 DEF Keeps, SessionInv, Scheduled
      <3>. QED
        BY <1>1, <3>1, <3>2, <3>3, OtherSession
    <2>. QED
      BY <2>1, <2>2
  <1>. QED
    BY <1>1, <1>2, <1>3 DEF IInv

LEMMA IInvInit ==
    ASSUME Init
    PROVE  IInv
  <1>1. TypeOK
    <2>1. (CHOOSE s \in Sessions : TRUE) \in Sessions
      BY SessionsAssumption
    <2>2. <<>> \in Seq(Nat) /\ <<>> \in Seq(Sessions) /\ <<>> \in Seq(Pcs)
      OBVIOUS
    <2>3. "idle" \in Pcs
      BY DEF Pcs
    <2>4. [k \in Kinds |-> 0] \in [Kinds -> Nat]
      OBVIOUS
    <2>. QED
      BY <2>1, <2>2, <2>3, <2>4 DEF Init, TypeOK
  <1>2. \A t \in Threads : pc[t] = "idle" /\ stack[t] = <<>>
    BY DEF Init
  <1>3. \A t \in Threads : Fits(t)
    BY <1>2 DEF Fits, HandlerPcs, WorkerPcs, ResumePcs, PostPcs, InReleasePcs,
       LastPcs
  <1>4. ASSUME NEW s \in Sessions
        PROVE  SessionInv(s)
    <2>1. On(s) = {}
      BY <1>2 DEF On
    <2>2. /\ poolState[s] = "FREE" /\ ~open[s] /\ ioCount[s] = 0
          /\ jobs[s] = <<>> /\ paused[s] = 0 /\ processing[s] = 0
          /\ releasePending[s] = 0
      BY DEF Init
    <2>3. ~InQueue(s) /\ OnceInQueue(s)
      BY DEF Init, InQueue, OnceInQueue
    <2>4. Outstanding(s, "recv") = 0 /\ Outstanding(s, "send") = 0
      BY DEF Init, Outstanding, Kinds
    <2>5. Counted(s)
      <3>1. Handlers(s) = {} /\ Issuers(s) = {} /\ Pausers(s) = {}
        BY <2>1 DEF Handlers, Issuers, Pausers
      <3>2. /\ Cardinality(Handlers(s)) = 0 /\ Cardinality(Issuers(s)) = 0
            /\ Cardinality(Pausers(s)) = 0
        BY <3>1, FS_EmptySet
      <3>3. Pending(s) = 0
        BY <2>2, <2>4 DEF Pending
      <3>. QED
        BY <2>2, <3>2, <3>3, CountedMeans
    <2>6. Owned(s) /\ Drained(s) /\ Unused(s) /\ InOrder(s)
      BY <2>1, <2>2, <2>3 DEF Owned, Drained, Unused, InOrder
    <2>7. Scheduled(s)
      BY <2>1, <2>2, <2>3 DEF Scheduled
    <2>8. ReceivedOnce(s)
      BY <2>1, <2>2, <2>4 DEF ReceivedOnce
    <2>. QED
      BY <2>5, <2>6, <2>7, <2>8 DEF SessionInv
  <1>. QED
    BY <1>1, <1>3, <1>4 DEF IInv

LEMMA IInvNext ==
    ASSUME IInv, [Next]_vars
    PROVE  IInv'
  <1>0. TypeOK /\ \A t \in Threads : Fits(t)
    BY DEF IInv
  <1>1. CASE \E s \in Sessions : Lease(s)
    <2>1. PICK s \in Sessions : Lease(s)
      BY <1>1
    <2>2. TypeOK'
      BY <1>0, <2>1, LeaseTypes
    <2>3. \A t \in Threads : Fits(t)'
      <3>1. pc' = pc /\ stack' = stack /\ post' = post
        BY <2>1 DEF Lease
      <3>. QED
        BY <1>0, <3>1 DEF Fits
    <2>4. ASSUME NEW x \in Sessions, ~left'[x]
          PROVE  SessionInv(x)'
      <3>1. left' = left
        BY <2>1 DEF Lease
      <3>2. ~left[x] /\ SessionInv(x)
        BY <2>4, <3>1 DEF IInv
      <3>3. CASE x = s
        BY <1>0, <2>1, <3>2, <3>3, LeaseStep
      <3>4. CASE x # s
        BY <1>0, <2>1, <3>2, <3>4, LeaseOther
      <3>. QED
        BY <3>3, <3>4
    <2>. QED
      BY <2>2, <2>3, <2>4 DEF IInv
  <1>2. CASE \E w \in Workers : Complete(w)
    <2>1. PICK w \in Workers : Complete(w)
      BY <1>2
    <2>2. w \in Threads
      BY DEF Threads
    <2>3. \E s \in Sessions : Keeps(w, s)
      BY <1>0, <2>1, <2>2, KeepsHandled
    <2>. QED
      BY <2>2, <2>3, KeepsAll
  <1>3. CASE \E j \in JobWorkers : Pop(j)
    <2>1. PICK j \in JobWorkers : Pop(j)
      BY <1>3
    <2>2. j \in Threads
      BY DEF Threads
    <2>3. Head(ready) \in Sessions
      BY <1>0, <2>1 DEF TypeOK, Pop
    <2>4. PICK s \in Sessions : s = Head(ready)
      BY <2>3
    <2>5. Keeps(j, s)
      BY <1>0, <2>1, <2>2, <2>4, KeepsPop
    <2>. QED
      BY <2>2, <2>5, KeepsAll
  <1>4. CASE \E t \in Closers, s \in Sessions : Retire(t, s)
    <2>1. PICK t \in Closers, s \in Sessions : Retire(t, s)
      BY <1>4
    <2>2. t \in Threads
      BY DEF Threads
    <2>3. Keeps(t, s)
      BY <1>0, <2>1, <2>2, KeepsRetire
    <2>. QED
      BY <2>2, <2>3, KeepsAll
  <1>5. CASE \E t \in Threads : Step(t)
    <2>1. PICK t \in Threads : Step(t)
      BY <1>5
    <2>2. \E s \in Sessions : Keeps(t, s)
      BY <1>0, <2>1, StepKeeps
    <2>. QED
      BY <2>2, KeepsAll
  <1>6. CASE UNCHANGED vars
    <2>. USE DEF vars, leaseVars, ioVars, kernelVars, jobVars, schedVars
    <2>1. TypeOK'
      BY <1>0, <1>6 DEF TypeOK
    <2>2. \A t \in Threads : Fits(t)'
      BY <1>0, <1>6 DEF Fits
    <2>3. ASSUME NEW x \in Sessions, ~left'[x]
          PROVE  SessionInv(x)'
      <3>1. SessionInv(x)
        BY <1>6, <2>3 DEF IInv
      <3>2. /\ On(x)' = On(x)
            /\ InQueue(x)' <=> InQueue(x)
            /\ OnceInQueue(x)' <=> OnceInQueue(x)
        BY <1>6 DEF On, InQueue, OnceInQueue
      <3>3. InHand(x)' = InHand(x) /\ \A k : Outstanding(x, k)' = Outstanding(x, k)
        BY <1>6, <3>2 DEF InHand, Outstanding
      <3>4. Counted(x)'
        <4>1. /\ Handlers(x)' = Handlers(x) /\ Issuers(x)' = Issuers(x)
              /\ Pausers(x)' = Pausers(x)
          BY <1>6, <3>2 DEF Handlers, Issuers, Pausers, Handles, Issues, Pauses
        <4>2. Pending(x)' = Pending(x) /\ ioCount' = ioCount
          BY <1>6, <3>3 DEF Pending
        <4>. QED
          BY <3>1, <4>1, <4>2, CountedMeans DEF SessionInv
      <3>5. Owned(x)'
        BY <1>6, <3>1, <3>2 DEF SessionInv, Owned, Owns
      <3>6. Drained(x)' /\ Unused(x)'
        BY <1>6, <3>1, <3>2 DEF SessionInv, Drained, Unused
      <3>7. Scheduled(x)'
        BY <1>6, <3>1, <3>2 DEF SessionInv, Scheduled, Serves
      <3>8. ReceivedOnce(x)'
        BY <1>6, <3>1, <3>2, <3>3 DEF SessionInv, ReceivedOnce, Receives
      <3>9. InOrder(x)'
        BY <1>6, <3>1, <3>2, <3>3 DEF SessionInv, InOrder
      <3>. QED
        BY <3>4, <3>5, <3>6, <3>7, <3>8, <3>9 DEF SessionInv
    <2>. QED
      BY <2>1, <2>2, <2>3 DEF IInv
  <1>. QED
    BY <1>1, <1>2, <1>3, <1>4, <1>5, <1>6 DEF Next

(* What the invariant says of m_processing, ...                            *)
LEMMA ScheduledCounts ==
    ASSUME TypeOK, NEW s \in Sessions, Scheduled(s)
    PROVE  processing[s] = Claims(s)
  <1>1. processing[s] \in {0, 1}
    BY DEF TypeOK
  <1>2. /\ Claims(s) = Cardinality(Places(s)) + Cardinality(Servers(s))
    BY ClaimsAre
  <1>3. CASE InQueue(s)
    <2>1. PICK i \in DOMAIN ready : ready[i] = s
      BY <1>3 DEF InQueue
    <2>2. Places(s) = {i}
      BY <2>1 DEF Places, Scheduled, OnceInQueue
    <2>3. Servers(s) = {}
      BY <1>3 DEF Servers, Scheduled
    <2>4. Cardinality(Places(s)) = 1 /\ Cardinality(Servers(s)) = 0
      BY <2>2, <2>3, FS_Singleton, FS_EmptySet
    <2>5. processing[s] = 1
      BY <1>3 DEF Scheduled
    <2>. QED
      BY <1>2, <2>4, <2>5
  <1>4. CASE ~InQueue(s) /\ \E t \in On(s) : Serves(t)
    <2>1. PICK t \in On(s) : Serves(t)
      BY <1>4
    <2>2. Servers(s) = {t}
      BY <2>1 DEF Servers, Scheduled
    <2>3. Places(s) = {}
      BY <1>4 DEF Places, InQueue
    <2>4. Cardinality(Places(s)) = 0 /\ Cardinality(Servers(s)) = 1
      BY <2>2, <2>3, FS_Singleton, FS_EmptySet
    <2>5. processing[s] = 1
      BY <1>4 DEF Scheduled
    <2>. QED
      BY <1>2, <2>4, <2>5
  <1>5. CASE ~InQueue(s) /\ ~(\E t \in On(s) : Serves(t))
    <2>1. Servers(s) = {} /\ Places(s) = {}
      BY <1>5 DEF Servers, Places, InQueue
    <2>2. Cardinality(Places(s)) = 0 /\ Cardinality(Servers(s)) = 0
      BY <2>1, FS_EmptySet
    <2>3. processing[s] = 0
      BY <1>1, <1>5 DEF Scheduled
    <2>. QED
      BY <1>2, <2>2, <2>3
  <1>. QED
    BY <1>3, <1>4, <1>5

(* ... and of the receive.                                                 *)
LEMMA OneParses ==
    ASSUME TypeOK, NEW s \in Sessions, ReceivedOnce(s)
    PROVE  Outstanding(s, "recv") + paused[s]
             + Cardinality({t \in On(s) : pc[t] \in ParsePcs}) <= 1
  <1>. DEFINE P == {t \in On(s) : pc[t] \in ParsePcs}
  <1>1. \A t \in P : t \in On(s) /\ Receives(t)
    BY DEF Receives
  <1>2. Outstanding(s, "recv") \in Nat /\ paused[s] \in Nat
    BY PendingType
  <1>. HIDE DEF P
  <1>3. CASE P = {}
    <2>1. Cardinality(P) = 0
      BY <1>3, FS_EmptySet
    <2>. QED
      BY <1>2, <2>1 DEF ReceivedOnce, P
  <1>4. CASE P # {}
    <2>1. PICK t \in P : TRUE
      BY <1>4
    <2>2. P = {t}
      BY <1>1, <2>1 DEF ReceivedOnce
    <2>3. Cardinality(P) = 1
      BY <2>2, FS_Singleton
    <2>4. Outstanding(s, "recv") = 0 /\ paused[s] = 0
      BY <1>1, <2>1 DEF ReceivedOnce
    <2>. QED
      BY <2>3, <2>4 DEF P
  <1>. QED
    BY <1>3, <1>4

LEMMA IInvMeans ==
    ASSUME IInv
    PROVE  CountIsHeld /\ ScheduledOnce /\ OneReceive /\ JobsInOrder
  <1>1. TypeOK /\ \A s \in Sessions : ~left[s] => SessionInv(s)
    BY DEF IInv
  <1>2. \A s \in Settled : s \in Sessions /\ poolState[s] # "FREE" /\ SessionInv(s)
    BY <1>1 DEF Settled
  <1>3. CountIsHeld
    <2>1. \A s \in {r \in Sessions : ~left[r]} : Counted(s)
      BY <1>1 DEF SessionInv
    <2>. QED
      BY <2>1 DEF CountIsHeld, Counted, Pending
  <1>4. ScheduledOnce
    BY <1>1, <1>2, ScheduledCounts DEF ScheduledOnce, SessionInv
  <1>5. OneReceive
    BY <1>1, <1>2, OneParses DEF OneReceive, SessionInv
  <1>6. JobsInOrder
    <2>. SUFFICES ASSUME NEW j \in JobWorkers, pc[j] = "execute",
                         ses[j] \in Settled
                  PROVE  job[j] = done[ses[j]] + 1
      BY DEF JobsInOrder
    <2>1. j \in On(ses[j])
      BY DEF On, Threads
    <2>. QED
      BY <1>2, <2>1 DEF SessionInv, InOrder
  <1>. QED
    BY <1>3, <1>4, <1>5, <1>6

-----------------------------------------------------------------------------
(* The theorems. *)

LEMMA Inductive == Spec => []IInv
  <1>1. Init => IInv
    BY IInvInit
  <1>2. IInv /\ [Next]_vars => IInv'
    BY IInvNext
  <1>. QED
    BY <1>1, <1>2, PTL DEF Spec

(* Every variable of the receive path keeps its type, whatever order the   *)
(* threads take their steps in.                                            *)
THEOREM TypeCorrect == Spec => []TypeOK
  <1>1. IInv => TypeOK
    BY DEF IInv
  <1>. QED
    BY <1>1, Inductive, PTL

(* m_ioCount of a session that was never reset under another thread's hands*)
(* is at every step the operations issued, the pause, and what handlers,   *)
(* posts and pauses hold: pausing, resuming and the cancel that takes a    *)
(* pause away neither lose a count nor drop one twice.                     *)
THEOREM CountHeld == Spec => []CountIsHeld
  <1>1. IInv => CountIsHeld
    BY IInvMeans
  <1>. QED
    BY <1>1, Inductive, PTL

(* m_processing is 1 exactly while the ready queue or one thread has the   *)
(* session in hand, and never two of them: the compare-exchange of         *)
(* SubmitPacketJob and that of the job worker keep a second Push away.     *)
THEOREM OneHand == Spec => []ScheduledOnce
  <1>1. IInv => ScheduledOnce
    BY IInvMeans
  <1>. QED
    BY <1>1, Inductive, PTL

(* Of a session in use one receive is posted, paused, or being parsed:     *)
(* ResumeReceive and the handler never post two.                           *)
THEOREM ReceiveOnce == Spec => []OneReceive
  <1>1. IInv => OneReceive
    BY IInvMeans
  <1>. QED
    BY <1>1, Inductive, PTL

(* The job a worker runs is the one after the last that has run: the       *)
(* handlers of a connection run in the order its packets came.             *)
THEOREM Ordered == Spec => []JobsInOrder
  <1>1. IInv => JobsInOrder
    BY IInvMeans
  <1>. QED
    BY <1>1, Inductive, PTL
=============================================================================
