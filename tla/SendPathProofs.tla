--------------------------- MODULE SendPathProofs ---------------------------
(* Proofs about SendPath: the count of a session, who may send for it, and *)
(* what becomes of its packets.                                            *)
EXTENDS SendPath, FiniteSetTheorems, TLAPS

-----------------------------------------------------------------------------
(* The stack of a thread fits the step it is at.                           *)

Then(r, q) == <<r>> \o q

(* The routine a thread came from: a completion handler, a broadcast, or   *)
(* the service itself.                                                     *)
OfRecv == Then("repost", <<>>)
OfDone == Then("finish", <<>>)
OfCast == Then("nextTarget", <<>>)

Base(t, q) ==
    IF t \in Workers THEN q \in {OfRecv, OfDone} ELSE q \in {<<>>, OfCast}

(* What is below the end of a packet: the next one, a post that failed, or *)
(* a connection that did.                                                  *)
Trying(t, q)   == t \in Workers /\ q = Then("try", OfDone)
Undoing(t, q)  == \E b \in {<<>>, OfRecv, OfDone, OfCast} :
                     Base(t, b) /\ q = Then("finish", b)
Retiring(t, q) == \E b \in {<<>>, OfRecv, OfDone, OfCast} :
                     Base(t, b) /\ q = Then("retire", Then("finish", b))

EnqueuePcs == {"canSend", "push", "discard"}
PostPcs    == {"try", "dequeue", "setIdle", "recheck", "prepare", "begin",
               "gate", "issue"}
DropPcs    == {"dropCurrent", "dropToken"}
ResetPcs   == {"resetQueue", "resetCurrent", "free"}
LastPcs    == {"complete"} \cup ResetPcs

FitsAt(t, l, q) ==
    /\ l = "idle" => q = <<>>
    /\ l = "nextTarget" => t \in Senders /\ q = <<>>
    /\ l = "repost" => t \in Workers /\ q = <<>>
    /\ l = "sent" => t \in Workers /\ q = OfDone
    /\ l \in EnqueuePcs \cup PostPcs => Base(t, q)
    /\ l \in DropPcs =>
         Base(t, q) \/ Trying(t, q) \/ Undoing(t, q) \/ Retiring(t, q)
    /\ l = "retire" => Undoing(t, q) \/ (t \in Workers /\ q = OfDone)
    /\ l \in LastPcs \cup {"finish"} => Base(t, q) \/ (t \in Workers /\ q = <<>>)
    /\ l # "dropOwn"

(* Who is about to enqueue, or comes back to a broadcast, has a packet.    *)
Casting(q) == "nextTarget" \in Range(q)

Fits(t) ==
    /\ FitsAt(t, pc[t], stack[t])
    /\ pc[t] \in EnqueuePcs \cup {"nextTarget"} \/ Casting(stack[t]) =>
         pkt[t] # NoPacket

-----------------------------------------------------------------------------
(* What is counted: operations, and threads that handle the completion of  *)
(* one or are behind BeginIO.                                              *)

Of(s) == {t \in Threads : ses[t] = s}

HandlesAt(t, l, q) == t \in Workers /\ l # "idle" /\ ~(l \in LastPcs /\ q = <<>>)

IssuesAt(t, l, q) ==
    \/ l \in {"gate", "issue"}
    \/ l = "finish" /\ Base(t, q)
    \/ l \in DropPcs \cup {"retire"} /\ Undoing(t, q)
    \/ l \in DropPcs /\ Retiring(t, q)

Handles(t) == HandlesAt(t, pc[t], stack[t])
Issues(t)  == IssuesAt(t, pc[t], stack[t])

SendOps(s) == live[s]["send"] + dying[s]["send"]
Ops(s)     == live[s]["recv"] + dying[s]["recv"] + SendOps(s)

Handlers(s) == {t \in Of(s) : Handles(t)}
Issuers(s)  == {t \in Of(s) : Issues(t)}

Counted(s) ==
    ioCount[s] = Ops(s) + Cardinality(Handlers(s)) + Cardinality(Issuers(s))

Lasts(t)  == pc[t] \in LastPcs
Resets(t) == pc[t] \in ResetPcs

(* One thread completes the release, or the reservation waits for one.     *)
Owned(s) ==
    /\ \A t \in Of(s) : Lasts(t) => poolState[s] = "RELEASING" /\ releasePending[s] = 0
    /\ \A t, u \in Of(s) : Lasts(t) /\ Lasts(u) => t = u
    /\ releasePending[s] = 1 => poolState[s] = "RELEASING"

(* The session is free, or will be in a moment.                            *)
Ended(s) == poolState[s] = "FREE" \/ \E t \in Of(s) : Lasts(t)
Gone(s)  == poolState[s] = "FREE" \/ \E t \in Of(s) : Resets(t)

(* Nothing is issued for it then.                                          *)
Drained(s) ==
    /\ Ended(s) => Ops(s) = 0 /\ \A t \in Of(s) : ~Handles(t)
    /\ Gone(s) => ~open[s] /\ cancelIo[s] = 0
    /\ \A t \in Of(s) : pc[t] = "complete" =>
          cancelIo[s] = 1 /\ \A u \in Of(s) : pc[u] # "issue"
    /\ poolState[s] = "IN_USE" =>
          /\ open[s] /\ cancelIo[s] = 0
          /\ dying[s]["recv"] = 0 /\ dying[s]["send"] = 0
    /\ poolState[s] = "RELEASING" => cancelIo[s] = 1 \/ Gone(s)

Released(s) == Counted(s) /\ Owned(s) /\ Drained(s)

-----------------------------------------------------------------------------
(* What holds of a session that was never reset under the hands of another *)
(* thread.                                                                 *)

TokenPcs == {"dequeue", "setIdle", "prepare", "begin", "gate", "issue",
             "dropCurrent", "dropToken", "sent"}
Sends(t) == pc[t] \in TokenPcs

(* The threads at work on a session that have looked at its state.         *)
Busy(s) == {t \in Threads : ses[t] = s /\ pc[t] \notin AwayPcs \cup {"canSend"}}

(* Who resets a session is alone with it.                                  *)
Alone(s) ==
    /\ \A t \in Of(s) : Resets(t) => Busy(s) = {t}
    /\ poolState[s] = "FREE" => Busy(s) = {}

(* What is left of it then.                                                *)
Tidied(s) ==
    /\ Gone(s) => sending[s] = 0
    /\ poolState[s] = "FREE" \/ (\E t \in Of(s) : pc[t] \in {"resetCurrent", "free"}) =>
          queue[s] = <<>>
    /\ poolState[s] = "FREE" => current[s] = NoPacket

(* m_sending belongs to one thread or to one operation.                    *)
TokenOnce(s) ==
    /\ \A t, u \in Of(s) : Sends(t) /\ Sends(u) => t = u
    /\ \A t \in Of(s) : Sends(t) => sending[s] = 1 /\ SendOps(s) = 0
    /\ SendOps(s) <= 1
    /\ SendOps(s) = 1 => sending[s] = 1

(* The current packet goes with it.                                        *)
CurrentHeld(s) ==
    /\ \A t \in Of(s) :
         /\ Sends(t) /\ pc[t] \notin {"dequeue", "setIdle"} => current[s] # NoPacket
         /\ pc[t] \in {"dequeue", "setIdle"} => current[s] = NoPacket
         /\ pc[t] \in {"begin", "gate", "issue"} => over[s] = current[s]
    /\ SendOps(s) = 1 => current[s] # NoPacket /\ over[s] = current[s]
    /\ sending[s] = 0 => current[s] = NoPacket \/ Gone(s)

(* A packet that is dropped is over, or its session is.                    *)
DroppedFor(s) ==
    \A t \in Of(s) : pc[t] \in DropPcs =>
      \/ Trying(t, stack[t]) /\ offset[s] = PacketSize
      \/ Retiring(t, stack[t]) /\ dead[s]
      \/ short[s]
      \/ poolState[s] # "IN_USE"

(* The token of a session in use is with somebody who will use it.         *)
TokenHeld(s) ==
    poolState[s] = "IN_USE" /\ sending[s] = 1 =>
      \/ live[s]["send"] > 0
      \/ \E t \in Of(s) : Sends(t) \/ pc[t] = "retire"

(* What waits in it is seen to by somebody.                                *)
Attended(s) ==
    poolState[s] = "IN_USE" /\ ~short[s] /\ (queue[s] # <<>> \/ current[s] # NoPacket) =>
      \/ live[s]["send"] > 0
      \/ \E t \in Of(s) : pc[t] \in SendPcs \cup {"retire"}

(* How many packets of the connection have left the queue.                 *)
Taken(s) == Len(accepted[s]) - Len(queue[s])

(* What waits is what was accepted last; what is being sent, before it.    *)
QueueInOrder(s) ==
    /\ Taken(s) >= 0
    /\ \A i \in 1 .. Len(queue[s]) : queue[s][i] = accepted[s][Taken(s) + i]
    /\ current[s] # NoPacket =>
         \/ Taken(s) > 0 /\ current[s] = accepted[s][Taken(s)]
         \/ Gone(s)

(* While anything can still be sent, what was sent is the packets taken,   *)
(* but for the rest of the current one.                                    *)
Flows(s) ==
    /\ ~short[s] /\ ~dead[s]
    /\ \/ poolState[s] = "IN_USE"
       \/ live[s]["send"] > 0
       \/ \E t \in Of(s) : pc[t] = "issue"

SentSoFar(s) ==
    Flows(s) =>
      Len(wire[s]) = IF current[s] = NoPacket THEN PacketSize * Taken(s)
                     ELSE PacketSize * (Taken(s) - 1) + offset[s]

InOrder(s) ==
    ~short[s] =>
      \A i \in DOMAIN wire[s] :
        \E n \in DOMAIN accepted[s], k \in 1 .. PacketSize :
           i = PacketSize * (n - 1) + k /\ wire[s][i] = accepted[s][n]

Passing(s) == TokenOnce(s) /\ CurrentHeld(s) /\ DroppedFor(s) /\ TokenHeld(s)
              /\ Attended(s)
Sent(s)    == QueueInOrder(s) /\ SentSoFar(s) /\ InOrder(s)

SettledInv(s) == Alone(s) /\ Tidied(s) /\ Passing(s) /\ Sent(s)

IInv ==
    /\ TypeOK
    /\ \A t \in Threads : Fits(t)
    /\ \A s \in Sessions : Released(s)
    /\ \A s \in Sessions : ~left[s] => SettledInv(s)

-----------------------------------------------------------------------------
(* The stack. *)

LEMMA ThenFacts ==
    ASSUME NEW r \in Pcs, NEW q \in Seq(Pcs)
    PROVE  /\ Then(r, q) \in Seq(Pcs) /\ Then(r, q) # <<>>
           /\ Head(Then(r, q)) = r /\ Tail(Then(r, q)) = q
           /\ Casting(Then(r, q)) <=> r = "nextTarget" \/ Casting(q)
  <1>. DEFINE p == <<r>> \o q
  <1>1. p \in Seq(Pcs) /\ Len(p) = Len(q) + 1 /\ p # <<>>
    OBVIOUS
  <1>2. p[1] = r /\ \A i \in 1 .. Len(q) : p[i + 1] = q[i]
    OBVIOUS
  <1>3. Head(p) = r
    BY <1>1, <1>2
  <1>4. Tail(p) = q
    <2>1. Tail(p) \in Seq(Pcs) /\ Len(Tail(p)) = Len(q)
      BY <1>1
    <2>2. \A i \in 1 .. Len(q) : Tail(p)[i] = q[i]
      BY <1>1, <1>2
    <2>. QED
      BY <2>1, <2>2
  <1>5. DOMAIN p = 1 .. Len(q) + 1 /\ DOMAIN q = 1 .. Len(q) /\ Len(q) \in Nat
    BY <1>1
  <1>6. ASSUME Casting(p)
        PROVE  r = "nextTarget" \/ Casting(q)
    <2>1. PICK i \in 1 .. Len(q) + 1 : p[i] = "nextTarget"
      BY <1>5, <1>6 DEF Casting, Range
    <2>2. CASE i = 1
      BY <2>1, <2>2, <1>2
    <2>3. CASE i # 1
      <3>1. i - 1 \in 1 .. Len(q) /\ i = (i - 1) + 1
        BY <2>1, <2>3, <1>5
      <3>2. q[i - 1] = "nextTarget"
        BY <2>1, <3>1, <1>2
      <3>. QED
        BY <3>1, <3>2, <1>5 DEF Casting, Range
    <2>. QED
      BY <2>2, <2>3
  <1>7. ASSUME r = "nextTarget" \/ Casting(q)
        PROVE  Casting(p)
    <2>1. CASE r = "nextTarget"
      <3>1. 1 \in DOMAIN p
        BY <1>5
      <3>. QED
        BY <2>1, <3>1, <1>2 DEF Casting, Range
    <2>2. CASE Casting(q)
      <3>1. PICK i \in 1 .. Len(q) : q[i] = "nextTarget"
        BY <2>2, <1>5 DEF Casting, Range
      <3>2. i + 1 \in DOMAIN p /\ p[i + 1] = "nextTarget"
        BY <3>1, <1>2, <1>5
      <3>. QED
        BY <3>2 DEF Casting, Range
    <2>. QED
      BY <1>7, <2>1, <2>2
  <1>. HIDE DEF p
  <1>8. Then(r, q) = p
    BY DEF Then, p
  <1>. QED
    BY <1>1, <1>3, <1>4, <1>6, <1>7, <1>8

LEMMA Frames ==
    /\ "repost" \in Pcs /\ "finish" \in Pcs /\ "nextTarget" \in Pcs
    /\ "try" \in Pcs /\ "retire" \in Pcs /\ "idle" \in Pcs
    /\ <<>> \in Seq(Pcs) /\ OfRecv \in Seq(Pcs) /\ OfDone \in Seq(Pcs)
    /\ OfCast \in Seq(Pcs)
    /\ ~Casting(<<>>) /\ ~Casting(OfRecv) /\ ~Casting(OfDone) /\ Casting(OfCast)
    /\ OfRecv # OfDone /\ OfRecv # OfCast /\ OfDone # OfCast
    /\ OfRecv # <<>> /\ OfDone # <<>> /\ OfCast # <<>>
  <1>1. /\ "repost" \in Pcs /\ "finish" \in Pcs /\ "nextTarget" \in Pcs
        /\ "try" \in Pcs /\ "retire" \in Pcs /\ "idle" \in Pcs
    BY DEF Pcs, SendPcs, ReleasePcs, AwayPcs
  <1>2. <<>> \in Seq(Pcs) /\ ~Casting(<<>>)
    BY DEF Casting, Range
  <1>3. /\ OfRecv \in Seq(Pcs) /\ Head(OfRecv) = "repost" /\ OfRecv # <<>>
        /\ ~Casting(OfRecv)
    BY <1>1, <1>2, ThenFacts DEF OfRecv
  <1>4. /\ OfDone \in Seq(Pcs) /\ Head(OfDone) = "finish" /\ OfDone # <<>>
        /\ ~Casting(OfDone)
    BY <1>1, <1>2, ThenFacts DEF OfDone
  <1>5. /\ OfCast \in Seq(Pcs) /\ Head(OfCast) = "nextTarget" /\ OfCast # <<>>
        /\ Casting(OfCast)
    BY <1>1, <1>2, ThenFacts DEF OfCast
  <1>. QED
    BY <1>1, <1>2, <1>3, <1>4, <1>5

LEMMA ThreadKinds ==
    ASSUME NEW t \in Threads
    PROVE  t \in Senders <=> t \notin Workers
  BY ThreadsAssumption DEF Threads

(* What lies below a thread says where it is in its business.              *)
LEMMA Shapes ==
    ASSUME NEW t \in Threads, NEW q
    PROVE  /\ Base(t, q) => /\ q \in Seq(Pcs)
                            /\ ~Trying(t, q) /\ ~Undoing(t, q) /\ ~Retiring(t, q)
                            /\ Undoing(t, Then("finish", q))
                            /\ Retiring(t, Then("retire", Then("finish", q)))
                            /\ t \in Workers => q # <<>>
           /\ Trying(t, q) => ~Undoing(t, q) /\ ~Retiring(t, q)
           /\ Undoing(t, q) => /\ ~Retiring(t, q) /\ q # <<>>
                               /\ t \in Workers => q # OfDone
           /\ ~Base(t, <<>>) <=> t \in Workers
  <1>. DEFINE Bases == {<<>>, OfRecv, OfDone, OfCast}
  <1>1. /\ \A b \in Bases : b \in Seq(Pcs)
        /\ \A b \in Bases : Base(t, b) /\ t \in Workers => b # <<>>
        /\ \A b : Base(t, b) => b \in Bases
        /\ ~Base(t, <<>>) <=> t \in Workers
    BY Frames DEF Base
  <1>2. /\ OfDone = Then("finish", <<>>)
        /\ OfRecv = Then("repost", <<>>)
        /\ OfCast = Then("nextTarget", <<>>)
    BY DEF OfDone, OfRecv, OfCast
  <1>3. /\ Head(OfDone) = "finish" /\ Tail(OfDone) = <<>>
        /\ Head(OfRecv) = "repost" /\ Head(OfCast) = "nextTarget"
        /\ Head(Then("try", OfDone)) = "try" /\ Then("try", OfDone) # <<>>
    BY <1>2, Frames, ThenFacts
  <1>4. ASSUME Undoing(t, q)
        PROVE  /\ q # <<>> /\ Head(q) = "finish" /\ Base(t, Tail(q))
    <2>1. PICK b \in Bases : Base(t, b) /\ q = Then("finish", b)
      BY <1>4 DEF Undoing
    <2>2. b \in Seq(Pcs)
      BY <1>1
    <2>. QED
      BY <2>1, <2>2, Frames, ThenFacts
  <1>5. ASSUME Retiring(t, q)
        PROVE  /\ q # <<>> /\ Head(q) = "retire"
    <2>1. PICK b \in Bases : Base(t, b) /\ q = Then("retire", Then("finish", b))
      BY <1>5 DEF Retiring
    <2>2. Then("finish", b) \in Seq(Pcs)
      BY <1>1, Frames, ThenFacts
    <2>. QED
      BY <2>1, <2>2, Frames, ThenFacts
  <1>6. Base(t, q) => ~Undoing(t, q)
    <2>. SUFFICES ASSUME Base(t, q), Undoing(t, q)
                  PROVE  FALSE
      OBVIOUS
    <2>1. q = OfDone
      BY <1>1, <1>3, <1>4, Frames DEF Base
    <2>2. t \in Workers /\ Base(t, <<>>)
      BY <2>1, <1>3, <1>4, Frames DEF Base
    <2>. QED
      BY <2>2, <1>1
  <1>7. Base(t, q) => ~Trying(t, q) /\ ~Retiring(t, q)
    BY <1>3, <1>5, Frames DEF Base, Trying
  <1>8. Trying(t, q) => ~Undoing(t, q) /\ ~Retiring(t, q)
    BY <1>3, <1>4, <1>5 DEF Trying
  <1>9. Undoing(t, q) => ~Retiring(t, q) /\ (t \in Workers => q # OfDone)
    <2>1. Undoing(t, q) => ~Retiring(t, q)
      BY <1>4, <1>5
    <2>2. t \in Workers => Base(t, OfDone)
      BY DEF Base
    <2>. QED
      BY <2>1, <2>2, <1>3, <1>4, <1>1
  <1>10. Base(t, q) => /\ Undoing(t, Then("finish", q))
                       /\ Retiring(t, Then("retire", Then("finish", q)))
    BY <1>1 DEF Undoing, Retiring
  <1>. QED
    BY <1>1, <1>4, <1>6, <1>7, <1>8, <1>9, <1>10

-----------------------------------------------------------------------------
(* Control flow: a step brings t to l, with q on its stack.                *)

At(t, l, q) ==
    /\ pc' \in [Threads -> Pcs] /\ stack' \in [Threads -> Seq(Pcs)]
    /\ pc'[t] = l /\ stack'[t] = q
    /\ \A u \in Threads \ {t} : pc'[u] = pc[u] /\ stack'[u] = stack[u]

LEMMA GotoAt ==
    ASSUME TypeOK, NEW t \in Threads, NEW l \in Pcs, Goto(t, l)
    PROVE  At(t, l, stack[t])
  BY DEF TypeOK, Goto, At

LEMMA CallAt ==
    ASSUME TypeOK, NEW t \in Threads, NEW l \in Pcs, NEW r \in Pcs
    PROVE  /\ Call(t, l, <<r>>) => At(t, l, Then(r, stack[t]))
           /\ \A r2 \in Pcs :
                Call(t, l, <<r, r2>>) => At(t, l, Then(r, Then(r2, stack[t])))
  <1>1. stack[t] \in Seq(Pcs) /\ stack \in [Threads -> Seq(Pcs)]
        /\ pc \in [Threads -> Pcs]
    BY DEF TypeOK
  <1>2. ASSUME Call(t, l, <<r>>)
        PROVE  At(t, l, Then(r, stack[t]))
    <2>1. Then(r, stack[t]) \in Seq(Pcs)
      BY <1>1, ThenFacts
    <2>2. stack' = [stack EXCEPT ![t] = Then(r, stack[t])]
      BY <1>1, <1>2 DEF Call, Then
    <2>3. pc' = [pc EXCEPT ![t] = l]
      BY <1>2 DEF Call
    <2>. QED
      BY <1>1, <2>1, <2>2, <2>3 DEF At
  <1>3. ASSUME NEW r2 \in Pcs, Call(t, l, <<r, r2>>)
        PROVE  At(t, l, Then(r, Then(r2, stack[t])))
    <2>1. Then(r2, stack[t]) \in Seq(Pcs)
      BY <1>1, ThenFacts
    <2>2. Then(r, Then(r2, stack[t])) \in Seq(Pcs)
      BY <2>1, ThenFacts
    <2>3. Then(r, Then(r2, stack[t])) = <<r, r2>> \o stack[t]
      BY <1>1 DEF Then
    <2>4. stack' = [stack EXCEPT ![t] = Then(r, Then(r2, stack[t]))]
      BY <1>1, <1>3, <2>3 DEF Call
    <2>5. pc' = [pc EXCEPT ![t] = l]
      BY <1>3 DEF Call
    <2>. QED
      BY <1>1, <2>2, <2>4, <2>5 DEF At
  <1>. QED
    BY <1>2, <1>3

LEMMA ReturnAt ==
    ASSUME TypeOK, NEW t \in Threads, Return(t)
    PROVE  /\ stack[t] = <<>> => At(t, "idle", <<>>)
           /\ \A r \in Pcs, q \in Seq(Pcs) :
                stack[t] = Then(r, q) => At(t, r, q)
  <1>1. /\ stack[t] \in Seq(Pcs) /\ stack \in [Threads -> Seq(Pcs)]
        /\ pc \in [Threads -> Pcs]
    BY DEF TypeOK
  <1>2. CASE stack[t] = <<>>
    <2>1. /\ pc' = [pc EXCEPT ![t] = "idle"]
          /\ stack' = [stack EXCEPT ![t] = <<>>]
      BY <1>1, <1>2 DEF Return
    <2>2. \A r \in Pcs, q \in Seq(Pcs) : stack[t] # Then(r, q)
      BY <1>2, ThenFacts
    <2>. QED
      BY <1>1, <1>2, <2>1, <2>2, Frames DEF At
  <1>3. CASE stack[t] # <<>>
    <2>1. /\ pc' = [pc EXCEPT ![t] = Head(stack[t])]
          /\ stack' = [stack EXCEPT ![t] = Tail(stack[t])]
      BY <1>1, <1>3 DEF Return
    <2>2. ASSUME NEW r \in Pcs, NEW q \in Seq(Pcs), stack[t] = Then(r, q)
          PROVE  At(t, r, q)
      <3>1. Head(stack[t]) = r /\ Tail(stack[t]) = q
        BY <2>2, ThenFacts
      <3>. QED
        BY <1>1, <2>1, <3>1 DEF At
    <2>. QED
      BY <1>3, <2>2
  <1>. QED
    BY <1>2, <1>3

LEMMA BeginAt ==
    ASSUME TypeOK, NEW t \in Threads, NEW s \in Sessions, NEW l \in Pcs,
           NEW q \in Seq(Pcs), Begin(t, s, l, q)
    PROVE  /\ At(t, l, q) /\ pc[t] = "idle"
           /\ ses' \in [Threads -> Sessions] /\ ses'[t] = s
           /\ \A u \in Threads \ {t} : ses'[u] = ses[u]
  BY DEF TypeOK, Begin, At

(* A thread returns to the routine it came from ...                        *)
HomePcs == {"idle", "nextTarget", "repost", "finish"}

LEMMA ReturnHome ==
    ASSUME TypeOK, NEW t \in Threads, Return(t),
           Base(t, stack[t]) \/ (t \in Workers /\ stack[t] = <<>>)
    PROVE  /\ At(t, pc'[t], <<>>) /\ pc'[t] \in HomePcs
           /\ FitsAt(t, pc'[t], <<>>)
           /\ HandlesAt(t, pc'[t], <<>>) <=> t \in Workers /\ stack[t] # <<>>
           /\ ~IssuesAt(t, pc'[t], <<>>)
           /\ pc'[t] = "nextTarget" => Casting(stack[t])
  <1>1. CASE stack[t] = <<>>
    <2>1. At(t, "idle", <<>>) /\ pc'[t] = "idle"
      BY <1>1, ReturnAt DEF At
    <2>. QED
      BY <1>1, <2>1
         DEF HomePcs, FitsAt, HandlesAt, IssuesAt, EnqueuePcs, PostPcs, DropPcs,
             LastPcs, ResetPcs
  <1>2. CASE stack[t] # <<>>
    <2>1. PICK r \in {"repost", "finish", "nextTarget"} :
            /\ stack[t] = Then(r, <<>>)
            /\ r = "nextTarget" <=> t \in Senders
      BY <1>2, ThreadKinds, Frames DEF Base, OfRecv, OfDone, OfCast
    <2>2. At(t, r, <<>>) /\ pc'[t] = r
      <3>1. r \in Pcs /\ <<>> \in Seq(Pcs)
        BY Frames
      <3>2. At(t, r, <<>>)
        BY <2>1, <3>1, ReturnAt
      <3>. QED
        BY <3>2 DEF At
    <2>3. ~(r = "finish" /\ Base(t, <<>>))
      BY <2>1, Shapes, ThreadKinds
    <2>4. Casting(Then("nextTarget", <<>>))
      BY Frames DEF OfCast
    <2>. QED
      BY <1>2, <2>1, <2>2, <2>3, <2>4, ThreadKinds
         DEF HomePcs, FitsAt, HandlesAt, IssuesAt, EnqueuePcs, PostPcs, DropPcs,
             LastPcs, ResetPcs
  <1>. QED
    BY <1>1, <1>2

(* ... or from the end of a packet.                                        *)
LEMMA ReturnUndoing ==
    ASSUME TypeOK, NEW t \in Threads, Return(t), Undoing(t, stack[t])
    PROVE  \E b \in Seq(Pcs) :
             /\ At(t, "finish", b) /\ Base(t, b) /\ FitsAt(t, "finish", b)
             /\ HandlesAt(t, "finish", b) <=> t \in Workers
             /\ IssuesAt(t, "finish", b)
             /\ Casting(stack[t]) <=> Casting(b)
  <1>1. PICK b \in {<<>>, OfRecv, OfDone, OfCast} :
             Base(t, b) /\ stack[t] = Then("finish", b)
    BY DEF Undoing
  <1>2. b \in Seq(Pcs)
    BY Frames
  <1>3. At(t, "finish", b)
    BY <1>1, <1>2, Frames, ReturnAt
  <1>4. Casting(Then("finish", b)) <=> Casting(b)
    BY <1>2, Frames, ThenFacts
  <1>. QED
    BY <1>1, <1>2, <1>3, <1>4
       DEF FitsAt, HandlesAt, IssuesAt, EnqueuePcs, PostPcs, DropPcs, LastPcs,
           ResetPcs

LEMMA ReturnRetiring ==
    ASSUME TypeOK, NEW t \in Threads, Return(t), Retiring(t, stack[t])
    PROVE  \E q \in Seq(Pcs) :
             /\ At(t, "retire", q) /\ Undoing(t, q) /\ FitsAt(t, "retire", q)
             /\ HandlesAt(t, "retire", q) <=> t \in Workers
             /\ IssuesAt(t, "retire", q)
             /\ Casting(stack[t]) <=> Casting(q)
  <1>1. PICK b \in {<<>>, OfRecv, OfDone, OfCast} :
             Base(t, b) /\ stack[t] = Then("retire", Then("finish", b))
    BY DEF Retiring
  <1>. DEFINE q == Then("finish", b)
  <1>2. q \in Seq(Pcs) /\ Undoing(t, q)
    BY <1>1, Frames, ThenFacts, Shapes
  <1>3. stack[t] = Then("retire", q)
    BY <1>1
  <1>. HIDE DEF q
  <1>4. At(t, "retire", q)
    BY <1>2, <1>3, Frames, ReturnAt
  <1>5. Casting(Then("retire", q)) <=> Casting(q)
    BY <1>2, Frames, ThenFacts
  <1>. QED
    BY <1>2, <1>3, <1>4, <1>5
       DEF FitsAt, HandlesAt, IssuesAt, EnqueuePcs, PostPcs, DropPcs, LastPcs,
           ResetPcs

LEMMA ReturnTrying ==
    ASSUME TypeOK, NEW t \in Threads, Return(t), Trying(t, stack[t])
    PROVE  /\ At(t, "try", OfDone) /\ FitsAt(t, "try", OfDone)
           /\ HandlesAt(t, "try", OfDone) /\ ~IssuesAt(t, "try", OfDone)
           /\ ~Casting(stack[t])
  <1>1. At(t, "try", OfDone)
    BY Frames, ReturnAt DEF Trying
  <1>2. ~Casting(stack[t])
    BY Frames, ThenFacts DEF Trying
  <1>. QED
    BY <1>1, <1>2, Frames
       DEF Trying, Base, FitsAt, HandlesAt, IssuesAt, EnqueuePcs, PostPcs,
           DropPcs, LastPcs, ResetPcs

-----------------------------------------------------------------------------
(* A step of t is about session s alone.                                   *)

Frame(t, s) ==
    /\ \A u \in Threads \ {t} :
         /\ pc'[u] = pc[u] /\ stack'[u] = stack[u]
         /\ ses'[u] = ses[u] /\ pkt'[u] = pkt[u]
    /\ pc[t] \in {"idle", "nextTarget"} \/ ses[t] = s
    /\ ses'[t] = s
    /\ \A x \in Sessions \ {s} :
         /\ poolState'[x] = poolState[x] /\ open'[x] = open[x]
         /\ short'[x] = short[x] /\ left'[x] = left[x]
         /\ ioCount'[x] = ioCount[x] /\ cancelIo'[x] = cancelIo[x]
         /\ releasePending'[x] = releasePending[x]
         /\ live'[x] = live[x] /\ dying'[x] = dying[x] /\ dead'[x] = dead[x]
         /\ over'[x] = over[x] /\ wire'[x] = wire[x]
         /\ sending'[x] = sending[x] /\ current'[x] = current[x]
         /\ offset'[x] = offset[x]
         /\ queue'[x] = queue[x] /\ accepted'[x] = accepted[x]

Sound(t, s) == TypeOK' /\ Fits(t)' /\ Frame(t, s)

(* The types, in three parts.                                              *)
TypeLease ==
    /\ poolState \in [Sessions -> {"FREE", "IN_USE", "RELEASING"}]
    /\ open \in [Sessions -> BOOLEAN]
    /\ ioCount \in [Sessions -> Int]
    /\ cancelIo \in [Sessions -> 0..1]
    /\ releasePending \in [Sessions -> 0..1]
    /\ live \in [Sessions -> [Kinds -> Nat]]
    /\ dying \in [Sessions -> [Kinds -> Nat]]
    /\ dead \in [Sessions -> BOOLEAN]
    /\ lease \in [Sessions -> Nat]
    /\ short \in [Sessions -> BOOLEAN]
    /\ left \in [Sessions -> BOOLEAN]

TypePackets ==
    /\ queue \in [Sessions -> Seq(Packets)]
    /\ \A s \in Sessions : Len(queue[s]) <= QueueDepth
    /\ sending \in [Sessions -> 0..1]
    /\ current \in [Sessions -> Packets \cup {NoPacket}]
    /\ offset \in [Sessions -> 0..PacketSize]
    /\ over \in [Sessions -> Packets \cup {NoPacket}]
    /\ refs \in [Packets -> Int]
    /\ made \in 0..MaxPackets
    /\ accepted \in [Sessions -> Seq(Packets)]
    /\ wire \in [Sessions -> Seq(Packets \cup {NoPacket})]

TypeThreads ==
    /\ pc \in [Threads -> Pcs]
    /\ ses \in [Threads -> Sessions]
    /\ stack \in [Threads -> Seq(Pcs)]
    /\ pkt \in [Threads -> Packets \cup {NoPacket}]
    /\ todo \in [Threads -> SUBSET Sessions]

LEMMA TypeParts ==
    /\ TypeOK <=> TypeLease /\ TypePackets /\ TypeThreads
    /\ TypeOK' <=> TypeLease' /\ TypePackets' /\ TypeThreads'
  BY DEF TypeOK, TypeLease, TypePackets, TypeThreads

LEMMA FitsThen ==
    ASSUME NEW t \in Threads, NEW l, NEW q, At(t, l, q), FitsAt(t, l, q),
           l \in EnqueuePcs \cup {"nextTarget"} \/ Casting(q) => pkt'[t] # NoPacket
    PROVE  Fits(t)'
  BY DEF At, Fits

LEMMA TypesOf ==
    ASSUME TypeOK, NEW t \in Threads
    PROVE  /\ ses[t] \in Sessions /\ pc[t] \in Pcs /\ stack[t] \in Seq(Pcs)
           /\ pkt[t] \in Packets \cup {NoPacket}
  BY DEF TypeOK

(* Steps at l that return to where the thread came from.                   *)
LEMMA SoundHome ==
    ASSUME TypeOK, NEW t \in Threads, Fits(t), pc[t] \notin {"idle", "nextTarget"},
           Return(t), Base(t, stack[t]) \/ (t \in Workers /\ stack[t] = <<>>),
           UNCHANGED locals
    PROVE  /\ pc' \in [Threads -> Pcs] /\ stack' \in [Threads -> Seq(Pcs)]
           /\ Fits(t)'
           /\ At(t, pc'[t], <<>>) /\ pc'[t] \in HomePcs
  <1>1. /\ At(t, pc'[t], <<>>) /\ FitsAt(t, pc'[t], <<>>)
        /\ pc'[t] = "nextTarget" => Casting(stack[t])
        /\ pc'[t] \in HomePcs
    BY ReturnHome
  <1>2. Fits(t)'
    BY <1>1, FitsThen, Frames DEF Fits, locals, HomePcs, EnqueuePcs
  <1>. QED
    BY <1>1, <1>2 DEF At

LEMMA SoundFinish ==
    ASSUME TypeOK, NEW t \in Threads, Fits(t), Finish(t)
    PROVE  Sound(t, ses[t])
  <1>. DEFINE s == ses[t]
  <1>1. pc[t] = "finish" /\ s \in Sessions /\ DecrementIO(t)
    BY TypesOf DEF Finish
  <1>2. Base(t, stack[t]) \/ (t \in Workers /\ stack[t] = <<>>)
    BY <1>1 DEF Fits, FitsAt
  <1>3. /\ pc' \in [Threads -> Pcs] /\ stack' \in [Threads -> Seq(Pcs)]
        /\ Fits(t)'
        /\ \A u \in Threads \ {t} : pc'[u] = pc[u] /\ stack'[u] = stack[u]
    <2>1. CASE Return(t)
      BY <1>1, <1>2, <2>1, SoundHome DEF DecrementIO, At
    <2>2. CASE Goto(t, "complete")
      <3>1. "complete" \in Pcs
        BY DEF Pcs, ReleasePcs
      <3>2. At(t, "complete", stack[t])
        BY <2>2, <3>1, GotoAt
      <3>3. FitsAt(t, "complete", stack[t])
        BY <1>2 DEF FitsAt, LastPcs, ResetPcs, EnqueuePcs, PostPcs, DropPcs
      <3>4. Fits(t)'
        BY <1>1, <3>2, <3>3, FitsThen DEF Fits, DecrementIO, locals, EnqueuePcs
      <3>. QED
        BY <3>2, <3>4 DEF At
    <2>. QED
      BY <1>1, <2>1, <2>2 DEF DecrementIO
  <1>4. /\ ioCount' = [ioCount EXCEPT ![s] = @ - 1]
        /\ \/ releasePending' = releasePending
           \/ releasePending' = [releasePending EXCEPT ![s] = 0]
        /\ UNCHANGED <<leaseVars, cancelIo, kernVars, sendVars, queueVars, pktVars,
                       locals>>
    BY <1>1 DEF DecrementIO
  <1>. HIDE DEF s
  <1>5. ioCount' \in [Sessions -> Int] /\ releasePending' \in [Sessions -> 0..1]
    <2>1. ioCount' \in [Sessions -> Int]
      BY <1>1, <1>4 DEF TypeOK
    <2>2. releasePending' \in [Sessions -> 0..1]
      <3>1. releasePending \in [Sessions -> 0..1] /\ 0 \in 0..1
        BY DEF TypeOK
      <3>. QED
        BY <1>4, <3>1
    <2>. QED
      BY <2>1, <2>2
  <1>6. TypeOK'
    BY <1>1, <1>3, <1>4, <1>5
       DEF TypeOK, leaseVars, kernVars, sendVars, queueVars, pktVars, locals
  <1>7. s = ses[t]
    BY DEF s
  <1>8. Frame(t, s)
    BY <1>1, <1>3, <1>4, <1>7
       DEF Frame, TypeOK, leaseVars, kernVars, sendVars, queueVars, pktVars, locals
  <1>. QED
    BY <1>3, <1>6, <1>7, <1>8 DEF Sound

LEMMA AbortTypes ==
    ASSUME TypeOK, NEW s \in Sessions, AbortOperations(s)
    PROVE  /\ live' \in [Sessions -> [Kinds -> Nat]]
           /\ dying' \in [Sessions -> [Kinds -> Nat]]
           /\ \A k \in Kinds : live'[s][k] = 0 /\ dying'[s][k] = dying[s][k] + live[s][k]
           /\ \A x \in Sessions \ {s} : live'[x] = live[x] /\ dying'[x] = dying[x]
           /\ dead' = dead /\ over' = over /\ wire' = wire
  <1>1. live \in [Sessions -> [Kinds -> Nat]] /\ dying \in [Sessions -> [Kinds -> Nat]]
    BY DEF TypeOK
  <1>2. /\ [k \in Kinds |-> 0] \in [Kinds -> Nat]
        /\ [k \in Kinds |-> dying[s][k] + live[s][k]] \in [Kinds -> Nat]
    BY <1>1
  <1>. QED
    BY <1>1, <1>2 DEF AbortOperations

LEMMA SoundRetire ==
    ASSUME TypeOK, NEW t \in Threads, Fits(t), Retire(t), ioCount[ses[t]] # 0
    PROVE  Sound(t, ses[t])
  <1>. DEFINE s == ses[t]
  <1>1. pc[t] = "retire" /\ s \in Sessions
    BY TypesOf DEF Retire
  <1>2. Undoing(t, stack[t]) \/ (t \in Workers /\ stack[t] = OfDone)
    BY <1>1 DEF Fits, FitsAt
  <1>3. /\ Return(t)
        /\ UNCHANGED <<open, lease, short, left, ioCount, sendVars, queueVars,
                       pktVars, locals>>
    BY DEF Retire
  <1>4. /\ pc' \in [Threads -> Pcs] /\ stack' \in [Threads -> Seq(Pcs)]
        /\ Fits(t)'
        /\ \A u \in Threads \ {t} : pc'[u] = pc[u] /\ stack'[u] = stack[u]
    <2>1. CASE Undoing(t, stack[t])
      <3>1. PICK b \in Seq(Pcs) :
               /\ At(t, "finish", b) /\ FitsAt(t, "finish", b)
               /\ Casting(stack[t]) <=> Casting(b)
        BY <1>3, <2>1, ReturnUndoing
      <3>2. Fits(t)'
        BY <1>3, <3>1, FitsThen DEF Fits, locals, EnqueuePcs
      <3>. QED
        BY <3>1, <3>2 DEF At
    <2>2. CASE t \in Workers /\ stack[t] = OfDone
      BY <1>1, <1>3, <2>2, SoundHome DEF Base, At, locals
    <2>. QED
      BY <1>2, <2>1, <2>2
  <1>5. /\ poolState' \in [Sessions -> {"FREE", "IN_USE", "RELEASING"}]
        /\ cancelIo' \in [Sessions -> 0..1] /\ releasePending' \in [Sessions -> 0..1]
        /\ live' \in [Sessions -> [Kinds -> Nat]]
        /\ dying' \in [Sessions -> [Kinds -> Nat]]
        /\ dead' = dead /\ over' = over /\ wire' = wire
        /\ \A x \in Sessions \ {s} :
             /\ poolState'[x] = poolState[x] /\ cancelIo'[x] = cancelIo[x]
             /\ releasePending'[x] = releasePending[x]
             /\ live'[x] = live[x] /\ dying'[x] = dying[x]
    <2>1. /\ poolState \in [Sessions -> {"FREE", "IN_USE", "RELEASING"}]
          /\ cancelIo \in [Sessions -> 0..1] /\ releasePending \in [Sessions -> 0..1]
          /\ live \in [Sessions -> [Kinds -> Nat]]
          /\ dying \in [Sessions -> [Kinds -> Nat]]
          /\ 1 \in 0..1
      BY DEF TypeOK
    <2>2. CASE poolState[s] = "IN_USE"
      <3>1. /\ poolState' = [poolState EXCEPT ![s] = "RELEASING"]
            /\ cancelIo' = [cancelIo EXCEPT ![s] = 1]
            /\ releasePending' = [releasePending EXCEPT ![s] = 1]
            /\ AbortOperations(s)
        BY <2>2 DEF Retire
      <3>. HIDE DEF s
      <3>. QED
        BY <1>1, <2>1, <3>1, AbortTypes
    <2>3. CASE poolState[s] # "IN_USE"
      BY <2>1, <2>3 DEF Retire, kernVars
    <2>. QED
      BY <2>2, <2>3
  <1>. HIDE DEF s
  <1>6. TypeOK'
    BY <1>1, <1>3, <1>4, <1>5 DEF TypeOK, sendVars, queueVars, pktVars, locals
  <1>7. s = ses[t]
    BY DEF s
  <1>8. Frame(t, s)
    BY <1>1, <1>3, <1>4, <1>5, <1>7
       DEF Frame, sendVars, queueVars, pktVars, locals
  <1>. QED
    BY <1>4, <1>6, <1>7, <1>8 DEF Sound

LEMMA SoundComplete ==
    ASSUME TypeOK, NEW t \in Threads, Fits(t), CompleteRelease(t)
    PROVE  Sound(t, ses[t])
  <1>. DEFINE s == ses[t]
  <1>1. pc[t] = "complete" /\ s \in Sessions /\ "resetQueue" \in Pcs
    BY TypesOf DEF CompleteRelease, Pcs, ReleasePcs
  <1>2. At(t, "resetQueue", stack[t])
    BY <1>1, GotoAt DEF CompleteRelease
  <1>3. /\ UNCHANGED <<poolState, lease, short, ioCount, current, offset, queueVars,
                       pktVars, locals>>
        /\ AbortOperations(s)
        /\ open' = [open EXCEPT ![s] = FALSE]
        /\ cancelIo' = [cancelIo EXCEPT ![s] = 0]
        /\ releasePending' = [releasePending EXCEPT ![s] = 0]
        /\ sending' = [sending EXCEPT ![s] = 0]
        /\ left' = [left EXCEPT ![s] = @ \/ On(s) # {t}]
    BY DEF CompleteRelease
  <1>4. s = ses[t]
    OBVIOUS
  <1>. HIDE DEF s
  <1>5. /\ open' \in [Sessions -> BOOLEAN] /\ left' \in [Sessions -> BOOLEAN]
        /\ cancelIo' \in [Sessions -> 0..1] /\ releasePending' \in [Sessions -> 0..1]
        /\ sending' \in [Sessions -> 0..1]
        /\ \A x \in Sessions \ {s} :
             /\ open'[x] = open[x] /\ left'[x] = left[x] /\ cancelIo'[x] = cancelIo[x]
             /\ releasePending'[x] = releasePending[x] /\ sending'[x] = sending[x]
    <2>1. /\ open \in [Sessions -> BOOLEAN] /\ left \in [Sessions -> BOOLEAN]
          /\ cancelIo \in [Sessions -> 0..1] /\ releasePending \in [Sessions -> 0..1]
          /\ sending \in [Sessions -> 0..1]
          /\ 0 \in 0..1
      BY DEF TypeOK
    <2>2. (left[s] \/ On(s) # {t}) \in BOOLEAN
      BY <2>1, <1>1
    <2>3. left' \in [Sessions -> BOOLEAN] /\ \A x \in Sessions \ {s} : left'[x] = left[x]
      BY <1>1, <1>3, <2>1, <2>2
    <2>. QED
      BY <1>1, <1>3, <2>1, <2>3
  <1>6. TypeOK'
    BY <1>1, <1>2, <1>3, <1>5, AbortTypes DEF TypeOK, At, queueVars, pktVars, locals
  <1>7. Frame(t, s)
    <2>1. /\ \A x \in Sessions \ {s} : live'[x] = live[x] /\ dying'[x] = dying[x]
          /\ dead' = dead /\ over' = over /\ wire' = wire
      BY <1>1, <1>3, AbortTypes
    <2>. QED
      BY <1>2, <1>3, <1>4, <1>5, <2>1 DEF Frame, At, queueVars, pktVars, locals
  <1>8. FitsAt(t, "resetQueue", stack[t])
    BY <1>1 DEF Fits, FitsAt, LastPcs, ResetPcs, EnqueuePcs, PostPcs, DropPcs
  <1>9. Fits(t)'
    BY <1>2, <1>3, <1>8, FitsThen DEF Fits, locals, EnqueuePcs
  <1>. QED
    BY <1>4, <1>6, <1>7, <1>9 DEF Sound

LEMMA SoundReset ==
    ASSUME TypeOK, NEW t \in Threads, Fits(t),
           ResetQueue(t) \/ ResetCurrent(t) \/ Free(t)
    PROVE  Sound(t, ses[t])
  <1>. DEFINE s == ses[t]
  <1>1. pc[t] \in ResetPcs /\ s \in Sessions
        /\ "resetCurrent" \in Pcs /\ "free" \in Pcs
    BY TypesOf DEF ResetQueue, ResetCurrent, Free, Pcs, ReleasePcs, ResetPcs
  <1>2. Base(t, stack[t]) \/ (t \in Workers /\ stack[t] = <<>>)
    BY <1>1 DEF Fits, FitsAt, LastPcs
  <1>3. \A l \in {"resetCurrent", "free"} : FitsAt(t, l, stack[t])
    BY <1>2 DEF FitsAt, LastPcs, ResetPcs, EnqueuePcs, PostPcs, DropPcs
  <1>4. s = ses[t]
    OBVIOUS
  <1>. HIDE DEF s
  <1>5. CASE ResetQueue(t)
    <2>1. At(t, "resetCurrent", stack[t])
      BY <1>1, <1>5, GotoAt DEF ResetQueue
    <2>2. Fits(t)'
      BY <1>1, <1>3, <1>5, <2>1, FitsThen
         DEF Fits, locals, EnqueuePcs, ResetPcs, ResetQueue
    <2>3. /\ refs' = [p \in Packets |-> refs[p] - Queued(s, p)]
          /\ queue' = [queue EXCEPT ![s] = <<>>]
          /\ UNCHANGED <<leaseVars, ioVars, kernVars, sendVars, accepted, made, locals>>
      BY <1>4, <1>5 DEF ResetQueue
    <2>4. /\ queue' \in [Sessions -> Seq(Packets)]
          /\ \A x \in Sessions \ {s} : queue'[x] = queue[x]
          /\ \A x \in Sessions : Len(queue'[x]) <= QueueDepth
      <3>1. queue \in [Sessions -> Seq(Packets)] /\ \A x \in Sessions : Len(queue[x]) <= QueueDepth
        BY DEF TypeOK
      <3>2. <<>> \in Seq(Packets) /\ Len(<<>>) <= QueueDepth
        BY DepthAssumption
      <3>. QED
        BY <1>1, <2>3, <3>1, <3>2
    <2>5. refs' \in [Packets -> Int]
      <3>1. \A p \in Packets : Queued(s, p) \in Nat
        <4>. SUFFICES ASSUME NEW p \in Packets
                      PROVE  Queued(s, p) \in Nat
          OBVIOUS
        <4>1. queue[s] \in Seq(Packets)
          BY <1>1 DEF TypeOK
        <4>2. IsFiniteSet(1 .. Len(queue[s])) /\ DOMAIN queue[s] = 1 .. Len(queue[s])
          BY <4>1, FS_Interval
        <4>3. IsFiniteSet({i \in DOMAIN queue[s] : queue[s][i] = p})
          BY <4>2, FS_Subset
        <4>. QED
          BY <4>3, FS_CardinalityType DEF Queued
      <3>2. refs \in [Packets -> Int]
        BY DEF TypeOK
      <3>. QED
        BY <2>3, <3>1, <3>2
    <2>6. TypeOK'
      <3>1. TypeLease' /\ TypeThreads'
        BY <2>1, <2>3, TypeParts
           DEF TypeLease, TypeThreads, At, leaseVars, ioVars, kernVars, locals
      <3>2. TypePackets'
        BY <2>3, <2>4, <2>5, TypeParts DEF TypePackets, kernVars, sendVars
      <3>. QED
        BY <3>1, <3>2, TypeParts
    <2>7. Frame(t, s)
      BY <1>4, <2>1, <2>3, <2>4
         DEF Frame, At, leaseVars, ioVars, kernVars, sendVars, locals
    <2>. QED
      BY <1>4, <2>2, <2>6, <2>7 DEF Sound
  <1>6. CASE ResetCurrent(t)
    <2>1. At(t, "free", stack[t])
      BY <1>1, <1>6, GotoAt DEF ResetCurrent
    <2>2. Fits(t)'
      BY <1>1, <1>3, <1>6, <2>1, FitsThen
         DEF Fits, locals, EnqueuePcs, ResetPcs, ResetCurrent
    <2>3. /\ Release(current[s])
          /\ UNCHANGED <<leaseVars, ioVars, kernVars, sendVars, queueVars, made, locals>>
      BY <1>4, <1>6 DEF ResetCurrent
    <2>4. refs' \in [Packets -> Int]
      BY <1>1, <2>3 DEF TypeOK, Release
    <2>5. TypeOK'
      BY <2>1, <2>3, <2>4
         DEF TypeOK, At, leaseVars, ioVars, kernVars, sendVars, queueVars, locals
    <2>6. Frame(t, s)
      BY <1>4, <2>1, <2>3
         DEF Frame, At, leaseVars, ioVars, kernVars, sendVars, queueVars, locals
    <2>. QED
      BY <1>4, <2>2, <2>5, <2>6 DEF Sound
  <1>7. CASE Free(t)
    <2>1. Return(t) /\ UNCHANGED locals /\ pc[t] = "free"
      BY <1>7 DEF Free
    <2>2. /\ pc' \in [Threads -> Pcs] /\ stack' \in [Threads -> Seq(Pcs)]
          /\ Fits(t)'
          /\ \A u \in Threads \ {t} : pc'[u] = pc[u] /\ stack'[u] = stack[u]
      BY <1>2, <2>1, SoundHome DEF At
    <2>3. /\ current' = [current EXCEPT ![s] = NoPacket]
          /\ offset' = [offset EXCEPT ![s] = 0]
          /\ poolState' = [poolState EXCEPT ![s] = "FREE"]
          /\ UNCHANGED <<open, lease, short, left, ioVars, kernVars, sending,
                         queueVars, pktVars, locals>>
      BY <1>4, <1>7 DEF Free
    <2>4. 0 \in 0..PacketSize
      BY DepthAssumption
    <2>5. offset' \in [Sessions -> 0..PacketSize]
          /\ current' \in [Sessions -> Packets \cup {NoPacket}]
          /\ poolState' \in [Sessions -> {"FREE", "IN_USE", "RELEASING"}]
      BY <1>1, <2>3, <2>4 DEF TypeOK
    <2>6. TypeOK'
      BY <2>2, <2>3, <2>5
         DEF TypeOK, ioVars, kernVars, queueVars, pktVars, locals
    <2>7. Frame(t, s)
      BY <1>1, <1>4, <2>2, <2>3
         DEF Frame, TypeOK, ioVars, kernVars, queueVars, pktVars, locals
    <2>. QED
      BY <1>4, <2>2, <2>6, <2>7 DEF Sound
  <1>. QED
    BY <1>4, <1>5, <1>6, <1>7

(* The control of a step within the session.                               *)
Moves(t) ==
    /\ pc' \in [Threads -> Pcs] /\ stack' \in [Threads -> Seq(Pcs)] /\ Fits(t)'
    /\ UNCHANGED locals
    /\ \A u \in Threads \ {t} : pc'[u] = pc[u] /\ stack'[u] = stack[u]

LEMMA MovesOn ==
    ASSUME TypeOK, NEW t \in Threads, Fits(t), NEW l \in Pcs, Goto(t, l),
           FitsAt(t, l, stack[t]), UNCHANGED locals,
           l \in EnqueuePcs => pc[t] \in EnqueuePcs, l # "nextTarget"
    PROVE  Moves(t) /\ pc'[t] = l /\ stack'[t] = stack[t]
  <1>1. At(t, l, stack[t])
    BY GotoAt
  <1>2. Fits(t)'
    BY <1>1, FitsThen DEF Fits, locals
  <1>. QED
    BY <1>1, <1>2 DEF Moves, At

LEMMA MovesHome ==
    ASSUME TypeOK, NEW t \in Threads, Fits(t), pc[t] \notin {"idle", "nextTarget"},
           Return(t), Base(t, stack[t]) \/ (t \in Workers /\ stack[t] = <<>>),
           UNCHANGED locals
    PROVE  Moves(t) /\ pc'[t] \in HomePcs
  BY SoundHome DEF Moves, At

(* Steps that change nothing but where the thread is.                      *)
LEMMA SoundMove ==
    ASSUME TypeOK, NEW t \in Threads, Moves(t), pc[t] \notin {"idle", "nextTarget"},
           UNCHANGED <<leaseVars, ioVars, kernVars, sendVars, queueVars, pktVars>>
    PROVE  Sound(t, ses[t])
  <1>1. TypeOK'
    BY DEF TypeOK, Moves, leaseVars, ioVars, kernVars, sendVars, queueVars, pktVars,
           locals
  <1>2. Frame(t, ses[t])
    BY DEF Moves, Frame, leaseVars, ioVars, kernVars, sendVars, queueVars, pktVars,
           locals
  <1>. QED
    BY <1>1, <1>2 DEF Sound, Moves

(* Steps at l of TrySendNext and PostCurrentSend.                          *)
LEMMA PostsOn ==
    ASSUME TypeOK, NEW t \in Threads, Fits(t), pc[t] \in PostPcs, UNCHANGED locals,
           NEW l \in PostPcs \cup {"dropCurrent", "finish"}, Goto(t, l)
    PROVE  Moves(t) /\ pc'[t] = l /\ stack'[t] = stack[t]
  <1>1. Base(t, stack[t])
    BY DEF Fits, FitsAt
  <1>2. FitsAt(t, l, stack[t]) /\ l \in Pcs /\ l # "nextTarget" /\ l \notin EnqueuePcs
    BY <1>1 DEF FitsAt, EnqueuePcs, PostPcs, DropPcs, LastPcs, ResetPcs, Pcs, SendPcs
  <1>. QED
    BY <1>2, MovesOn

LEMMA PostsHome ==
    ASSUME TypeOK, NEW t \in Threads, Fits(t), pc[t] \in PostPcs, UNCHANGED locals,
           Return(t)
    PROVE  Moves(t) /\ pc'[t] \in HomePcs
  <1>1. Base(t, stack[t])
    BY DEF Fits, FitsAt
  <1>. QED
    BY <1>1, MovesHome DEF PostPcs

LEMMA SoundTry ==
    ASSUME TypeOK, NEW t \in Threads, Fits(t), TrySendNext(t) \/ SetIdle(t)
    PROVE  Sound(t, ses[t])
  <1>1. PICK v \in {0, 1} : sending' = [sending EXCEPT ![ses[t]] = v]
    BY DEF TrySendNext, SetIdle
  <1>2. UNCHANGED <<leaseVars, ioVars, kernVars, current, offset, queueVars, pktVars,
                    locals>>
    BY DEF TrySendNext, SetIdle
  <1>3. Moves(t) /\ pc[t] \notin {"idle", "nextTarget"}
    <2>1. pc[t] \in PostPcs /\ (Return(t) \/ \E l \in {"dequeue", "recheck"} : Goto(t, l))
      BY DEF TrySendNext, SetIdle, PostPcs
    <2>2. {"dequeue", "recheck"} \subseteq PostPcs
      BY DEF PostPcs
    <2>. QED
      BY <1>2, <2>1, <2>2, PostsOn, PostsHome DEF PostPcs
  <1>4. /\ sending' \in [Sessions -> 0..1]
        /\ \A x \in Sessions \ {ses[t]} : sending'[x] = sending[x]
    BY <1>1, TypesOf DEF TypeOK
  <1>5. TypeLease' /\ TypePackets' /\ TypeThreads'
    BY <1>2, <1>3, <1>4, TypeParts
       DEF TypeLease, TypePackets, TypeThreads, Moves, leaseVars, ioVars, kernVars,
           queueVars, pktVars, locals
  <1>6. Frame(t, ses[t])
    BY <1>2, <1>3, <1>4
       DEF Frame, Moves, leaseVars, ioVars, kernVars, queueVars, pktVars, locals
  <1>. QED
    BY <1>3, <1>5, <1>6, TypeParts DEF Sound, Moves

LEMMA SoundDequeue ==
    ASSUME TypeOK, NEW t \in Threads, Fits(t), Dequeue(t)
    PROVE  Sound(t, ses[t])
  <1>. DEFINE s == ses[t]
  <1>1. UNCHANGED <<leaseVars, ioVars, kernVars, sending, accepted, pktVars, locals>>
    BY DEF Dequeue
  <1>2. Moves(t) /\ pc[t] \notin {"idle", "nextTarget"}
    <2>1. pc[t] \in PostPcs /\ \E l \in {"prepare", "setIdle"} : Goto(t, l)
      BY DEF Dequeue, PostPcs
    <2>2. {"prepare", "setIdle"} \subseteq PostPcs
      BY DEF PostPcs
    <2>. QED
      BY <1>1, <2>1, <2>2, PostsOn DEF PostPcs
  <1>3. CASE UNCHANGED <<queue, current, offset>>
    <2>1. UNCHANGED <<sendVars, queueVars>>
      BY <1>1, <1>3 DEF sendVars, queueVars
    <2>. QED
      BY <1>1, <1>2, <2>1, SoundMove
  <1>4. CASE /\ queue[s] # <<>>
             /\ current' = [current EXCEPT ![s] = Head(queue[s])]
             /\ queue' = [queue EXCEPT ![s] = Tail(@)]
             /\ offset' = [offset EXCEPT ![s] = 0]
    <2>1. /\ queue \in [Sessions -> Seq(Packets)] /\ s \in Sessions
          /\ \A x \in Sessions : Len(queue[x]) <= QueueDepth
      BY TypesOf DEF TypeOK
    <2>2. /\ Tail(queue[s]) \in Seq(Packets) /\ Head(queue[s]) \in Packets
          /\ Len(Tail(queue[s])) <= QueueDepth
      BY <1>4, <2>1, DepthAssumption
    <2>3. s = ses[t]
      OBVIOUS
    <2>. HIDE DEF s
    <2>4. /\ queue' \in [Sessions -> Seq(Packets)]
          /\ \A x \in Sessions : Len(queue'[x]) <= QueueDepth
          /\ \A x \in Sessions \ {s} : queue'[x] = queue[x]
      BY <1>4, <2>1, <2>2
    <2>5. /\ current' \in [Sessions -> Packets \cup {NoPacket}]
          /\ \A x \in Sessions \ {s} : current'[x] = current[x]
      BY <1>4, <2>1, <2>2 DEF TypeOK
    <2>6. /\ offset' \in [Sessions -> 0..PacketSize]
          /\ \A x \in Sessions \ {s} : offset'[x] = offset[x]
      BY <1>4, <2>1, DepthAssumption DEF TypeOK
    <2>7. TypeLease' /\ TypePackets' /\ TypeThreads'
      BY <1>1, <1>2, <2>4, <2>5, <2>6, TypeParts
         DEF TypeLease, TypePackets, TypeThreads, Moves, leaseVars, ioVars, kernVars,
             pktVars, locals
    <2>8. Frame(t, s)
      BY <1>1, <1>2, <2>3, <2>4, <2>5, <2>6
         DEF Frame, Moves, leaseVars, ioVars, kernVars, pktVars, locals
    <2>. QED
      BY <1>2, <2>3, <2>7, <2>8, TypeParts DEF Sound, Moves
  <1>. QED
    BY <1>3, <1>4 DEF Dequeue

LEMMA SoundRecheckGate ==
    ASSUME TypeOK, NEW t \in Threads, Fits(t), Recheck(t) \/ Gate(t)
    PROVE  Sound(t, ses[t])
  <1>1. UNCHANGED <<leaseVars, ioVars, kernVars, sendVars, queueVars, pktVars, locals>>
    BY DEF Recheck, Gate
  <1>2. pc[t] \in PostPcs /\ (Return(t) \/ \E l \in {"try", "issue", "finish"} : Goto(t, l))
    BY DEF Recheck, Gate, PostPcs
  <1>3. {"try", "issue", "finish"} \subseteq PostPcs \cup {"dropCurrent", "finish"}
    BY DEF PostPcs
  <1>4. Moves(t)
    BY <1>1, <1>2, <1>3, PostsOn, PostsHome
  <1>. QED
    BY <1>1, <1>2, <1>4, SoundMove DEF PostPcs

LEMMA SoundPrepare ==
    ASSUME TypeOK, NEW t \in Threads, Fits(t), Prepare(t)
    PROVE  Sound(t, ses[t])
  <1>. DEFINE s == ses[t]
  <1>1. UNCHANGED <<leaseVars, ioVars, live, dying, dead, wire, sendVars, queueVars,
                    pktVars, locals>>
    BY DEF Prepare
  <1>2. Moves(t) /\ pc[t] \notin {"idle", "nextTarget"}
    <2>1. pc[t] \in PostPcs /\ (Return(t) \/ \E l \in {"begin", "dropCurrent"} : Goto(t, l))
      BY DEF Prepare, PostPcs
    <2>2. {"begin", "dropCurrent"} \subseteq PostPcs \cup {"dropCurrent", "finish"}
      BY DEF PostPcs
    <2>. QED
      BY <1>1, <2>1, <2>2, PostsOn, PostsHome DEF PostPcs
  <1>3. s = ses[t] /\ s \in Sessions
    BY TypesOf
  <1>4. over' = over \/ over' = [over EXCEPT ![s] = current[s]]
    BY DEF Prepare
  <1>. HIDE DEF s
  <1>5. /\ over' \in [Sessions -> Packets \cup {NoPacket}]
        /\ \A x \in Sessions \ {s} : over'[x] = over[x]
    <2>1. /\ over \in [Sessions -> Packets \cup {NoPacket}]
          /\ current[s] \in Packets \cup {NoPacket}
      BY <1>3 DEF TypeOK
    <2>. QED
      BY <1>3, <1>4, <2>1
  <1>6. TypeLease' /\ TypePackets' /\ TypeThreads'
    BY <1>1, <1>2, <1>5, TypeParts
       DEF TypeLease, TypePackets, TypeThreads, Moves, leaseVars, ioVars, sendVars,
           queueVars, pktVars, locals
  <1>7. Frame(t, s)
    BY <1>1, <1>2, <1>3, <1>5
       DEF Frame, Moves, leaseVars, ioVars, sendVars, queueVars, pktVars, locals
  <1>. QED
    BY <1>2, <1>3, <1>6, <1>7, TypeParts DEF Sound, Moves

LEMMA SoundBeginIO ==
    ASSUME TypeOK, NEW t \in Threads, Fits(t), BeginIO(t)
    PROVE  Sound(t, ses[t])
  <1>1. UNCHANGED <<leaseVars, cancelIo, releasePending, kernVars, sendVars, queueVars,
                    pktVars, locals>>
    BY DEF BeginIO
  <1>2. Moves(t) /\ pc[t] \notin {"idle", "nextTarget"}
    <2>1. pc[t] \in PostPcs /\ "gate" \in PostPcs /\ Goto(t, "gate")
      BY DEF BeginIO, PostPcs
    <2>. QED
      BY <1>1, <2>1, PostsOn DEF PostPcs
  <1>3. /\ ioCount' \in [Sessions -> Int]
        /\ \A x \in Sessions \ {ses[t]} : ioCount'[x] = ioCount[x]
    <2>1. ioCount \in [Sessions -> Int] /\ ses[t] \in Sessions
      BY DEF TypeOK
    <2>2. ioCount' = [ioCount EXCEPT ![ses[t]] = @ + 1]
      BY DEF BeginIO
    <2>. QED
      BY <2>1, <2>2
  <1>4. TypeLease' /\ TypePackets' /\ TypeThreads'
    BY <1>1, <1>2, <1>3, TypeParts
       DEF TypeLease, TypePackets, TypeThreads, Moves, leaseVars, kernVars, sendVars,
           queueVars, pktVars, locals
  <1>5. Frame(t, ses[t])
    BY <1>1, <1>2, <1>3
       DEF Frame, Moves, leaseVars, kernVars, sendVars, queueVars, pktVars, locals
  <1>. QED
    BY <1>2, <1>4, <1>5, TypeParts DEF Sound, Moves

LEMMA SoundIssueSucceeds ==
    ASSUME TypeOK, NEW t \in Threads, Fits(t), IssueSucceeds(t)
    PROVE  Sound(t, ses[t])
  <1>1. UNCHANGED <<leaseVars, ioVars, dying, dead, over, wire, sendVars, queueVars,
                    pktVars, locals>>
    BY DEF IssueSucceeds
  <1>2. Moves(t) /\ pc[t] \notin {"idle", "nextTarget"}
    BY <1>1, PostsHome DEF PostPcs, IssueSucceeds
  <1>3. /\ live' \in [Sessions -> [Kinds -> Nat]]
        /\ \A x \in Sessions \ {ses[t]} : live'[x] = live[x]
    <2>1. live \in [Sessions -> [Kinds -> Nat]] /\ "send" \in Kinds
      BY DEF TypeOK, Kinds
    <2>. QED
      BY <2>1, TypesOf DEF IssueSucceeds
  <1>4. TypeLease' /\ TypePackets' /\ TypeThreads'
    BY <1>1, <1>2, <1>3, TypeParts
       DEF TypeLease, TypePackets, TypeThreads, Moves, leaseVars, ioVars, sendVars,
           queueVars, pktVars, locals
  <1>5. Frame(t, ses[t])
    BY <1>1, <1>2, <1>3
       DEF Frame, Moves, leaseVars, ioVars, sendVars, queueVars, pktVars, locals
  <1>. QED
    BY <1>2, <1>4, <1>5, TypeParts DEF Sound, Moves

LEMMA SoundIssueFails ==
    ASSUME TypeOK, NEW t \in Threads, Fits(t), IssueFails(t)
    PROVE  Sound(t, ses[t]) /\ pc'[t] = "dropCurrent"
  <1>1. UNCHANGED <<poolState, open, lease, left, ioVars, live, dying, over, wire,
                    sendVars, queueVars, pktVars, locals>>
    BY DEF IssueFails
  <1>2. pc[t] = "issue" /\ Base(t, stack[t])
    BY DEF IssueFails, Fits, FitsAt, PostPcs
  <1>3. /\ stack[t] \in Seq(Pcs) /\ "dropCurrent" \in Pcs
        /\ Then("finish", stack[t]) \in Seq(Pcs)
    BY <1>2, Shapes, Frames, ThenFacts DEF Pcs, SendPcs
  <1>4. Moves(t) /\ pc'[t] = "dropCurrent"
    <2>1. PICK q \in {Then("finish", stack[t]), Then("retire", Then("finish", stack[t]))} :
            At(t, "dropCurrent", q)
      BY <1>3, CallAt, Frames DEF IssueFails
    <2>2. FitsAt(t, "dropCurrent", q)
      BY <1>2, Shapes DEF FitsAt, EnqueuePcs, PostPcs, DropPcs, LastPcs, ResetPcs
    <2>3. Casting(q) => Casting(stack[t])
      <3>1. Casting(Then("finish", stack[t])) <=> Casting(stack[t])
        BY <1>3, Frames, ThenFacts
      <3>2. "retire" \in Pcs
        BY Frames
      <3>3. Casting(Then("retire", Then("finish", stack[t])))
              <=> Casting(Then("finish", stack[t]))
        BY <1>3, <3>2, ThenFacts
      <3>. QED
        BY <2>1, <3>1, <3>3
    <2>4. Fits(t)'
      BY <1>1, <2>1, <2>2, <2>3, FitsThen DEF Fits, locals, EnqueuePcs
    <2>. QED
      BY <1>1, <2>1, <2>4 DEF Moves, At
  <1>5. /\ dead' \in [Sessions -> BOOLEAN] /\ short' \in [Sessions -> BOOLEAN]
        /\ \A x \in Sessions \ {ses[t]} : dead'[x] = dead[x] /\ short'[x] = short[x]
    BY TypesOf DEF IssueFails, TypeOK
  <1>6. TypeLease' /\ TypePackets' /\ TypeThreads'
    BY <1>1, <1>4, <1>5, TypeParts
       DEF TypeLease, TypePackets, TypeThreads, Moves, ioVars, sendVars, queueVars,
           pktVars, locals
  <1>7. Frame(t, ses[t])
    BY <1>1, <1>2, <1>4, <1>5
       DEF Frame, Moves, ioVars, sendVars, queueVars, pktVars, locals
  <1>. QED
    BY <1>4, <1>6, <1>7, TypeParts DEF Sound, Moves

LEMMA SoundDropCurrent ==
    ASSUME TypeOK, NEW t \in Threads, Fits(t), DropCurrent(t)
    PROVE  Sound(t, ses[t])
  <1>1. UNCHANGED <<leaseVars, ioVars, kernVars, sendVars, queueVars, made, locals>>
        /\ pc[t] = "dropCurrent"
    BY DEF DropCurrent
  <1>2. Moves(t)
    <2>1. FitsAt(t, "dropToken", stack[t]) /\ "dropToken" \in Pcs
      BY <1>1 DEF Fits, FitsAt, EnqueuePcs, PostPcs, DropPcs, LastPcs, ResetPcs, Pcs,
                  SendPcs
    <2>. QED
      BY <1>1, <2>1, MovesOn DEF DropCurrent, EnqueuePcs
  <1>3. refs' \in [Packets -> Int]
    BY DEF TypeOK, DropCurrent, Release
  <1>4. TypeLease' /\ TypePackets' /\ TypeThreads'
    BY <1>1, <1>2, <1>3, TypeParts
       DEF TypeLease, TypePackets, TypeThreads, Moves, leaseVars, ioVars, kernVars,
           sendVars, queueVars, locals
  <1>5. Frame(t, ses[t])
    BY <1>1, <1>2
       DEF Frame, Moves, leaseVars, ioVars, kernVars, sendVars, queueVars, locals
  <1>. QED
    BY <1>2, <1>4, <1>5, TypeParts DEF Sound, Moves

(* Where DropToken returns to.                                             *)
LEMMA DropsTo ==
    ASSUME TypeOK, NEW t \in Threads, Fits(t), DropToken(t)
    PROVE  /\ Moves(t)
           /\ Trying(t, stack[t]) => pc'[t] = "try" /\ stack'[t] = OfDone
           /\ Retiring(t, stack[t]) => pc'[t] = "retire" /\ Undoing(t, stack'[t])
           /\ Undoing(t, stack[t]) => pc'[t] = "finish" /\ Base(t, stack'[t])
           /\ Base(t, stack[t]) => pc'[t] \in HomePcs /\ stack'[t] = <<>>
           /\ pc'[t] \in HomePcs \cup {"try", "retire"}
  <1>1. /\ pc[t] = "dropToken" /\ Return(t) /\ UNCHANGED locals
        /\ \/ Base(t, stack[t]) \/ Trying(t, stack[t]) \/ Undoing(t, stack[t])
           \/ Retiring(t, stack[t])
    BY DEF DropToken, Fits, FitsAt, DropPcs
  <1>2. CASE Base(t, stack[t])
    <2>1. Moves(t) /\ pc'[t] \in HomePcs /\ stack'[t] = <<>>
      BY <1>1, <1>2, MovesHome, ReturnHome DEF At
    <2>. QED
      BY <1>2, <2>1, Shapes
  <1>3. CASE Trying(t, stack[t])
    <2>1. At(t, "try", OfDone) /\ FitsAt(t, "try", OfDone)
      BY <1>1, <1>3, ReturnTrying
    <2>2. Fits(t)'
      BY <2>1, FitsThen, Frames DEF EnqueuePcs
    <2>3. Moves(t) /\ pc'[t] = "try" /\ stack'[t] = OfDone
      BY <1>1, <2>1, <2>2 DEF At, Moves
    <2>. QED
      BY <1>3, <2>3, Shapes
  <1>4. CASE Undoing(t, stack[t])
    <2>1. PICK b \in Seq(Pcs) :
             /\ At(t, "finish", b) /\ Base(t, b) /\ FitsAt(t, "finish", b)
             /\ Casting(stack[t]) <=> Casting(b)
      BY <1>1, <1>4, ReturnUndoing
    <2>2. Fits(t)'
      BY <1>1, <2>1, FitsThen DEF EnqueuePcs, Fits, locals
    <2>3. Moves(t) /\ pc'[t] = "finish" /\ Base(t, stack'[t])
      BY <1>1, <2>1, <2>2 DEF At, Moves
    <2>. QED
      BY <1>4, <2>3, Shapes DEF HomePcs
  <1>5. CASE Retiring(t, stack[t])
    <2>1. PICK q \in Seq(Pcs) :
             /\ At(t, "retire", q) /\ Undoing(t, q) /\ FitsAt(t, "retire", q)
             /\ Casting(stack[t]) <=> Casting(q)
      BY <1>1, <1>5, ReturnRetiring
    <2>2. Fits(t)'
      BY <1>1, <2>1, FitsThen DEF EnqueuePcs, Fits, locals
    <2>3. Moves(t) /\ pc'[t] = "retire" /\ Undoing(t, stack'[t])
      BY <1>1, <2>1, <2>2 DEF At, Moves
    <2>. QED
      BY <1>5, <2>3, Shapes DEF HomePcs
  <1>. QED
    BY <1>1, <1>2, <1>3, <1>4, <1>5

LEMMA SoundDropToken ==
    ASSUME TypeOK, NEW t \in Threads, Fits(t), DropToken(t)
    PROVE  Sound(t, ses[t])
  <1>. DEFINE s == ses[t]
  <1>1. /\ UNCHANGED <<leaseVars, ioVars, kernVars, queueVars, pktVars, locals>>
        /\ pc[t] = "dropToken"
        /\ current' = [current EXCEPT ![s] = NoPacket]
        /\ offset' = [offset EXCEPT ![s] = 0]
        /\ sending' = [sending EXCEPT ![s] = 0]
    BY DEF DropToken
  <1>2. Moves(t)
    BY DropsTo
  <1>3. s = ses[t] /\ s \in Sessions
    BY TypesOf
  <1>. HIDE DEF s
  <1>4. /\ sending' \in [Sessions -> 0..1]
        /\ \A x \in Sessions \ {s} : sending'[x] = sending[x]
    BY <1>1, <1>3 DEF TypeOK
  <1>5. /\ current' \in [Sessions -> Packets \cup {NoPacket}]
        /\ \A x \in Sessions \ {s} : current'[x] = current[x]
    BY <1>1, <1>3 DEF TypeOK
  <1>6. /\ offset' \in [Sessions -> 0..PacketSize]
        /\ \A x \in Sessions \ {s} : offset'[x] = offset[x]
    BY <1>1, <1>3, DepthAssumption DEF TypeOK
  <1>7. TypeLease' /\ TypePackets' /\ TypeThreads'
    <2>1. TypeLease' /\ TypeThreads'
      BY <1>1, <1>2, TypeParts
         DEF TypeLease, TypeThreads, Moves, leaseVars, ioVars, kernVars, locals
    <2>2. TypePackets'
      BY <1>1, <1>4, <1>5, <1>6, TypeParts
         DEF TypePackets, kernVars, queueVars, pktVars
    <2>. QED
      BY <2>1, <2>2
  <1>8. Frame(t, s)
    BY <1>1, <1>2, <1>3, <1>4, <1>5, <1>6
       DEF Frame, Moves, leaseVars, ioVars, kernVars, queueVars, pktVars, locals
  <1>. QED
    BY <1>2, <1>3, <1>7, <1>8, TypeParts DEF Sound, Moves

LEMMA SoundSent ==
    ASSUME TypeOK, NEW t \in Threads, Fits(t), OnSendCompleted(t)
    PROVE  /\ Sound(t, ses[t])
           /\ pc'[t] = "dropCurrent" => stack'[t] = Then("try", stack[t])
  <1>1. /\ UNCHANGED <<leaseVars, ioVars, kernVars, sendVars, queueVars, pktVars, locals>>
        /\ pc[t] = "sent" /\ t \in Workers /\ stack[t] = OfDone
    BY DEF OnSendCompleted, Fits, FitsAt
  <1>2. Base(t, stack[t])
    BY <1>1 DEF Base
  <1>3. CASE Return(t)
    <2>1. Moves(t) /\ pc'[t] \in HomePcs
      BY <1>1, <1>2, <1>3, MovesHome
    <2>. QED
      BY <1>1, <2>1, SoundMove DEF HomePcs
  <1>4. CASE Goto(t, "prepare")
    <2>1. FitsAt(t, "prepare", stack[t]) /\ "prepare" \in Pcs
      BY <1>2 DEF FitsAt, EnqueuePcs, PostPcs, DropPcs, LastPcs, ResetPcs, Pcs, SendPcs
    <2>2. Moves(t) /\ pc'[t] = "prepare"
      BY <1>1, <1>4, <2>1, MovesOn DEF EnqueuePcs
    <2>. QED
      BY <1>1, <2>2, SoundMove
  <1>5. CASE Call(t, "dropCurrent", <<"try">>)
    <2>1. "dropCurrent" \in Pcs
      BY DEF Pcs, SendPcs
    <2>2. At(t, "dropCurrent", Then("try", stack[t]))
      BY <1>5, <2>1, CallAt, Frames
    <2>3. FitsAt(t, "dropCurrent", Then("try", stack[t]))
      BY <1>1 DEF FitsAt, Trying, EnqueuePcs, PostPcs, DropPcs, LastPcs, ResetPcs
    <2>4. ~Casting(Then("try", stack[t]))
      BY <1>1, Frames, ThenFacts
    <2>5. Fits(t)'
      BY <2>2, <2>3, <2>4, FitsThen DEF EnqueuePcs
    <2>6. Moves(t)
      BY <1>1, <2>2, <2>5 DEF Moves, At
    <2>. QED
      BY <1>1, <2>2, <2>6, SoundMove DEF At
  <1>. QED
    BY <1>3, <1>4, <1>5 DEF OnSendCompleted

LEMMA SoundCanSend ==
    ASSUME TypeOK, NEW t \in Threads, Fits(t), CanSendPacket(t)
    PROVE  Sound(t, ses[t])
  <1>1. /\ UNCHANGED <<leaseVars, ioVars, kernVars, sendVars, queueVars, pktVars, locals>>
        /\ pc[t] = "canSend" /\ Base(t, stack[t])
    BY DEF CanSendPacket, Fits, FitsAt, EnqueuePcs
  <1>2. PICK l \in {"push", "discard"} : Goto(t, l)
    BY DEF CanSendPacket
  <1>3. FitsAt(t, l, stack[t]) /\ l \in Pcs
    BY <1>1 DEF FitsAt, EnqueuePcs, PostPcs, DropPcs, LastPcs, ResetPcs, Pcs, AwayPcs
  <1>4. Moves(t)
    BY <1>1, <1>2, <1>3, MovesOn DEF EnqueuePcs
  <1>. QED
    BY <1>1, <1>4, SoundMove

(* What t has in its hands is a packet.                                    *)
LEMMA InHandIsPacket ==
    ASSUME TypeOK, NEW t \in Threads, Fits(t),
           pc[t] \in EnqueuePcs \cup {"nextTarget"}
    PROVE  pkt[t] \in Packets
  BY TypesOf DEF Fits

LEMMA SoundPushBack ==
    ASSUME TypeOK, NEW t \in Threads, Fits(t), PushBack(t)
    PROVE  Sound(t, ses[t])
  <1>. DEFINE s == ses[t]
  <1>1. /\ UNCHANGED <<leaseVars, ioVars, kernVars, sendVars, pktVars, locals>>
        /\ pc[t] = "push" /\ Base(t, stack[t])
    BY DEF PushBack, Fits, FitsAt, EnqueuePcs
  <1>2. \A l \in {"try", "discard"} : FitsAt(t, l, stack[t]) /\ l \in Pcs
    BY <1>1 DEF FitsAt, EnqueuePcs, PostPcs, DropPcs, LastPcs, ResetPcs, Pcs, AwayPcs,
                SendPcs
  <1>3. Moves(t)
    <2>1. \E l \in {"try", "discard"} : Goto(t, l)
      BY DEF PushBack
    <2>. QED
      BY <1>1, <1>2, <2>1, MovesOn DEF EnqueuePcs
  <1>4. s = ses[t] /\ s \in Sessions /\ pkt[t] \in Packets
    BY <1>1, TypesOf, InHandIsPacket DEF EnqueuePcs
  <1>5. CASE UNCHANGED queueVars
    BY <1>1, <1>3, <1>5, SoundMove
  <1>6. CASE ~(Len(queue[s]) >= QueueDepth)
    <2>1. /\ queue' = [queue EXCEPT ![s] = Append(@, pkt[t])]
          /\ accepted' = [accepted EXCEPT ![s] = Append(@, pkt[t])]
      BY <1>6 DEF PushBack
    <2>2. /\ queue \in [Sessions -> Seq(Packets)] /\ accepted \in [Sessions -> Seq(Packets)]
          /\ \A x \in Sessions : Len(queue[x]) <= QueueDepth
      BY DEF TypeOK
    <2>. HIDE DEF s
    <2>3. Len(Append(queue[s], pkt[t])) <= QueueDepth
      BY <1>4, <1>6, <2>2, DepthAssumption
    <2>4. /\ queue' \in [Sessions -> Seq(Packets)]
          /\ \A x \in Sessions : Len(queue'[x]) <= QueueDepth
          /\ \A x \in Sessions \ {s} : queue'[x] = queue[x]
      BY <1>4, <2>1, <2>2, <2>3
    <2>5. /\ accepted' \in [Sessions -> Seq(Packets)]
          /\ \A x \in Sessions \ {s} : accepted'[x] = accepted[x]
      BY <1>4, <2>1, <2>2
    <2>6. TypeLease' /\ TypeThreads'
      BY <1>1, <1>3, TypeParts
         DEF TypeLease, TypeThreads, Moves, leaseVars, ioVars, kernVars, locals
    <2>7. TypePackets'
      BY <1>1, <2>4, <2>5, TypeParts DEF TypePackets, kernVars, sendVars, pktVars
    <2>8. Frame(t, s)
      BY <1>1, <1>3, <1>4, <2>4, <2>5
         DEF Frame, Moves, leaseVars, ioVars, kernVars, sendVars, pktVars, locals
    <2>. QED
      BY <1>3, <1>4, <2>6, <2>7, <2>8, TypeParts DEF Sound, Moves
  <1>. QED
    BY <1>5, <1>6 DEF PushBack

LEMMA SoundDiscard ==
    ASSUME TypeOK, NEW t \in Threads, Fits(t), Discard(t)
    PROVE  Sound(t, ses[t]) /\ pc'[t] \in HomePcs
  <1>1. /\ UNCHANGED <<leaseVars, ioVars, kernVars, sendVars, queueVars, made, locals>>
        /\ pc[t] = "discard" /\ Base(t, stack[t]) /\ Return(t)
    BY DEF Discard, Fits, FitsAt, EnqueuePcs
  <1>2. Moves(t) /\ pc'[t] \in HomePcs
    BY <1>1, MovesHome
  <1>3. refs' \in [Packets -> Int]
    BY DEF TypeOK, Discard, Release
  <1>4. TypeLease' /\ TypePackets' /\ TypeThreads'
    BY <1>1, <1>2, <1>3, TypeParts
       DEF TypeLease, TypePackets, TypeThreads, Moves, leaseVars, ioVars, kernVars,
           sendVars, queueVars, locals
  <1>5. Frame(t, ses[t])
    BY <1>1, <1>2
       DEF Frame, Moves, leaseVars, ioVars, kernVars, sendVars, queueVars, locals
  <1>. QED
    BY <1>2, <1>4, <1>5, TypeParts DEF Sound, Moves

LEMMA SoundBroadcastEnds ==
    ASSUME TypeOK, NEW t \in Threads, Fits(t), BroadcastEnds(t)
    PROVE  Sound(t, ses[t]) /\ pc'[t] = "idle" /\ stack[t] = <<>>
  <1>1. /\ UNCHANGED <<leaseVars, ioVars, kernVars, sendVars, queueVars, made, locals>>
        /\ pc[t] = "nextTarget" /\ stack[t] = <<>> /\ Return(t)
    BY DEF BroadcastEnds, Fits, FitsAt
  <1>2. At(t, "idle", <<>>)
    BY <1>1, ReturnAt
  <1>3. Fits(t)'
    BY <1>2, FitsThen, Frames
       DEF FitsAt, EnqueuePcs, PostPcs, DropPcs, LastPcs, ResetPcs
  <1>4. refs' \in [Packets -> Int]
    BY DEF TypeOK, BroadcastEnds, Release
  <1>5. TypeLease' /\ TypePackets' /\ TypeThreads'
    BY <1>1, <1>2, <1>4, TypeParts
       DEF TypeLease, TypePackets, TypeThreads, At, leaseVars, ioVars, kernVars,
           sendVars, queueVars, locals
  <1>6. Frame(t, ses[t])
    BY <1>1, <1>2
       DEF Frame, At, leaseVars, ioVars, kernVars, sendVars, queueVars, locals
  <1>. QED
    BY <1>1, <1>2, <1>3, <1>5, <1>6, TypeParts DEF Sound, At

LEMMA SoundBroadcastNext ==
    ASSUME TypeOK, NEW t \in Threads, Fits(t), BroadcastNext(t)
    PROVE  /\ \E s \in Sessions : Sound(t, s)
           /\ pc'[t] = "canSend" /\ stack'[t] = OfCast /\ t \in Senders
  <1>1. /\ UNCHANGED <<leaseVars, ioVars, kernVars, sendVars, queueVars, made, pkt>>
        /\ pc[t] = "nextTarget" /\ stack[t] = <<>> /\ t \in Senders
        /\ pkt[t] \in Packets
    BY InHandIsPacket DEF BroadcastNext, Fits, FitsAt
  <1>2. PICK s \in todo[t] :
           /\ ses' = [ses EXCEPT ![t] = s]
           /\ todo' = [todo EXCEPT ![t] = @ \ {s}]
           /\ refs' = [refs EXCEPT ![pkt[t]] = @ + 1]
           /\ Call(t, "canSend", <<"nextTarget">>)
    BY DEF BroadcastNext
  <1>3. s \in Sessions /\ todo \in [Threads -> SUBSET Sessions]
    BY DEF TypeOK
  <1>4. At(t, "canSend", OfCast)
    <2>1. "canSend" \in Pcs
      BY DEF Pcs
    <2>2. At(t, "canSend", Then("nextTarget", stack[t]))
      BY <1>2, <2>1, CallAt, Frames
    <2>. QED
      BY <1>1, <2>2 DEF OfCast
  <1>5. FitsAt(t, "canSend", OfCast)
    BY <1>1, ThreadKinds
       DEF FitsAt, Base, EnqueuePcs, PostPcs, DropPcs, LastPcs, ResetPcs
  <1>6. Fits(t)'
    BY <1>1, <1>4, <1>5, FitsThen DEF NoPacket, Packets
  <1>7. /\ refs' \in [Packets -> Int] /\ todo' \in [Threads -> SUBSET Sessions]
        /\ ses' \in [Threads -> Sessions]
    BY <1>1, <1>2, <1>3 DEF TypeOK
  <1>8. TypeLease' /\ TypePackets' /\ TypeThreads'
    BY <1>1, <1>4, <1>7, TypeParts
       DEF TypeLease, TypePackets, TypeThreads, At, leaseVars, ioVars, kernVars,
           sendVars, queueVars
  <1>9. Frame(t, s)
    BY <1>1, <1>2, <1>4
       DEF Frame, TypeOK, At, leaseVars, ioVars, kernVars, sendVars, queueVars
  <1>. QED
    BY <1>1, <1>3, <1>4, <1>6, <1>8, <1>9, TypeParts DEF Sound, At

-----------------------------------------------------------------------------
(* Steps that begin.                                                       *)

Starts(t, s, l, q) ==
    /\ At(t, l, q) /\ pc[t] = "idle" /\ stack[t] = <<>>
    /\ ses' \in [Threads -> Sessions] /\ ses'[t] = s
    /\ \A u \in Threads \ {t} : ses'[u] = ses[u]

LEMMA StartsAt ==
    ASSUME TypeOK, NEW t \in Threads, Fits(t), NEW s \in Sessions, NEW l \in Pcs,
           NEW q \in Seq(Pcs), Begin(t, s, l, q)
    PROVE  Starts(t, s, l, q)
  BY BeginAt DEF Starts, Fits, FitsAt

Creates(t) ==
    /\ pkt' \in [Threads -> Packets \cup {NoPacket}] /\ pkt'[t] \in Packets
    /\ refs' \in [Packets -> Int] /\ made' \in 0..MaxPackets
    /\ \A u \in Threads \ {t} : pkt'[u] = pkt[u]

LEMMA CreateTypes ==
    ASSUME TypeOK, NEW t \in Threads, Create(t)
    PROVE  Creates(t) /\ pkt'[t] = made + 1 /\ made' = made + 1
           /\ refs' = [refs EXCEPT ![made + 1] = 1]
  <1>1. /\ made \in 0..MaxPackets /\ refs \in [Packets -> Int]
        /\ pkt \in [Threads -> Packets \cup {NoPacket}]
    BY DEF TypeOK
  <1>2. made + 1 \in Packets /\ made + 1 \in 0..MaxPackets
    BY <1>1, BoundsAssumption DEF Create, Packets
  <1>. QED
    BY <1>1, <1>2 DEF Create, Creates

LEMMA SoundSend ==
    ASSUME TypeOK, NEW t \in Senders, Fits(t),
           \/ \E s \in Sessions : Send(t, s)
           \/ Broadcast(t)
    PROVE  \E s \in Sessions :
             /\ Sound(t, s) /\ pc[t] = "idle" /\ pc'[t] \in {"canSend", "nextTarget"}
             /\ Send(t, s) \/ (Broadcast(t) /\ pc'[t] = "nextTarget")
             /\ pc'[t] = "canSend" => open[s]
  <1>1. t \in Threads /\ t \notin Workers
    BY ThreadsAssumption DEF Threads
  <1>2. /\ UNCHANGED <<leaseVars, ioVars, kernVars, sendVars, queueVars>>
        /\ Create(t)
    BY DEF Send, Broadcast
  <1>3. PICK s \in Sessions, l \in {"canSend", "nextTarget"} :
           /\ Begin(t, s, l, <<>>)
           /\ Send(t, s) \/ (Broadcast(t) /\ l = "nextTarget")
           /\ l = "canSend" => open[s]
    BY DEF Send, Broadcast
  <1>4. Starts(t, s, l, <<>>)
    <2>1. l \in Pcs /\ <<>> \in Seq(Pcs)
      BY Frames DEF Pcs
    <2>. QED
      BY <1>1, <1>3, <2>1, StartsAt
  <1>5. Creates(t)
    BY <1>1, <1>2, CreateTypes
  <1>6. todo' \in [Threads -> SUBSET Sessions]
    <2>1. todo \in [Threads -> SUBSET Sessions]
          /\ {x \in Sessions : open[x]} \in SUBSET Sessions
      BY DEF TypeOK
    <2>2. todo' = todo \/ todo' = [todo EXCEPT ![t] = {x \in Sessions : open[x]}]
      BY DEF Send, Broadcast
    <2>. QED
      BY <2>1, <2>2
  <1>7. Fits(t)'
    <2>1. FitsAt(t, l, <<>>)
      BY <1>1 DEF FitsAt, Base, EnqueuePcs, PostPcs, DropPcs, LastPcs, ResetPcs
    <2>. QED
      BY <1>1, <1>4, <1>5, <2>1, FitsThen DEF Starts, Creates, NoPacket, Packets
  <1>8. TypeLease' /\ TypePackets' /\ TypeThreads'
    BY <1>2, <1>4, <1>5, <1>6, TypeParts
       DEF TypeLease, TypePackets, TypeThreads, Starts, At, Creates, leaseVars, ioVars,
           kernVars, sendVars, queueVars
  <1>9. Frame(t, s)
    BY <1>2, <1>4, <1>5
       DEF Frame, Starts, At, Creates, leaseVars, ioVars, kernVars, sendVars, queueVars
  <1>. QED
    BY <1>3, <1>4, <1>7, <1>8, <1>9, TypeParts DEF Sound, Starts, At

LEMMA KindsHas == Kinds = {"recv", "send"} /\ "recv" \in Kinds /\ "send" \in Kinds
  BY DEF Kinds

LEMMA SoundRecvRequest ==
    ASSUME TypeOK, NEW t \in Workers, Fits(t), NEW s \in Sessions, RecvRequest(t, s)
    PROVE  Sound(t, s) /\ Starts(t, s, "canSend", OfRecv)
  <1>1. t \in Threads
    BY DEF Threads
  <1>2. /\ UNCHANGED <<leaseVars, ioVars, dying, dead, over, wire, sendVars, queueVars,
                       todo>>
        /\ Create(t) /\ Begin(t, s, "canSend", <<"repost">>)
    BY DEF RecvRequest
  <1>3. Starts(t, s, "canSend", OfRecv)
    <2>1. "canSend" \in Pcs /\ OfRecv \in Seq(Pcs) /\ OfRecv = <<"repost">>
      BY Frames DEF Pcs, OfRecv, Then
    <2>. QED
      BY <1>1, <1>2, <2>1, StartsAt
  <1>4. Creates(t)
    BY <1>1, <1>2, CreateTypes
  <1>5. /\ live' \in [Sessions -> [Kinds -> Nat]]
        /\ \A x \in Sessions \ {s} : live'[x] = live[x]
    <2>1. live \in [Sessions -> [Kinds -> Nat]]
      BY DEF TypeOK
    <2>2. live[s]["recv"] - 1 \in Nat
      BY <2>1, KindsHas DEF RecvRequest
    <2>. QED
      BY <2>1, <2>2, KindsHas DEF RecvRequest
  <1>6. Fits(t)'
    <2>1. FitsAt(t, "canSend", OfRecv)
      BY DEF FitsAt, Base, EnqueuePcs, PostPcs, DropPcs, LastPcs, ResetPcs
    <2>. QED
      BY <1>1, <1>3, <1>4, <2>1, FitsThen DEF Starts, Creates, NoPacket, Packets
  <1>7. TypeLease' /\ TypePackets' /\ TypeThreads'
    BY <1>2, <1>3, <1>4, <1>5, TypeParts
       DEF TypeLease, TypePackets, TypeThreads, Starts, At, Creates, leaseVars, ioVars,
           sendVars, queueVars
  <1>8. Frame(t, s)
    BY <1>2, <1>3, <1>4, <1>5
       DEF Frame, Starts, At, Creates, leaseVars, ioVars, sendVars, queueVars
  <1>. QED
    BY <1>3, <1>6, <1>7, <1>8, TypeParts DEF Sound

LEMMA SoundRepost ==
    ASSUME TypeOK, NEW t \in Threads, Fits(t), Repost(t)
    PROVE  Sound(t, ses[t])
  <1>. DEFINE s == ses[t]
  <1>1. /\ UNCHANGED <<leaseVars, ioVars, dying, dead, over, wire, sendVars, queueVars,
                       pktVars, locals>>
        /\ pc[t] = "repost" /\ t \in Workers /\ stack[t] = <<>>
    BY DEF Repost, Fits, FitsAt
  <1>2. Moves(t)
    <2>1. CASE Return(t)
      BY <1>1, <2>1, MovesHome
    <2>2. CASE Goto(t, "finish")
      <3>1. FitsAt(t, "finish", stack[t]) /\ "finish" \in Pcs
        BY <1>1, Frames DEF FitsAt, EnqueuePcs, PostPcs, DropPcs, LastPcs, ResetPcs
      <3>. QED
        BY <1>1, <2>2, <3>1, MovesOn DEF EnqueuePcs
    <2>. QED
      BY <2>1, <2>2 DEF Repost
  <1>3. s = ses[t] /\ s \in Sessions
    BY TypesOf
  <1>4. live' = live \/ live' = [live EXCEPT ![s]["recv"] = @ + 1]
    BY DEF Repost
  <1>. HIDE DEF s
  <1>5. /\ live' \in [Sessions -> [Kinds -> Nat]]
        /\ \A x \in Sessions \ {s} : live'[x] = live[x]
    <2>1. live \in [Sessions -> [Kinds -> Nat]]
      BY DEF TypeOK
    <2>. QED
      BY <1>3, <1>4, <2>1, KindsHas
  <1>6. TypeLease' /\ TypePackets' /\ TypeThreads'
    BY <1>1, <1>2, <1>5, TypeParts
       DEF TypeLease, TypePackets, TypeThreads, Moves, leaseVars, ioVars, sendVars,
           queueVars, pktVars, locals
  <1>7. Frame(t, s)
    BY <1>1, <1>2, <1>3, <1>5
       DEF Frame, Moves, leaseVars, ioVars, sendVars, queueVars, pktVars, locals
  <1>. QED
    BY <1>2, <1>3, <1>6, <1>7, TypeParts DEF Sound, Moves

LEMMA SoundSendDone ==
    ASSUME TypeOK, NEW t \in Workers, Fits(t), NEW s \in Sessions, SendDone(t, s)
    PROVE  Sound(t, s) /\ Starts(t, s, "sent", OfDone)
  <1>1. t \in Threads
    BY DEF Threads
  <1>2. /\ UNCHANGED <<leaseVars, ioVars, dying, dead, over, sending, current, queueVars,
                       pktVars, pkt, todo>>
        /\ Begin(t, s, "sent", <<"finish">>)
    BY DEF SendDone
  <1>3. Starts(t, s, "sent", OfDone)
    <2>1. "sent" \in Pcs /\ OfDone \in Seq(Pcs) /\ OfDone = <<"finish">>
      BY Frames DEF Pcs, SendPcs, OfDone, Then
    <2>. QED
      BY <1>1, <1>2, <2>1, StartsAt
  <1>4. /\ live' \in [Sessions -> [Kinds -> Nat]]
        /\ \A x \in Sessions \ {s} : live'[x] = live[x]
    <2>1. live \in [Sessions -> [Kinds -> Nat]]
      BY DEF TypeOK
    <2>2. live[s]["send"] - 1 \in Nat
      BY <2>1, KindsHas DEF SendDone
    <2>. QED
      BY <2>1, <2>2, KindsHas DEF SendDone
  <1>5. /\ offset' \in [Sessions -> 0..PacketSize]
        /\ wire' \in [Sessions -> Seq(Packets \cup {NoPacket})]
        /\ \A x \in Sessions \ {s} : offset'[x] = offset[x] /\ wire'[x] = wire[x]
    <2>1. PICK n \in 1..(PacketSize - offset[s]) :
             /\ offset' = [offset EXCEPT ![s] = @ + n]
             /\ wire' = [wire EXCEPT ![s] = @ \o [i \in 1..n |-> over[s]]]
      BY DEF SendDone
    <2>2. /\ offset \in [Sessions -> 0..PacketSize]
          /\ wire \in [Sessions -> Seq(Packets \cup {NoPacket})]
          /\ over[s] \in Packets \cup {NoPacket}
      BY DEF TypeOK
    <2>3. offset[s] + n \in 0..PacketSize /\ n \in Nat
      BY <2>1, <2>2, DepthAssumption
    <2>4. [i \in 1..n |-> over[s]] \in Seq(Packets \cup {NoPacket})
      BY <2>2, <2>3
    <2>5. wire[s] \o [i \in 1..n |-> over[s]] \in Seq(Packets \cup {NoPacket})
      BY <2>2, <2>4
    <2>. QED
      BY <2>1, <2>2, <2>3, <2>5
  <1>6. Fits(t)'
    <2>1. FitsAt(t, "sent", OfDone)
      BY DEF FitsAt, Base, EnqueuePcs, PostPcs, DropPcs, LastPcs, ResetPcs
    <2>. QED
      BY <1>1, <1>3, <2>1, FitsThen, Frames DEF Starts, EnqueuePcs
  <1>7. TypeLease' /\ TypePackets' /\ TypeThreads'
    BY <1>2, <1>3, <1>4, <1>5, TypeParts
       DEF TypeLease, TypePackets, TypeThreads, Starts, At, leaseVars, ioVars,
           queueVars, pktVars
  <1>8. Frame(t, s)
    BY <1>2, <1>3, <1>4, <1>5
       DEF Frame, Starts, At, leaseVars, ioVars, queueVars, pktVars
  <1>. QED
    BY <1>3, <1>6, <1>7, <1>8, TypeParts DEF Sound

LEMMA SoundEnds ==
    ASSUME TypeOK, NEW t \in Workers, Fits(t), NEW s \in Sessions, NEW k \in Kinds,
           ConnectionEnds(t, s, k)
    PROVE  Sound(t, s) /\ Starts(t, s, "retire", OfDone)
  <1>1. t \in Threads
    BY DEF Threads
  <1>2. /\ UNCHANGED <<leaseVars, ioVars, dying, over, wire, sendVars, queueVars,
                       pktVars, pkt, todo>>
        /\ Begin(t, s, "retire", <<"finish">>)
    BY DEF ConnectionEnds
  <1>3. Starts(t, s, "retire", OfDone)
    <2>1. "retire" \in Pcs /\ OfDone \in Seq(Pcs) /\ OfDone = <<"finish">>
      BY Frames DEF OfDone, Then
    <2>. QED
      BY <1>1, <1>2, <2>1, StartsAt
  <1>4. /\ live' \in [Sessions -> [Kinds -> Nat]]
        /\ \A x \in Sessions \ {s} : live'[x] = live[x]
    <2>1. live \in [Sessions -> [Kinds -> Nat]]
      BY DEF TypeOK
    <2>2. live[s][k] - 1 \in Nat
      BY <2>1 DEF ConnectionEnds
    <2>. QED
      BY <2>1, <2>2 DEF ConnectionEnds
  <1>5. /\ dead' \in [Sessions -> BOOLEAN]
        /\ \A x \in Sessions \ {s} : dead'[x] = dead[x]
    <2>1. dead \in [Sessions -> BOOLEAN]
      BY DEF TypeOK
    <2>2. dead' = [dead EXCEPT ![s] = dead[s] \/ k = "send"]
      BY <2>1 DEF ConnectionEnds
    <2>3. (dead[s] \/ k = "send") \in BOOLEAN
      OBVIOUS
    <2>. QED
      BY <2>1, <2>2, <2>3
  <1>6. Fits(t)'
    <2>1. FitsAt(t, "retire", OfDone)
      BY DEF FitsAt, Base, EnqueuePcs, PostPcs, DropPcs, LastPcs, ResetPcs
    <2>. QED
      BY <1>1, <1>3, <2>1, FitsThen, Frames DEF Starts, EnqueuePcs
  <1>7. TypeLease' /\ TypePackets' /\ TypeThreads'
    BY <1>2, <1>3, <1>4, <1>5, TypeParts
       DEF TypeLease, TypePackets, TypeThreads, Starts, At, leaseVars, ioVars,
           sendVars, queueVars, pktVars
  <1>8. Frame(t, s)
    BY <1>2, <1>3, <1>4, <1>5
       DEF Frame, Starts, At, leaseVars, ioVars, sendVars, queueVars, pktVars
  <1>. QED
    BY <1>3, <1>6, <1>7, <1>8, TypeParts DEF Sound

LEMMA SoundCancelled ==
    ASSUME TypeOK, NEW t \in Workers, Fits(t), NEW s \in Sessions, NEW k \in Kinds,
           IoCancelled(t, s, k)
    PROVE  Sound(t, s) /\ Starts(t, s, "finish", <<>>)
  <1>1. t \in Threads
    BY DEF Threads
  <1>2. /\ UNCHANGED <<leaseVars, ioVars, live, dead, over, wire, sendVars, queueVars,
                       pktVars, pkt, todo>>
        /\ Begin(t, s, "finish", <<>>)
    BY DEF IoCancelled
  <1>3. Starts(t, s, "finish", <<>>)
    <2>1. "finish" \in Pcs /\ <<>> \in Seq(Pcs)
      BY Frames
    <2>. QED
      BY <1>1, <1>2, <2>1, StartsAt
  <1>4. /\ dying' \in [Sessions -> [Kinds -> Nat]]
        /\ \A x \in Sessions \ {s} : dying'[x] = dying[x]
    <2>1. dying \in [Sessions -> [Kinds -> Nat]]
      BY DEF TypeOK
    <2>2. dying[s][k] - 1 \in Nat
      BY <2>1 DEF IoCancelled
    <2>. QED
      BY <2>1, <2>2 DEF IoCancelled
  <1>5. Fits(t)'
    <2>1. FitsAt(t, "finish", <<>>)
      BY DEF FitsAt, Base, EnqueuePcs, PostPcs, DropPcs, LastPcs, ResetPcs
    <2>. QED
      BY <1>1, <1>3, <2>1, FitsThen, Frames DEF Starts, EnqueuePcs
  <1>6. TypeLease' /\ TypePackets' /\ TypeThreads'
    BY <1>2, <1>3, <1>4, TypeParts
       DEF TypeLease, TypePackets, TypeThreads, Starts, At, leaseVars, ioVars,
           sendVars, queueVars, pktVars
  <1>7. Frame(t, s)
    BY <1>2, <1>3, <1>4
       DEF Frame, Starts, At, leaseVars, ioVars, sendVars, queueVars, pktVars
  <1>. QED
    BY <1>3, <1>5, <1>6, <1>7, TypeParts DEF Sound

-----------------------------------------------------------------------------
(* Counts *)

LEMMA Bystander ==
    ASSUME NEW t \in Threads, NEW s \in Sessions, Frame(t, s),
           NEW u \in Threads \ {t}
    PROVE  /\ Fits(u) => Fits(u)'
           /\ pc'[u] = pc[u] /\ stack'[u] = stack[u] /\ ses'[u] = ses[u]
           /\ \A x : u \in Of(x)' <=> u \in Of(x)
           /\ Handles(u)' <=> Handles(u)
           /\ Issues(u)' <=> Issues(u)
           /\ Lasts(u)' <=> Lasts(u)
           /\ Resets(u)' <=> Resets(u)
  <1>1. /\ pc'[u] = pc[u] /\ stack'[u] = stack[u] /\ ses'[u] = ses[u]
        /\ pkt'[u] = pkt[u]
    BY DEF Frame
  <1>. QED
    BY <1>1 DEF Fits, Of, Handles, Issues, Lasts, Resets

(* A thread that is nowhere has no role.                                   *)
LEMMA AwayRoles ==
    ASSUME NEW t \in Threads, Fits(t), pc[t] \in {"idle", "nextTarget"}
    PROVE  ~Handles(t) /\ ~Issues(t) /\ ~Lasts(t)
  <1>1. pc[t] = "nextTarget" => t \notin Workers
    BY ThreadKinds DEF Fits, FitsAt
  <1>. QED
    BY <1>1 DEF Handles, HandlesAt, Issues, IssuesAt, Lasts, LastPcs, ResetPcs, DropPcs

LEMMA RolesOn ==
    ASSUME NEW t \in Threads, NEW s \in Sessions, Frame(t, s), Fits(t)
    PROVE  /\ Handles(t) \/ Issues(t) \/ Lasts(t) => t \in Of(s)
           /\ t \in Of(s)'
           /\ \A x \in Sessions \ {s} : t \notin Of(x)' /\ (t \in Of(x) =>
                ~Handles(t) /\ ~Issues(t) /\ ~Lasts(t)
                /\ pc[t] \in {"idle", "nextTarget"})
  BY AwayRoles DEF Frame, Of

LEMMA CountChange ==
    ASSUME NEW A \in SUBSET Threads, NEW B \in SUBSET Threads,
           NEW t \in Threads, \A u \in Threads \ {t} : u \in A <=> u \in B
    PROVE  /\ Cardinality(A) \in Nat /\ Cardinality(B) \in Nat
           /\ Cardinality(B) = Cardinality(A) + (IF t \in B THEN 1 ELSE 0)
                                             - (IF t \in A THEN 1 ELSE 0)
  <1>1. IsFiniteSet(A) /\ IsFiniteSet(B)
    BY ThreadsAssumption, FS_Subset
  <1>2. Cardinality(A) \in Nat /\ Cardinality(B) \in Nat
    BY <1>1, FS_CardinalityType
  <1>3. CASE t \in A /\ t \notin B
    <2>1. B = A \ {t}
      BY <1>3
    <2>. QED
      BY <1>1, <1>2, <1>3, <2>1, FS_RemoveElement
  <1>4. CASE t \notin A /\ t \in B
    <2>1. B = A \cup {t}
      BY <1>4
    <2>. QED
      BY <1>1, <1>2, <1>4, <2>1, FS_AddElement
  <1>5. CASE t \in A <=> t \in B
    <2>1. A = B
      BY <1>5
    <2>. QED
      BY <1>2, <2>1
  <1>. QED
    BY <1>3, <1>4, <1>5

Weight(t) == (IF Handles(t) THEN 1 ELSE 0) + (IF Issues(t) THEN 1 ELSE 0)

(* What a step does to the count it does to what is held.                  *)
Balanced(t, s) ==
    ioCount'[s] = ioCount[s] + Ops(s)' - Ops(s) + Weight(t)' - Weight(t)

LEMMA OpsType ==
    ASSUME NEW s \in Sessions
    PROVE  /\ TypeOK => /\ live[s]["recv"] \in Nat /\ live[s]["send"] \in Nat
                        /\ dying[s]["recv"] \in Nat /\ dying[s]["send"] \in Nat
                        /\ SendOps(s) \in Nat /\ Ops(s) \in Nat /\ ioCount[s] \in Int
           /\ TypeOK' => /\ live'[s]["recv"] \in Nat /\ live'[s]["send"] \in Nat
                         /\ dying'[s]["recv"] \in Nat /\ dying'[s]["send"] \in Nat
                         /\ SendOps(s)' \in Nat /\ Ops(s)' \in Nat
                         /\ ioCount'[s] \in Int
  <1>1. ASSUME TypeOK
        PROVE  /\ live[s] \in [Kinds -> Nat] /\ dying[s] \in [Kinds -> Nat]
               /\ ioCount[s] \in Int
    BY <1>1 DEF TypeOK
  <1>2. ASSUME TypeOK'
        PROVE  /\ live'[s] \in [Kinds -> Nat] /\ dying'[s] \in [Kinds -> Nat]
               /\ ioCount'[s] \in Int
    BY <1>2 DEF TypeOK
  <1>. QED
    BY <1>1, <1>2, KindsHas DEF SendOps, Ops

LEMMA CountedStep ==
    ASSUME TypeOK, TypeOK', NEW t \in Threads, NEW s \in Sessions, Frame(t, s),
           Fits(t), Counted(s), Balanced(t, s)
    PROVE  Counted(s)'
  <1>1. /\ Handlers(s) \in SUBSET Threads /\ Handlers(s)' \in SUBSET Threads
        /\ Issuers(s) \in SUBSET Threads /\ Issuers(s)' \in SUBSET Threads
    BY DEF Handlers, Issuers, Of
  <1>2. \A u \in Threads \ {t} : /\ u \in Handlers(s) <=> u \in Handlers(s)'
                                 /\ u \in Issuers(s) <=> u \in Issuers(s)'
    BY Bystander DEF Handlers, Issuers
  <1>3. /\ t \in Handlers(s) <=> Handles(t)
        /\ t \in Issuers(s) <=> Issues(t)
        /\ t \in Handlers(s)' <=> Handles(t)'
        /\ t \in Issuers(s)' <=> Issues(t)'
    BY RolesOn DEF Handlers, Issuers
  <1>4. /\ Cardinality(Handlers(s)) \in Nat /\ Cardinality(Handlers(s)') \in Nat
        /\ Cardinality(Handlers(s)') = Cardinality(Handlers(s))
             + (IF Handles(t)' THEN 1 ELSE 0) - (IF Handles(t) THEN 1 ELSE 0)
    BY <1>1, <1>2, <1>3, CountChange
  <1>5. /\ Cardinality(Issuers(s)) \in Nat /\ Cardinality(Issuers(s)') \in Nat
        /\ Cardinality(Issuers(s)') = Cardinality(Issuers(s))
             + (IF Issues(t)' THEN 1 ELSE 0) - (IF Issues(t) THEN 1 ELSE 0)
    BY <1>1, <1>2, <1>3, CountChange
  <1>6. /\ Ops(s) \in Nat /\ Ops(s)' \in Nat /\ ioCount[s] \in Int /\ ioCount'[s] \in Int
    BY OpsType
  <1>7. Weight(t)' - Weight(t) =
            (Cardinality(Handlers(s)') - Cardinality(Handlers(s)))
          + (Cardinality(Issuers(s)') - Cardinality(Issuers(s)))
    BY <1>4, <1>5 DEF Weight
  <1>8. Weight(t) \in Nat /\ Weight(t)' \in Nat
    BY DEF Weight
  <1>9. ioCount'[s] = Ops(s)' + Cardinality(Handlers(s)') + Cardinality(Issuers(s)')
    BY <1>4, <1>5, <1>6, <1>7, <1>8 DEF Balanced, Counted
  <1>. QED
    BY <1>9 DEF Counted

(* A count of 1 is held by one thread or one operation.                    *)
LEMMA HeldCount ==
    ASSUME TypeOK, NEW s \in Sessions, Counted(s), NEW t \in Of(s)
    PROVE  /\ Handles(t) \/ Issues(t) => ioCount[s] >= 1
           /\ ioCount[s] = 1 /\ (Handles(t) \/ Issues(t)) =>
                /\ Ops(s) = 0 /\ ~(Handles(t) /\ Issues(t))
                /\ \A u \in Of(s) \ {t} : ~Handles(u) /\ ~Issues(u)
  <1>1. IsFiniteSet(Handlers(s)) /\ IsFiniteSet(Issuers(s))
    BY ThreadsAssumption, FS_Subset DEF Handlers, Issuers, Of
  <1>2. /\ Cardinality(Handlers(s)) \in Nat /\ Cardinality(Issuers(s)) \in Nat
        /\ Ops(s) \in Nat
    BY <1>1, FS_CardinalityType, OpsType
  <1>3. /\ Handlers(s) = {} <=> Cardinality(Handlers(s)) = 0
        /\ Issuers(s) = {} <=> Cardinality(Issuers(s)) = 0
    BY <1>1, FS_EmptySet
  <1>4. ioCount[s] = Ops(s) + Cardinality(Handlers(s)) + Cardinality(Issuers(s))
    BY DEF Counted
  <1>5. Handles(t) => Cardinality(Handlers(s)) >= 1
    BY <1>2, <1>3 DEF Handlers
  <1>6. Issues(t) => Cardinality(Issuers(s)) >= 1
    BY <1>2, <1>3 DEF Issuers
  <1>7. ASSUME ioCount[s] = 1, Handles(t)
        PROVE  Ops(s) = 0 /\ Cardinality(Handlers(s)) = 1 /\ Issuers(s) = {}
    BY <1>2, <1>3, <1>4, <1>5, <1>7
  <1>8. ASSUME ioCount[s] = 1, Issues(t)
        PROVE  Ops(s) = 0 /\ Cardinality(Issuers(s)) = 1 /\ Handlers(s) = {}
    BY <1>2, <1>3, <1>4, <1>6, <1>8
  <1>9. ASSUME NEW A \in SUBSET Threads, Cardinality(A) = 1, t \in A
        PROVE  \A u \in A : u = t
    <2>1. IsFiniteSet(A) /\ IsFiniteSet(A \ {t})
      BY ThreadsAssumption, FS_Subset
    <2>2. Cardinality(A \ {t}) = 0
      BY <1>9, <2>1, FS_RemoveElement
    <2>3. A \ {t} = {}
      BY <2>1, <2>2, FS_EmptySet
    <2>. QED
      BY <2>3
  <1>10. CASE ioCount[s] = 1 /\ Handles(t)
    <2>1. \A u \in Handlers(s) : u = t
      BY <1>7, <1>9, <1>10 DEF Handlers, Of
    <2>. QED
      BY <1>2, <1>4, <1>7, <1>10, <2>1 DEF Handlers, Issuers
  <1>11. CASE ioCount[s] = 1 /\ Issues(t)
    <2>1. \A u \in Issuers(s) : u = t
      BY <1>8, <1>9, <1>11 DEF Issuers, Of
    <2>. QED
      BY <1>2, <1>4, <1>8, <1>11, <2>1 DEF Handlers, Issuers
  <1>12. Handles(t) \/ Issues(t) => ioCount[s] >= 1
    BY <1>2, <1>4, <1>5, <1>6
  <1>. QED
    BY <1>10, <1>11, <1>12

(* Roles of a thread that enqueues or posts.                               *)
LEMMA PostRoles ==
    ASSUME NEW t \in Threads, NEW q, Base(t, q),
           NEW l \in PostPcs \cup EnqueuePcs \cup DropPcs \cup {"finish"}
    PROVE  /\ HandlesAt(t, l, q) <=> t \in Workers
           /\ IssuesAt(t, l, q) <=> l \in {"gate", "issue", "finish"}
  <1>1. ~Undoing(t, q) /\ ~Retiring(t, q)
    BY Shapes
  <1>. QED
    BY <1>1 DEF HandlesAt, IssuesAt, PostPcs, EnqueuePcs, DropPcs, LastPcs, ResetPcs

-----------------------------------------------------------------------------
(* The release: what a step does elsewhere, ...                            *)

LEMMA ReleasedElsewhere ==
    ASSUME TypeOK, NEW t \in Threads, NEW s \in Sessions, Frame(t, s), Fits(t),
           NEW x \in Sessions \ {s}, Released(x)
    PROVE  Released(x)'
  <1>1. \A u \in Threads : u \in Of(x)' => /\ u \in Of(x) /\ u # t
                                           /\ pc'[u] = pc[u]
                                           /\ Handles(u)' <=> Handles(u)
                                           /\ Issues(u)' <=> Issues(u)
                                           /\ Lasts(u)' <=> Lasts(u)
                                           /\ Resets(u)' <=> Resets(u)
    BY Bystander, RolesOn
  <1>2. \A u \in Threads : u \in Of(x) /\ u # t => u \in Of(x)'
    BY Bystander
  <1>3. t \in Of(x) => /\ ~Handles(t) /\ ~Issues(t) /\ ~Lasts(t) /\ ~Resets(t)
                       /\ pc[t] # "issue"
    BY RolesOn DEF Resets, ResetPcs
  <1>4. \A u \in Of(x) \cup Of(x)' : u \in Threads
    BY DEF Of
  <1>5. Handlers(x)' = Handlers(x) /\ Issuers(x)' = Issuers(x)
    BY <1>1, <1>2, <1>3, <1>4 DEF Handlers, Issuers
  <1>6. /\ poolState'[x] = poolState[x] /\ open'[x] = open[x]
        /\ ioCount'[x] = ioCount[x] /\ cancelIo'[x] = cancelIo[x]
        /\ releasePending'[x] = releasePending[x]
        /\ live'[x] = live[x] /\ dying'[x] = dying[x]
    BY DEF Frame
  <1>7. Ops(x)' = Ops(x)
    BY <1>6 DEF Ops, SendOps
  <1>8. Counted(x)'
    BY <1>5, <1>6, <1>7 DEF Counted, Released
  <1>9. Owned(x)'
    BY <1>1, <1>4, <1>6 DEF Owned, Released
  <1>10. (Ended(x)' <=> Ended(x)) /\ (Gone(x)' <=> Gone(x))
    BY <1>1, <1>2, <1>3, <1>4, <1>6 DEF Ended, Gone
  <1>11. Drained(x)'
    BY <1>1, <1>4, <1>6, <1>7, <1>10 DEF Drained, Released
  <1>. QED
    BY <1>8, <1>9, <1>11 DEF Released

(* ... and where its thread is neither about to complete the release nor   *)
(* comes to be, ...                                                        *)
LEMMA ReleasedStep ==
    ASSUME TypeOK, NEW t \in Threads, NEW s \in Sessions, Fits(t), Released(s),
           Sound(t, s), Balanced(t, s),
           poolState'[s] = poolState[s], open'[s] = open[s],
           cancelIo'[s] = cancelIo[s], releasePending'[s] = releasePending[s],
           pc[t] \notin LastPcs, pc'[t] \notin LastPcs,
           Ended(s) => Ops(s)' = 0 /\ ~Handles(t)',
           pc'[t] = "issue" => cancelIo[s] = 0,
           poolState[s] = "IN_USE" =>
             dying'[s]["recv"] = 0 /\ dying'[s]["send"] = 0
    PROVE  Released(s)'
  <1>1. TypeOK' /\ Frame(t, s)
    BY DEF Sound
  <1>2. Counted(s)'
    BY <1>1, CountedStep DEF Released
  <1>3. \A u \in Of(s) \cup Of(s)' : u \in Threads
    BY DEF Of
  <1>4. \A u \in Threads \ {t} : /\ u \in Of(s)' <=> u \in Of(s)
                                 /\ pc'[u] = pc[u]
                                 /\ Handles(u)' <=> Handles(u)
                                 /\ Lasts(u)' <=> Lasts(u)
                                 /\ Resets(u)' <=> Resets(u)
    BY <1>1, Bystander
  <1>5. /\ ~Lasts(t) /\ ~Lasts(t)' /\ ~Resets(t) /\ ~Resets(t)'
        /\ pc[t] # "complete" /\ pc'[t] # "complete"
    BY DEF Lasts, Resets, LastPcs
  <1>6. Owned(s)'
    BY <1>3, <1>4, <1>5 DEF Owned, Released
  <1>7. (Ended(s)' <=> Ended(s)) /\ (Gone(s)' <=> Gone(s))
    BY <1>3, <1>4, <1>5 DEF Ended, Gone
  <1>8. Ended(s)' => Ops(s)' = 0 /\ \A u \in Of(s)' : ~Handles(u)'
    BY <1>3, <1>4, <1>7 DEF Drained, Released
  <1>9. \A u \in Of(s)' : pc'[u] = "complete" =>
          cancelIo'[s] = 1 /\ \A v \in Of(s)' : pc'[v] # "issue"
    <2>. SUFFICES ASSUME NEW u \in Of(s)', pc'[u] = "complete"
                  PROVE  cancelIo'[s] = 1 /\ \A v \in Of(s)' : pc'[v] # "issue"
      OBVIOUS
    <2>1. u \in Of(s) /\ pc[u] = "complete"
      BY <1>3, <1>4, <1>5
    <2>2. cancelIo[s] = 1 /\ \A v \in Of(s) : pc[v] # "issue"
      BY <2>1 DEF Drained, Released
    <2>3. pc'[t] # "issue"
      BY <2>2
    <2>. QED
      BY <1>3, <1>4, <2>2, <2>3
  <1>10. Drained(s)'
    BY <1>7, <1>8, <1>9 DEF Drained, Released
  <1>. QED
    BY <1>2, <1>6, <1>10 DEF Released

(* ... or keeps what it holds.                                             *)
Calm(t) ==
    /\ poolState' = poolState /\ open' = open /\ ioCount' = ioCount
    /\ cancelIo' = cancelIo /\ releasePending' = releasePending
    /\ live' = live /\ dying' = dying
    /\ Handles(t)' <=> Handles(t)
    /\ Issues(t)' <=> Issues(t)

LEMMA ReleasedCalm ==
    ASSUME TypeOK, NEW t \in Threads, NEW s \in Sessions, Fits(t), Released(s),
           Sound(t, s), Calm(t),
           pc[t] \notin LastPcs, pc'[t] \notin LastPcs,
           pc'[t] = "issue" => cancelIo[s] = 0
    PROVE  Released(s)'
  <1>1. /\ poolState' = poolState /\ open' = open /\ cancelIo' = cancelIo
        /\ releasePending' = releasePending /\ ioCount' = ioCount
        /\ live' = live /\ dying' = dying
    BY DEF Calm
  <1>2. Ops(s)' = Ops(s) /\ Weight(t)' = Weight(t)
    BY <1>1 DEF Ops, SendOps, Weight, Calm
  <1>3. Balanced(t, s)
    BY <1>1, <1>2, OpsType DEF Balanced, Weight
  <1>4. Ended(s) => Ops(s)' = 0 /\ ~Handles(t)'
    BY <1>2, RolesOn DEF Released, Drained, Sound, Calm
  <1>5. poolState[s] = "IN_USE" => dying'[s]["recv"] = 0 /\ dying'[s]["send"] = 0
    BY <1>1 DEF Released, Drained
  <1>. QED
    BY <1>1, <1>3, <1>4, <1>5, ReleasedStep

(* The steps of TrySendNext, PostCurrentSend and of the enqueuing, which   *)
(* leave the count alone.                                                  *)
LEMMA RolesAt ==
    ASSUME NEW t \in Threads
    PROVE  /\ Handles(t) <=> HandlesAt(t, pc[t], stack[t])
           /\ Issues(t) <=> IssuesAt(t, pc[t], stack[t])
           /\ Handles(t)' <=> HandlesAt(t, pc'[t], stack'[t])
           /\ Issues(t)' <=> IssuesAt(t, pc'[t], stack'[t])
  BY DEF Handles, Issues

LEMMA HomeRoles ==
    ASSUME TypeOK, NEW t \in Threads, Return(t),
           Base(t, stack[t]) \/ (t \in Workers /\ stack[t] = <<>>)
    PROVE  /\ Handles(t)' <=> t \in Workers /\ stack[t] # <<>>
           /\ ~Issues(t)'
           /\ pc'[t] \in HomePcs
  <1>1. /\ At(t, pc'[t], <<>>) /\ pc'[t] \in HomePcs
        /\ HandlesAt(t, pc'[t], <<>>) <=> t \in Workers /\ stack[t] # <<>>
        /\ ~IssuesAt(t, pc'[t], <<>>)
    BY ReturnHome
  <1>. QED
    BY <1>1, RolesAt DEF At

LEMMA ReleasedPost ==
    ASSUME TypeOK, NEW t \in Threads, Fits(t),
           NEW s \in Sessions, s = ses[t], Released(s),
           \/ TrySendNext(t) \/ Dequeue(t) \/ SetIdle(t) \/ Recheck(t) \/ Prepare(t)
           \/ Gate(t) \/ CanSendPacket(t) \/ PushBack(t) \/ Discard(t)
    PROVE  Released(s)'
  <1>1. Sound(t, s)
    BY SoundTry, SoundDequeue, SoundRecheckGate, SoundPrepare, SoundCanSend,
       SoundPushBack, SoundDiscard, TypesOf
  <1>2. UNCHANGED <<poolState, open, ioVars, live, dying>>
    BY DEF TrySendNext, Dequeue, SetIdle, Recheck, Prepare, Gate, CanSendPacket,
           PushBack, Discard, leaseVars, kernVars
  <1>3. pc[t] \in PostPcs \cup EnqueuePcs /\ pc[t] \notin {"begin", "issue"}
    BY DEF TrySendNext, Dequeue, SetIdle, Recheck, Prepare, Gate, CanSendPacket,
           PushBack, Discard, PostPcs, EnqueuePcs
  <1>4. Base(t, stack[t])
    BY <1>3 DEF Fits, FitsAt
  <1>5. /\ Handles(t) <=> t \in Workers
        /\ Issues(t) <=> pc[t] = "gate"
    BY <1>3, <1>4, PostRoles, RolesAt DEF PostPcs, EnqueuePcs
  <1>6. \/ Return(t) /\ pc[t] # "gate"
        \/ \E l \in PostPcs \cup EnqueuePcs \cup {"dropCurrent", "finish"} :
             /\ Goto(t, l)
             /\ l \in {"gate", "issue", "finish"} <=> pc[t] = "gate"
             /\ l = "issue" => cancelIo[s] = 0
    <2>1. CASE Gate(t)
      BY <2>1 DEF Gate, PostPcs, EnqueuePcs
    <2>2. CASE TrySendNext(t) \/ Dequeue(t) \/ SetIdle(t) \/ Recheck(t)
      BY <2>2 DEF TrySendNext, Dequeue, SetIdle, Recheck, PostPcs, EnqueuePcs
    <2>3. CASE Prepare(t) \/ CanSendPacket(t) \/ PushBack(t) \/ Discard(t)
      BY <2>3 DEF Prepare, CanSendPacket, PushBack, Discard, PostPcs, EnqueuePcs
    <2>. QED
      BY <2>1, <2>2, <2>3
  <1>7. CASE Return(t) /\ pc[t] # "gate"
    <2>1. /\ Handles(t)' <=> t \in Workers
          /\ ~Issues(t)'
          /\ pc'[t] \in HomePcs
      BY <1>4, <1>7, HomeRoles, Shapes
    <2>2. Calm(t)
      BY <1>2, <1>3, <1>5, <1>7, <2>1 DEF Calm, ioVars
    <2>3. pc[t] \notin LastPcs /\ pc'[t] \notin LastPcs /\ pc'[t] # "issue"
      BY <1>3, <2>1 DEF HomePcs, LastPcs, ResetPcs, PostPcs, EnqueuePcs
    <2>. QED
      BY <1>1, <2>2, <2>3, ReleasedCalm
  <1>8. ASSUME NEW l \in PostPcs \cup EnqueuePcs \cup {"dropCurrent", "finish"},
               Goto(t, l), l \in {"gate", "issue", "finish"} <=> pc[t] = "gate",
               l = "issue" => cancelIo[s] = 0
        PROVE  Released(s)'
    <2>1. l \in Pcs /\ l \notin LastPcs
      BY DEF PostPcs, EnqueuePcs, Pcs, SendPcs, AwayPcs, LastPcs, ResetPcs
    <2>2. pc'[t] = l /\ stack'[t] = stack[t]
      BY <1>8, <2>1, GotoAt DEF At
    <2>3. /\ Handles(t)' <=> t \in Workers
          /\ Issues(t)' <=> l \in {"gate", "issue", "finish"}
      BY <1>4, <2>2, PostRoles, RolesAt DEF DropPcs
    <2>4. Calm(t)
      BY <1>2, <1>5, <1>8, <2>3 DEF Calm, ioVars
    <2>5. pc[t] \notin LastPcs /\ pc'[t] \notin LastPcs
      BY <1>3, <2>1, <2>2 DEF LastPcs, ResetPcs, PostPcs, EnqueuePcs
    <2>. QED
      BY <1>1, <1>8, <2>2, <2>4, <2>5, ReleasedCalm
  <1>. QED
    BY <1>6, <1>7, <1>8

LEMMA ReleasedBeginIO ==
    ASSUME TypeOK, NEW t \in Threads, Fits(t),
           NEW s \in Sessions, s = ses[t], Released(s),
           BeginIO(t) \/ IssueSucceeds(t)
    PROVE  Released(s)'
  <1>1. Sound(t, s)
    BY SoundBeginIO, SoundIssueSucceeds, TypesOf
  <1>2. pc[t] \in {"begin", "issue"} /\ Base(t, stack[t])
    BY DEF BeginIO, IssueSucceeds, Fits, FitsAt, PostPcs
  <1>3. /\ Handles(t) <=> t \in Workers
        /\ Issues(t) <=> pc[t] = "issue"
    BY <1>2, PostRoles, RolesAt DEF PostPcs
  <1>4. t \in Of(s)
    BY DEF Of
  <1>5. ioCount \in [Sessions -> Int] /\ live \in [Sessions -> [Kinds -> Nat]]
    BY DEF TypeOK
  <1>6. CASE BeginIO(t)
    <2>1. /\ pc[t] = "begin" /\ Goto(t, "gate") /\ ioCount' = [ioCount EXCEPT ![s] = @ + 1]
          /\ poolState' = poolState /\ open' = open /\ cancelIo' = cancelIo
          /\ releasePending' = releasePending /\ live' = live /\ dying' = dying
      BY <1>5, <1>6 DEF BeginIO, leaseVars, kernVars
    <2>2. pc'[t] = "gate" /\ stack'[t] = stack[t]
      <3>1. "gate" \in Pcs
        BY DEF Pcs, SendPcs
      <3>. QED
        BY <2>1, <3>1, GotoAt DEF At
    <2>3. (Handles(t)' <=> t \in Workers) /\ Issues(t)'
      BY <1>2, <2>2, PostRoles, RolesAt DEF PostPcs
    <2>4. Ops(s)' = Ops(s)
      BY <2>1 DEF Ops, SendOps
    <2>5. Balanced(t, s)
      <3>1. Weight(t)' = Weight(t) + 1 /\ Weight(t) \in Nat
        BY <1>3, <2>1, <2>3 DEF Weight
      <3>2. ioCount'[s] = ioCount[s] + 1
        BY <1>1, <1>5, <2>1
      <3>. QED
        BY <1>1, <2>4, <3>1, <3>2, OpsType DEF Balanced, Sound
    <2>6. Ended(s) => Ops(s)' = 0 /\ ~Handles(t)'
      BY <1>3, <1>4, <1>5, <2>3, <2>4 DEF Released, Drained
    <2>7. /\ pc[t] \notin LastPcs /\ pc'[t] \notin LastPcs
          /\ poolState[s] = "IN_USE" => dying'[s]["recv"] = 0 /\ dying'[s]["send"] = 0
      BY <2>1, <2>2 DEF LastPcs, ResetPcs, Released, Drained
    <2>. QED
      BY <1>1, <1>5, <2>1, <2>2, <2>5, <2>6, <2>7, ReleasedStep
  <1>7. CASE IssueSucceeds(t)
    <2>1. /\ pc[t] = "issue" /\ Return(t) /\ live' = [live EXCEPT ![s]["send"] = @ + 1]
          /\ poolState' = poolState /\ open' = open /\ cancelIo' = cancelIo
          /\ releasePending' = releasePending /\ ioCount' = ioCount
          /\ dying' = dying /\ open[s]
      BY <1>5, <1>7 DEF IssueSucceeds, leaseVars, ioVars
    <2>2. (Handles(t)' <=> t \in Workers) /\ ~Issues(t)' /\ pc'[t] \in HomePcs
      BY <1>2, <2>1, HomeRoles, Shapes
    <2>3. Ops(s)' = Ops(s) + 1
      <3>1. live'[s]["send"] = live[s]["send"] + 1 /\ live'[s]["recv"] = live[s]["recv"]
        BY <1>1, <1>5, <2>1, KindsHas
      <3>2. dying'[s] = dying[s]
        BY <2>1
      <3>3. /\ live[s]["recv"] \in Nat /\ live[s]["send"] \in Nat
            /\ dying[s]["recv"] \in Nat /\ dying[s]["send"] \in Nat
        BY OpsType
      <3>. QED
        BY <3>1, <3>2, <3>3 DEF Ops, SendOps
    <2>4. Balanced(t, s)
      <3>1. Weight(t)' = Weight(t) - 1 /\ Weight(t) \in Nat
        BY <1>3, <2>1, <2>2 DEF Weight
      <3>2. Ops(s) \in Nat /\ ioCount[s] \in Int /\ ioCount'[s] = ioCount[s]
        BY <2>1, OpsType
      <3>. QED
        BY <2>3, <3>1, <3>2 DEF Balanced
    <2>5. ~Ended(s)
      <3>1. ~Gone(s) /\ \A u \in Of(s) : pc[u] # "complete"
        BY <1>4, <1>5, <2>1 DEF Released, Drained
      <3>. QED
        BY <3>1 DEF Gone, Ended, Lasts, Resets, LastPcs
    <2>6. /\ pc[t] \notin LastPcs /\ pc'[t] \notin LastPcs
          /\ pc'[t] # "issue"
          /\ poolState[s] = "IN_USE" => dying'[s]["recv"] = 0 /\ dying'[s]["send"] = 0
      BY <2>1, <2>2 DEF LastPcs, ResetPcs, HomePcs, Released, Drained
    <2>. QED
      BY <1>1, <1>5, <2>1, <2>4, <2>5, <2>6, ReleasedStep
  <1>. QED
    BY <1>5, <1>6, <1>7

LEMMA FailsTo ==
    ASSUME TypeOK, NEW t \in Threads, Fits(t), IssueFails(t)
    PROVE  /\ pc'[t] = "dropCurrent" /\ Base(t, stack[t])
           /\ \/ Undoing(t, stack'[t]) /\ short'[ses[t]] /\ dead' = dead
              \/ Retiring(t, stack'[t]) /\ dead'[ses[t]] /\ short' = short
  <1>1. pc[t] = "issue" /\ Base(t, stack[t]) /\ ses[t] \in Sessions
    BY TypesOf DEF IssueFails, Fits, FitsAt, PostPcs
  <1>2. "dropCurrent" \in Pcs /\ "finish" \in Pcs /\ "retire" \in Pcs
    BY Frames DEF Pcs, SendPcs
  <1>3. /\ Undoing(t, Then("finish", stack[t]))
        /\ Retiring(t, Then("retire", Then("finish", stack[t])))
    BY <1>1, Shapes
  <1>4. CASE Call(t, "dropCurrent", <<"retire", "finish">>) /\ UNCHANGED short
             /\ dead' = [dead EXCEPT ![ses[t]] = TRUE]
    <2>1. At(t, "dropCurrent", Then("retire", Then("finish", stack[t])))
      BY <1>2, <1>4, CallAt
    <2>2. dead'[ses[t]]
      BY <1>1, <1>4 DEF TypeOK
    <2>. QED
      BY <1>1, <1>3, <1>4, <2>1, <2>2 DEF At
  <1>5. CASE Call(t, "dropCurrent", <<"finish">>) /\ UNCHANGED dead
             /\ short' = [short EXCEPT ![ses[t]] = TRUE]
    <2>1. At(t, "dropCurrent", Then("finish", stack[t]))
      BY <1>2, <1>5, CallAt
    <2>2. short'[ses[t]]
      BY <1>1, <1>5 DEF TypeOK
    <2>. QED
      BY <1>1, <1>3, <1>5, <2>1, <2>2 DEF At
  <1>. QED
    BY <1>4, <1>5 DEF IssueFails

LEMMA ReleasedDrop ==
    ASSUME TypeOK, NEW t \in Threads, Fits(t),
           NEW s \in Sessions, s = ses[t], Released(s),
           IssueFails(t) \/ DropCurrent(t) \/ DropToken(t) \/ OnSendCompleted(t)
    PROVE  Released(s)'
  <1>1. Sound(t, s)
    BY SoundIssueFails, SoundDropCurrent, SoundDropToken, SoundSent, TypesOf
  <1>2. UNCHANGED <<poolState, open, ioVars, live, dying>>
    BY DEF IssueFails, DropCurrent, DropToken, OnSendCompleted, leaseVars, kernVars
  <1>3. /\ pc[t] \in {"issue", "sent"} \cup DropPcs /\ pc[t] \notin LastPcs
    BY DEF IssueFails, DropCurrent, DropToken, OnSendCompleted, DropPcs, LastPcs,
           ResetPcs
  <1>4. Handles(t) <=> t \in Workers
    BY <1>3 DEF Handles, HandlesAt, DropPcs
  <1>5. /\ pc'[t] \notin LastPcs \cup {"issue"}
        /\ Handles(t)' <=> t \in Workers
        /\ Issues(t)' <=> Issues(t)
    <2>1. CASE IssueFails(t)
      <3>1. /\ pc'[t] = "dropCurrent"
            /\ Undoing(t, stack'[t]) \/ Retiring(t, stack'[t])
        BY <2>1, FailsTo
      <3>2. pc[t] = "issue"
        BY <2>1 DEF IssueFails
      <3>. QED
        BY <3>1, <3>2, RolesAt DEF HandlesAt, IssuesAt, DropPcs, LastPcs, ResetPcs
    <2>2. CASE DropCurrent(t)
      <3>1. "dropToken" \in Pcs
        BY DEF Pcs, SendPcs
      <3>2. pc[t] = "dropCurrent" /\ pc'[t] = "dropToken" /\ stack'[t] = stack[t]
        BY <2>2, <3>1, GotoAt DEF DropCurrent, At
      <3>. QED
        BY <3>2, RolesAt DEF HandlesAt, IssuesAt, DropPcs, LastPcs, ResetPcs
    <2>3. CASE DropToken(t)
      <3>1. /\ Trying(t, stack[t]) => pc'[t] = "try" /\ stack'[t] = OfDone
            /\ Retiring(t, stack[t]) => pc'[t] = "retire" /\ Undoing(t, stack'[t])
            /\ Undoing(t, stack[t]) => pc'[t] = "finish" /\ Base(t, stack'[t])
            /\ Base(t, stack[t]) => pc'[t] \in HomePcs /\ stack'[t] = <<>>
        BY <2>3, DropsTo
      <3>2. /\ pc[t] = "dropToken" /\ Return(t)
            /\ \/ Base(t, stack[t]) \/ Trying(t, stack[t]) \/ Undoing(t, stack[t])
               \/ Retiring(t, stack[t])
        BY <2>3 DEF DropToken, Fits, FitsAt, DropPcs
      <3>3. CASE Base(t, stack[t])
        <4>1. (Handles(t)' <=> t \in Workers) /\ ~Issues(t)'
          BY <3>2, <3>3, HomeRoles, Shapes
        <4>2. ~Issues(t)
          BY <3>2, <3>3, PostRoles, RolesAt DEF DropPcs
        <4>. QED
          BY <3>1, <3>3, <4>1, <4>2 DEF HomePcs, LastPcs, ResetPcs
      <3>4. CASE Trying(t, stack[t])
        <4>1. pc'[t] = "try" /\ t \in Workers
          BY <3>1, <3>4 DEF Trying
        <4>2. ~Undoing(t, stack[t]) /\ ~Retiring(t, stack[t])
          BY <3>4, Shapes
        <4>. QED
          BY <3>2, <4>1, <4>2, RolesAt DEF HandlesAt, IssuesAt, DropPcs, LastPcs,
             ResetPcs
      <3>5. CASE Undoing(t, stack[t])
        BY <3>1, <3>2, <3>5, RolesAt DEF HandlesAt, IssuesAt, DropPcs, LastPcs,
           ResetPcs
      <3>6. CASE Retiring(t, stack[t])
        BY <3>1, <3>2, <3>6, RolesAt DEF HandlesAt, IssuesAt, DropPcs, LastPcs,
           ResetPcs
      <3>. QED
        BY <3>2, <3>3, <3>4, <3>5, <3>6
    <2>4. CASE OnSendCompleted(t)
      <3>1. pc[t] = "sent" /\ t \in Workers /\ stack[t] = OfDone /\ Base(t, stack[t])
        BY <2>4 DEF OnSendCompleted, Fits, FitsAt, Base
      <3>2. ~Issues(t)
        BY <3>1 DEF Issues, IssuesAt, DropPcs
      <3>3. CASE Return(t)
        BY <3>1, <3>2, <3>3, HomeRoles, Shapes DEF HomePcs, LastPcs, ResetPcs
      <3>4. CASE Goto(t, "prepare")
        <4>1. "prepare" \in Pcs
          BY DEF Pcs, SendPcs
        <4>2. pc'[t] = "prepare" /\ stack'[t] = stack[t]
          BY <3>4, <4>1, GotoAt DEF At
        <4>. QED
          BY <3>1, <3>2, <4>2, RolesAt
             DEF HandlesAt, IssuesAt, DropPcs, LastPcs, ResetPcs
      <3>5. CASE Call(t, "dropCurrent", <<"try">>)
        <4>1. "dropCurrent" \in Pcs
          BY DEF Pcs, SendPcs
        <4>2. pc'[t] = "dropCurrent" /\ stack'[t] = Then("try", OfDone)
          BY <3>1, <3>5, <4>1, CallAt, Frames DEF At
        <4>3. ~Undoing(t, stack'[t]) /\ ~Retiring(t, stack'[t])
          BY <3>1, <4>2, Shapes DEF Trying
        <4>. QED
          BY <3>1, <3>2, <4>2, <4>3, RolesAt
             DEF HandlesAt, IssuesAt, DropPcs, LastPcs, ResetPcs
      <3>. QED
        BY <2>4, <3>3, <3>4, <3>5 DEF OnSendCompleted
    <2>. QED
      BY <2>1, <2>2, <2>3, <2>4
  <1>6. Calm(t)
    BY <1>2, <1>4, <1>5 DEF Calm, ioVars
  <1>. QED
    BY <1>1, <1>3, <1>5, <1>6, ReleasedCalm

-----------------------------------------------------------------------------
(* The service begins to send, or goes on to the next session.             *)
LEMMA ReleasedOutside ==
    ASSUME TypeOK, NEW t \in Senders, Fits(t), NEW s \in Sessions, Released(s),
           Sound(t, s), pc[t] \in {"idle", "nextTarget"},
           pc'[t] \in {"idle", "nextTarget", "canSend"},
           UNCHANGED <<poolState, open, ioVars, live, dying>>
    PROVE  Released(s)'
  <1>1. t \in Threads /\ t \notin Workers
    BY ThreadKinds DEF Threads
  <1>2. ~Handles(t) /\ ~Handles(t)' /\ ~Issues(t) /\ ~Issues(t)'
    BY <1>1, RolesAt DEF HandlesAt, IssuesAt, DropPcs
  <1>3. Calm(t)
    BY <1>2 DEF Calm, ioVars
  <1>. QED
    BY <1>1, <1>3, ReleasedCalm DEF LastPcs, ResetPcs

(* A completion comes to a worker: the count of the operation is now that  *)
(* of its handler.                                                         *)
Comes(t, s, l, q) ==
    /\ Starts(t, s, l, q) /\ l \in {"canSend", "sent", "retire", "finish"}
    /\ l = "retire" => q = OfDone
    /\ l = "finish" => q = <<>>
    /\ poolState' = poolState /\ open' = open /\ ioCount' = ioCount
    /\ cancelIo' = cancelIo /\ releasePending' = releasePending
    /\ Ops(s) = Ops(s)' + 1
    /\ dying'[s]["recv"] <= dying[s]["recv"] /\ dying'[s]["send"] <= dying[s]["send"]

LEMMA ReleasedComes ==
    ASSUME TypeOK, NEW t \in Workers, Fits(t), NEW s \in Sessions, Released(s),
           Sound(t, s), NEW l, NEW q, Comes(t, s, l, q)
    PROVE  Released(s)'
  <1>1. t \in Threads /\ TypeOK'
    BY DEF Threads, Sound
  <1>2. /\ pc[t] = "idle" /\ pc'[t] = l /\ stack'[t] = q
        /\ l \in {"canSend", "sent", "retire", "finish"}
    BY DEF Comes, Starts, At
  <1>3. ~Handles(t) /\ ~Issues(t) /\ Handles(t)'
    BY <1>1, <1>2, RolesAt DEF HandlesAt, IssuesAt, DropPcs, LastPcs, ResetPcs
  <1>4. ~Issues(t)'
    <2>1. ~Base(t, <<>>) /\ ~Undoing(t, OfDone)
      BY <1>1, Shapes
    <2>. QED
      BY <1>1, <1>2, <2>1, RolesAt DEF IssuesAt, DropPcs, Comes
  <1>5. Weight(t) = 0 /\ Weight(t)' = 1
    BY <1>3, <1>4 DEF Weight
  <1>6. /\ Ops(s) \in Nat /\ Ops(s)' \in Nat /\ ioCount[s] \in Int
        /\ dying[s]["recv"] \in Nat /\ dying'[s]["recv"] \in Nat
        /\ dying[s]["send"] \in Nat /\ dying'[s]["send"] \in Nat
    BY <1>1, OpsType
  <1>7. Balanced(t, s)
    BY <1>5, <1>6 DEF Balanced, Comes
  <1>8. Ops(s) # 0
    BY <1>6 DEF Comes
  <1>9. ~Ended(s)
    BY <1>8 DEF Released, Drained
  <1>10. poolState[s] = "IN_USE" => dying'[s]["recv"] = 0 /\ dying'[s]["send"] = 0
    <2>1. poolState[s] = "IN_USE" => dying[s]["recv"] = 0 /\ dying[s]["send"] = 0
      BY DEF Released, Drained
    <2>2. dying'[s]["recv"] <= dying[s]["recv"] /\ dying'[s]["send"] <= dying[s]["send"]
      BY DEF Comes
    <2>. QED
      BY <1>6, <2>1, <2>2
  <1>11. /\ pc[t] \notin LastPcs /\ pc'[t] \notin LastPcs /\ pc'[t] # "issue"
         /\ poolState'[s] = poolState[s] /\ open'[s] = open[s]
         /\ cancelIo'[s] = cancelIo[s] /\ releasePending'[s] = releasePending[s]
    BY <1>2 DEF LastPcs, ResetPcs, Comes
  <1>. QED
    BY <1>1, <1>7, <1>9, <1>10, <1>11, ReleasedStep

LEMMA OneLess ==
    ASSUME NEW f \in [Sessions -> [Kinds -> Nat]], NEW s \in Sessions,
           NEW k \in Kinds, NEW g, g = [f EXCEPT ![s][k] = @ - 1], f[s][k] > 0
    PROVE  /\ g[s][k] = f[s][k] - 1
           /\ \A j \in Kinds \ {k} : g[s][j] = f[s][j]
           /\ \A j \in Kinds : f[s][j] \in Nat /\ g[s][j] \in Nat
  <1>1. f[s] \in [Kinds -> Nat]
    OBVIOUS
  <1>2. g[s] = [f[s] EXCEPT ![k] = @ - 1]
    OBVIOUS
  <1>3. \A j \in Kinds : f[s][j] \in Nat
    BY <1>1
  <1>. QED
    BY <1>1, <1>2, <1>3

LEMMA Completions ==
    ASSUME TypeOK, NEW t \in Workers, Fits(t), NEW s \in Sessions,
           \/ RecvRequest(t, s) \/ SendDone(t, s)
           \/ \E k \in Kinds : ConnectionEnds(t, s, k) \/ IoCancelled(t, s, k)
    PROVE  /\ Sound(t, s)
           /\ \E l \in Pcs, q \in Seq(Pcs) : Comes(t, s, l, q)
  <1>1. live \in [Sessions -> [Kinds -> Nat]] /\ dying \in [Sessions -> [Kinds -> Nat]]
    BY DEF TypeOK
  <1>2. Kinds = {"recv", "send"} /\ \A k \in Kinds : k # "recv" => k = "send"
    BY KindsHas
  <1>3. /\ "canSend" \in Pcs /\ "sent" \in Pcs /\ "retire" \in Pcs /\ "finish" \in Pcs
        /\ OfRecv \in Seq(Pcs) /\ OfDone \in Seq(Pcs) /\ <<>> \in Seq(Pcs)
    BY Frames DEF Pcs, SendPcs
  <1>4. ASSUME NEW k \in Kinds, live[s][k] > 0, live' = [live EXCEPT ![s][k] = @ - 1],
               dying' = dying
        PROVE  /\ Ops(s) = Ops(s)' + 1
               /\ dying'[s]["recv"] <= dying[s]["recv"]
               /\ dying'[s]["send"] <= dying[s]["send"]
    <2>1. /\ live'[s][k] = live[s][k] - 1
          /\ \A j \in Kinds \ {k} : live'[s][j] = live[s][j]
          /\ \A j \in Kinds : live[s][j] \in Nat /\ live'[s][j] \in Nat
      BY <1>1, <1>4, OneLess
    <2>2. \A j \in Kinds : dying[s][j] \in Nat /\ dying'[s][j] = dying[s][j]
      <3>1. dying[s] \in [Kinds -> Nat]
        BY <1>1
      <3>. QED
        BY <1>4, <3>1
    <2>5. /\ live[s]["recv"] \in Nat /\ live'[s]["recv"] \in Nat
          /\ live[s]["send"] \in Nat /\ live'[s]["send"] \in Nat
          /\ dying[s]["recv"] \in Nat /\ dying'[s]["recv"] = dying[s]["recv"]
          /\ dying[s]["send"] \in Nat /\ dying'[s]["send"] = dying[s]["send"]
      BY <1>2, <2>1, <2>2
    <2>3. CASE k = "recv"
      <3>1. /\ live'[s]["recv"] = live[s]["recv"] - 1
            /\ live'[s]["send"] = live[s]["send"]
        BY <1>2, <2>1, <2>3
      <3>. QED
        BY <2>5, <3>1 DEF Ops, SendOps
    <2>4. CASE k = "send"
      <3>1. /\ live'[s]["send"] = live[s]["send"] - 1
            /\ live'[s]["recv"] = live[s]["recv"]
        BY <1>2, <2>1, <2>4
      <3>. QED
        BY <2>5, <3>1 DEF Ops, SendOps
    <2>. QED
      BY <1>2, <2>3, <2>4
  <1>5. ASSUME NEW k \in Kinds, dying[s][k] > 0, dying' = [dying EXCEPT ![s][k] = @ - 1],
               live' = live
        PROVE  /\ Ops(s) = Ops(s)' + 1
               /\ dying'[s]["recv"] <= dying[s]["recv"]
               /\ dying'[s]["send"] <= dying[s]["send"]
    <2>1. /\ dying'[s][k] = dying[s][k] - 1
          /\ \A j \in Kinds \ {k} : dying'[s][j] = dying[s][j]
          /\ \A j \in Kinds : dying[s][j] \in Nat /\ dying'[s][j] \in Nat
      BY <1>1, <1>5, OneLess
    <2>2. \A j \in Kinds : live[s][j] \in Nat /\ live'[s][j] = live[s][j]
      <3>1. live[s] \in [Kinds -> Nat]
        BY <1>1
      <3>. QED
        BY <1>5, <3>1
    <2>5. /\ dying[s]["recv"] \in Nat /\ dying'[s]["recv"] \in Nat
          /\ dying[s]["send"] \in Nat /\ dying'[s]["send"] \in Nat
          /\ live[s]["recv"] \in Nat /\ live'[s]["recv"] = live[s]["recv"]
          /\ live[s]["send"] \in Nat /\ live'[s]["send"] = live[s]["send"]
      BY <1>2, <2>1, <2>2
    <2>3. CASE k = "recv"
      <3>1. /\ dying'[s]["recv"] = dying[s]["recv"] - 1
            /\ dying'[s]["send"] = dying[s]["send"]
        BY <1>2, <2>1, <2>3
      <3>. QED
        BY <2>5, <3>1 DEF Ops, SendOps
    <2>4. CASE k = "send"
      <3>1. /\ dying'[s]["send"] = dying[s]["send"] - 1
            /\ dying'[s]["recv"] = dying[s]["recv"]
        BY <1>2, <2>1, <2>4
      <3>. QED
        BY <2>5, <3>1 DEF Ops, SendOps
    <2>. QED
      BY <1>2, <2>3, <2>4
  <1>6. CASE RecvRequest(t, s)
    <2>1. Sound(t, s) /\ Starts(t, s, "canSend", OfRecv)
      BY <1>6, SoundRecvRequest
    <2>2. /\ Ops(s) = Ops(s)' + 1
          /\ dying'[s]["recv"] <= dying[s]["recv"] /\ dying'[s]["send"] <= dying[s]["send"]
      BY <1>2, <1>4, <1>6 DEF RecvRequest
    <2>3. Comes(t, s, "canSend", OfRecv)
      BY <1>6, <2>1, <2>2 DEF Comes, RecvRequest, leaseVars, ioVars
    <2>. QED
      BY <1>3, <2>1, <2>3
  <1>7. CASE SendDone(t, s)
    <2>1. Sound(t, s) /\ Starts(t, s, "sent", OfDone)
      BY <1>7, SoundSendDone
    <2>2. /\ Ops(s) = Ops(s)' + 1
          /\ dying'[s]["recv"] <= dying[s]["recv"] /\ dying'[s]["send"] <= dying[s]["send"]
      BY <1>2, <1>4, <1>7 DEF SendDone
    <2>3. Comes(t, s, "sent", OfDone)
      BY <1>7, <2>1, <2>2 DEF Comes, SendDone, leaseVars, ioVars
    <2>. QED
      BY <1>3, <2>1, <2>3
  <1>8. ASSUME NEW k \in Kinds, ConnectionEnds(t, s, k)
        PROVE  Sound(t, s) /\ \E l \in Pcs, q \in Seq(Pcs) : Comes(t, s, l, q)
    <2>1. Sound(t, s) /\ Starts(t, s, "retire", OfDone)
      BY <1>8, SoundEnds
    <2>2. /\ Ops(s) = Ops(s)' + 1
          /\ dying'[s]["recv"] <= dying[s]["recv"] /\ dying'[s]["send"] <= dying[s]["send"]
      BY <1>2, <1>4, <1>8 DEF ConnectionEnds
    <2>3. Comes(t, s, "retire", OfDone)
      BY <1>8, <2>1, <2>2 DEF Comes, ConnectionEnds, leaseVars, ioVars
    <2>. QED
      BY <1>3, <2>1, <2>3
  <1>9. ASSUME NEW k \in Kinds, IoCancelled(t, s, k)
        PROVE  Sound(t, s) /\ \E l \in Pcs, q \in Seq(Pcs) : Comes(t, s, l, q)
    <2>1. Sound(t, s) /\ Starts(t, s, "finish", <<>>)
      BY <1>9, SoundCancelled
    <2>2. /\ Ops(s) = Ops(s)' + 1
          /\ dying'[s]["recv"] <= dying[s]["recv"] /\ dying'[s]["send"] <= dying[s]["send"]
      BY <1>2, <1>5, <1>9 DEF IoCancelled
    <2>3. Comes(t, s, "finish", <<>>)
      BY <1>9, <2>1, <2>2 DEF Comes, IoCancelled, leaseVars, ioVars
    <2>. QED
      BY <1>3, <2>1, <2>3
  <1>. QED
    BY <1>6, <1>7, <1>8, <1>9

LEMMA ReleasedRepost ==
    ASSUME TypeOK, NEW t \in Threads, Fits(t), NEW s \in Sessions, s = ses[t],
           Released(s), Repost(t)
    PROVE  Released(s)'
  <1>1. Sound(t, s) /\ TypeOK'
    BY SoundRepost DEF Sound
  <1>2. /\ pc[t] = "repost" /\ t \in Workers /\ stack[t] = <<>>
        /\ t \in Of(s) /\ Handles(t) /\ ~Issues(t)
    BY DEF Repost, Fits, FitsAt, Of, Handles, HandlesAt, Issues, IssuesAt, DropPcs,
           LastPcs, ResetPcs
  <1>3. /\ poolState' = poolState /\ open' = open /\ ioCount' = ioCount
        /\ cancelIo' = cancelIo /\ releasePending' = releasePending /\ dying' = dying
    BY DEF Repost, leaseVars, ioVars
  <1>4. CASE Return(t) /\ live' = [live EXCEPT ![s]["recv"] = @ + 1]
    <2>1. ~Handles(t)' /\ ~Issues(t)' /\ pc'[t] \in HomePcs
      BY <1>2, <1>4, HomeRoles
    <2>2. Ops(s)' = Ops(s) + 1
      <3>1. live \in [Sessions -> [Kinds -> Nat]]
        BY DEF TypeOK
      <3>2. live'[s]["recv"] = live[s]["recv"] + 1 /\ live'[s]["send"] = live[s]["send"]
        BY <1>4, <3>1, KindsHas
      <3>3. /\ live[s]["recv"] \in Nat /\ live[s]["send"] \in Nat
            /\ dying[s]["recv"] \in Nat /\ dying[s]["send"] \in Nat
        BY OpsType
      <3>4. dying'[s] = dying[s]
        BY <1>3
      <3>. QED
        BY <3>2, <3>3, <3>4 DEF Ops, SendOps
    <2>3. Balanced(t, s)
      <3>1. Weight(t) = 1 /\ Weight(t)' = 0
        BY <1>2, <2>1 DEF Weight
      <3>2. Ops(s) \in Nat /\ ioCount[s] \in Int /\ ioCount'[s] = ioCount[s]
        BY <1>3, OpsType
      <3>. QED
        BY <2>2, <3>1, <3>2 DEF Balanced
    <2>4. ~Ended(s)
      BY <1>2 DEF Released, Drained
    <2>5. /\ pc[t] \notin LastPcs /\ pc'[t] \notin LastPcs /\ pc'[t] # "issue"
          /\ poolState[s] = "IN_USE" => dying'[s]["recv"] = 0 /\ dying'[s]["send"] = 0
      BY <1>2, <1>3, <2>1 DEF LastPcs, ResetPcs, HomePcs, Released, Drained
    <2>. QED
      BY <1>1, <1>3, <2>3, <2>4, <2>5, ReleasedStep
  <1>5. CASE Goto(t, "finish") /\ UNCHANGED live
    <2>1. pc'[t] = "finish" /\ stack'[t] = <<>>
      BY <1>2, <1>5, GotoAt, Frames DEF At
    <2>2. Handles(t)' /\ ~Issues(t)'
      BY <1>2, <2>1, RolesAt, Shapes DEF HandlesAt, IssuesAt, DropPcs, LastPcs, ResetPcs
    <2>3. Calm(t)
      BY <1>2, <1>3, <1>5, <2>2 DEF Calm
    <2>. QED
      BY <1>1, <1>2, <2>1, <2>3, ReleasedCalm DEF LastPcs, ResetPcs
  <1>. QED
    BY <1>4, <1>5 DEF Repost
-----------------------------------------------------------------------------
(* The release itself.                                                     *)

LEMMA Others ==
    ASSUME NEW t \in Threads, NEW s \in Sessions, s = ses[t], Sound(t, s)
    PROVE  /\ t \in Of(s) /\ t \in Of(s)'
           /\ \A u \in Of(s) \cup Of(s)' : u \in Threads
           /\ \A u \in Threads \ {t} : /\ u \in Of(s)' <=> u \in Of(s)
                                       /\ pc'[u] = pc[u] /\ stack'[u] = stack[u]
                                       /\ Handles(u)' <=> Handles(u)
                                       /\ Issues(u)' <=> Issues(u)
                                       /\ Lasts(u)' <=> Lasts(u)
                                       /\ Resets(u)' <=> Resets(u)
  <1>1. Frame(t, s)
    BY DEF Sound
  <1>2. t \in Of(s) /\ t \in Of(s)'
    BY <1>1 DEF Of, Frame
  <1>3. \A u \in Of(s) \cup Of(s)' : u \in Threads
    BY DEF Of
  <1>. QED
    BY <1>1, <1>2, <1>3, Bystander

(* Who is at the end of a packet that failed, or handles a completion,     *)
(* counts.                                                                 *)
LEMMA FinishRoles ==
    ASSUME NEW t \in Threads, Fits(t), pc[t] \in {"finish", "retire"}
    PROVE  /\ Handles(t) <=> t \in Workers
           /\ Handles(t) \/ Issues(t)
           /\ pc[t] = "finish" =>
                /\ Issues(t) <=> Base(t, stack[t])
                /\ Base(t, stack[t]) \/ (t \in Workers /\ stack[t] = <<>>)
           /\ pc[t] = "retire" =>
                /\ Issues(t) <=> Undoing(t, stack[t])
                /\ Undoing(t, stack[t]) \/ (t \in Workers /\ stack[t] = OfDone)
  <1>1. Handles(t) <=> t \in Workers
    BY RolesAt DEF HandlesAt, LastPcs, ResetPcs
  <1>2. CASE pc[t] = "finish"
    <2>1. Base(t, stack[t]) \/ (t \in Workers /\ stack[t] = <<>>)
      BY <1>2 DEF Fits, FitsAt
    <2>2. Issues(t) <=> Base(t, stack[t])
      BY <1>2, RolesAt DEF IssuesAt, DropPcs
    <2>. QED
      BY <1>1, <1>2, <2>1, <2>2
  <1>3. CASE pc[t] = "retire"
    <2>1. Undoing(t, stack[t]) \/ (t \in Workers /\ stack[t] = OfDone)
      BY <1>3 DEF Fits, FitsAt
    <2>2. Issues(t) <=> Undoing(t, stack[t])
      BY <1>3, RolesAt DEF IssuesAt, DropPcs
    <2>. QED
      BY <1>1, <1>3, <2>1, <2>2
  <1>. QED
    BY <1>2, <1>3

LEMMA CountHeld ==
    ASSUME TypeOK, NEW t \in Threads, Fits(t), NEW s \in Sessions, s = ses[t],
           Released(s), pc[t] \in {"finish", "retire"}
    PROVE  /\ ioCount[s] >= 1
           /\ ioCount[s] = 1 =>
                /\ Ops(s) = 0 /\ ~(Handles(t) /\ Issues(t))
                /\ \A u \in Of(s) \ {t} : ~Handles(u) /\ ~Issues(u)
  <1>1. t \in Of(s)
    BY DEF Of
  <1>. QED
    BY <1>1, FinishRoles, HeldCount DEF Released

LEMMA ReleasedFinish ==
    ASSUME TypeOK, NEW t \in Threads, Fits(t), NEW s \in Sessions, s = ses[t],
           Released(s), Finish(t)
    PROVE  Released(s)'
  <1>1. Sound(t, s) /\ TypeOK' /\ Frame(t, s)
    BY SoundFinish DEF Sound
  <1>2. /\ pc[t] = "finish" /\ ~Lasts(t) /\ ~Resets(t)
        /\ Handles(t) <=> t \in Workers
        /\ Issues(t) <=> Base(t, stack[t])
        /\ Base(t, stack[t]) \/ (t \in Workers /\ stack[t] = <<>>)
    BY FinishRoles DEF Finish, Lasts, Resets, LastPcs, ResetPcs
  <1>3. /\ poolState' = poolState /\ open' = open /\ cancelIo' = cancelIo
        /\ live' = live /\ dying' = dying
        /\ ioCount' = [ioCount EXCEPT ![s] = @ - 1]
    BY DEF Finish, DecrementIO, leaseVars, kernVars
  <1>4. Ops(s)' = Ops(s) /\ ioCount[s] \in Int /\ Ops(s) \in Nat
    BY <1>3, OpsType DEF Ops, SendOps
  <1>5. ioCount'[s] = ioCount[s] - 1
    BY <1>3 DEF TypeOK
  <1>6. CASE ~(ioCount[s] = 1 /\ releasePending[s] = 1)
    <2>1. Return(t) /\ releasePending' = releasePending
      BY <1>6 DEF Finish, DecrementIO
    <2>2. /\ Handles(t)' <=> t \in Workers /\ stack[t] # <<>>
          /\ ~Issues(t)' /\ pc'[t] \in HomePcs
      BY <1>2, <2>1, HomeRoles
    <2>3. t \in Workers /\ Base(t, stack[t]) => stack[t] # <<>>
      BY Shapes
    <2>4. Weight(t)' = Weight(t) - 1 /\ Weight(t) \in Nat
      BY <1>2, <2>2, <2>3 DEF Weight
    <2>5. Balanced(t, s)
      BY <1>4, <1>5, <2>4 DEF Balanced
    <2>6. Ended(s) => Ops(s)' = 0 /\ ~Handles(t)'
      BY <1>1, <1>2, <1>4, <2>2, Others DEF Released, Drained
    <2>7. /\ pc[t] \notin LastPcs /\ pc'[t] \notin LastPcs /\ pc'[t] # "issue"
          /\ poolState[s] = "IN_USE" => dying'[s]["recv"] = 0 /\ dying'[s]["send"] = 0
      BY <1>2, <1>3, <2>2 DEF LastPcs, ResetPcs, HomePcs, Released, Drained
    <2>. QED
      BY <1>1, <1>3, <2>1, <2>5, <2>6, <2>7, ReleasedStep
  <1>7. CASE ioCount[s] = 1 /\ releasePending[s] = 1
    <2>1. /\ releasePending' = [releasePending EXCEPT ![s] = 0]
          /\ Goto(t, "complete")
      BY <1>7 DEF Finish, DecrementIO
    <2>2. pc'[t] = "complete" /\ stack'[t] = stack[t] /\ releasePending'[s] = 0
      <3>1. "complete" \in Pcs
        BY DEF Pcs, ReleasePcs
      <3>. QED
        BY <2>1, <3>1, GotoAt DEF At, TypeOK
    <2>3. /\ Ops(s) = 0 /\ ~(Handles(t) /\ Issues(t))
          /\ \A u \in Of(s) \ {t} : ~Handles(u) /\ ~Issues(u)
      BY <1>2, <1>7, CountHeld
    <2>4. Handles(t)' <=> t \in Workers /\ stack[t] # <<>>
      BY <2>2, RolesAt DEF HandlesAt, LastPcs
    <2>5. ~Handles(t)' /\ ~Issues(t)'
      <3>1. ~Issues(t)'
        BY <2>2, RolesAt DEF IssuesAt, DropPcs
      <3>. QED
        BY <1>2, <2>3, <2>4, <3>1
    <2>6. Weight(t) = 1 /\ Weight(t)' = 0
      BY <1>2, <2>3, <2>5 DEF Weight
    <2>7. Counted(s)'
      <3>1. Balanced(t, s)
        BY <1>4, <1>5, <2>6 DEF Balanced
      <3>. QED
        BY <1>1, <3>1, CountedStep DEF Released
    <2>8. poolState[s] = "RELEASING" /\ \A u \in Of(s) : ~Lasts(u) /\ ~Resets(u)
      BY <1>7 DEF Released, Owned, Lasts, Resets, LastPcs
    <2>9. cancelIo[s] = 1
      BY <2>8 DEF Released, Drained, Gone
    <2>10. /\ t \in Of(s)' /\ Lasts(t)' /\ ~Resets(t)'
           /\ \A u \in Of(s)' \ {t} : ~Lasts(u)' /\ ~Resets(u)' /\ ~Handles(u)'
                                      /\ pc'[u] # "issue" /\ pc'[u] # "complete"
      <3>1. \A u \in Of(s) : pc[u] = "complete" => Lasts(u)
        BY DEF Lasts, LastPcs
      <3>2. \A u \in Of(s) : pc[u] = "issue" => Issues(u)
        BY DEF Issues, IssuesAt
      <3>3. Lasts(t)' /\ ~Resets(t)'
        BY <2>2 DEF Lasts, Resets, LastPcs, ResetPcs
      <3>. QED
        BY <1>1, <2>3, <2>8, <3>1, <3>2, <3>3, Others
    <2>11. poolState'[s] = "RELEASING" /\ cancelIo'[s] = 1
      BY <1>3, <2>8, <2>9
    <2>12. Owned(s)'
      BY <2>2, <2>10, <2>11 DEF Owned
    <2>13. ~Gone(s)'
      BY <2>10, <2>11 DEF Gone
    <2>14. Drained(s)'
      BY <1>4, <2>2, <2>3, <2>5, <2>10, <2>11, <2>13 DEF Drained
    <2>. QED
      BY <2>7, <2>12, <2>14 DEF Released
  <1>. QED
    BY <1>6, <1>7

LEMMA ReturnRoles ==
    ASSUME TypeOK, NEW t \in Threads, Return(t),
           Undoing(t, stack[t]) \/ (t \in Workers /\ stack[t] = OfDone)
    PROVE  /\ pc'[t] = "finish" /\ (Handles(t)' <=> t \in Workers)
           /\ Issues(t)' <=> Undoing(t, stack[t])
  <1>1. CASE Undoing(t, stack[t])
    BY <1>1, ReturnUndoing, RolesAt DEF At
  <1>2. CASE t \in Workers /\ stack[t] = OfDone
    <2>1. pc'[t] = "finish" /\ stack'[t] = <<>>
      <3>1. stack[t] = Then("finish", <<>>)
        BY <1>2 DEF OfDone
      <3>2. "finish" \in Pcs /\ <<>> \in Seq(Pcs)
        BY Frames
      <3>3. At(t, "finish", <<>>)
        BY <3>1, <3>2, ReturnAt
      <3>. QED
        BY <3>3 DEF At
    <2>2. ~Base(t, <<>>) /\ ~Undoing(t, OfDone)
      BY <1>2, Shapes
    <2>. QED
      BY <1>2, <2>1, <2>2, RolesAt DEF HandlesAt, IssuesAt, DropPcs, LastPcs, ResetPcs
  <1>. QED
    BY <1>1, <1>2

LEMMA AbortOps ==
    ASSUME TypeOK, NEW s \in Sessions, AbortOperations(s)
    PROVE  /\ Ops(s)' = Ops(s) /\ SendOps(s)' = SendOps(s)
           /\ live'[s]["send"] = 0 /\ live'[s]["recv"] = 0
  <1>1. /\ live'[s]["recv"] = 0 /\ dying'[s]["recv"] = dying[s]["recv"] + live[s]["recv"]
        /\ live'[s]["send"] = 0 /\ dying'[s]["send"] = dying[s]["send"] + live[s]["send"]
    BY AbortTypes, KindsHas
  <1>2. /\ live[s]["recv"] \in Nat /\ live[s]["send"] \in Nat
        /\ dying[s]["recv"] \in Nat /\ dying[s]["send"] \in Nat
    BY OpsType
  <1>. QED
    BY <1>1, <1>2 DEF Ops, SendOps

LEMMA ReleasedRetire ==
    ASSUME TypeOK, NEW t \in Threads, Fits(t), NEW s \in Sessions, s = ses[t],
           Released(s), Retire(t)
    PROVE  Sound(t, s) /\ Released(s)'
  <1>1. pc[t] = "retire"
    BY DEF Retire
  <1>2. ioCount[s] >= 1 /\ ioCount[s] \in Int
    BY <1>1, CountHeld DEF TypeOK
  <1>3. Sound(t, s) /\ TypeOK' /\ Frame(t, s)
    BY <1>2, SoundRetire DEF Sound
  <1>4. Return(t)
    BY <1>2 DEF Retire
  <1>5. /\ Handles(t) <=> t \in Workers
        /\ Issues(t) <=> Undoing(t, stack[t])
        /\ Undoing(t, stack[t]) \/ (t \in Workers /\ stack[t] = OfDone)
    BY <1>1, FinishRoles
  <1>6. /\ pc'[t] = "finish" /\ (Handles(t)' <=> Handles(t))
        /\ Issues(t)' <=> Issues(t)
    BY <1>4, <1>5, ReturnRoles
  <1>7. pc[t] \notin LastPcs /\ pc'[t] \notin LastPcs /\ ioCount' = ioCount /\ open' = open
    BY <1>1, <1>6 DEF LastPcs, ResetPcs, Retire
  <1>8. CASE poolState[s] # "IN_USE"
    <2>1. Calm(t)
      BY <1>6, <1>7, <1>8 DEF Calm, Retire, kernVars
    <2>. QED
      BY <1>3, <1>6, <1>7, <2>1, ReleasedCalm
  <1>9. CASE poolState[s] = "IN_USE"
    <2>1. /\ poolState' = [poolState EXCEPT ![s] = "RELEASING"]
          /\ cancelIo' = [cancelIo EXCEPT ![s] = 1]
          /\ AbortOperations(s)
          /\ releasePending' = [releasePending EXCEPT ![s] = 1]
      BY <1>2, <1>9 DEF Retire
    <2>2. poolState'[s] = "RELEASING" /\ cancelIo'[s] = 1
      BY <2>1 DEF TypeOK
    <2>3. Counted(s)'
      <3>1. Weight(t)' = Weight(t) /\ Weight(t) \in Nat
        BY <1>6 DEF Weight
      <3>2. Ops(s)' = Ops(s) /\ Ops(s) \in Nat /\ ioCount[s] \in Int
        BY <2>1, AbortOps, OpsType
      <3>3. Balanced(t, s)
        BY <1>7, <3>1, <3>2 DEF Balanced
      <3>. QED
        BY <1>3, <3>3, CountedStep DEF Released
    <2>4. \A u \in Of(s)' : ~Lasts(u)' /\ ~Resets(u)' /\ pc'[u] # "complete"
      <3>1. \A u \in Of(s) : ~Lasts(u)
        BY <1>9 DEF Released, Owned
      <3>2. \A u \in Of(s) : ~Resets(u) /\ pc[u] # "complete"
        BY <3>1 DEF Lasts, Resets, LastPcs
      <3>3. ~Lasts(t)' /\ ~Resets(t)'
        BY <1>6 DEF Lasts, Resets, LastPcs, ResetPcs
      <3>. QED
        BY <1>3, <1>6, <3>1, <3>2, <3>3, Others
    <2>5. Owned(s)'
      BY <2>2, <2>4 DEF Owned
    <2>6. ~Ended(s)' /\ ~Gone(s)'
      BY <2>2, <2>4 DEF Ended, Gone
    <2>7. Drained(s)'
      BY <2>2, <2>4, <2>6 DEF Drained
    <2>. QED
      BY <1>3, <2>3, <2>5, <2>7 DEF Released
  <1>. QED
    BY <1>8, <1>9
(* The session is reset; the node becomes free.                            *)
LEMMA ReleasedComplete ==
    ASSUME TypeOK, NEW t \in Threads, Fits(t), NEW s \in Sessions, s = ses[t],
           Released(s), CompleteRelease(t)
    PROVE  Released(s)'
  <1>1. Sound(t, s) /\ TypeOK' /\ Frame(t, s)
    BY SoundComplete DEF Sound
  <1>2. /\ pc[t] = "complete" /\ Goto(t, "resetQueue") /\ poolState' = poolState
        /\ open' = [open EXCEPT ![s] = FALSE]
        /\ cancelIo' = [cancelIo EXCEPT ![s] = 0]
        /\ releasePending' = [releasePending EXCEPT ![s] = 0]
        /\ AbortOperations(s) /\ ioCount' = ioCount
    BY DEF CompleteRelease
  <1>3. ~open'[s] /\ cancelIo'[s] = 0 /\ releasePending'[s] = 0
    BY <1>2 DEF TypeOK
  <1>4. pc'[t] = "resetQueue" /\ stack'[t] = stack[t]
    <2>1. "resetQueue" \in Pcs
      BY DEF Pcs, ReleasePcs
    <2>. QED
      BY <1>2, <2>1, GotoAt DEF At
  <1>5. t \in Of(s) /\ Lasts(t) /\ Ended(s)
    BY <1>1, <1>2, Others DEF Lasts, LastPcs, Ended
  <1>6. Lasts(t)' /\ Resets(t)'
    BY <1>4 DEF Lasts, Resets, LastPcs, ResetPcs
  <1>7. (Handles(t)' <=> Handles(t)) /\ ~Issues(t) /\ ~Issues(t)'
    BY <1>2, <1>4, RolesAt DEF HandlesAt, IssuesAt, DropPcs, LastPcs, ResetPcs
  <1>8. Ops(s)' = Ops(s) /\ Ops(s) \in Nat /\ ioCount[s] \in Int
    BY <1>2, AbortOps, OpsType
  <1>9. Counted(s)'
    <2>1. Weight(t)' = Weight(t) /\ Weight(t) \in Nat
      BY <1>7 DEF Weight
    <2>2. Balanced(t, s)
      BY <1>2, <1>8, <2>1 DEF Balanced
    <2>. QED
      BY <1>1, <2>2, CountedStep DEF Released
  <1>10. /\ poolState'[s] = "RELEASING"
         /\ \A u \in Of(s) : Lasts(u) => u = t
    BY <1>2, <1>5 DEF Released, Owned
  <1>11. Owned(s)'
    BY <1>1, <1>3, <1>10, Others DEF Owned
  <1>12. Ops(s) = 0 /\ \A u \in Of(s) : ~Handles(u)
    BY <1>5 DEF Released, Drained
  <1>13. \A u \in Of(s)' : ~Handles(u)' /\ pc'[u] # "complete"
    <2>1. \A u \in Of(s) : pc[u] = "complete" => Lasts(u)
      BY DEF Lasts, LastPcs
    <2>. QED
      BY <1>1, <1>4, <1>5, <1>7, <1>10, <1>12, <2>1, Others
  <1>14. Gone(s)'
    BY <1>1, <1>6, Others DEF Gone
  <1>15. Drained(s)'
    BY <1>3, <1>8, <1>10, <1>12, <1>13, <1>14 DEF Drained
  <1>. QED
    BY <1>9, <1>11, <1>15 DEF Released

LEMMA ReleasedReset ==
    ASSUME TypeOK, NEW t \in Threads, Fits(t), NEW s \in Sessions, s = ses[t],
           Released(s), ResetQueue(t) \/ ResetCurrent(t)
    PROVE  Released(s)'
  <1>1. Sound(t, s) /\ TypeOK' /\ Frame(t, s)
    BY SoundReset DEF Sound
  <1>2. /\ pc[t] \in ResetPcs
        /\ \E l \in {"resetCurrent", "free"} : Goto(t, l)
        /\ poolState' = poolState /\ open' = open /\ cancelIo' = cancelIo
        /\ releasePending' = releasePending /\ ioCount' = ioCount
        /\ live' = live /\ dying' = dying
    BY DEF ResetQueue, ResetCurrent, ResetPcs, leaseVars, ioVars, kernVars
  <1>3. pc'[t] \in ResetPcs /\ stack'[t] = stack[t]
    <2>1. PICK l \in {"resetCurrent", "free"} : Goto(t, l)
      BY <1>2
    <2>2. l \in Pcs
      BY DEF Pcs, ReleasePcs
    <2>. QED
      BY <2>1, <2>2, GotoAt DEF At, ResetPcs
  <1>4. /\ t \in Of(s) /\ Lasts(t) /\ Ended(s) /\ Gone(s)
        /\ Lasts(t)' /\ Resets(t)' /\ pc'[t] # "complete"
    BY <1>1, <1>2, <1>3, Others DEF Lasts, Resets, LastPcs, ResetPcs, Ended, Gone
  <1>5. (Handles(t)' <=> Handles(t)) /\ ~Issues(t) /\ ~Issues(t)'
    BY <1>2, <1>3, RolesAt DEF HandlesAt, IssuesAt, DropPcs, LastPcs, ResetPcs
  <1>6. Ops(s)' = Ops(s) /\ Ops(s) \in Nat /\ ioCount[s] \in Int
    BY <1>2, OpsType DEF Ops, SendOps
  <1>7. Counted(s)'
    <2>1. Weight(t)' = Weight(t) /\ Weight(t) \in Nat
      BY <1>5 DEF Weight
    <2>2. Balanced(t, s)
      BY <1>2, <1>6, <2>1 DEF Balanced
    <2>. QED
      BY <1>1, <2>2, CountedStep DEF Released
  <1>8. /\ poolState'[s] = "RELEASING" /\ releasePending'[s] = 0
        /\ \A u \in Of(s) : Lasts(u) => u = t
    BY <1>2, <1>4 DEF Released, Owned
  <1>9. Owned(s)'
    BY <1>1, <1>8, Others DEF Owned
  <1>10. /\ Ops(s) = 0 /\ \A u \in Of(s) : ~Handles(u)
         /\ ~open[s] /\ cancelIo[s] = 0
    BY <1>4 DEF Released, Drained
  <1>11. \A u \in Of(s)' : ~Handles(u)' /\ pc'[u] # "complete"
    <2>1. \A u \in Of(s) : pc[u] = "complete" => Lasts(u)
      BY DEF Lasts, LastPcs
    <2>. QED
      BY <1>1, <1>4, <1>5, <1>8, <1>10, <2>1, Others
  <1>12. Gone(s)'
    BY <1>1, <1>4, Others DEF Gone
  <1>13. Drained(s)'
    BY <1>2, <1>6, <1>8, <1>10, <1>11, <1>12 DEF Drained
  <1>. QED
    BY <1>7, <1>9, <1>13 DEF Released

LEMMA ReleasedFree ==
    ASSUME TypeOK, NEW t \in Threads, Fits(t), NEW s \in Sessions, s = ses[t],
           Released(s), Free(t)
    PROVE  /\ Released(s)'
           /\ pc'[t] = "idle" \/ pc'[t] = "nextTarget"
  <1>1. Sound(t, s) /\ TypeOK' /\ Frame(t, s)
    BY SoundReset DEF Sound
  <1>2. /\ pc[t] = "free" /\ Return(t)
        /\ poolState' = [poolState EXCEPT ![s] = "FREE"]
        /\ open' = open /\ cancelIo' = cancelIo
        /\ releasePending' = releasePending /\ ioCount' = ioCount
        /\ live' = live /\ dying' = dying
    BY DEF Free, ioVars, kernVars
  <1>3. /\ t \in Of(s) /\ Lasts(t) /\ Resets(t) /\ Ended(s) /\ Gone(s)
    BY <1>1, <1>2, Others DEF Lasts, Resets, LastPcs, ResetPcs, Ended, Gone
  <1>4. /\ Ops(s) = 0 /\ \A u \in Of(s) : ~Handles(u)
        /\ ~open[s] /\ cancelIo[s] = 0
    BY <1>3 DEF Released, Drained
  <1>5. t \notin Workers \/ stack[t] = <<>>
    <2>1. Handles(t) <=> t \in Workers /\ stack[t] # <<>>
      BY <1>2, RolesAt DEF HandlesAt, LastPcs, ResetPcs
    <2>. QED
      BY <1>3, <1>4, <2>1
  <1>6. Base(t, stack[t]) \/ (t \in Workers /\ stack[t] = <<>>)
    BY <1>2 DEF Fits, FitsAt, LastPcs, ResetPcs
  <1>7. ~Handles(t)' /\ ~Issues(t)' /\ ~Lasts(t)' /\ ~Resets(t)'
        /\ pc'[t] # "complete"
    <2>1. ~Handles(t)' /\ ~Issues(t)' /\ pc'[t] \in HomePcs
      BY <1>2, <1>5, <1>6, HomeRoles
    <2>. QED
      BY <2>1 DEF HomePcs, Lasts, Resets, LastPcs, ResetPcs
  <1>8. ~Handles(t) /\ ~Issues(t)
    BY <1>2, <1>3, <1>4, RolesAt DEF IssuesAt, DropPcs
  <1>9. Ops(s)' = Ops(s) /\ Ops(s) \in Nat /\ ioCount[s] \in Int
    BY <1>2, OpsType DEF Ops, SendOps
  <1>10. Counted(s)'
    <2>1. Weight(t)' = 0 /\ Weight(t) = 0
      BY <1>7, <1>8 DEF Weight
    <2>2. Balanced(t, s)
      BY <1>2, <1>9, <2>1 DEF Balanced
    <2>. QED
      BY <1>1, <2>2, CountedStep DEF Released
  <1>11. /\ poolState'[s] = "FREE" /\ releasePending'[s] = 0
         /\ \A u \in Of(s) : Lasts(u) => u = t
    BY <1>2, <1>3 DEF Released, Owned, TypeOK
  <1>12. \A u \in Of(s)' : ~Handles(u)' /\ ~Lasts(u)' /\ pc'[u] # "complete"
    <2>1. \A u \in Of(s) : pc[u] = "complete" => Lasts(u)
      BY DEF Lasts, LastPcs
    <2>. QED
      BY <1>1, <1>4, <1>7, <1>11, <2>1, Others
  <1>13. Owned(s)'
    BY <1>11, <1>12 DEF Owned
  <1>14. Drained(s)'
    BY <1>2, <1>4, <1>9, <1>11, <1>12 DEF Drained
  <1>15. pc'[t] = "idle" \/ pc'[t] = "nextTarget"
    <2>1. CASE t \in Workers
      <3>1. At(t, "idle", <<>>)
        BY <1>2, <1>5, <2>1, ReturnAt
      <3>. QED
        BY <3>1 DEF At
    <2>2. CASE t \notin Workers
      <3>1. stack[t] = <<>> \/ stack[t] = OfCast
        BY <1>6, <2>2 DEF Base
      <3>2. stack[t] = <<>> => At(t, "idle", <<>>)
        BY <1>2, ReturnAt
      <3>3. "nextTarget" \in Pcs /\ <<>> \in Seq(Pcs)
        BY Frames
      <3>4. stack[t] = Then("nextTarget", <<>>) => At(t, "nextTarget", <<>>)
        BY <1>2, <3>3, ReturnAt
      <3>. QED
        BY <3>1, <3>2, <3>4 DEF At, OfCast
    <2>. QED
      BY <2>1, <2>2
  <1>. QED
    BY <1>10, <1>13, <1>14, <1>15 DEF Released

LEMMA ReleasedLease ==
    ASSUME TypeOK, NEW s \in Sessions, Lease(s), Released(s)
    PROVE  Released(s)'
  <1>1. /\ poolState[s] = "FREE" /\ Ended(s) /\ Gone(s)
    BY DEF Lease, Ended, Gone
  <1>2. /\ Ops(s) = 0 /\ ~open[s] /\ cancelIo[s] = 0
        /\ \A u \in Of(s) : ~Lasts(u) /\ releasePending[s] # 1
    BY <1>1 DEF Released, Drained, Owned
  <1>3. releasePending[s] = 0
    BY <1>1 DEF Released, Owned, TypeOK
  <1>4. /\ poolState'[s] = "IN_USE" /\ open'[s] /\ ioCount'[s] = ioCount[s] + 1
        /\ cancelIo'[s] = 0 /\ releasePending'[s] = 0 /\ dying' = dying
        /\ pc' = pc /\ stack' = stack /\ ses' = ses
    BY <1>2, <1>3 DEF Lease, TypeOK, locals
  <1>5. /\ live[s]["recv"] = 0 /\ live[s]["send"] = 0
        /\ dying[s]["recv"] = 0 /\ dying[s]["send"] = 0
    <2>1. /\ live[s]["recv"] \in Nat /\ live[s]["send"] \in Nat
          /\ dying[s]["recv"] \in Nat /\ dying[s]["send"] \in Nat
      BY OpsType
    <2>2. live[s]["recv"] + dying[s]["recv"] + (live[s]["send"] + dying[s]["send"]) = 0
      BY <1>2 DEF Ops, SendOps
    <2>3. \A a, b, c, d \in Nat : a + b + (c + d) = 0 => a = 0 /\ b = 0 /\ c = 0 /\ d = 0
      OBVIOUS
    <2>. QED
      BY <2>1, <2>2, <2>3
  <1>6. live'[s]["recv"] = 1 /\ live'[s]["send"] = 0
    <2>1. live \in [Sessions -> [Kinds -> Nat]]
      BY DEF TypeOK
    <2>2. live' = [live EXCEPT ![s]["recv"] = 1]
      BY DEF Lease
    <2>. QED
      BY <1>5, <2>1, <2>2, KindsHas
  <1>7. Ops(s)' = 1
    BY <1>4, <1>5, <1>6 DEF Ops, SendOps
  <1>8. /\ Of(s)' = Of(s) /\ Handlers(s)' = Handlers(s) /\ Issuers(s)' = Issuers(s)
        /\ \A u \in Of(s) : Lasts(u)' <=> Lasts(u)
    BY <1>4 DEF Of, Handlers, Issuers, Handles, Issues, Lasts
  <1>9. Counted(s)'
    <2>1. IsFiniteSet(Handlers(s)) /\ IsFiniteSet(Issuers(s))
      BY ThreadsAssumption, FS_Subset DEF Handlers, Issuers, Of
    <2>2. Cardinality(Handlers(s)) \in Nat /\ Cardinality(Issuers(s)) \in Nat
      BY <2>1, FS_CardinalityType
    <2>. QED
      BY <1>2, <1>4, <1>7, <1>8, <2>2 DEF Counted, Released
  <1>10. \A u \in Of(s)' : ~Lasts(u)' /\ pc'[u] # "complete"
    <2>1. \A u \in Of(s) : pc[u] = "complete" => Lasts(u)
      BY DEF Lasts, LastPcs
    <2>. QED
      BY <1>2, <1>4, <1>8, <2>1
  <1>11. Owned(s)'
    BY <1>4, <1>10 DEF Owned
  <1>12. ~Ended(s)' /\ ~Gone(s)'
    <2>1. \A u \in Of(s)' : ~Resets(u)'
      BY <1>10 DEF Resets, Lasts, LastPcs
    <2>. QED
      BY <1>4, <1>10, <2>1 DEF Ended, Gone
  <1>13. Drained(s)'
    BY <1>4, <1>5, <1>10, <1>12 DEF Drained
  <1>. QED
    BY <1>9, <1>11, <1>13 DEF Released
-----------------------------------------------------------------------------
(* A step is a lease, or one of a thread, with one session.                *)

(* What a thread does that is not at work ...                              *)
Outside(t, s) ==
    /\ t \in Senders /\ pc[t] \in {"idle", "nextTarget"}
    /\ pc'[t] \in {"idle", "nextTarget", "canSend"}
    /\ \/ Send(t, s) \/ Broadcast(t) \/ BroadcastNext(t) \/ BroadcastEnds(t)

Completes(t, s) ==
    /\ t \in Workers
    /\ \/ RecvRequest(t, s) \/ SendDone(t, s)
       \/ \E k \in Kinds : ConnectionEnds(t, s, k) \/ IoCancelled(t, s, k)

(* ... and one that is.                                                    *)
Posts(t) ==
    \/ TrySendNext(t) \/ Dequeue(t) \/ SetIdle(t) \/ Recheck(t) \/ Prepare(t)
    \/ Gate(t) \/ BeginIO(t) \/ IssueSucceeds(t) \/ IssueFails(t)
    \/ DropCurrent(t) \/ DropToken(t) \/ OnSendCompleted(t)

Works(t, s) ==
    /\ s = ses[t]
    /\ \/ Posts(t) \/ CanSendPacket(t) \/ PushBack(t) \/ Discard(t)
       \/ ReleaseStep(t) \/ Repost(t)

Acts(t, s) == Outside(t, s) \/ Completes(t, s) \/ Works(t, s)

Base0 == TypeOK /\ (\A t \in Threads : Fits(t)) /\ (\A s \in Sessions : Released(s))

LEMMA Outsiders ==
    ASSUME TypeOK, NEW t \in Threads, Fits(t), pc[t] = "nextTarget"
    PROVE  t \in Senders /\ stack[t] = <<>>
  BY DEF Fits, FitsAt

LEMMA NextActs ==
    ASSUME Base0, Next
    PROVE  \/ \E s \in Sessions : Lease(s)
           \/ \E t \in Threads, s \in Sessions : Sound(t, s) /\ Acts(t, s)
  <1>1. TypeOK /\ \A t \in Threads : Fits(t) /\ ses[t] \in Sessions
    BY TypesOf DEF Base0
  <1>2. ASSUME NEW t \in Senders, Broadcast(t) \/ \E s \in Sessions : Send(t, s)
        PROVE  \E u \in Threads, s \in Sessions : Sound(u, s) /\ Acts(u, s)
    <2>1. t \in Threads /\ Fits(t)
      BY <1>1 DEF Threads
    <2>2. PICK s \in Sessions :
             /\ Sound(t, s) /\ pc[t] = "idle" /\ pc'[t] \in {"canSend", "nextTarget"}
             /\ Send(t, s) \/ (Broadcast(t) /\ pc'[t] = "nextTarget")
      BY <1>1, <1>2, <2>1, SoundSend
    <2>3. Acts(t, s)
      BY <2>2 DEF Acts, Outside
    <2>. QED
      BY <2>1, <2>2, <2>3
  <1>3. ASSUME NEW t \in Workers, NEW s \in Sessions,
               \/ RecvRequest(t, s) \/ SendCompletes(t, s) \/ Cancelled(t, s)
               \/ ConnectionEnds(t, s, "recv")
        PROVE  \E u \in Threads, x \in Sessions : Sound(u, x) /\ Acts(u, x)
    <2>1. t \in Threads /\ Fits(t)
      BY <1>1 DEF Threads
    <2>2. Completes(t, s)
      BY <1>3, KindsHas DEF Completes, SendCompletes, Cancelled
    <2>3. Sound(t, s)
      BY <1>1, <2>1, <2>2, Completions DEF Completes
    <2>. QED
      BY <2>1, <2>2, <2>3 DEF Acts
  <1>4. ASSUME NEW t \in Threads, Step(t)
        PROVE  \E u \in Threads, x \in Sessions : Sound(u, x) /\ Acts(u, x)
    <2>1. Fits(t) /\ ses[t] \in Sessions /\ Released(ses[t])
      BY <1>1 DEF Base0
    <2>2. CASE SendStep(t)
      <3>1. Sound(t, ses[t])
        BY <1>1, <2>1, <2>2, SoundTry, SoundDequeue, SoundRecheckGate, SoundPrepare,
           SoundBeginIO, SoundIssueSucceeds, SoundIssueFails, SoundDropCurrent,
           SoundDropToken, SoundSent DEF SendStep
      <3>2. Acts(t, ses[t])
        BY <2>2 DEF SendStep, Acts, Works, Posts
      <3>. QED
        BY <2>1, <3>1, <3>2
    <2>3. CASE CanSendPacket(t) \/ PushBack(t) \/ Discard(t) \/ Repost(t)
      <3>1. Sound(t, ses[t])
        BY <1>1, <2>1, <2>3, SoundCanSend, SoundPushBack, SoundDiscard, SoundRepost
      <3>2. Acts(t, ses[t])
        BY <2>3 DEF Acts, Works
      <3>. QED
        BY <2>1, <3>1, <3>2
    <2>4. CASE BroadcastNext(t)
      <3>1. PICK s \in Sessions : Sound(t, s)
        BY <1>1, <2>1, <2>4, SoundBroadcastNext
      <3>2. pc[t] = "nextTarget" /\ pc'[t] = "canSend" /\ t \in Senders
        BY <1>1, <2>1, <2>4, SoundBroadcastNext DEF BroadcastNext
      <3>3. Acts(t, s)
        BY <2>4, <3>2 DEF Acts, Outside
      <3>. QED
        BY <3>1, <3>3
    <2>5. CASE BroadcastEnds(t)
      <3>1. Sound(t, ses[t]) /\ pc'[t] = "idle" /\ pc[t] = "nextTarget" /\ t \in Senders
        BY <1>1, <2>1, <2>5, SoundBroadcastEnds, Outsiders DEF BroadcastEnds
      <3>2. Acts(t, ses[t])
        BY <2>5, <3>1 DEF Acts, Outside
      <3>. QED
        BY <2>1, <3>1, <3>2
    <2>6. CASE ReleaseStep(t)
      <3>1. Sound(t, ses[t])
        BY <1>1, <2>1, <2>6, SoundFinish, ReleasedRetire, SoundComplete, SoundReset
           DEF ReleaseStep
      <3>2. Acts(t, ses[t])
        BY <2>6 DEF Acts, Works
      <3>. QED
        BY <2>1, <3>1, <3>2
    <2>. QED
      BY <1>4, <2>2, <2>3, <2>4, <2>5, <2>6 DEF Step, EnqueueStep
  <1>. QED
    BY <1>2, <1>3, <1>4 DEF Next

LEMMA ReleasedActs ==
    ASSUME Base0, NEW t \in Threads, NEW s \in Sessions, Sound(t, s), Acts(t, s)
    PROVE  Released(s)'
  <1>1. TypeOK /\ Fits(t) /\ Released(s)
    BY DEF Base0
  <1>2. CASE Outside(t, s)
    <2>1. UNCHANGED <<poolState, open, ioVars, live, dying>>
      BY <1>2 DEF Outside, Send, Broadcast, BroadcastNext, BroadcastEnds, leaseVars,
                  kernVars
    <2>. QED
      BY <1>1, <1>2, <2>1, ReleasedOutside DEF Outside
  <1>3. CASE Completes(t, s)
    BY <1>1, <1>3, Completions, ReleasedComes DEF Completes
  <1>4. CASE Works(t, s)
    <2>1. s = ses[t]
      BY <1>4 DEF Works
    <2>2. CASE Posts(t)
      BY <1>1, <2>1, <2>2, ReleasedPost, ReleasedBeginIO, ReleasedDrop DEF Posts
    <2>3. CASE CanSendPacket(t) \/ PushBack(t) \/ Discard(t) \/ Repost(t)
      BY <1>1, <2>1, <2>3, ReleasedPost, ReleasedRepost
    <2>4. CASE ReleaseStep(t)
      BY <1>1, <2>1, <2>4, ReleasedFinish, ReleasedRetire, ReleasedComplete,
         ReleasedReset, ReleasedFree DEF ReleaseStep
    <2>. QED
      BY <1>4, <2>2, <2>3, <2>4 DEF Works
  <1>. QED
    BY <1>2, <1>3, <1>4 DEF Acts

LEMMA LeaseTypes ==
    ASSUME TypeOK, NEW s \in Sessions, Lease(s)
    PROVE  TypeOK'
  <1>1. TypeLease'
    <2>1. live' \in [Sessions -> [Kinds -> Nat]]
      <3>1. live \in [Sessions -> [Kinds -> Nat]] /\ live' = [live EXCEPT ![s]["recv"] = 1]
        BY DEF Lease, TypeOK
      <3>. QED
        BY <3>1
    <2>2. /\ poolState' \in [Sessions -> {"FREE", "IN_USE", "RELEASING"}]
          /\ open' \in [Sessions -> BOOLEAN] /\ ioCount' \in [Sessions -> Int]
          /\ lease' \in [Sessions -> Nat] /\ dead' \in [Sessions -> BOOLEAN]
          /\ short' \in [Sessions -> BOOLEAN]
      BY DEF Lease, TypeOK
    <2>. QED
      BY <2>1, <2>2 DEF Lease, TypeOK, TypeLease
  <1>2. TypePackets'
    <2>1. accepted' \in [Sessions -> Seq(Packets)]
          /\ wire' \in [Sessions -> Seq(Packets \cup {NoPacket})]
      <3>1. <<>> \in Seq(Packets) /\ <<>> \in Seq(Packets \cup {NoPacket})
        OBVIOUS
      <3>. QED
        BY <3>1 DEF Lease, TypeOK
    <2>. QED
      BY <2>1 DEF Lease, TypeOK, TypePackets, sendVars, pktVars
  <1>3. TypeThreads'
    BY DEF Lease, TypeOK, TypeThreads, locals
  <1>. QED
    BY <1>1, <1>2, <1>3, TypeParts

LEMMA LeaseElsewhere ==
    ASSUME TypeOK, NEW s \in Sessions, Lease(s), NEW x \in Sessions \ {s}
    PROVE  /\ pc' = pc /\ stack' = stack /\ ses' = ses /\ pkt' = pkt
           /\ poolState'[x] = poolState[x] /\ open'[x] = open[x]
           /\ short'[x] = short[x] /\ left'[x] = left[x]
           /\ ioCount'[x] = ioCount[x] /\ cancelIo'[x] = cancelIo[x]
           /\ releasePending'[x] = releasePending[x]
           /\ live'[x] = live[x] /\ dying'[x] = dying[x] /\ dead'[x] = dead[x]
           /\ over'[x] = over[x] /\ wire'[x] = wire[x]
           /\ sending'[x] = sending[x] /\ current'[x] = current[x]
           /\ offset'[x] = offset[x]
           /\ queue'[x] = queue[x] /\ accepted'[x] = accepted[x]
  BY DEF Lease, TypeOK, locals, sendVars

LEMMA BaseStep ==
    ASSUME Base0, [Next]_vars
    PROVE  Base0'
  <1>1. TypeOK /\ (\A t \in Threads : Fits(t)) /\ (\A s \in Sessions : Released(s))
    BY DEF Base0
  <1>2. ASSUME NEW s \in Sessions, Lease(s)
        PROVE  Base0'
    <2>1. TypeOK'
      BY <1>1, <1>2, LeaseTypes
    <2>2. pc' = pc /\ stack' = stack /\ ses' = ses /\ pkt' = pkt
      BY <1>2 DEF Lease, locals
    <2>3. \A t \in Threads : Fits(t)'
      BY <1>1, <2>2 DEF Fits
    <2>4. ASSUME NEW x \in Sessions \ {s}
          PROVE  Released(x)'
      <3>1. /\ poolState'[x] = poolState[x] /\ open'[x] = open[x]
            /\ ioCount'[x] = ioCount[x] /\ cancelIo'[x] = cancelIo[x]
            /\ releasePending'[x] = releasePending[x]
            /\ live'[x] = live[x] /\ dying'[x] = dying[x]
        BY <1>1, <1>2, LeaseElsewhere
      <3>2. /\ Of(x)' = Of(x) /\ Handlers(x)' = Handlers(x) /\ Issuers(x)' = Issuers(x)
            /\ \A u \in Of(x) : /\ Lasts(u)' <=> Lasts(u)
                                /\ Resets(u)' <=> Resets(u)
                                /\ Handles(u)' <=> Handles(u)
        BY <2>2 DEF Of, Handlers, Issuers, Handles, Issues, Lasts, Resets
      <3>3. Counted(x)' /\ Owned(x)'
        BY <1>1, <3>1, <3>2 DEF Released, Counted, Owned, Ops, SendOps
      <3>4. (Ended(x)' <=> Ended(x)) /\ (Gone(x)' <=> Gone(x)) /\ Ops(x)' = Ops(x)
        BY <3>1, <3>2 DEF Ended, Gone, Ops, SendOps
      <3>5. Drained(x)'
        BY <1>1, <2>2, <3>1, <3>2, <3>4 DEF Released, Drained
      <3>. QED
        BY <3>3, <3>5 DEF Released
    <2>5. Released(s)'
      BY <1>1, <1>2, ReleasedLease
    <2>. QED
      BY <2>1, <2>3, <2>4, <2>5 DEF Base0
  <1>3. ASSUME NEW t \in Threads, NEW s \in Sessions, Sound(t, s), Acts(t, s)
        PROVE  Base0'
    <2>1. TypeOK' /\ Fits(t)' /\ Frame(t, s)
      BY <1>3 DEF Sound
    <2>2. \A u \in Threads : Fits(u)'
      BY <1>1, <2>1, Bystander
    <2>3. Released(s)'
      BY <1>3, ReleasedActs
    <2>4. \A x \in Sessions \ {s} : Released(x)'
      BY <1>1, <2>1, ReleasedElsewhere
    <2>. QED
      BY <2>1, <2>2, <2>3, <2>4 DEF Base0
  <1>4. CASE UNCHANGED vars
    <2>1. /\ UNCHANGED <<poolState, open, ioCount, cancelIo, releasePending, live, dying>>
          /\ UNCHANGED <<pc, ses, stack, pkt>>
      BY <1>4 DEF vars, leaseVars, ioVars, kernVars, locals
    <2>2. TypeOK'
      BY <1>1, <1>4 DEF TypeOK, vars, leaseVars, ioVars, kernVars, sendVars, queueVars,
                        pktVars, locals
    <2>3. \A t \in Threads : Fits(t)'
      BY <1>1, <2>1 DEF Fits
    <2>4. ASSUME NEW x \in Sessions
          PROVE  Released(x)'
      <3>1. Released(x)
        BY <1>1
      <3>. QED
        BY <2>1, <3>1 DEF Released, Counted, Owned, Drained, Ended, Gone, Of, Handlers,
           Issuers, Handles, Issues, Lasts, Resets, Ops, SendOps
    <2>. QED
      BY <2>2, <2>3, <2>4 DEF Base0
  <1>. QED
    BY <1>2, <1>3, <1>4, NextActs

LEMMA BaseInit ==
    ASSUME Init
    PROVE  Base0
  <1>1. TypeOK
    <2>1. (CHOOSE s \in Sessions : TRUE) \in Sessions
      BY SessionsAssumption
    <2>3. TypeLease
      BY DEF Init, TypeLease
    <2>4. TypePackets
      BY DepthAssumption, BoundsAssumption DEF Init, TypePackets, Packets, NoPacket
    <2>5. TypeThreads
      BY <2>1, Frames DEF Init, TypeThreads
    <2>. QED
      BY <2>3, <2>4, <2>5, TypeParts
  <1>2. \A t \in Threads : pc[t] = "idle" /\ stack[t] = <<>>
    BY DEF Init
  <1>3. \A t \in Threads : Fits(t)
    BY <1>2, Frames DEF Fits, FitsAt, EnqueuePcs, PostPcs, DropPcs, LastPcs, ResetPcs
  <1>4. ASSUME NEW s \in Sessions
        PROVE  Released(s)
    <2>1. /\ poolState[s] = "FREE" /\ ~open[s] /\ ioCount[s] = 0 /\ cancelIo[s] = 0
          /\ releasePending[s] = 0
      BY DEF Init
    <2>2. Ops(s) = 0
      <3>1. /\ live[s]["recv"] = 0 /\ live[s]["send"] = 0
            /\ dying[s]["recv"] = 0 /\ dying[s]["send"] = 0
        BY KindsHas DEF Init
      <3>. QED
        BY <3>1 DEF Ops, SendOps
    <2>3. \A t \in Of(s) : /\ ~Handles(t) /\ ~Issues(t) /\ ~Lasts(t)
                           /\ pc[t] # "complete"
      BY <1>2 DEF Of, Handles, HandlesAt, Issues, IssuesAt, DropPcs, Lasts, LastPcs,
                  ResetPcs
    <2>4. Handlers(s) = {} /\ Issuers(s) = {}
      BY <2>3 DEF Handlers, Issuers
    <2>5. Counted(s)
      BY <2>1, <2>2, <2>4, FS_EmptySet DEF Counted
    <2>6. Owned(s)
      BY <2>1, <2>3 DEF Owned
    <2>7. Drained(s)
      BY <2>1, <2>2, <2>3 DEF Drained
    <2>. QED
      BY <2>5, <2>6, <2>7 DEF Released
  <1>. QED
    BY <1>1, <1>3, <1>4 DEF Base0

(* The variables keep their types.                                         *)
THEOREM TypeCorrect == Spec => []TypeOK
  <1>1. Init => Base0
    BY BaseInit
  <1>2. Base0 /\ [Next]_vars => Base0'
    BY BaseStep
  <1>3. Base0 => TypeOK
    BY DEF Base0
  <1>. QED
    BY <1>1, <1>2, <1>3, PTL DEF Spec
-----------------------------------------------------------------------------
(* The sending.  What becomes of a part of the invariant depends on the    *)
(* thread that took the step, and on little of what it did.                *)

(* A thread that sends did so before, and at the like of its step.         *)
Follows(u, x) ==
    u \in Of(x)' /\ Sends(u)' =>
      /\ u \in Of(x) /\ Sends(u)
      /\ pc'[u] \in {"dequeue", "setIdle"} <=> pc[u] \in {"dequeue", "setIdle"}
      /\ pc'[u] \in {"begin", "gate", "issue"} => pc[u] \in {"begin", "gate", "issue"}
      /\ pc'[u] \in DropPcs => pc[u] \in DropPcs /\ stack'[u] = stack[u]

(* Who has the token, or ends the connection; who sees to the queue.       *)
Helps(u, x) == u \in Of(x) /\ (Sends(u) \/ pc[u] = "retire")
Sees(u, x)  == u \in Of(x) /\ pc[u] \in SendPcs \cup {"retire"}

SameToken(x) ==
    /\ sending'[x] = sending[x] /\ current'[x] = current[x]
    /\ offset'[x] = offset[x] /\ over'[x] = over[x] /\ short'[x] = short[x]

SameParts(x) ==
    /\ sending'[x] = sending[x] /\ current'[x] = current[x]
    /\ offset'[x] = offset[x] /\ over'[x] = over[x]
    /\ queue'[x] = queue[x] /\ accepted'[x] = accepted[x]
    /\ wire'[x] = wire[x] /\ short'[x] = short[x]

QuietToken(x) ==
    /\ SameToken(x)
    /\ SendOps(x)' <= SendOps(x)
    /\ dead[x] => dead'[x]
    /\ poolState'[x] = "IN_USE" => poolState[x] = "IN_USE"
    /\ Gone(x) => Gone(x)'
    /\ \A u \in Threads : Follows(u, x)

Quiet(x) == SameParts(x) /\ QuietToken(x) /\ (Flows(x)' => Flows(x))

LEMMA OfThreads ==
    ASSUME NEW x
    PROVE  /\ \A u \in Of(x) \cup Of(x)' : u \in Threads
           /\ Busy(x) \subseteq Threads
  BY DEF Of, Busy

LEMMA SendPcsAre ==
    /\ TokenPcs \subseteq SendPcs
    /\ SendPcs = TokenPcs \cup {"try", "recheck"}
    /\ DropPcs \subseteq TokenPcs
    /\ "retire" \notin SendPcs /\ "complete" \notin SendPcs
    /\ TokenPcs \cap (ResetPcs \cup AwayPcs \cup HomePcs \cup EnqueuePcs
                      \cup {"try", "recheck", "retire"}) = {}
    /\ SendPcs \cap (ResetPcs \cup AwayPcs \cup HomePcs \cup EnqueuePcs) = {}
  BY DEF TokenPcs, SendPcs, DropPcs, ResetPcs, AwayPcs, HomePcs, EnqueuePcs

LEMMA QuietPassing ==
    ASSUME TypeOK, TypeOK', NEW x \in Sessions, QuietToken(x),
           TokenOnce(x), CurrentHeld(x), DroppedFor(x)
    PROVE  TokenOnce(x)' /\ CurrentHeld(x)' /\ DroppedFor(x)'
  <1>1. SendOps(x) \in Nat /\ SendOps(x)' \in Nat /\ SendOps(x)' <= SendOps(x)
    BY OpsType DEF QuietToken
  <1>2. \A u \in Of(x)' : Sends(u)' =>
          /\ u \in Of(x) /\ Sends(u)
          /\ pc'[u] \in {"dequeue", "setIdle"} <=> pc[u] \in {"dequeue", "setIdle"}
          /\ pc'[u] \in {"begin", "gate", "issue"} => pc[u] \in {"begin", "gate", "issue"}
          /\ pc'[u] \in DropPcs => pc[u] \in DropPcs /\ stack'[u] = stack[u]
    BY OfThreads DEF QuietToken, Follows
  <1>3. /\ sending'[x] = sending[x] /\ current'[x] = current[x]
        /\ offset'[x] = offset[x] /\ over'[x] = over[x] /\ short'[x] = short[x]
    BY DEF QuietToken, SameToken
  <1>4. TokenOnce(x)'
    <2>1. \A t, u \in Of(x)' : Sends(t)' /\ Sends(u)' => t = u
      BY <1>2 DEF TokenOnce
    <2>2. \A t \in Of(x)' : Sends(t)' => sending'[x] = 1 /\ SendOps(x)' = 0
      BY <1>1, <1>2, <1>3 DEF TokenOnce
    <2>3. SendOps(x)' <= 1 /\ (SendOps(x)' = 1 => sending'[x] = 1)
      BY <1>1, <1>3 DEF TokenOnce
    <2>. QED
      BY <2>1, <2>2, <2>3 DEF TokenOnce
  <1>5. CurrentHeld(x)'
    <2>1. ASSUME NEW t \in Of(x)'
          PROVE  /\ Sends(t)' /\ pc'[t] \notin {"dequeue", "setIdle"} => current'[x] # NoPacket
                 /\ pc'[t] \in {"dequeue", "setIdle"} => current'[x] = NoPacket
                 /\ pc'[t] \in {"begin", "gate", "issue"} => over'[x] = current'[x]
      <3>1. pc'[t] \in {"dequeue", "setIdle", "begin", "gate", "issue"} => Sends(t)'
        BY DEF Sends, TokenPcs
      <3>. QED
        BY <1>2, <1>3, <3>1 DEF CurrentHeld
    <2>2. SendOps(x)' = 1 => current'[x] # NoPacket /\ over'[x] = current'[x]
      BY <1>1, <1>3 DEF CurrentHeld, TokenOnce
    <2>3. sending'[x] = 0 => current'[x] = NoPacket \/ Gone(x)'
      BY <1>3 DEF CurrentHeld, QuietToken
    <2>. QED
      BY <2>1, <2>2, <2>3 DEF CurrentHeld
  <1>6. DroppedFor(x)'
    <2>1. \A t \in Of(x)' : pc'[t] \in DropPcs => Sends(t)'
      BY DEF Sends, TokenPcs, DropPcs
    <2>2. (dead[x] => dead'[x]) /\ (poolState'[x] = "IN_USE" => poolState[x] = "IN_USE")
      BY DEF QuietToken
    <2>. QED
      BY <1>2, <1>3, <2>1, <2>2 DEF DroppedFor, Trying, Retiring, Base
  <1>. QED
    BY <1>4, <1>5, <1>6

(* What was sent stays as it was.                                          *)
LEMMA SentStays ==
    ASSUME NEW x \in Sessions, Sent(x),
           current'[x] = current[x], offset'[x] = offset[x],
           queue'[x] = queue[x], accepted'[x] = accepted[x],
           wire'[x] = wire[x], short[x] => short'[x],
           Gone(x) => Gone(x)', Flows(x)' => Flows(x)
    PROVE  Sent(x)'
  <1>1. Taken(x)' = Taken(x)
    BY DEF Taken
  <1>2. QueueInOrder(x)'
    BY <1>1 DEF QueueInOrder, Sent
  <1>3. SentSoFar(x)' /\ InOrder(x)'
    BY <1>1 DEF SentSoFar, InOrder, Sent
  <1>. QED
    BY <1>2, <1>3 DEF Sent

(* While the session is neither free nor reset, nobody need be alone.      *)
LEMMA InHands ==
    ASSUME NEW x \in Sessions, ~Gone(x)'
    PROVE  Alone(x)' /\ Tidied(x)'
  <1>1. /\ poolState'[x] # "FREE"
        /\ \A u \in Of(x)' : ~Resets(u)' /\ pc'[u] \notin {"resetCurrent", "free"}
    BY DEF Gone, Resets, ResetPcs
  <1>. QED
    BY <1>1 DEF Alone, Tidied, Gone

(* Who is at work on a session, and does not reset it, finds it whole.     *)
LEMMA AtWork ==
    ASSUME NEW t \in Threads, NEW s \in Sessions, s = ses[t], Alone(s),
           pc[t] \notin AwayPcs \cup {"canSend"} \cup ResetPcs
    PROVE  ~Gone(s)
  <1>1. t \in Busy(s) /\ ~Resets(t)
    BY DEF Busy, Resets
  <1>. QED
    BY <1>1 DEF Gone, Alone

LEMMA StillInHands ==
    ASSUME NEW t \in Threads, NEW s \in Sessions, Frame(t, s), ~Gone(s),
           pc'[t] \notin ResetPcs, poolState'[s] # "FREE"
    PROVE  ~Gone(s)'
  <1>1. \A u \in Of(s)' : ~Resets(u)'
    <2>. SUFFICES ASSUME NEW u \in Of(s)', Resets(u)'
                  PROVE  FALSE
      OBVIOUS
    <2>1. u \in Threads /\ u # t
      BY OfThreads DEF Resets
    <2>2. u \in Of(s) /\ Resets(u)
      BY <2>1, Bystander
    <2>. QED
      BY <2>2 DEF Gone
  <1>. QED
    BY <1>1 DEF Gone

(* What the other threads do for a session they still do.                  *)
LEMMA OthersHelp ==
    ASSUME NEW t \in Threads, NEW s \in Sessions, Frame(t, s),
           NEW u \in Threads \ {t}, NEW x
    PROVE  /\ Follows(u, x)
           /\ Helps(u, x)' <=> Helps(u, x)
           /\ Sees(u, x)' <=> Sees(u, x)
           /\ u \in Of(x)' <=> u \in Of(x)
           /\ pc'[u] = pc[u] /\ stack'[u] = stack[u]
  <1>1. (u \in Of(x)' <=> u \in Of(x)) /\ pc'[u] = pc[u] /\ stack'[u] = stack[u]
    BY Bystander
  <1>. QED
    BY <1>1 DEF Follows, Helps, Sees, Sends

(* The session is seen to as long as the thread, or an operation, does.    *)
LEMMA StillHelped ==
    ASSUME NEW t \in Threads, NEW s \in Sessions, Frame(t, s),
           TokenHeld(s), Attended(s),
           SameParts(s), poolState'[s] = "IN_USE" => poolState[s] = "IN_USE",
           live[s]["send"] > 0 => live'[s]["send"] > 0 \/ Helps(t, s)',
           Helps(t, s) => live'[s]["send"] > 0 \/ Helps(t, s)',
           Sees(t, s) => live'[s]["send"] > 0 \/ Sees(t, s)'
    PROVE  TokenHeld(s)' /\ Attended(s)'
  <1>1. \A u \in Threads \ {t} : /\ Helps(u, s)' <=> Helps(u, s)
                                 /\ Sees(u, s)' <=> Sees(u, s)
    BY OthersHelp
  <1>2. Helps(t, s)' => Sees(t, s)'
    BY SendPcsAre DEF Helps, Sees, Sends
  <1>3. /\ sending'[s] = sending[s] /\ short'[s] = short[s]
        /\ queue'[s] = queue[s] /\ current'[s] = current[s]
    BY DEF SameParts
  <1>4. TokenHeld(s)'
    <2>. SUFFICES ASSUME poolState'[s] = "IN_USE", sending'[s] = 1
                  PROVE  live'[s]["send"] > 0 \/ \E u \in Threads : Helps(u, s)'
      BY DEF TokenHeld, Helps
    <2>1. live[s]["send"] > 0 \/ \E u \in Threads : Helps(u, s)
      BY <1>3, OfThreads DEF TokenHeld, Helps
    <2>. QED
      BY <1>1, <2>1
  <1>5. Attended(s)'
    <2>. SUFFICES ASSUME poolState'[s] = "IN_USE", ~short'[s],
                         queue'[s] # <<>> \/ current'[s] # NoPacket
                  PROVE  live'[s]["send"] > 0 \/ \E u \in Threads : Sees(u, s)'
      BY DEF Attended, Sees
    <2>1. live[s]["send"] > 0 \/ \E u \in Threads : Sees(u, s)
      BY <1>3, OfThreads DEF Attended, Sees
    <2>. QED
      BY <1>1, <1>2, <2>1
  <1>. QED
    BY <1>4, <1>5

LEMMA QuietSettled ==
    ASSUME TypeOK, TypeOK', NEW x \in Sessions, SettledInv(x), Quiet(x),
           Alone(x)', Tidied(x)', TokenHeld(x)', Attended(x)'
    PROVE  SettledInv(x)'
  <1>1. TokenOnce(x)' /\ CurrentHeld(x)' /\ DroppedFor(x)'
    BY QuietPassing DEF SettledInv, Passing, Quiet
  <1>2. Sent(x)'
    BY SentStays DEF SettledInv, Quiet, SameParts, QuietToken
  <1>. QED
    BY <1>1, <1>2 DEF SettledInv, Passing
-----------------------------------------------------------------------------
(* A session nobody did anything for.                                      *)

SameSession(x) ==
    /\ SameParts(x)
    /\ poolState'[x] = poolState[x] /\ dead'[x] = dead[x]
    /\ live'[x]["send"] = live[x]["send"] /\ dying'[x]["send"] = dying[x]["send"]

SameBusy(x) ==
    /\ \A u \in Threads : u \in Busy(x)' <=> u \in Busy(x)
    /\ \A u \in Busy(x) : pc'[u] = pc[u] /\ stack'[u] = stack[u]

LEMMA BusyAre ==
    ASSUME NEW x, NEW u \in Threads
    PROVE  /\ u \in Of(x) /\ pc[u] \in SendPcs \cup ResetPcs \cup {"retire"} =>
                u \in Busy(x)
           /\ u \in Of(x)' /\ pc'[u] \in SendPcs \cup ResetPcs \cup {"retire"} =>
                u \in Busy(x)'
           /\ u \in Busy(x) => u \in Of(x)
           /\ u \in Busy(x)' => u \in Of(x)'
           /\ Sends(u) => pc[u] \in SendPcs
           /\ Sends(u)' => pc'[u] \in SendPcs
  <1>1. (SendPcs \cup ResetPcs \cup {"retire"}) \cap (AwayPcs \cup {"canSend"}) = {}
    BY DEF SendPcs, ResetPcs, AwayPcs
  <1>. QED
    BY <1>1, SendPcsAre DEF Busy, Of, Sends

LEMMA SettledSame ==
    ASSUME TypeOK, TypeOK', NEW x \in Sessions, SettledInv(x), SameSession(x), SameBusy(x)
    PROVE  SettledInv(x)'
  <1>1. \A u \in Threads :
          /\ u \in Of(x)' /\ pc'[u] \in SendPcs \cup ResetPcs \cup {"retire"} =>
               u \in Of(x) /\ pc[u] = pc'[u] /\ stack[u] = stack'[u]
          /\ u \in Of(x) /\ pc[u] \in SendPcs \cup ResetPcs \cup {"retire"} =>
               u \in Of(x)' /\ pc'[u] = pc[u] /\ stack'[u] = stack[u]
    BY BusyAre DEF SameBusy
  <1>2. \A u \in Threads :
          /\ u \in Of(x)' /\ Resets(u)' <=> u \in Of(x) /\ Resets(u)
          /\ u \in Of(x)' /\ Resets(u)' => pc'[u] = pc[u]
    BY <1>1 DEF Resets
  <1>3. /\ SameParts(x)
        /\ poolState'[x] = poolState[x] /\ dead'[x] = dead[x]
        /\ live'[x]["send"] = live[x]["send"] /\ dying'[x]["send"] = dying[x]["send"]
    BY DEF SameSession
  <1>4. Gone(x)' <=> Gone(x)
    BY <1>2, <1>3, OfThreads DEF Gone
  <1>5. SendOps(x)' = SendOps(x) /\ SendOps(x) \in Nat
    BY <1>3, OpsType DEF SendOps
  <1>6. Flows(x)' => Flows(x)
    <2>1. \A u \in Of(x)' : pc'[u] = "issue" => u \in Of(x) /\ pc[u] = "issue"
      <3>1. "issue" \in SendPcs
        BY DEF SendPcs
      <3>. QED
        BY <1>1, <3>1, OfThreads
    <2>. QED
      BY <1>3, <2>1 DEF Flows, SameParts
  <1>7. \A u \in Threads : Follows(u, x)
    BY <1>1, BusyAre DEF Follows, Sends
  <1>8. Quiet(x)
    BY <1>3, <1>4, <1>5, <1>6, <1>7 DEF Quiet, QuietToken, SameToken, SameParts
  <1>9. TokenHeld(x)' /\ Attended(x)'
    <2>1. \A u \in Of(x) : /\ Sends(u) \/ pc[u] = "retire" =>
                                u \in Of(x)' /\ (Sends(u)' \/ pc'[u] = "retire")
                           /\ pc[u] \in SendPcs \cup {"retire"} =>
                                u \in Of(x)' /\ pc'[u] \in SendPcs \cup {"retire"}
      BY <1>1, OfThreads, BusyAre DEF Sends
    <2>. QED
      BY <1>3, <2>1 DEF TokenHeld, Attended, SettledInv, Passing, SameParts
  <1>10. Busy(x)' = Busy(x)
    BY DEF SameBusy, Busy
  <1>11. Alone(x)'
    BY <1>2, <1>3, <1>10, OfThreads DEF SettledInv, Alone
  <1>12. Tidied(x)'
    <2>1. \A u \in Of(x)' : pc'[u] \in {"resetCurrent", "free"} =>
             u \in Of(x) /\ pc[u] \in {"resetCurrent", "free"}
      <3>1. {"resetCurrent", "free"} \subseteq ResetPcs
        BY DEF ResetPcs
      <3>. QED
        BY <1>1, <3>1, OfThreads
    <2>. QED
      BY <1>3, <1>4, <2>1 DEF SettledInv, Tidied, SameParts
  <1>. QED
    BY <1>8, <1>9, <1>11, <1>12, QuietSettled

(* The other sessions, and one whose thread is not yet, or no longer, at   *)
(* work on it.                                                             *)
LEMMA SettledElsewhere ==
    ASSUME TypeOK, TypeOK', NEW t \in Threads, NEW s \in Sessions, Frame(t, s),
           NEW x \in Sessions \ {s}, SettledInv(x)
    PROVE  SettledInv(x)'
  <1>1. SameSession(x)
    BY DEF SameSession, SameParts, Frame
  <1>2. ses'[t] = s /\ (pc[t] \in AwayPcs \/ ses[t] = s)
    BY DEF Frame, AwayPcs
  <1>3. t \notin Busy(x) /\ t \notin Busy(x)'
    BY <1>2 DEF Busy
  <1>4. \A u \in Threads \ {t} : /\ pc'[u] = pc[u] /\ stack'[u] = stack[u]
                                 /\ ses'[u] = ses[u]
    BY DEF Frame
  <1>5. SameBusy(x)
    BY <1>3, <1>4, OfThreads DEF SameBusy, Busy
  <1>. QED
    BY <1>1, <1>5, SettledSame

LEMMA SettledAway ==
    ASSUME TypeOK, TypeOK', NEW t \in Threads, NEW s \in Sessions, Frame(t, s),
           SettledInv(s), SameSession(s),
           pc[t] \in AwayPcs \cup {"canSend"}, pc'[t] \in AwayPcs \cup {"canSend"}
    PROVE  SettledInv(s)'
  <1>1. t \notin Busy(s) /\ t \notin Busy(s)'
    BY DEF Busy
  <1>2. \A u \in Threads \ {t} : /\ pc'[u] = pc[u] /\ stack'[u] = stack[u]
                                 /\ ses'[u] = ses[u]
    BY DEF Frame
  <1>3. SameBusy(s)
    BY <1>1, <1>2, OfThreads DEF SameBusy, Busy
  <1>. QED
    BY <1>3, SettledSame
-----------------------------------------------------------------------------
(* The steps that leave what is sent as it was.                            *)

LEMMA QuietStep ==
    ASSUME TypeOK, TypeOK', NEW t \in Threads, NEW s \in Sessions, Frame(t, s),
           SettledInv(s), SameParts(s), SendOps(s)' <= SendOps(s),
           dead[s] => dead'[s], ~Gone(s), poolState'[s] # "FREE",
           poolState'[s] = "IN_USE" => poolState[s] = "IN_USE",
           pc'[t] \notin ResetPcs, Follows(t, s),
           live'[s]["send"] > 0 => live[s]["send"] > 0,
           pc'[t] = "issue" => poolState[s] = "IN_USE",
           TokenHeld(s)', Attended(s)'
    PROVE  SettledInv(s)'
  <1>1. ~Gone(s)'
    BY StillInHands
  <1>2. Flows(s)' => Flows(s)
    <2>1. \A u \in Of(s)' : pc'[u] = "issue" =>
             u = t \/ (u \in Of(s) /\ pc[u] = "issue")
      BY OfThreads, OthersHelp
    <2>. QED
      BY <2>1 DEF Flows, SameParts
  <1>3. \A u \in Threads : Follows(u, s)
    BY OthersHelp
  <1>4. Quiet(s)
    BY <1>2, <1>3 DEF Quiet, QuietToken, SameToken, SameParts
  <1>. QED
    BY <1>1, <1>4, InHands, QuietSettled

(* A thread that was not sending, and does not begin to.                   *)
LEMMA QuietAside ==
    ASSUME TypeOK, TypeOK', NEW t \in Threads, NEW s \in Sessions, Frame(t, s),
           SettledInv(s), SameParts(s), SendOps(s)' <= SendOps(s),
           dead[s] => dead'[s], ~Gone(s), poolState'[s] = poolState[s],
           pc[t] \notin SendPcs \cup {"retire"},
           pc'[t] \notin SendPcs \cup ResetPcs,
           live'[s]["send"] > 0 => live[s]["send"] > 0,
           live[s]["send"] > 0 => live'[s]["send"] > 0 \/ pc'[t] = "retire"
    PROVE  SettledInv(s)'
  <1>1. poolState'[s] # "FREE"
    BY DEF Gone
  <1>2. ~Sends(t)' /\ ~Sends(t) /\ pc'[t] # "issue"
    BY SendPcsAre DEF Sends, TokenPcs
  <1>3. Follows(t, s)
    BY <1>2 DEF Follows
  <1>4. t \in Of(s)'
    BY DEF Frame, Of
  <1>5. ~Helps(t, s) /\ ~Sees(t, s) /\ (pc'[t] = "retire" => Helps(t, s)')
    BY <1>2, <1>4 DEF Helps, Sees
  <1>6. TokenHeld(s)' /\ Attended(s)'
    BY <1>5, StillHelped DEF SettledInv, Passing
  <1>. QED
    BY <1>1, <1>2, <1>3, <1>6, QuietStep

LEMMA SettledEnqueue ==
    ASSUME TypeOK, TypeOK', NEW t \in Threads, Fits(t), NEW s \in Sessions, s = ses[t],
           Sound(t, s), Released(s), SettledInv(s),
           \/ CanSendPacket(t) \/ Discard(t) \/ Repost(t)
           \/ PushBack(t) /\ Len(queue[s]) >= QueueDepth
    PROVE  SettledInv(s)'
  <1>1. Frame(t, s) /\ t \in Of(s)
    BY Others DEF Sound
  <1>2. /\ SameParts(s) /\ poolState'[s] = poolState[s] /\ dead'[s] = dead[s]
        /\ dying' = dying
    BY DEF CanSendPacket, Discard, Repost, PushBack, SameParts, leaseVars, kernVars,
           sendVars, queueVars
  <1>3. live'[s]["send"] = live[s]["send"]
    <2>1. live \in [Sessions -> [Kinds -> Nat]]
      BY DEF TypeOK
    <2>2. live' = live \/ live' = [live EXCEPT ![s]["recv"] = @ + 1]
      BY DEF CanSendPacket, Discard, Repost, PushBack, kernVars
    <2>. QED
      BY <2>1, <2>2, KindsHas
  <1>4. SendOps(s)' = SendOps(s) /\ SendOps(s) \in Nat
    BY <1>2, <1>3, OpsType DEF SendOps
  <1>5. SameSession(s)
    BY <1>2, <1>3 DEF SameSession
  <1>6. ASSUME ~Gone(s), pc[t] \notin SendPcs \cup {"retire"},
               pc'[t] \notin SendPcs \cup ResetPcs
        PROVE  SettledInv(s)'
    BY <1>1, <1>2, <1>3, <1>4, <1>6, QuietAside
  <1>7. CASE CanSendPacket(t)
    <2>1. pc[t] = "canSend" /\ Goto(t, IF open[s] THEN "push" ELSE "discard")
      BY <1>7 DEF CanSendPacket
    <2>2. "push" \in Pcs /\ "discard" \in Pcs
      BY DEF Pcs, AwayPcs
    <2>3. CASE open[s]
      <3>1. ~Gone(s)
        BY <2>3 DEF Released, Drained
      <3>2. pc'[t] = "push"
        BY <2>1, <2>2, <2>3, GotoAt DEF At
      <3>. QED
        BY <1>6, <2>1, <3>1, <3>2 DEF SendPcs, ResetPcs
    <2>4. CASE ~open[s]
      <3>1. pc'[t] = "discard"
        BY <2>1, <2>2, <2>4, GotoAt DEF At
      <3>. QED
        BY <1>1, <1>5, <2>1, <3>1, SettledAway DEF AwayPcs
    <2>. QED
      BY <2>3, <2>4
  <1>8. CASE Discard(t)
    <2>1. pc[t] = "discard" /\ pc'[t] \in HomePcs /\ Return(t) /\ Base(t, stack[t])
      BY <1>8, SoundDiscard DEF Discard, Fits, FitsAt, EnqueuePcs
    <2>2. CASE t \in Workers
      <3>1. Handles(t)
        BY <2>1, <2>2, RolesAt DEF HandlesAt, LastPcs, ResetPcs
      <3>2. ~Ended(s)
        BY <1>1, <3>1 DEF Released, Drained
      <3>3. ~Gone(s)
        BY <3>2 DEF Ended, Gone, Lasts, Resets, LastPcs
      <3>. QED
        BY <1>6, <2>1, <3>3, SendPcsAre DEF HomePcs, SendPcs, ResetPcs
    <2>3. CASE t \notin Workers
      <3>1. pc'[t] \in {"idle", "nextTarget"}
        <4>1. stack[t] = <<>> \/ stack[t] = Then("nextTarget", <<>>)
          BY <2>1, <2>3 DEF Base, OfCast
        <4>2. "nextTarget" \in Pcs /\ <<>> \in Seq(Pcs)
          BY Frames
        <4>. QED
          BY <2>1, <4>1, <4>2, ReturnAt DEF At
      <3>. QED
        BY <1>1, <1>5, <2>1, <3>1, SettledAway DEF AwayPcs
    <2>. QED
      BY <2>2, <2>3
  <1>9. CASE Repost(t)
    <2>1. pc[t] = "repost" /\ stack[t] = <<>> /\ t \in Workers
      BY <1>9 DEF Repost, Fits, FitsAt
    <2>2. pc'[t] \in {"idle", "finish"}
      <3>1. CASE Return(t)
        BY <2>1, <3>1, ReturnAt DEF At
      <3>2. CASE Goto(t, "finish")
        BY <3>2, Frames, GotoAt DEF At
      <3>. QED
        BY <1>9, <3>1, <3>2 DEF Repost
    <2>3. ~Gone(s)
      BY <2>1, AtWork DEF SettledInv, AwayPcs, ResetPcs
    <2>. QED
      BY <1>6, <2>1, <2>2, <2>3 DEF SendPcs, ResetPcs
  <1>10. CASE PushBack(t) /\ Len(queue[s]) >= QueueDepth
    <2>1. pc[t] = "push" /\ Goto(t, "discard")
      BY <1>10 DEF PushBack
    <2>2. "discard" \in Pcs
      BY DEF Pcs, AwayPcs
    <2>3. pc'[t] = "discard"
      BY <2>1, <2>2, GotoAt DEF At
    <2>4. ~Gone(s)
      BY <2>1, AtWork DEF SettledInv, AwayPcs, ResetPcs
    <2>. QED
      BY <1>6, <2>1, <2>3, <2>4 DEF SendPcs, ResetPcs
  <1>. QED
    BY <1>7, <1>8, <1>9, <1>10

LEMMA SettledFinish ==
    ASSUME TypeOK, TypeOK', NEW t \in Threads, Fits(t), NEW s \in Sessions, s = ses[t],
           Sound(t, s), SettledInv(s), Finish(t)
    PROVE  SettledInv(s)'
  <1>1. Frame(t, s)
    BY DEF Sound
  <1>2. /\ SameParts(s) /\ poolState'[s] = poolState[s] /\ dead'[s] = dead[s]
        /\ live' = live /\ dying' = dying
    BY DEF Finish, DecrementIO, SameParts, leaseVars, kernVars, sendVars, queueVars
  <1>3. SendOps(s)' = SendOps(s) /\ SendOps(s) \in Nat
    BY <1>2, OpsType DEF SendOps
  <1>4. pc[t] = "finish" /\ (Base(t, stack[t]) \/ (t \in Workers /\ stack[t] = <<>>))
    BY FinishRoles DEF Finish
  <1>5. pc'[t] \in HomePcs \cup {"complete"}
    <2>1. CASE Return(t)
      BY <1>4, <2>1, HomeRoles
    <2>2. CASE Goto(t, "complete")
      <3>1. "complete" \in Pcs
        BY DEF Pcs, ReleasePcs
      <3>. QED
        BY <2>2, <3>1, GotoAt DEF At
    <2>. QED
      BY <2>1, <2>2 DEF Finish, DecrementIO
  <1>6. ~Gone(s)
    BY <1>4, AtWork DEF SettledInv, AwayPcs, ResetPcs
  <1>. QED
    BY <1>1, <1>2, <1>3, <1>4, <1>5, <1>6, QuietAside DEF HomePcs, SendPcs, ResetPcs

(* An operation ends: the worker that handles it now has the token.        *)
LEMMA SettledReceive ==
    ASSUME TypeOK, TypeOK', NEW t \in Workers, Fits(t), NEW s \in Sessions,
           Sound(t, s), Released(s), SettledInv(s),
           \/ RecvRequest(t, s)
           \/ \E k \in Kinds : ConnectionEnds(t, s, k) \/ IoCancelled(t, s, k)
    PROVE  SettledInv(s)'
  <1>1. Frame(t, s) /\ t \in Threads
    BY DEF Sound, Threads
  <1>2. PICK l \in Pcs, q \in Seq(Pcs) : Comes(t, s, l, q)
    BY Completions
  <1>3. pc[t] = "idle" /\ pc'[t] = l /\ l \in {"canSend", "sent", "retire", "finish"}
    BY <1>2 DEF Comes, Starts, At
  <1>4. ~Gone(s)
    <2>1. Ops(s) \in Nat /\ Ops(s)' \in Nat /\ Ops(s) = Ops(s)' + 1
      BY <1>2, OpsType DEF Comes
    <2>2. Ops(s) # 0
      BY <2>1
    <2>3. ~Ended(s)
      BY <2>2 DEF Released, Drained
    <2>. QED
      BY <2>3 DEF Ended, Gone, Lasts, Resets, LastPcs
  <1>5. SameParts(s) /\ poolState'[s] = poolState[s] /\ (dead[s] => dead'[s])
    <2>1. dead' = dead \/ \E k \in Kinds : dead' = [dead EXCEPT ![s] = @ \/ k = "send"]
      BY DEF RecvRequest, ConnectionEnds, IoCancelled
    <2>2. dead[s] => dead'[s]
      BY <2>1 DEF TypeOK
    <2>3. SameParts(s) /\ poolState'[s] = poolState[s]
      BY DEF RecvRequest, ConnectionEnds, IoCancelled, SameParts, leaseVars, kernVars,
             sendVars, queueVars
    <2>. QED
      BY <2>2, <2>3
  <1>6. /\ live'[s]["send"] \in Nat /\ dying'[s]["send"] \in Nat
        /\ live[s]["send"] \in Nat /\ dying[s]["send"] \in Nat
    BY OpsType
  <1>7. /\ live'[s]["send"] <= live[s]["send"]
        /\ dying'[s]["send"] <= dying[s]["send"]
        /\ live'[s]["send"] = live[s]["send"] \/ pc'[t] = "retire"
        /\ pc'[t] # "sent"
    <2>1. live \in [Sessions -> [Kinds -> Nat]] /\ dying \in [Sessions -> [Kinds -> Nat]]
      BY DEF TypeOK
    <2>2. CASE RecvRequest(t, s)
      <3>1. /\ live[s]["recv"] > 0 /\ live' = [live EXCEPT ![s]["recv"] = @ - 1]
            /\ dying' = dying /\ Begin(t, s, "canSend", <<"repost">>)
        BY <2>2 DEF RecvRequest
      <3>2. live'[s]["send"] = live[s]["send"]
        BY <2>1, <3>1, OneLess, KindsHas
      <3>3. pc'[t] = "canSend"
        BY <1>1, <3>1 DEF Begin, TypeOK
      <3>. QED
        BY <1>6, <3>1, <3>2, <3>3
    <2>3. ASSUME NEW k \in Kinds, ConnectionEnds(t, s, k)
          PROVE  /\ live'[s]["send"] <= live[s]["send"]
                 /\ dying'[s]["send"] <= dying[s]["send"]
                 /\ pc'[t] = "retire"
      <3>1. /\ live[s][k] > 0 /\ live' = [live EXCEPT ![s][k] = @ - 1]
            /\ dying' = dying /\ Begin(t, s, "retire", <<"finish">>)
        BY <2>3 DEF ConnectionEnds
      <3>2. /\ live'[s][k] = live[s][k] - 1 /\ live[s][k] \in Nat
            /\ \A j \in Kinds \ {k} : live'[s][j] = live[s][j]
        BY <2>1, <3>1, OneLess
      <3>3. live'[s]["send"] <= live[s]["send"]
        BY <1>6, <3>2, KindsHas
      <3>4. pc'[t] = "retire"
        BY <1>1, <3>1 DEF Begin, TypeOK
      <3>. QED
        BY <1>6, <3>1, <3>3, <3>4
    <2>4. ASSUME NEW k \in Kinds, IoCancelled(t, s, k)
          PROVE  /\ live'[s]["send"] = live[s]["send"]
                 /\ dying'[s]["send"] <= dying[s]["send"]
                 /\ pc'[t] = "finish"
      <3>1. /\ dying[s][k] > 0 /\ dying' = [dying EXCEPT ![s][k] = @ - 1]
            /\ live' = live /\ Begin(t, s, "finish", <<>>)
        BY <2>4 DEF IoCancelled
      <3>2. /\ dying'[s][k] = dying[s][k] - 1 /\ dying[s][k] \in Nat
            /\ \A j \in Kinds \ {k} : dying'[s][j] = dying[s][j]
        BY <2>1, <3>1, OneLess
      <3>3. dying'[s]["send"] <= dying[s]["send"]
        BY <1>6, <3>2, KindsHas
      <3>4. pc'[t] = "finish"
        BY <1>1, <3>1 DEF Begin, TypeOK
      <3>. QED
        BY <3>1, <3>3, <3>4
    <2>. QED
      BY <1>6, <2>2, <2>3, <2>4
  <1>8. SendOps(s)' <= SendOps(s)
    BY <1>6, <1>7 DEF SendOps
  <1>9. /\ live'[s]["send"] > 0 => live[s]["send"] > 0
        /\ live[s]["send"] > 0 => live'[s]["send"] > 0 \/ pc'[t] = "retire"
    BY <1>6, <1>7
  <1>10. /\ pc[t] \notin SendPcs \cup {"retire"}
         /\ pc'[t] \notin SendPcs \cup ResetPcs
    BY <1>3, <1>7 DEF SendPcs, ResetPcs
  <1>. QED
    BY <1>1, <1>4, <1>5, <1>8, <1>9, <1>10, QuietAside
-----------------------------------------------------------------------------
(* The steps of TrySendNext and PostCurrentSend that change nothing of the *)
(* session.                                                                *)

SameWorld(s) ==
    /\ SameParts(s) /\ poolState'[s] = poolState[s] /\ dead'[s] = dead[s]
    /\ live'[s]["send"] = live[s]["send"] /\ dying'[s]["send"] = dying[s]["send"]

Working(t, s) ==
    /\ TypeOK /\ TypeOK' /\ Fits(t) /\ Sound(t, s) /\ Released(s) /\ SettledInv(s)

LEMMA QuietPost ==
    ASSUME NEW t \in Threads, NEW s \in Sessions, s = ses[t], Working(t, s),
           SameWorld(s), pc[t] \in SendPcs, pc'[t] \notin ResetPcs, Follows(t, s),
           pc'[t] = "issue" => poolState[s] = "IN_USE",
           TokenHeld(s)' /\ Attended(s)'
    PROVE  SettledInv(s)'
  <1>1. Frame(t, s) /\ TypeOK /\ TypeOK' /\ SettledInv(s)
    BY DEF Working, Sound
  <1>2. pc[t] \notin AwayPcs \cup {"canSend"} \cup ResetPcs
    BY DEF SendPcs, AwayPcs, ResetPcs
  <1>3. ~Gone(s)
    BY <1>1, <1>2, AtWork DEF SettledInv
  <1>4. poolState'[s] # "FREE" /\ SendOps(s)' = SendOps(s) /\ SendOps(s) \in Nat
    BY <1>1, <1>3, OpsType DEF Gone, SameWorld, SendOps
  <1>. QED
    BY <1>1, <1>3, <1>4, QuietStep DEF SameWorld

(* The thread goes on to see to the session, ...                           *)
LEMMA GoesOn ==
    ASSUME NEW t \in Threads, NEW s \in Sessions, s = ses[t], Working(t, s),
           SameWorld(s), Sends(t) => Sends(t)',
           pc[t] \in SendPcs => pc'[t] \in SendPcs, pc[t] # "retire"
    PROVE  TokenHeld(s)' /\ Attended(s)'
  <1>1. Frame(t, s) /\ t \in Of(s)' /\ TokenHeld(s) /\ Attended(s)
    BY Others DEF Working, Sound, SettledInv, Passing
  <1>2. /\ Helps(t, s) => Helps(t, s)'
        /\ Sees(t, s) => Sees(t, s)'
    BY <1>1 DEF Helps, Sees
  <1>. QED
    BY <1>1, <1>2, StillHelped DEF SameWorld

(* ... or leaves it to the one who has the token.                          *)
LEMMA LeavesIt ==
    ASSUME NEW t \in Threads, NEW s \in Sessions, s = ses[t], Working(t, s),
           SameWorld(s), sending[s] = 1 \/ (queue[s] = <<>> /\ current[s] = NoPacket),
           ~Sends(t), pc[t] # "retire"
    PROVE  TokenHeld(s)' /\ Attended(s)'
  <1>1. Frame(t, s) /\ TokenHeld(s)
    BY DEF Working, Sound, SettledInv, Passing
  <1>2. ~Helps(t, s)
    BY DEF Helps
  <1>3. \A u \in Threads : Helps(u, s) => Helps(u, s)'
    BY <1>1, <1>2, OthersHelp
  <1>4. ASSUME poolState[s] = "IN_USE", sending[s] = 1
        PROVE  live'[s]["send"] > 0 \/ \E u \in Of(s)' : Sends(u)' \/ pc'[u] = "retire"
    <2>1. live[s]["send"] > 0 \/ \E u \in Of(s) : Sends(u) \/ pc[u] = "retire"
      BY <1>1, <1>4 DEF TokenHeld
    <2>2. live[s]["send"] > 0 \/ \E u \in Threads : Helps(u, s)
      BY <2>1, OfThreads DEF Helps
    <2>3. live[s]["send"] > 0 \/ \E u \in Threads : Helps(u, s)'
      BY <1>3, <2>2
    <2>. QED
      BY <2>3 DEF Helps, SameWorld
  <1>5. TokenHeld(s)'
    BY <1>4 DEF TokenHeld, SameWorld, SameParts
  <1>6. Attended(s)'
    <2>1. \A u \in Of(s)' : Sends(u)' => pc'[u] \in SendPcs
      BY SendPcsAre DEF Sends
    <2>. QED
      BY <1>4, <2>1 DEF Attended, SameWorld, SameParts
  <1>. QED
    BY <1>5, <1>6

(* The pc of a step of PostCurrentSend that goes on.                       *)
LEMMA Going ==
    ASSUME TypeOK, NEW t \in Threads,
           NEW l \in SendPcs \cup {"finish"}, Goto(t, l)
    PROVE  pc'[t] = l /\ stack'[t] = stack[t]
  <1>1. l \in Pcs
    BY DEF Pcs
  <1>. QED
    BY <1>1, GotoAt DEF At

LEMMA SettledTryFails ==
    ASSUME NEW t \in Threads, NEW s \in Sessions, s = ses[t], Working(t, s),
           \/ TrySendNext(t) /\ sending[s] # 0
           \/ Recheck(t)
    PROVE  SettledInv(s)'
  <1>1. TypeOK /\ Fits(t) /\ t \in Of(s) /\ SettledInv(s)
    BY DEF Working, Of
  <1>2. sending[s] \in 0..1 /\ sending \in [Sessions -> 0..1]
    BY <1>1 DEF TypeOK
  <1>3. SameWorld(s)
    <2>1. sending'[s] = sending[s]
      BY <1>2 DEF TrySendNext, Recheck, sendVars
    <2>. QED
      BY <2>1 DEF TrySendNext, Recheck, SameWorld, SameParts, leaseVars, kernVars,
                  sendVars, queueVars
  <1>4. /\ pc[t] \in {"try", "recheck"} /\ ~Sends(t) /\ pc[t] # "retire"
        /\ pc[t] \in SendPcs
    BY SendPcsAre DEF TrySendNext, Recheck, Sends
  <1>5. CASE Return(t)
    <2>1. Base(t, stack[t])
      BY <1>1, <1>4 DEF Fits, FitsAt, PostPcs
    <2>2. pc'[t] \in HomePcs
      BY <1>1, <1>5, <2>1, HomeRoles
    <2>3. ~Sends(t)' /\ pc'[t] \notin ResetPcs /\ pc'[t] # "issue"
      BY <2>2 DEF HomePcs, Sends, TokenPcs, ResetPcs
    <2>4. sending[s] = 1 \/ (queue[s] = <<>> /\ current[s] = NoPacket)
      <3>1. CASE TrySendNext(t) /\ sending[s] # 0
        BY <1>2, <3>1
      <3>2. CASE Recheck(t)
        <4>1. queue[s] = <<>>
          <5>1. ~Goto(t, "try")
            <6>1. Goto(t, "try") => pc'[t] = "try"
              BY <1>1, Going, SendPcsAre
            <6>. QED
              BY <2>2, <6>1 DEF HomePcs
          <5>. QED
            BY <3>2, <5>1 DEF Recheck
        <4>2. ~Gone(s)
          BY <1>1, <1>4, AtWork DEF SettledInv, AwayPcs, ResetPcs
        <4>3. sending[s] = 0 => current[s] = NoPacket
          BY <1>1, <4>2 DEF SettledInv, Passing, CurrentHeld
        <4>. QED
          BY <1>2, <4>1, <4>3
      <3>. QED
        BY <3>1, <3>2
    <2>5. TokenHeld(s)' /\ Attended(s)'
      BY <1>3, <1>4, <2>4, LeavesIt
    <2>6. Follows(t, s)
      BY <2>3 DEF Follows
    <2>. QED
      BY <1>3, <1>4, <2>3, <2>5, <2>6, QuietPost
  <1>6. CASE Goto(t, "try")
    <2>1. pc'[t] = "try"
      BY <1>1, <1>6, Going, SendPcsAre
    <2>2. ~Sends(t)' /\ pc'[t] \notin ResetPcs /\ pc'[t] # "issue" /\ pc'[t] \in SendPcs
      BY <2>1, SendPcsAre DEF Sends, TokenPcs, ResetPcs
    <2>3. TokenHeld(s)' /\ Attended(s)'
      BY <1>3, <1>4, <2>2, GoesOn
    <2>4. Follows(t, s)
      BY <2>2 DEF Follows
    <2>. QED
      BY <1>3, <1>4, <2>2, <2>3, <2>4, QuietPost
  <1>. QED
    BY <1>5, <1>6 DEF TrySendNext, Recheck

LEMMA SettledGoesOn ==
    ASSUME NEW t \in Threads, NEW s \in Sessions, s = ses[t], Working(t, s),
           \/ BeginIO(t) \/ Gate(t) \/ DropCurrent(t)
           \/ Dequeue(t) /\ queue[s] = <<>>
           \/ OnSendCompleted(t) /\ offset[s] < PacketSize
    PROVE  SettledInv(s)'
  <1>1. TypeOK /\ Fits(t) /\ t \in Of(s) /\ SettledInv(s) /\ Released(s)
    BY DEF Working, Of
  <1>2. /\ pc[t] \in {"begin", "gate", "dropCurrent", "dequeue", "sent"} /\ Sends(t)
        /\ pc[t] \in SendPcs
    BY SendPcsAre DEF BeginIO, Gate, DropCurrent, Dequeue, OnSendCompleted, Sends, TokenPcs
  <1>3. /\ pc[t] = "dequeue" => current[s] = NoPacket
        /\ pc[t] = "sent" => current[s] # NoPacket
    BY <1>1, <1>2 DEF SettledInv, Passing, CurrentHeld
  <1>4. SameWorld(s)
    <2>1. CASE BeginIO(t) \/ Gate(t) \/ DropCurrent(t)
      BY <2>1 DEF BeginIO, Gate, DropCurrent, SameWorld, SameParts, leaseVars, kernVars,
                  sendVars, queueVars
    <2>2. CASE Dequeue(t) /\ queue[s] = <<>>
      BY <2>2 DEF Dequeue, SameWorld, SameParts, leaseVars, kernVars
    <2>3. CASE OnSendCompleted(t)
      BY <2>3 DEF OnSendCompleted, SameWorld, SameParts, leaseVars, kernVars, sendVars,
                  queueVars
    <2>. QED
      BY <2>1, <2>2, <2>3
  <1>5. ~Gone(s)
    BY <1>1, <1>2, AtWork DEF SettledInv, AwayPcs, ResetPcs
  <1>6. ASSUME NEW l \in TokenPcs, Goto(t, l),
               l \in {"dequeue", "setIdle"} <=> pc[t] \in {"dequeue", "setIdle"},
               l \in {"begin", "gate", "issue"} => pc[t] \in {"begin", "gate", "issue"},
               l \in DropPcs => pc[t] \in DropPcs,
               l = "issue" => poolState[s] = "IN_USE"
        PROVE  SettledInv(s)'
    <2>1. pc'[t] = l /\ stack'[t] = stack[t] /\ l \in SendPcs
      BY <1>1, <1>6, Going, SendPcsAre
    <2>2. Sends(t)' /\ pc'[t] \notin ResetPcs /\ pc[t] # "retire"
      BY <1>2, <2>1, SendPcsAre DEF Sends
    <2>3. Follows(t, s)
      BY <1>1, <1>2, <1>6, <2>1 DEF Follows
    <2>4. TokenHeld(s)' /\ Attended(s)'
      BY <1>4, <2>1, <2>2, GoesOn
    <2>. QED
      BY <1>2, <1>4, <1>6, <2>1, <2>2, <2>3, <2>4, QuietPost
  <1>7. CASE BeginIO(t) \/ DropCurrent(t)
    BY <1>6, <1>7 DEF BeginIO, DropCurrent, TokenPcs, DropPcs
  <1>8. CASE Dequeue(t) /\ queue[s] = <<>>
    <2>1. pc[t] = "dequeue" /\ Goto(t, "setIdle")
      BY <1>3, <1>8 DEF Dequeue
    <2>. QED
      BY <1>6, <2>1 DEF TokenPcs, DropPcs
  <1>9. CASE OnSendCompleted(t) /\ offset[s] < PacketSize
    <2>1. pc[t] = "sent" /\ Goto(t, "prepare")
      BY <1>3, <1>9 DEF OnSendCompleted
    <2>. QED
      BY <1>6, <2>1 DEF TokenPcs, DropPcs
  <1>10. CASE Gate(t) /\ cancelIo[s] = 0
    <2>1. pc[t] = "gate" /\ Goto(t, "issue")
      BY <1>10 DEF Gate
    <2>2. poolState[s] = "IN_USE"
      BY <1>1, <1>5, <1>10 DEF Released, Drained, Gone, TypeOK
    <2>. QED
      BY <1>6, <2>1, <2>2 DEF TokenPcs, DropPcs
  <1>11. CASE Gate(t) /\ cancelIo[s] # 0
    <2>1. pc[t] = "gate" /\ Goto(t, "finish")
      BY <1>11 DEF Gate
    <2>2. pc'[t] = "finish"
      BY <1>1, <2>1, Going
    <2>3. poolState[s] # "IN_USE"
      BY <1>1, <1>11 DEF Released, Drained
    <2>4. TokenHeld(s)' /\ Attended(s)'
      BY <1>4, <2>3 DEF TokenHeld, Attended, SameWorld
    <2>5. ~Sends(t)' /\ pc'[t] \notin ResetPcs
      BY <2>2 DEF Sends, TokenPcs, ResetPcs
    <2>6. Follows(t, s)
      BY <2>5 DEF Follows
    <2>. QED
      BY <1>2, <1>4, <2>2, <2>4, <2>5, <2>6, QuietPost
  <1>. QED
    BY <1>7, <1>8, <1>9, <1>10, <1>11
-----------------------------------------------------------------------------
(* The steps of a thread that move the token, or the current packet.       *)

(* What they leave alone.                                                  *)
LEMMA PostStays ==
    ASSUME NEW t \in Threads, NEW s \in Sessions, s = ses[t], Working(t, s),
           pc[t] \in SendPcs, pc'[t] \notin ResetPcs, poolState'[s] = poolState[s],
           current'[s] = current[s], offset'[s] = offset[s],
           queue'[s] = queue[s], accepted'[s] = accepted[s], wire'[s] = wire[s],
           short[s] => short'[s], dead[s] => dead'[s],
           live'[s]["send"] > 0 => live[s]["send"] > 0 \/ pc[t] = "issue",
           pc'[t] # "issue"
    PROVE  Alone(s)' /\ Tidied(s)' /\ Sent(s)' /\ ~Gone(s) /\ ~Gone(s)'
  <1>1. Frame(t, s) /\ TypeOK /\ TypeOK' /\ SettledInv(s) /\ t \in Of(s)
    BY DEF Working, Sound, Of
  <1>2. pc[t] \notin AwayPcs \cup {"canSend"} \cup ResetPcs
    BY DEF SendPcs, AwayPcs, ResetPcs
  <1>3. ~Gone(s)
    BY <1>1, <1>2, AtWork DEF SettledInv
  <1>4. poolState'[s] # "FREE"
    BY <1>3 DEF Gone
  <1>5. ~Gone(s)'
    BY <1>1, <1>3, <1>4, StillInHands
  <1>6. Flows(s)' => Flows(s)
    <2>1. \A u \in Of(s)' : pc'[u] = "issue" => u \in Of(s) /\ pc[u] = "issue"
      BY <1>1, OfThreads, OthersHelp
    <2>. QED
      BY <1>1, <2>1 DEF Flows
  <1>7. Sent(s)'
    BY <1>1, <1>3, <1>6, SentStays DEF SettledInv
  <1>. QED
    BY <1>3, <1>5, <1>7, InHands

(* The one thread that sends for the session.                              *)
LEMMA OneSends ==
    ASSUME NEW t \in Threads, NEW s \in Sessions, s = ses[t], Working(t, s),
           Sends(t) \/ sending[s] = 0
    PROVE  /\ t \in Of(s)' /\ SendOps(s) = 0
           /\ live[s]["send"] = 0 /\ dying[s]["send"] = 0
           /\ \A u \in Of(s)' \ {t} : /\ u \in Threads
                                      /\ ~Sends(u)' /\ pc'[u] \notin TokenPcs
  <1>1. Frame(t, s) /\ TypeOK /\ SettledInv(s) /\ t \in Of(s) /\ t \in Of(s)'
    BY DEF Working, Sound, Of, Frame
  <1>2. \A u \in Of(s) \ {t} : ~Sends(u)
    BY <1>1 DEF SettledInv, Passing, TokenOnce
  <1>3. \A u \in Of(s)' \ {t} : u \in Threads /\ u \in Of(s) /\ pc'[u] = pc[u]
    BY <1>1, OfThreads, OthersHelp
  <1>4. \A u \in Of(s)' \ {t} : /\ u \in Threads
                                /\ ~Sends(u)' /\ pc'[u] \notin TokenPcs
    BY <1>2, <1>3 DEF Sends
  <1>5. /\ live[s]["send"] \in Nat /\ dying[s]["send"] \in Nat /\ SendOps(s) \in Nat
    BY <1>1, OpsType
  <1>6. SendOps(s) = 0
    <2>1. SendOps(s) <= 1 /\ (SendOps(s) = 1 => sending[s] = 1)
          /\ (Sends(t) => SendOps(s) = 0)
      BY <1>1 DEF SettledInv, Passing, TokenOnce
    <2>. QED
      BY <1>5, <2>1
  <1>7. live[s]["send"] = 0 /\ dying[s]["send"] = 0
    BY <1>5, <1>6 DEF SendOps
  <1>. QED
    BY <1>1, <1>4, <1>6, <1>7

(* With the token in its hands, it passes on.                              *)
LEMMA HasToken ==
    ASSUME NEW t \in Threads, NEW s \in Sessions, t \in Of(s)',
           \A u \in Of(s)' \ {t} : ~Sends(u)' /\ pc'[u] \notin TokenPcs,
           Sends(t)', sending'[s] = 1, SendOps(s)' = 0,
           pc'[t] \in {"dequeue", "setIdle"} <=> current'[s] = NoPacket,
           pc'[t] \in {"begin", "gate", "issue"} => over'[s] = current'[s],
           pc'[t] \in DropPcs =>
             \/ Trying(t, stack'[t]) /\ offset'[s] = PacketSize
             \/ Retiring(t, stack'[t]) /\ dead'[s]
             \/ short'[s]
             \/ poolState'[s] # "IN_USE"
    PROVE  Passing(s)'
  <1>1. TokenOnce(s)'
    BY DEF TokenOnce
  <1>2. CurrentHeld(s)'
    <2>1. {"dequeue", "setIdle", "begin", "gate", "issue"} \subseteq TokenPcs
      BY DEF TokenPcs
    <2>. QED
      BY <2>1 DEF CurrentHeld
  <1>3. DroppedFor(s)'
    <2>1. \A u \in Of(s)' : pc'[u] \in DropPcs => u = t
      BY SendPcsAre
    <2>2. \A u \in Of(s)' : pc'[u] \in DropPcs =>
             \/ Trying(u, stack'[u]) /\ offset'[s] = PacketSize
             \/ Retiring(u, stack'[u]) /\ dead'[s]
             \/ short'[s]
             \/ poolState'[s] # "IN_USE"
      BY <2>1
    <2>. QED
      BY <2>2 DEF DroppedFor, Trying, Retiring, Base
  <1>4. TokenHeld(s)' /\ Attended(s)'
    BY SendPcsAre DEF TokenHeld, Attended, Sends
  <1>. QED
    BY <1>1, <1>2, <1>3, <1>4 DEF Passing

(* Nobody has it, and nothing is sent.                                     *)
LEMMA NobodyHasToken ==
    ASSUME NEW s \in Sessions, \A u \in Of(s)' : ~Sends(u)' /\ pc'[u] \notin TokenPcs,
           sending'[s] = 0, SendOps(s)' = 0, current'[s] = NoPacket \/ Gone(s)',
           Attended(s)'
    PROVE  Passing(s)'
  <1>1. TokenOnce(s)'
    BY DEF TokenOnce
  <1>2. CurrentHeld(s)'
    <2>1. {"dequeue", "setIdle", "begin", "gate", "issue"} \subseteq TokenPcs
      BY DEF TokenPcs
    <2>. QED
      BY <2>1 DEF CurrentHeld
  <1>3. DroppedFor(s)'
    BY SendPcsAre DEF DroppedFor
  <1>4. TokenHeld(s)'
    BY DEF TokenHeld
  <1>. QED
    BY <1>1, <1>2, <1>3, <1>4 DEF Passing

LEMMA SettledTakes ==
    ASSUME NEW t \in Threads, NEW s \in Sessions, s = ses[t], Working(t, s),
           TrySendNext(t), sending[s] = 0
    PROVE  SettledInv(s)'
  <1>1. TypeOK /\ TypeOK' /\ SettledInv(s)
    BY DEF Working
  <1>2. /\ pc[t] = "try" /\ Goto(t, "dequeue") /\ sending' = [sending EXCEPT ![s] = 1]
        /\ poolState' = poolState /\ short' = short /\ dead' = dead
        /\ live' = live /\ dying' = dying /\ wire' = wire
        /\ current' = current /\ offset' = offset
        /\ queue' = queue /\ accepted' = accepted
    BY DEF TrySendNext, leaseVars, kernVars, queueVars
  <1>3. pc'[t] = "dequeue"
    <2>1. "dequeue" \in SendPcs
      BY DEF SendPcs
    <2>. QED
      BY <1>1, <1>2, <2>1, Going
  <1>4. Alone(s)' /\ Tidied(s)' /\ Sent(s)' /\ ~Gone(s)
    <2>1. pc[t] \in SendPcs /\ pc'[t] \notin ResetPcs /\ pc'[t] # "issue"
      BY <1>2, <1>3 DEF SendPcs, ResetPcs
    <2>. QED
      BY <1>2, <2>1, PostStays
  <1>5. current[s] = NoPacket
    BY <1>1, <1>4 DEF SettledInv, Passing, CurrentHeld
  <1>6. /\ t \in Of(s)' /\ SendOps(s) = 0
        /\ \A u \in Of(s)' \ {t} : ~Sends(u)' /\ pc'[u] \notin TokenPcs
    BY OneSends
  <1>7. SendOps(s)' = 0 /\ sending'[s] = 1 /\ Sends(t)'
    BY <1>1, <1>2, <1>3, <1>6 DEF SendOps, TypeOK, Sends, TokenPcs
  <1>8. Passing(s)'
    BY <1>2, <1>3, <1>5, <1>6, <1>7, HasToken DEF DropPcs
  <1>. QED
    BY <1>4, <1>8 DEF SettledInv

LEMMA SettledIdle ==
    ASSUME NEW t \in Threads, NEW s \in Sessions, s = ses[t], Working(t, s), SetIdle(t)
    PROVE  SettledInv(s)'
  <1>1. TypeOK /\ TypeOK' /\ SettledInv(s) /\ t \in Of(s)
    BY DEF Working, Of
  <1>2. /\ pc[t] = "setIdle" /\ Goto(t, "recheck") /\ sending' = [sending EXCEPT ![s] = 0]
        /\ poolState' = poolState /\ short' = short /\ dead' = dead
        /\ live' = live /\ dying' = dying /\ wire' = wire
        /\ current' = current /\ offset' = offset
        /\ queue' = queue /\ accepted' = accepted
    BY DEF SetIdle, leaseVars, kernVars, queueVars
  <1>3. pc'[t] = "recheck"
    BY <1>1, <1>2, SendPcsAre, Going
  <1>4. Alone(s)' /\ Tidied(s)' /\ Sent(s)' /\ ~Gone(s)
    <2>1. pc[t] \in SendPcs /\ pc'[t] \notin ResetPcs /\ pc'[t] # "issue"
      BY <1>2, <1>3 DEF SendPcs, ResetPcs
    <2>. QED
      BY <1>2, <2>1, PostStays
  <1>5. current'[s] = NoPacket
    BY <1>1, <1>2 DEF SettledInv, Passing, CurrentHeld
  <1>6. Sends(t)
    BY <1>2 DEF Sends, TokenPcs
  <1>7. /\ t \in Of(s)' /\ SendOps(s) = 0
        /\ \A u \in Of(s)' \ {t} : ~Sends(u)' /\ pc'[u] \notin TokenPcs
    BY <1>6, OneSends
  <1>8. ~Sends(t)' /\ pc'[t] \notin TokenPcs /\ pc'[t] \in SendPcs
    BY <1>3, SendPcsAre DEF Sends, TokenPcs
  <1>9. SendOps(s)' = 0 /\ sending'[s] = 0
    BY <1>1, <1>2, <1>7 DEF SendOps, TypeOK
  <1>10. Attended(s)'
    BY <1>7, <1>8 DEF Attended
  <1>11. Passing(s)'
    BY <1>5, <1>7, <1>8, <1>9, <1>10, NobodyHasToken
  <1>. QED
    BY <1>4, <1>11 DEF SettledInv

LEMMA SettledPrepare ==
    ASSUME NEW t \in Threads, NEW s \in Sessions, s = ses[t], Working(t, s), Prepare(t)
    PROVE  SettledInv(s)'
  <1>1. TypeOK /\ TypeOK' /\ SettledInv(s) /\ Released(s) /\ t \in Of(s)
    BY DEF Working, Of
  <1>2. /\ pc[t] = "prepare"
        /\ poolState' = poolState /\ short' = short /\ dead' = dead
        /\ live' = live /\ dying' = dying /\ wire' = wire /\ sending' = sending
        /\ current' = current /\ offset' = offset
        /\ queue' = queue /\ accepted' = accepted
    BY DEF Prepare, leaseVars, sendVars, queueVars
  <1>3. Sends(t) /\ sending[s] = 1 /\ current[s] # NoPacket
    <2>1. Sends(t)
      BY <1>2 DEF Sends, TokenPcs
    <2>. QED
      BY <1>1, <1>2, <2>1 DEF SettledInv, Passing, CurrentHeld, TokenOnce
  <1>4. /\ over' = [over EXCEPT ![s] = current[s]]
        /\ Goto(t, IF cancelIo[s] = 1 THEN "dropCurrent" ELSE "begin")
    BY <1>3 DEF Prepare
  <1>5. pc'[t] = IF cancelIo[s] = 1 THEN "dropCurrent" ELSE "begin"
    <2>1. "dropCurrent" \in SendPcs /\ "begin" \in SendPcs
      BY DEF SendPcs
    <2>. QED
      BY <1>1, <1>4, <2>1, Going
  <1>6. cancelIo[s] = 1 => poolState[s] # "IN_USE"
    BY <1>1 DEF Released, Drained
  <1>7. Alone(s)' /\ Tidied(s)' /\ Sent(s)'
    <2>1. pc[t] \in SendPcs /\ pc'[t] \notin ResetPcs /\ pc'[t] # "issue"
      BY <1>2, <1>5 DEF SendPcs, ResetPcs
    <2>. QED
      BY <1>2, <2>1, PostStays
  <1>8. /\ t \in Of(s)' /\ SendOps(s) = 0
        /\ \A u \in Of(s)' \ {t} : ~Sends(u)' /\ pc'[u] \notin TokenPcs
    BY <1>3, OneSends
  <1>9. SendOps(s)' = 0 /\ Sends(t)' /\ over'[s] = current'[s]
    BY <1>1, <1>2, <1>4, <1>5, <1>8 DEF SendOps, TypeOK, Sends, TokenPcs
  <1>10. /\ pc'[t] \notin {"dequeue", "setIdle"}
         /\ pc'[t] \in DropPcs => poolState'[s] # "IN_USE"
    BY <1>2, <1>5, <1>6 DEF DropPcs
  <1>11. Passing(s)'
    BY <1>2, <1>3, <1>8, <1>9, <1>10, HasToken
  <1>. QED
    BY <1>7, <1>11 DEF SettledInv

LEMMA SettledIssues ==
    ASSUME NEW t \in Threads, NEW s \in Sessions, s = ses[t], Working(t, s),
           IssueSucceeds(t)
    PROVE  SettledInv(s)'
  <1>1. TypeOK /\ TypeOK' /\ SettledInv(s) /\ t \in Of(s) /\ Fits(t)
    BY DEF Working, Of
  <1>2. /\ pc[t] = "issue" /\ Return(t) /\ live' = [live EXCEPT ![s]["send"] = @ + 1]
        /\ poolState' = poolState /\ short' = short /\ dead' = dead
        /\ dying' = dying /\ wire' = wire /\ sending' = sending
        /\ current' = current /\ offset' = offset /\ over' = over
        /\ queue' = queue /\ accepted' = accepted
    BY DEF IssueSucceeds, leaseVars, sendVars, queueVars
  <1>3. pc'[t] \in HomePcs
    <2>1. Base(t, stack[t])
      BY <1>1, <1>2 DEF Fits, FitsAt, PostPcs
    <2>. QED
      BY <1>1, <1>2, <2>1, HomeRoles
  <1>4. Sends(t) /\ sending[s] = 1 /\ current[s] # NoPacket /\ over[s] = current[s]
    <2>1. Sends(t)
      BY <1>2 DEF Sends, TokenPcs
    <2>. QED
      BY <1>1, <1>2, <2>1 DEF SettledInv, Passing, CurrentHeld, TokenOnce
  <1>5. Alone(s)' /\ Tidied(s)' /\ Sent(s)'
    <2>1. pc[t] \in SendPcs /\ pc'[t] \notin ResetPcs /\ pc'[t] # "issue"
      BY <1>2, <1>3 DEF SendPcs, ResetPcs, HomePcs
    <2>. QED
      BY <1>2, <2>1, PostStays
  <1>6. /\ live[s]["send"] = 0 /\ dying[s]["send"] = 0
        /\ \A u \in Of(s)' \ {t} : ~Sends(u)' /\ pc'[u] \notin TokenPcs
    BY <1>4, OneSends
  <1>7. live'[s]["send"] = 1 /\ SendOps(s)' = 1
    <2>1. live \in [Sessions -> [Kinds -> Nat]]
      BY <1>1 DEF TypeOK
    <2>2. live'[s]["send"] = 1
      BY <1>2, <1>6, <2>1, KindsHas
    <2>. QED
      BY <1>2, <1>6, <2>2 DEF SendOps
  <1>8. \A u \in Of(s)' : ~Sends(u)' /\ pc'[u] \notin TokenPcs
    BY <1>3, <1>6, SendPcsAre DEF Sends
  <1>9. TokenOnce(s)'
    BY <1>2, <1>4, <1>7, <1>8 DEF TokenOnce
  <1>10. CurrentHeld(s)'
    <2>1. {"dequeue", "setIdle", "begin", "gate", "issue"} \subseteq TokenPcs
      BY DEF TokenPcs
    <2>. QED
      BY <1>2, <1>4, <1>8, <2>1 DEF CurrentHeld
  <1>11. DroppedFor(s)'
    BY <1>8, SendPcsAre DEF DroppedFor
  <1>12. TokenHeld(s)' /\ Attended(s)'
    BY <1>7 DEF TokenHeld, Attended
  <1>. QED
    BY <1>5, <1>9, <1>10, <1>11, <1>12 DEF SettledInv, Passing

LEMMA SettledDrops ==
    ASSUME NEW t \in Threads, NEW s \in Sessions, s = ses[t], Working(t, s),
           IssueFails(t) \/ (OnSendCompleted(t) /\ offset[s] >= PacketSize)
    PROVE  SettledInv(s)'
  <1>1. TypeOK /\ TypeOK' /\ SettledInv(s) /\ t \in Of(s) /\ Fits(t)
    BY DEF Working, Of
  <1>2. /\ pc[t] \in {"issue", "sent"}
        /\ poolState' = poolState /\ live' = live /\ dying' = dying /\ wire' = wire
        /\ sending' = sending /\ current' = current /\ offset' = offset
        /\ queue' = queue /\ accepted' = accepted
    BY DEF IssueFails, OnSendCompleted, leaseVars, kernVars, sendVars, queueVars
  <1>3. Sends(t) /\ sending[s] = 1 /\ current[s] # NoPacket
    <2>1. Sends(t)
      BY <1>2 DEF Sends, TokenPcs
    <2>. QED
      BY <1>1, <1>2, <2>1 DEF SettledInv, Passing, CurrentHeld, TokenOnce
  <1>4. /\ pc'[t] = "dropCurrent" /\ (short[s] => short'[s]) /\ (dead[s] => dead'[s])
        /\ \/ Trying(t, stack'[t]) /\ offset'[s] = PacketSize
           \/ Retiring(t, stack'[t]) /\ dead'[s]
           \/ short'[s]
    <2>1. CASE IssueFails(t)
      BY <1>1, <2>1, FailsTo
    <2>2. CASE OnSendCompleted(t) /\ offset[s] >= PacketSize
      <3>1. Call(t, "dropCurrent", <<"try">>) /\ short' = short /\ dead' = dead
        <4>1. offset[s] \in 0..PacketSize /\ PacketSize \in Nat
          BY <1>1, DepthAssumption DEF TypeOK
        <4>2. ~(offset[s] < PacketSize)
          BY <2>2, <4>1
        <4>. QED
          BY <1>3, <2>2, <4>2 DEF OnSendCompleted, leaseVars, kernVars
      <3>2. offset'[s] = PacketSize
        <4>1. offset[s] \in 0..PacketSize /\ PacketSize \in Nat
          BY <1>1, DepthAssumption DEF TypeOK
        <4>. QED
          BY <1>2, <2>2, <4>1
      <3>3. "dropCurrent" \in Pcs /\ "try" \in Pcs
        BY DEF Pcs, SendPcs
      <3>4. t \in Workers /\ stack[t] = OfDone
        BY <1>1, <2>2 DEF OnSendCompleted, Fits, FitsAt
      <3>5. pc'[t] = "dropCurrent" /\ stack'[t] = Then("try", OfDone)
        BY <1>1, <3>1, <3>3, <3>4, CallAt DEF At
      <3>. QED
        BY <3>1, <3>2, <3>4, <3>5 DEF Trying
    <2>. QED
      BY <2>1, <2>2
  <1>5. Alone(s)' /\ Tidied(s)' /\ Sent(s)'
    <2>1. pc[t] \in SendPcs /\ pc'[t] \notin ResetPcs /\ pc'[t] # "issue"
      BY <1>2, <1>4 DEF SendPcs, ResetPcs
    <2>. QED
      BY <1>2, <1>4, <2>1, PostStays
  <1>6. /\ t \in Of(s)' /\ SendOps(s) = 0
        /\ \A u \in Of(s)' \ {t} : ~Sends(u)' /\ pc'[u] \notin TokenPcs
    BY <1>3, OneSends
  <1>7. SendOps(s)' = 0 /\ Sends(t)' /\ sending'[s] = 1 /\ current'[s] # NoPacket
    BY <1>2, <1>3, <1>4, <1>6 DEF SendOps, Sends, TokenPcs
  <1>8. Passing(s)'
    BY <1>4, <1>6, <1>7, HasToken
  <1>. QED
    BY <1>5, <1>8 DEF SettledInv
-----------------------------------------------------------------------------
(* The steps that change what waits and what is being sent.                *)

LEMMA Whole ==
    ASSUME NEW a \in Int, NEW b \in Int, NEW c \in Int
    PROVE  /\ a * (b - 1) + a = a * b
           /\ a * ((b + 1) - 1) + 0 = a * b
           /\ b - 1 + 1 = b
  <1>1. a * (b - 1) = a * b - a /\ a * b \in Int
    BY Z3
  <1>. QED
    BY <1>1

LEMMA SentTypes ==
    ASSUME TypeOK, NEW s \in Sessions
    PROVE  /\ accepted[s] \in Seq(Packets) /\ queue[s] \in Seq(Packets)
           /\ wire[s] \in Seq(Packets \cup {NoPacket})
           /\ offset[s] \in 0..PacketSize /\ PacketSize \in Nat \ {0}
           /\ Len(accepted[s]) \in Nat /\ Len(queue[s]) \in Nat /\ Len(wire[s]) \in Nat
           /\ Taken(s) \in Int /\ offset[s] \in Int /\ PacketSize \in Int
           /\ Packets \subseteq Nat /\ NoPacket \notin Packets
  <1>1. /\ accepted[s] \in Seq(Packets) /\ queue[s] \in Seq(Packets)
        /\ wire[s] \in Seq(Packets \cup {NoPacket})
        /\ offset[s] \in 0..PacketSize /\ PacketSize \in Nat \ {0}
    BY DepthAssumption DEF TypeOK
  <1>2. Packets \subseteq Nat /\ NoPacket \notin Packets
    BY BoundsAssumption DEF Packets, NoPacket
  <1>. QED
    BY <1>1, <1>2 DEF Taken

LEMMA SettledForgets ==
    ASSUME NEW t \in Threads, NEW s \in Sessions, s = ses[t], Working(t, s), DropToken(t)
    PROVE  SettledInv(s)'
  <1>1. TypeOK /\ TypeOK' /\ SettledInv(s) /\ t \in Of(s) /\ Fits(t) /\ Frame(t, s)
    BY DEF Working, Of, Sound
  <1>2. /\ pc[t] = "dropToken" /\ poolState' = poolState /\ short' = short /\ dead' = dead
        /\ live' = live /\ dying' = dying /\ wire' = wire
        /\ queue' = queue /\ accepted' = accepted
        /\ current'[s] = NoPacket /\ offset'[s] = 0 /\ sending'[s] = 0
    BY <1>1 DEF DropToken, leaseVars, kernVars, queueVars, TypeOK
  <1>3. Sends(t) /\ current[s] # NoPacket
    <2>1. Sends(t)
      BY <1>2 DEF Sends, TokenPcs
    <2>. QED
      BY <1>1, <1>2, <2>1 DEF SettledInv, Passing, CurrentHeld
  <1>4. /\ t \in Of(s)' /\ SendOps(s) = 0
        /\ live[s]["send"] = 0
        /\ \A u \in Of(s)' \ {t} : ~Sends(u)' /\ pc'[u] \notin TokenPcs
    BY <1>3, OneSends
  <1>5. /\ Trying(t, stack[t]) => pc'[t] = "try"
        /\ Retiring(t, stack[t]) => pc'[t] = "retire"
        /\ pc'[t] \in HomePcs \cup {"try", "retire"}
    BY <1>1, DropsTo
  <1>6. ~Sends(t)' /\ pc'[t] \notin TokenPcs /\ pc'[t] \notin ResetPcs
    BY <1>5 DEF HomePcs, ResetPcs, Sends, TokenPcs
  <1>7. ~Gone(s)' /\ ~Gone(s)
    <2>1. pc[t] \notin AwayPcs \cup {"canSend"} \cup ResetPcs
      BY <1>2 DEF AwayPcs, ResetPcs
    <2>2. ~Gone(s)
      BY <1>1, <2>1, AtWork DEF SettledInv
    <2>3. poolState'[s] # "FREE"
      BY <1>2, <2>2 DEF Gone
    <2>. QED
      BY <1>1, <1>6, <2>2, <2>3, StillInHands
  <1>8. Alone(s)' /\ Tidied(s)'
    BY <1>7, InHands
  <1>9. \/ Trying(t, stack[t]) /\ offset[s] = PacketSize
        \/ Retiring(t, stack[t]) /\ dead[s]
        \/ short[s]
        \/ poolState[s] # "IN_USE"
    BY <1>1, <1>2 DEF SettledInv, Passing, DroppedFor, DropPcs
  <1>10. Attended(s)'
    <2>. SUFFICES ASSUME poolState[s] = "IN_USE", ~short[s]
                  PROVE  pc'[t] \in SendPcs \cup {"retire"}
      BY <1>2, <1>4 DEF Attended
    <2>. QED
      BY <1>5, <1>9, SendPcsAre
  <1>11. Passing(s)'
    <2>1. SendOps(s)' = 0
      BY <1>2, <1>4 DEF SendOps
    <2>2. \A u \in Of(s)' : ~Sends(u)' /\ pc'[u] \notin TokenPcs
      BY <1>4, <1>6
    <2>. QED
      BY <1>2, <1>10, <2>1, <2>2, NobodyHasToken
  <1>12. Taken(s)' = Taken(s)
    BY <1>2 DEF Taken
  <1>13. QueueInOrder(s)' /\ InOrder(s)'
    BY <1>1, <1>2, <1>12 DEF SettledInv, Sent, QueueInOrder, InOrder
  <1>14. SentSoFar(s)'
    <2>. SUFFICES ASSUME Flows(s)'
                  PROVE  Len(wire'[s]) = PacketSize * Taken(s)
      BY <1>2, <1>12 DEF SentSoFar
    <2>1. \A u \in Of(s)' : pc'[u] # "issue"
      BY <1>4, <1>6 DEF TokenPcs
    <2>2. ~short[s] /\ ~dead[s] /\ poolState[s] = "IN_USE"
      BY <1>2, <1>4, <2>1 DEF Flows
    <2>3. offset[s] = PacketSize
      BY <1>9, <2>2
    <2>4. Len(wire[s]) = PacketSize * (Taken(s) - 1) + PacketSize
      BY <1>1, <1>3, <2>2, <2>3 DEF SettledInv, Sent, SentSoFar, Flows
    <2>. QED
      BY <1>1, <1>2, <2>4, Whole, SentTypes
  <1>. QED
    BY <1>8, <1>11, <1>13, <1>14 DEF SettledInv, Sent

LEMMA SettledDequeue ==
    ASSUME NEW t \in Threads, NEW s \in Sessions, s = ses[t], Working(t, s),
           Dequeue(t), queue[s] # <<>>
    PROVE  SettledInv(s)'
  <1>1. TypeOK /\ TypeOK' /\ SettledInv(s) /\ t \in Of(s) /\ Fits(t) /\ Frame(t, s)
    BY DEF Working, Of, Sound
  <1>2. /\ pc[t] = "dequeue" /\ poolState' = poolState /\ short' = short /\ dead' = dead
        /\ live' = live /\ dying' = dying /\ wire' = wire /\ over' = over
        /\ accepted' = accepted /\ sending' = sending
    BY DEF Dequeue, leaseVars, kernVars
  <1>3. Sends(t) /\ current[s] = NoPacket /\ sending[s] = 1
    <2>1. Sends(t)
      BY <1>2 DEF Sends, TokenPcs
    <2>. QED
      BY <1>1, <1>2, <2>1 DEF SettledInv, Passing, CurrentHeld, TokenOnce
  <1>4. /\ current' = [current EXCEPT ![s] = Head(queue[s])]
        /\ queue' = [queue EXCEPT ![s] = Tail(@)]
        /\ offset' = [offset EXCEPT ![s] = 0]
        /\ Goto(t, "prepare")
    BY <1>3 DEF Dequeue
  <1>5. /\ current'[s] = Head(queue[s]) /\ queue'[s] = Tail(queue[s]) /\ offset'[s] = 0
    BY <1>1, <1>4 DEF TypeOK
  <1>6. pc'[t] = "prepare"
    <2>1. "prepare" \in SendPcs
      BY DEF SendPcs
    <2>. QED
      BY <1>1, <1>4, <2>1, Going
  <1>7. /\ Head(queue[s]) \in Packets /\ Head(queue[s]) = queue[s][1]
        /\ Len(Tail(queue[s])) = Len(queue[s]) - 1 /\ Len(queue[s]) > 0
        /\ \A i \in 1 .. Len(Tail(queue[s])) : Tail(queue[s])[i] = queue[s][i + 1]
    <2>1. queue[s] \in Seq(Packets)
      BY <1>1, SentTypes
    <2>. QED
      BY <2>1
  <1>8. ~Gone(s)' /\ ~Gone(s)
    <2>1. pc[t] \notin AwayPcs \cup {"canSend"} \cup ResetPcs
      BY <1>2 DEF AwayPcs, ResetPcs
    <2>2. ~Gone(s)
      BY <1>1, <2>1, AtWork DEF SettledInv
    <2>3. poolState'[s] # "FREE"
      BY <1>2, <2>2 DEF Gone
    <2>4. pc'[t] \notin ResetPcs
      BY <1>6 DEF ResetPcs
    <2>. QED
      BY <1>1, <2>2, <2>3, <2>4, StillInHands
  <1>9. Alone(s)' /\ Tidied(s)'
    BY <1>8, InHands
  <1>10. /\ t \in Of(s)' /\ SendOps(s) = 0
         /\ \A u \in Of(s)' \ {t} : u \in Threads /\ ~Sends(u)' /\ pc'[u] \notin TokenPcs
    BY <1>3, OneSends
  <1>11. Passing(s)'
    <2>1. SendOps(s)' = 0 /\ Sends(t)' /\ sending'[s] = 1
      BY <1>2, <1>3, <1>6, <1>10 DEF SendOps, Sends, TokenPcs
    <2>2. current'[s] # NoPacket
      BY <1>1, <1>5, <1>7, SentTypes
    <2>3. /\ pc'[t] \notin {"dequeue", "setIdle"} \cup DropPcs \cup {"begin", "gate", "issue"}
      BY <1>6 DEF DropPcs
    <2>. QED
      BY <1>10, <2>1, <2>2, <2>3, HasToken
  <1>12. Taken(s)' = Taken(s) + 1 /\ Taken(s) >= 0 /\ Taken(s) \in Int
    <2>1. Taken(s)' = Len(accepted[s]) - (Len(queue[s]) - 1)
      BY <1>2, <1>5, <1>7 DEF Taken
    <2>2. Taken(s) = Len(accepted[s]) - Len(queue[s])
      BY DEF Taken
    <2>3. Taken(s) >= 0
      BY <1>1 DEF SettledInv, Sent, QueueInOrder
    <2>. QED
      BY <1>1, <2>1, <2>2, <2>3, SentTypes
  <1>13. \A i \in 1 .. Len(queue[s]) : queue[s][i] = accepted[s][Taken(s) + i]
    BY <1>1 DEF SettledInv, Sent, QueueInOrder
  <1>14. QueueInOrder(s)'
    <2>1. ASSUME NEW i \in 1 .. Len(queue'[s])
          PROVE  queue'[s][i] = accepted'[s][Taken(s)' + i]
      <3>1. Len(queue[s]) \in Nat
        BY <1>1, SentTypes
      <3>2. i \in 1 .. Len(Tail(queue[s])) /\ i + 1 \in 1 .. Len(queue[s])
        BY <1>5, <1>7, <2>1, <3>1
      <3>3. queue'[s][i] = queue[s][i + 1]
        BY <1>5, <1>7, <3>2
      <3>4. queue[s][i + 1] = accepted[s][Taken(s) + (i + 1)]
        BY <1>13, <3>2
      <3>5. Taken(s) + (i + 1) = Taken(s)' + i
        BY <1>12, <2>1
      <3>. QED
        BY <1>2, <3>3, <3>4, <3>5
    <2>2. Taken(s)' > 0 /\ current'[s] = accepted'[s][Taken(s)']
      <3>1. 1 \in 1 .. Len(queue[s]) /\ Taken(s)' > 0
        BY <1>1, <1>7, <1>12, SentTypes
      <3>. QED
        BY <1>2, <1>5, <1>7, <1>12, <1>13, <3>1
    <2>3. Taken(s)' >= 0
      BY <1>12
    <2>. QED
      BY <2>1, <2>2, <2>3 DEF QueueInOrder
  <1>15. InOrder(s)'
    BY <1>1, <1>2 DEF SettledInv, Sent, InOrder
  <1>16. SentSoFar(s)'
    <2>. SUFFICES ASSUME Flows(s)'
                  PROVE  Len(wire[s]) = PacketSize * (Taken(s)' - 1) + 0
      <3>1. current'[s] # NoPacket
        BY <1>1, <1>5, <1>7, SentTypes
      <3>. QED
        BY <1>2, <1>5, <3>1 DEF SentSoFar
    <2>1. \A u \in Of(s)' : pc'[u] # "issue"
      BY <1>6, <1>10 DEF TokenPcs
    <2>2. Flows(s)
      BY <1>2, <2>1 DEF Flows
    <2>3. Len(wire[s]) = PacketSize * Taken(s)
      BY <1>1, <1>3, <2>2 DEF SettledInv, Sent, SentSoFar
    <2>. QED
      BY <1>1, <1>12, <2>3, Whole, SentTypes
  <1>. QED
    BY <1>9, <1>11, <1>14, <1>15, <1>16 DEF SettledInv, Sent

LEMMA Places ==
    ASSUME NEW a \in Nat, NEW q \in Nat, NEW n \in Int, n = a - q, n >= 0
    PROVE  /\ \A i \in 1 .. q : n + i \in 1 .. a
           /\ n + (q + 1) = a + 1
           /\ n > 0 => n \in 1 .. a
           /\ \A i \in 1 .. q + 1 : i \in 1 .. q \/ i = q + 1
  OBVIOUS

LEMMA SettledAccepts ==
    ASSUME NEW t \in Threads, NEW s \in Sessions, s = ses[t], Working(t, s),
           PushBack(t), ~(Len(queue[s]) >= QueueDepth)
    PROVE  SettledInv(s)'
  <1>1. /\ TypeOK /\ TypeOK' /\ SettledInv(s) /\ t \in Of(s) /\ Fits(t) /\ Frame(t, s)
        /\ t \in Of(s)'
    BY DEF Working, Of, Sound, Frame
  <1>2. /\ pc[t] = "push" /\ poolState' = poolState /\ short' = short /\ dead' = dead
        /\ live' = live /\ dying' = dying /\ wire' = wire /\ over' = over
        /\ sending' = sending /\ current' = current /\ offset' = offset
        /\ queue' = [queue EXCEPT ![s] = Append(@, pkt[t])]
        /\ accepted' = [accepted EXCEPT ![s] = Append(@, pkt[t])]
        /\ Goto(t, "try")
    BY DEF PushBack, leaseVars, kernVars, sendVars
  <1>3. pc'[t] = "try"
    BY <1>1, <1>2, SendPcsAre, Going
  <1>4. /\ queue'[s] = Append(queue[s], pkt[t]) /\ accepted'[s] = Append(accepted[s], pkt[t])
        /\ pkt[t] \in Packets
    BY <1>1, <1>2, InHandIsPacket DEF TypeOK, EnqueuePcs
  <1>5. ~Gone(s)' /\ ~Gone(s)
    <2>1. pc[t] \notin AwayPcs \cup {"canSend"} \cup ResetPcs
      BY <1>2 DEF AwayPcs, ResetPcs
    <2>2. ~Gone(s)
      BY <1>1, <2>1, AtWork DEF SettledInv
    <2>3. poolState'[s] # "FREE"
      BY <1>2, <2>2 DEF Gone
    <2>4. pc'[t] \notin ResetPcs
      BY <1>3 DEF ResetPcs
    <2>. QED
      BY <1>1, <2>2, <2>3, <2>4, StillInHands
  <1>6. Alone(s)' /\ Tidied(s)'
    BY <1>5, InHands
  <1>7. ~Sends(t) /\ ~Sends(t)' /\ pc'[t] # "issue" /\ pc[t] # "retire"
    BY <1>2, <1>3 DEF Sends, TokenPcs
  <1>8. TokenOnce(s)' /\ CurrentHeld(s)' /\ DroppedFor(s)'
    <2>1. \A u \in Threads : Follows(u, s)
      BY <1>1, <1>7, OthersHelp DEF Follows
    <2>2. SendOps(s)' = SendOps(s) /\ SendOps(s) \in Nat
      BY <1>1, <1>2, OpsType DEF SendOps
    <2>3. QuietToken(s)
      BY <1>2, <1>5, <2>1, <2>2 DEF QuietToken, SameToken
    <2>. QED
      BY <1>1, <2>3, QuietPassing DEF SettledInv, Passing
  <1>9. TokenHeld(s)'
    <2>1. \A u \in Threads : Helps(u, s) => Helps(u, s)'
      BY <1>1, <1>7, OthersHelp DEF Helps
    <2>2. TokenHeld(s)
      BY <1>1 DEF SettledInv, Passing
    <2>3. poolState[s] = "IN_USE" /\ sending[s] = 1 =>
            live[s]["send"] > 0 \/ \E u \in Threads : Helps(u, s)
      BY <2>2, OfThreads DEF TokenHeld, Helps
    <2>4. poolState[s] = "IN_USE" /\ sending[s] = 1 =>
            live[s]["send"] > 0 \/ \E u \in Threads : Helps(u, s)'
      BY <2>1, <2>3
    <2>. QED
      BY <1>2, <2>4 DEF TokenHeld, Helps
  <1>10. Attended(s)'
    BY <1>1, <1>3, SendPcsAre DEF Attended
  <1>11. /\ Len(queue'[s]) = Len(queue[s]) + 1 /\ Len(accepted'[s]) = Len(accepted[s]) + 1
         /\ \A i \in 1 .. Len(queue[s]) : queue'[s][i] = queue[s][i]
         /\ queue'[s][Len(queue[s]) + 1] = pkt[t]
         /\ \A i \in 1 .. Len(accepted[s]) : accepted'[s][i] = accepted[s][i]
         /\ accepted'[s][Len(accepted[s]) + 1] = pkt[t]
         /\ DOMAIN accepted[s] = 1 .. Len(accepted[s])
         /\ DOMAIN accepted'[s] = 1 .. Len(accepted[s]) + 1
    <2>1. queue[s] \in Seq(Packets) /\ accepted[s] \in Seq(Packets)
      BY <1>1, SentTypes
    <2>. QED
      BY <1>4, <2>1
  <1>12. /\ Len(queue[s]) \in Nat /\ Len(accepted[s]) \in Nat /\ Taken(s) \in Int
         /\ Taken(s) = Len(accepted[s]) - Len(queue[s])
    BY <1>1, SentTypes DEF Taken
  <1>13. Taken(s)' = Taken(s)
    BY <1>11, <1>12 DEF Taken
  <1>14. /\ Taken(s) >= 0
         /\ \A i \in 1 .. Len(queue[s]) : queue[s][i] = accepted[s][Taken(s) + i]
         /\ current[s] # NoPacket => Taken(s) > 0 /\ current[s] = accepted[s][Taken(s)]
    BY <1>1, <1>5 DEF SettledInv, Sent, QueueInOrder
  <1>15. QueueInOrder(s)'
    <2>0. /\ \A i \in 1 .. Len(queue[s]) : Taken(s) + i \in 1 .. Len(accepted[s])
          /\ Taken(s) + (Len(queue[s]) + 1) = Len(accepted[s]) + 1
          /\ Taken(s) > 0 => Taken(s) \in 1 .. Len(accepted[s])
          /\ \A i \in 1 .. Len(queue[s]) + 1 :
                i \in 1 .. Len(queue[s]) \/ i = Len(queue[s]) + 1
      <3>1. Taken(s) >= 0
        BY <1>14
      <3>. QED
        BY <1>12, <3>1, Places
    <2>1. ASSUME NEW i \in 1 .. Len(queue'[s])
          PROVE  queue'[s][i] = accepted'[s][Taken(s) + i]
      <3>1. CASE i \in 1 .. Len(queue[s])
        <4>1. Taken(s) + i \in 1 .. Len(accepted[s])
          BY <2>0, <3>1
        <4>. QED
          BY <1>11, <1>14, <3>1, <4>1
      <3>2. CASE i = Len(queue[s]) + 1
        BY <1>11, <2>0, <3>2
      <3>. QED
        BY <1>11, <2>0, <2>1, <3>1, <3>2
    <2>2. current[s] # NoPacket => Taken(s) > 0 /\ current[s] = accepted'[s][Taken(s)]
      BY <1>11, <1>14, <2>0
    <2>. QED
      BY <1>2, <1>13, <1>14, <2>1, <2>2 DEF QueueInOrder
  <1>16. InOrder(s)'
    <2>1. DOMAIN accepted[s] \subseteq DOMAIN accepted'[s]
      BY <1>11, <1>12
    <2>2. \A n \in DOMAIN accepted[s] : accepted'[s][n] = accepted[s][n]
      BY <1>11
    <2>3. InOrder(s)
      BY <1>1 DEF SettledInv, Sent
    <2>. QED
      BY <1>2, <2>1, <2>2, <2>3 DEF InOrder
  <1>17. SentSoFar(s)'
    <2>1. Flows(s)' => Flows(s)
      <3>1. \A u \in Of(s)' : pc'[u] = "issue" => u \in Of(s) /\ pc[u] = "issue"
        BY <1>1, <1>7, OfThreads, OthersHelp
      <3>. QED
        BY <1>2, <3>1 DEF Flows
    <2>. QED
      BY <1>1, <1>2, <1>13, <2>1 DEF SettledInv, Sent, SentSoFar
  <1>. QED
    BY <1>6, <1>8, <1>9, <1>10, <1>15, <1>16, <1>17 DEF SettledInv, Passing, Sent

LEMMA SettledRetire ==
    ASSUME NEW t \in Threads, NEW s \in Sessions, s = ses[t], Working(t, s), Retire(t)
    PROVE  SettledInv(s)'
  <1>1. TypeOK /\ TypeOK' /\ SettledInv(s) /\ Released(s) /\ Fits(t) /\ Frame(t, s)
    BY DEF Working, Sound
  <1>2. pc[t] = "retire" /\ SameParts(s)
    BY DEF Retire, AbortOperations, kernVars, sendVars, queueVars, SameParts
  <1>3. Return(t)
    <2>1. ioCount[s] >= 1 /\ ioCount[s] \in Int
      BY <1>1, <1>2, CountHeld DEF TypeOK
    <2>. QED
      BY <2>1 DEF Retire
  <1>4. pc'[t] = "finish"
    BY <1>1, <1>2, <1>3, FinishRoles, ReturnRoles
  <1>5. ~Gone(s)
    BY <1>1, <1>2, AtWork DEF SettledInv, AwayPcs, ResetPcs
  <1>6. /\ poolState'[s] \notin {"FREE", "IN_USE"} /\ dead' = dead
        /\ SendOps(s)' = SendOps(s) /\ SendOps(s) \in Nat
        /\ live'[s]["send"] > 0 => live[s]["send"] > 0
    <2>1. CASE poolState[s] = "IN_USE"
      <3>1. poolState' = [poolState EXCEPT ![s] = "RELEASING"] /\ AbortOperations(s)
        BY <2>1 DEF Retire
      <3>2. poolState'[s] = "RELEASING" /\ dead' = dead
        BY <1>1, <3>1 DEF TypeOK, AbortOperations
      <3>3. SendOps(s)' = SendOps(s) /\ live'[s]["send"] = 0
        BY <1>1, <3>1, AbortOps
      <3>. QED
        BY <1>1, <3>2, <3>3, OpsType
    <2>2. CASE poolState[s] # "IN_USE"
      <3>1. poolState' = poolState /\ dead' = dead /\ live' = live /\ dying' = dying
        BY <2>2 DEF Retire, kernVars
      <3>. QED
        BY <1>1, <1>5, <2>2, <3>1, OpsType DEF SendOps, Gone
    <2>. QED
      BY <2>1, <2>2
  <1>7. TokenHeld(s)' /\ Attended(s)'
    BY <1>6 DEF TokenHeld, Attended
  <1>8. pc'[t] \notin ResetPcs /\ pc'[t] # "issue" /\ Follows(t, s)
    BY <1>4 DEF ResetPcs, Follows, Sends, TokenPcs
  <1>. QED
    BY <1>1, <1>2, <1>5, <1>6, <1>7, <1>8, QuietStep
-----------------------------------------------------------------------------
(* The reset of the session, and its next lease.                           *)

(* A session that is gone sends nothing.                                   *)
LEMMA ResetSettled ==
    ASSUME NEW s \in Sessions, Gone(s)', poolState'[s] # "IN_USE",
           \A u \in Of(s)' : pc'[u] \notin SendPcs,
           SendOps(s)' = 0, live'[s]["send"] = 0, sending'[s] = 0,
           Alone(s)', Tidied(s)', QueueInOrder(s)', InOrder(s)'
    PROVE  SettledInv(s)'
  <1>1. Attended(s)'
    BY DEF Attended
  <1>2. \A u \in Of(s)' : ~Sends(u)' /\ pc'[u] \notin TokenPcs
    BY SendPcsAre DEF Sends
  <1>3. Passing(s)'
    BY <1>1, <1>2, NobodyHasToken
  <1>4. ~Flows(s)'
    <2>1. \A u \in Of(s)' : pc'[u] # "issue"
      BY DEF SendPcs
    <2>. QED
      BY <2>1 DEF Flows
  <1>5. SentSoFar(s)'
    BY <1>4 DEF SentSoFar
  <1>. QED
    BY <1>3, <1>5 DEF SettledInv, Sent

(* Who is alone with a session stays so.                                   *)
LEMMA Deserted ==
    ASSUME NEW t \in Threads, NEW s \in Sessions, Frame(t, s), Busy(s) \subseteq {t}
    PROVE  /\ Busy(s)' \subseteq {t}
           /\ \A u \in Of(s)' \ {t} : pc'[u] \notin SendPcs \cup ResetPcs
           /\ t \in Of(s)'
  <1>1. \A u \in Threads \ {t} : u \in Busy(s)' => u \in Busy(s)
    BY DEF Frame, Busy
  <1>2. Busy(s)' \subseteq {t}
    BY <1>1, OfThreads DEF Busy
  <1>3. \A u \in Of(s)' \ {t} : u \in Threads
    BY OfThreads
  <1>. QED
    BY <1>2, <1>3, BusyAre DEF Frame, Of

(* No operation of it is left in the kernel.                               *)
LEMMA Drains ==
    ASSUME TypeOK, NEW s \in Sessions, Released(s), Ended(s)
    PROVE  Ops(s) = 0 /\ SendOps(s) = 0 /\ live[s]["send"] = 0 /\ dying[s]["send"] = 0
  <1>1. /\ live[s]["recv"] \in Nat /\ live[s]["send"] \in Nat
        /\ dying[s]["recv"] \in Nat /\ dying[s]["send"] \in Nat
    BY OpsType
  <1>2. Ops(s) = 0
    BY DEF Released, Drained
  <1>3. live[s]["recv"] + dying[s]["recv"] + (live[s]["send"] + dying[s]["send"]) = 0
    BY <1>2 DEF Ops, SendOps
  <1>4. \A a, b, c, d \in Nat : a + b + (c + d) = 0 => c = 0 /\ d = 0
    OBVIOUS
  <1>5. live[s]["send"] = 0 /\ dying[s]["send"] = 0
    BY <1>1, <1>3, <1>4
  <1>. QED
    BY <1>2, <1>5 DEF SendOps

LEMMA SettledComplete ==
    ASSUME NEW t \in Threads, NEW s \in Sessions, s = ses[t], Working(t, s),
           CompleteRelease(t), ~left'[s]
    PROVE  SettledInv(s)'
  <1>1. /\ TypeOK /\ TypeOK' /\ SettledInv(s) /\ Released(s) /\ t \in Of(s) /\ Frame(t, s)
    BY DEF Working, Of, Sound
  <1>2. /\ pc[t] = "complete" /\ Goto(t, "resetQueue") /\ AbortOperations(s)
        /\ poolState' = poolState /\ short' = short /\ wire' = wire
        /\ sending' = [sending EXCEPT ![s] = 0]
        /\ left' = [left EXCEPT ![s] = @ \/ On(s) # {t}]
        /\ current' = current /\ queue' = queue /\ accepted' = accepted
    BY DEF CompleteRelease, AbortOperations, queueVars
  <1>3. pc'[t] = "resetQueue"
    <2>1. "resetQueue" \in Pcs
      BY DEF Pcs, ReleasePcs
    <2>. QED
      BY <1>1, <1>2, <2>1, GotoAt DEF At
  <1>4. Busy(s) \subseteq {t}
    <2>1. left \in [Sessions -> BOOLEAN]
      BY <1>1 DEF TypeOK
    <2>2. On(s) = {t}
      BY <1>2, <2>1
    <2>. QED
      BY <2>2 DEF Busy, On
  <1>5. /\ Busy(s)' \subseteq {t} /\ t \in Of(s)'
        /\ \A u \in Of(s)' \ {t} : pc'[u] \notin SendPcs \cup ResetPcs
    BY <1>1, <1>4, Deserted
  <1>6. Lasts(t) /\ Ended(s) /\ poolState[s] = "RELEASING"
    BY <1>1, <1>2 DEF Lasts, LastPcs, Ended, Released, Owned
  <1>7. SendOps(s)' = 0 /\ live'[s]["send"] = 0
    BY <1>1, <1>2, <1>6, Drains, AbortOps
  <1>8. Gone(s)' /\ Busy(s)' = {t}
    <2>1. Resets(t)'
      BY <1>3 DEF Resets, ResetPcs
    <2>2. t \in Busy(s)'
      BY <1>3, <1>5, BusyAre DEF ResetPcs
    <2>. QED
      BY <1>5, <2>1, <2>2 DEF Gone
  <1>9. sending'[s] = 0
    BY <1>1, <1>2 DEF TypeOK
  <1>10. Alone(s)'
    <2>1. \A u \in Of(s)' : Resets(u)' => u = t
      BY <1>5 DEF Resets
    <2>. QED
      BY <1>2, <1>6, <1>8, <2>1 DEF Alone
  <1>11. Tidied(s)'
    <2>1. \A u \in Of(s)' : pc'[u] \notin {"resetCurrent", "free"}
      BY <1>3, <1>5 DEF ResetPcs
    <2>. QED
      BY <1>2, <1>6, <1>9, <2>1 DEF Tidied
  <1>12. QueueInOrder(s)' /\ InOrder(s)'
    <2>1. Taken(s)' = Taken(s)
      BY <1>2 DEF Taken
    <2>. QED
      BY <1>1, <1>2, <1>8, <2>1 DEF SettledInv, Sent, QueueInOrder, InOrder
  <1>13. \A u \in Of(s)' : pc'[u] \notin SendPcs
    BY <1>3, <1>5 DEF SendPcs
  <1>. QED
    BY <1>2, <1>6, <1>7, <1>8, <1>9, <1>10, <1>11, <1>12, <1>13, ResetSettled

(* What a thread finds that resets a session.                              *)
LEMMA Resetting ==
    ASSUME NEW t \in Threads, NEW s \in Sessions, s = ses[t], Working(t, s),
           pc[t] \in ResetPcs
    PROVE  /\ Busy(s) = {t} /\ poolState[s] = "RELEASING"
           /\ SendOps(s) = 0 /\ live[s]["send"] = 0 /\ dying[s]["send"] = 0
           /\ Gone(s) /\ sending[s] = 0
           /\ pc[t] \in {"resetCurrent", "free"} => queue[s] = <<>>
  <1>1. TypeOK /\ SettledInv(s) /\ Released(s) /\ t \in Of(s)
    BY DEF Working, Of
  <1>2. Resets(t) /\ Lasts(t)
    BY DEF Resets, Lasts, LastPcs
  <1>3. Gone(s) /\ Ended(s) /\ Busy(s) = {t}
    BY <1>1, <1>2 DEF Gone, Ended, SettledInv, Alone
  <1>4. poolState[s] = "RELEASING"
    BY <1>1, <1>2 DEF Released, Owned
  <1>. QED
    BY <1>1, <1>3, <1>4, Drains DEF SettledInv, Tidied

LEMMA SettledResets ==
    ASSUME NEW t \in Threads, NEW s \in Sessions, s = ses[t], Working(t, s),
           ResetQueue(t) \/ ResetCurrent(t)
    PROVE  SettledInv(s)'
  <1>1. TypeOK /\ TypeOK' /\ SettledInv(s) /\ Frame(t, s)
    BY DEF Working, Sound
  <1>2. /\ pc[t] \in ResetPcs
        /\ poolState' = poolState /\ short' = short /\ wire' = wire
        /\ live' = live /\ dying' = dying
        /\ sending' = sending /\ current' = current /\ accepted' = accepted
    BY DEF ResetQueue, ResetCurrent, ResetPcs, leaseVars, kernVars, sendVars, queueVars
  <1>3. pc'[t] \in {"resetCurrent", "free"}
    <2>1. "resetCurrent" \in Pcs /\ "free" \in Pcs
      BY DEF Pcs, ReleasePcs
    <2>. QED
      BY <1>1, <2>1, GotoAt DEF At, ResetQueue, ResetCurrent
  <1>4. queue'[s] = <<>>
    <2>1. CASE ResetQueue(t)
      BY <1>1, <2>1 DEF ResetQueue, TypeOK
    <2>2. CASE ResetCurrent(t)
      <3>1. pc[t] = "resetCurrent" /\ queue' = queue
        BY <2>2 DEF ResetCurrent, queueVars
      <3>. QED
        BY <1>2, <3>1, Resetting
    <2>. QED
      BY <2>1, <2>2
  <1>5. /\ Busy(s) = {t} /\ poolState[s] = "RELEASING"
        /\ live[s]["send"] = 0 /\ dying[s]["send"] = 0 /\ sending[s] = 0 /\ Gone(s)
    BY <1>2, Resetting
  <1>6. /\ Busy(s)' \subseteq {t} /\ t \in Of(s)'
        /\ \A u \in Of(s)' \ {t} : pc'[u] \notin SendPcs \cup ResetPcs
    BY <1>1, <1>5, Deserted
  <1>7. Gone(s)' /\ Busy(s)' = {t}
    <2>1. Resets(t)'
      BY <1>3 DEF Resets, ResetPcs
    <2>2. t \in Busy(s)'
      BY <1>3, <1>6, BusyAre DEF ResetPcs
    <2>. QED
      BY <1>6, <2>1, <2>2 DEF Gone
  <1>8. Alone(s)'
    <2>1. \A u \in Of(s)' : Resets(u)' => u = t
      BY <1>6 DEF Resets
    <2>. QED
      BY <1>2, <1>5, <1>7, <2>1 DEF Alone
  <1>9. Tidied(s)'
    BY <1>2, <1>4, <1>5 DEF Tidied
  <1>10. QueueInOrder(s)'
    <2>1. Len(accepted[s]) \in Nat
      BY <1>1, SentTypes
    <2>2. Len(queue'[s]) = 0
      BY <1>4
    <2>3. Taken(s)' >= 0
      BY <1>2, <2>1, <2>2 DEF Taken
    <2>4. 1 .. Len(queue'[s]) = {}
      BY <2>2
    <2>. QED
      BY <1>7, <2>3, <2>4 DEF QueueInOrder
  <1>11. InOrder(s)'
    BY <1>1, <1>2 DEF SettledInv, Sent, InOrder
  <1>12. \A u \in Of(s)' : pc'[u] \notin SendPcs
    BY <1>3, <1>6 DEF SendPcs
  <1>13. SendOps(s)' = 0 /\ live'[s]["send"] = 0 /\ sending'[s] = 0
    BY <1>2, <1>5 DEF SendOps
  <1>. QED
    BY <1>2, <1>5, <1>7, <1>8, <1>9, <1>10, <1>11, <1>12, <1>13, ResetSettled

LEMMA SettledFree ==
    ASSUME NEW t \in Threads, NEW s \in Sessions, s = ses[t], Working(t, s), Free(t)
    PROVE  SettledInv(s)'
  <1>1. TypeOK /\ TypeOK' /\ SettledInv(s) /\ Released(s) /\ Fits(t) /\ Frame(t, s)
    BY DEF Working, Sound
  <1>2. /\ pc[t] = "free" /\ short' = short /\ wire' = wire
        /\ live' = live /\ dying' = dying /\ sending' = sending
        /\ queue' = queue /\ accepted' = accepted
        /\ current'[s] = NoPacket /\ poolState'[s] = "FREE"
    BY <1>1 DEF Free, kernVars, queueVars, TypeOK
  <1>3. pc'[t] = "idle" \/ pc'[t] = "nextTarget"
    BY <1>1, ReleasedFree
  <1>4. /\ Busy(s) = {t} /\ queue[s] = <<>>
        /\ live[s]["send"] = 0 /\ dying[s]["send"] = 0 /\ sending[s] = 0
    BY <1>2, Resetting DEF ResetPcs
  <1>5. /\ Busy(s)' \subseteq {t} /\ t \in Of(s)'
        /\ \A u \in Of(s)' \ {t} : pc'[u] \notin SendPcs \cup ResetPcs
    BY <1>1, <1>4, Deserted
  <1>6. Busy(s)' = {} /\ \A u \in Of(s)' : ~Resets(u)'
    <2>1. t \notin Busy(s)'
      BY <1>3 DEF Busy, AwayPcs
    <2>2. ~Resets(t)'
      BY <1>3 DEF Resets, ResetPcs
    <2>. QED
      BY <1>5, <2>1, <2>2 DEF Resets
  <1>7. Gone(s)' /\ Alone(s)'
    BY <1>2, <1>6 DEF Gone, Alone
  <1>8. Tidied(s)'
    BY <1>2, <1>4 DEF Tidied
  <1>9. QueueInOrder(s)' /\ InOrder(s)'
    <2>1. Taken(s)' = Taken(s)
      BY <1>2 DEF Taken
    <2>. QED
      BY <1>1, <1>2, <2>1 DEF SettledInv, Sent, QueueInOrder, InOrder
  <1>10. \A u \in Of(s)' : pc'[u] \notin SendPcs
    BY <1>3, <1>5 DEF SendPcs
  <1>11. SendOps(s)' = 0 /\ live'[s]["send"] = 0 /\ sending'[s] = 0
    BY <1>2, <1>4 DEF SendOps
  <1>. QED
    BY <1>2, <1>7, <1>8, <1>9, <1>10, <1>11, ResetSettled

LEMMA SettledLease ==
    ASSUME TypeOK, TypeOK', NEW s \in Sessions, Released(s), SettledInv(s), Lease(s)
    PROVE  SettledInv(s)'
  <1>1. /\ poolState[s] = "FREE" /\ poolState' = [poolState EXCEPT ![s] = "IN_USE"]
        /\ live' = [live EXCEPT ![s]["recv"] = 1] /\ dying' = dying
        /\ accepted' = [accepted EXCEPT ![s] = <<>>] /\ wire' = [wire EXCEPT ![s] = <<>>]
        /\ sending' = sending /\ current' = current /\ queue' = queue
        /\ pc' = pc /\ ses' = ses
    BY DEF Lease, sendVars, locals
  <1>2. Ended(s) /\ Gone(s)
    BY <1>1 DEF Ended, Gone
  <1>3. /\ sending[s] = 0 /\ queue[s] = <<>> /\ current[s] = NoPacket /\ Busy(s) = {}
    BY <1>1, <1>2 DEF SettledInv, Tidied, Alone
  <1>4. live[s]["send"] = 0 /\ dying[s]["send"] = 0
    BY <1>2, Drains
  <1>5. SendOps(s)' = 0 /\ live'[s]["send"] = 0
    <2>1. live \in [Sessions -> [Kinds -> Nat]]
      BY DEF TypeOK
    <2>2. live'[s]["send"] = 0
      BY <1>1, <1>4, <2>1, KindsHas
    <2>. QED
      BY <1>1, <1>4, <2>2 DEF SendOps
  <1>6. \A u \in Of(s)' : u \in Of(s) /\ pc'[u] = pc[u] /\ pc[u] \notin SendPcs \cup ResetPcs
    BY <1>1, <1>3, OfThreads, BusyAre DEF Of
  <1>7. ~Gone(s)'
    <2>1. poolState'[s] = "IN_USE"
      BY <1>1 DEF TypeOK
    <2>. QED
      BY <1>6, <2>1 DEF Gone, Resets
  <1>8. Alone(s)' /\ Tidied(s)'
    BY <1>7, InHands
  <1>9. Passing(s)'
    <2>1. \A u \in Of(s)' : ~Sends(u)' /\ pc'[u] \notin TokenPcs
      BY <1>6, SendPcsAre DEF Sends
    <2>2. Attended(s)'
      BY <1>1, <1>3 DEF Attended
    <2>. QED
      BY <1>1, <1>3, <1>5, <2>1, <2>2, NobodyHasToken
  <1>10. accepted'[s] = <<>> /\ wire'[s] = <<>> /\ Len(queue[s]) = 0
    BY <1>1, <1>3 DEF TypeOK
  <1>11. Taken(s)' = 0
    BY <1>1, <1>10 DEF Taken
  <1>12. QueueInOrder(s)'
    BY <1>1, <1>3, <1>10, <1>11 DEF QueueInOrder
  <1>13. SentSoFar(s)'
    <2>1. PacketSize * 0 = 0
      BY DepthAssumption
    <2>. QED
      BY <1>1, <1>3, <1>10, <1>11, <2>1 DEF SentSoFar
  <1>14. InOrder(s)'
    BY <1>10 DEF InOrder
  <1>. QED
    BY <1>8, <1>9, <1>12, <1>13, <1>14 DEF SettledInv, Sent
-----------------------------------------------------------------------------
(* The kernel has sent a part of the current packet.                       *)

LEMMA Longer ==
    ASSUME NEW w \in Seq(Packets \cup {NoPacket}), NEW p \in Packets \cup {NoPacket},
           NEW n \in Nat, NEW v, v = w \o [i \in 1 .. n |-> p]
    PROVE  /\ Len(v) = Len(w) + n /\ DOMAIN v = 1 .. Len(w) + n
           /\ \A i \in DOMAIN w : v[i] = w[i] /\ i \in DOMAIN v
           /\ \A i \in DOMAIN v \ DOMAIN w : v[i] = p /\ i - Len(w) \in 1 .. n
  <1>. DEFINE tail == [i \in 1 .. n |-> p]
  <1>1. tail \in Seq(Packets \cup {NoPacket}) /\ Len(tail) = n
    OBVIOUS
  <1>2. v = w \o tail
    OBVIOUS
  <1>3. \A i \in 1 .. n : tail[i] = p
    OBVIOUS
  <1>. HIDE DEF tail
  <1>4. /\ Len(v) = Len(w) + n /\ DOMAIN v = 1 .. Len(w) + n
        /\ \A i \in DOMAIN w : v[i] = w[i] /\ i \in DOMAIN v
    BY <1>1, <1>2
  <1>5. ASSUME NEW i \in DOMAIN v \ DOMAIN w
        PROVE  v[i] = p /\ i - Len(w) \in 1 .. n
    <2>1. i \in 1 .. Len(w) + n /\ i \notin 1 .. Len(w) /\ Len(w) \in Nat
      BY <1>4, <1>5
    <2>2. i - Len(w) \in 1 .. n /\ i > Len(w)
      BY <2>1
    <2>3. v[i] = tail[i - Len(w)]
      BY <1>1, <1>2, <2>1, <2>2
    <2>. QED
      BY <1>3, <2>2, <2>3
  <1>. QED
    BY <1>4, <1>5

LEMMA SettledSendDone ==
    ASSUME TypeOK, TypeOK', NEW t \in Workers, Fits(t), NEW s \in Sessions,
           Sound(t, s), Released(s), SettledInv(s), SendDone(t, s)
    PROVE  SettledInv(s)'
  <1>1. Frame(t, s) /\ t \in Threads /\ t \in Of(s)'
    BY DEF Sound, Threads, Frame, Of
  <1>2. /\ live[s]["send"] > 0 /\ ~dead[s]
        /\ live' = [live EXCEPT ![s]["send"] = @ - 1] /\ dying' = dying
        /\ Begin(t, s, "sent", <<"finish">>)
        /\ poolState' = poolState /\ short' = short /\ dead' = dead
        /\ over' = over /\ sending' = sending /\ current' = current
        /\ queue' = queue /\ accepted' = accepted
    BY DEF SendDone, leaseVars, queueVars
  <1>3. PICK n \in 1 .. (PacketSize - offset[s]) :
          /\ offset' = [offset EXCEPT ![s] = @ + n]
          /\ wire' = [wire EXCEPT ![s] = @ \o [i \in 1 .. n |-> over[s]]]
    BY DEF SendDone
  <1>4. pc[t] = "idle" /\ pc'[t] = "sent"
    BY <1>1, <1>2 DEF Begin, TypeOK
  <1>5. /\ live[s]["send"] = 1 /\ dying[s]["send"] = 0 /\ SendOps(s) = 1
    <2>1. live[s]["send"] \in Nat /\ dying[s]["send"] \in Nat
      BY OpsType
    <2>2. SendOps(s) <= 1
      BY DEF SettledInv, Passing, TokenOnce
    <2>3. \A a, b \in Nat : a > 0 /\ a + b <= 1 => a = 1 /\ b = 0 /\ a + b = 1
      OBVIOUS
    <2>. QED
      BY <1>2, <2>1, <2>2, <2>3 DEF SendOps
  <1>6. SendOps(s)' = 0
    <2>1. live \in [Sessions -> [Kinds -> Nat]]
      BY DEF TypeOK
    <2>2. live'[s]["send"] = 0
      BY <1>2, <1>5, <2>1, OneLess, KindsHas
    <2>. QED
      BY <1>2, <1>5, <2>2 DEF SendOps
  <1>7. sending[s] = 1 /\ current[s] # NoPacket /\ over[s] = current[s]
    BY <1>5 DEF SettledInv, Passing, TokenOnce, CurrentHeld
  <1>8. ~Gone(s) /\ ~Gone(s)'
    <2>1. Ended(s) => SendOps(s) = 0
      BY Drains
    <2>2. ~Ended(s)
      BY <1>5, <2>1
    <2>3. ~Gone(s)
      BY <2>2 DEF Ended, Gone, Lasts, Resets, LastPcs
    <2>4. poolState'[s] # "FREE" /\ pc'[t] \notin ResetPcs
      BY <1>2, <1>4, <2>3 DEF Gone, ResetPcs
    <2>. QED
      BY <1>1, <2>3, <2>4, StillInHands
  <1>9. Alone(s)' /\ Tidied(s)'
    BY <1>8, InHands
  <1>10. Passing(s)'
    <2>1. \A u \in Of(s) : ~Sends(u)
      BY <1>5 DEF SettledInv, Passing, TokenOnce
    <2>2. \A u \in Of(s)' \ {t} : u \in Threads /\ u \in Of(s) /\ pc'[u] = pc[u]
      BY <1>1, OfThreads, OthersHelp
    <2>3. \A u \in Of(s)' \ {t} : ~Sends(u)' /\ pc'[u] \notin TokenPcs
      BY <2>1, <2>2 DEF Sends
    <2>4. Sends(t)'
      BY <1>4 DEF Sends, TokenPcs
    <2>. QED
      BY <1>1, <1>2, <1>4, <1>6, <1>7, <2>3, <2>4, HasToken DEF DropPcs
  <1>11. Taken(s)' = Taken(s)
    BY <1>2 DEF Taken
  <1>12. QueueInOrder(s)
    BY DEF SettledInv, Sent
  <1>13. QueueInOrder(s)'
    BY <1>2, <1>8, <1>11, <1>12 DEF QueueInOrder
  <1>14. /\ offset'[s] = offset[s] + n /\ wire'[s] = wire[s] \o [i \in 1 .. n |-> over[s]]
         /\ n \in Nat /\ offset[s] \in Nat /\ PacketSize \in Nat /\ n <= PacketSize - offset[s]
    <2>1. offset[s] \in 0 .. PacketSize /\ PacketSize \in Nat \ {0}
      BY SentTypes
    <2>2. /\ offset'[s] = offset[s] + n
          /\ wire'[s] = wire[s] \o [i \in 1 .. n |-> over[s]]
      <3>1. offset \in [Sessions -> 0 .. PacketSize]
        BY DEF TypeOK
      <3>2. DOMAIN wire = Sessions
        BY DEF TypeOK
      <3>3. offset'[s] = offset[s] + n
        BY <1>3, <3>1
      <3>. QED
        BY <1>3, <3>2, <3>3
    <2>3. \A a, b \in Nat : \A c \in 1 .. (a - b) : c \in Nat /\ c <= a - b
      OBVIOUS
    <2>4. offset[s] \in Nat /\ PacketSize \in Nat
      BY <2>1
    <2>. QED
      BY <2>2, <2>3, <2>4
  <1>15. /\ Len(wire'[s]) = Len(wire[s]) + n
         /\ \A i \in DOMAIN wire[s] : wire'[s][i] = wire[s][i]
         /\ \A i \in DOMAIN wire'[s] \ DOMAIN wire[s] :
               wire'[s][i] = over[s] /\ i - Len(wire[s]) \in 1 .. n
    <2>1. wire[s] \in Seq(Packets \cup {NoPacket}) /\ over[s] \in Packets \cup {NoPacket}
      BY SentTypes DEF TypeOK
    <2>. QED
      BY <1>14, <2>1, Longer
  <1>16. ~short[s] => Len(wire[s]) = PacketSize * (Taken(s) - 1) + offset[s]
    <2>1. ~short[s] => Flows(s)
      BY <1>2 DEF Flows
    <2>. QED
      BY <1>7, <2>1 DEF SettledInv, Sent, SentSoFar
  <1>17. PICK m \in Int : m = PacketSize * (Taken(s) - 1)
    BY SentTypes
  <1>20. Len(wire[s]) \in Nat
    BY SentTypes
  <1>21. ~short[s] => Len(wire[s]) = m + offset[s]
    BY <1>16, <1>17
  <1>18. SentSoFar(s)'
    <2>1. ~short[s] => Len(wire'[s]) = PacketSize * (Taken(s) - 1) + offset'[s]
      <3>1. \A x \in Int, a, b, c \in Nat : a = x + b => a + c = x + (b + c)
        OBVIOUS
      <3>. QED
        BY <1>14, <1>15, <1>17, <1>20, <1>21, <3>1
    <2>. QED
      BY <1>2, <1>7, <1>11, <2>1 DEF SentSoFar, Flows
  <1>19. InOrder(s)'
    <2>. SUFFICES ASSUME ~short[s], NEW i \in DOMAIN wire'[s]
                  PROVE  \E j \in DOMAIN accepted[s], k \in 1 .. PacketSize :
                            i = PacketSize * (j - 1) + k /\ wire'[s][i] = accepted[s][j]
      BY <1>2 DEF InOrder
    <2>1. CASE i \in DOMAIN wire[s]
      BY <1>15, <2>1 DEF SettledInv, Sent, InOrder
    <2>2. CASE i \notin DOMAIN wire[s]
      <3>. DEFINE k == offset[s] + (i - Len(wire[s]))
      <3>1. wire'[s][i] = over[s] /\ i - Len(wire[s]) \in 1 .. n
        BY <1>15, <2>2
      <3>2. i \in Int /\ DOMAIN wire'[s] = 1 .. Len(wire'[s])
        <4>1. wire'[s] \in Seq(Packets \cup {NoPacket})
          BY DEF TypeOK
        <4>. QED
          BY <4>1
      <3>3. k \in 1 .. PacketSize
        <4>1. \A a, b, c, d \in Nat : d \in 1 .. b /\ b <= c - a => a + d \in 1 .. c
          OBVIOUS
        <4>2. i - Len(wire[s]) \in Nat
          BY <1>14, <3>1
        <4>. QED
          BY <1>14, <3>1, <4>1, <4>2
      <3>4. i = PacketSize * (Taken(s) - 1) + k
        <4>1. \A x, e \in Int, a, b \in Nat : a = x + b => e = x + (b + (e - a))
          OBVIOUS
        <4>2. Len(wire[s]) = m + offset[s]
          BY <1>21
        <4>3. i = m + (offset[s] + (i - Len(wire[s])))
          BY <1>14, <1>20, <3>2, <4>1, <4>2
        <4>. QED
          BY <1>17, <4>3
      <3>5. Taken(s) \in DOMAIN accepted[s] /\ current[s] = accepted[s][Taken(s)]
        <4>1. Taken(s) > 0 /\ current[s] = accepted[s][Taken(s)]
          BY <1>7, <1>8, <1>12 DEF QueueInOrder
        <4>2. Taken(s) \in 1 .. Len(accepted[s])
          <5>1. \A a, q \in Nat : a - q > 0 => a - q \in 1 .. a
            OBVIOUS
          <5>. QED
            BY <4>1, <5>1, SentTypes DEF Taken
        <4>3. DOMAIN accepted[s] = 1 .. Len(accepted[s])
          <5>1. accepted[s] \in Seq(Packets)
            BY SentTypes
          <5>. QED
            BY <5>1
        <4>. QED
          BY <4>1, <4>2, <4>3
      <3>. HIDE DEF k
      <3>. QED
        BY <1>7, <3>1, <3>3, <3>4, <3>5
    <2>. QED
      BY <2>1, <2>2
  <1>. QED
    BY <1>9, <1>10, <1>13, <1>18, <1>19 DEF SettledInv, Sent
-----------------------------------------------------------------------------
(* Every step keeps the invariant.                                         *)

LEMMA SettledPosts ==
    ASSUME NEW t \in Threads, NEW s \in Sessions, s = ses[t], Working(t, s), Posts(t)
    PROVE  SettledInv(s)'
  <1>1. offset[s] \in 0 .. PacketSize /\ PacketSize \in Nat \ {0}
    BY SentTypes DEF Working
  <1>2. offset[s] < PacketSize \/ offset[s] >= PacketSize
    BY <1>1
  <1>3. CASE TrySendNext(t)
    BY <1>3, SettledTakes, SettledTryFails
  <1>4. CASE Dequeue(t)
    BY <1>4, SettledGoesOn, SettledDequeue
  <1>5. CASE OnSendCompleted(t)
    BY <1>2, <1>5, SettledGoesOn, SettledDrops
  <1>6. CASE SetIdle(t) \/ Recheck(t) \/ Prepare(t) \/ Gate(t) \/ BeginIO(t)
    BY <1>6, SettledIdle, SettledTryFails, SettledPrepare, SettledGoesOn
  <1>7. CASE IssueSucceeds(t) \/ IssueFails(t) \/ DropCurrent(t) \/ DropToken(t)
    BY <1>7, SettledIssues, SettledDrops, SettledGoesOn, SettledForgets
  <1>. QED
    BY <1>3, <1>4, <1>5, <1>6, <1>7 DEF Posts

LEMMA SettledWorks ==
    ASSUME NEW t \in Threads, NEW s \in Sessions, Working(t, s), Works(t, s), ~left'[s]
    PROVE  SettledInv(s)'
  <1>1. /\ s = ses[t] /\ TypeOK /\ TypeOK' /\ Fits(t) /\ Sound(t, s) /\ Released(s)
        /\ SettledInv(s)
    BY DEF Working, Works
  <1>2. CASE Posts(t)
    BY <1>1, <1>2, SettledPosts
  <1>3. CASE CanSendPacket(t) \/ Discard(t) \/ Repost(t)
    BY <1>1, <1>3, SettledEnqueue
  <1>4. CASE PushBack(t)
    BY <1>1, <1>4, SettledEnqueue, SettledAccepts
  <1>5. CASE Finish(t) \/ Retire(t)
    BY <1>1, <1>5, SettledFinish, SettledRetire
  <1>6. CASE CompleteRelease(t)
    BY <1>1, <1>6, SettledComplete
  <1>7. CASE ResetQueue(t) \/ ResetCurrent(t) \/ Free(t)
    BY <1>1, <1>7, SettledResets, SettledFree
  <1>. QED
    BY <1>2, <1>3, <1>4, <1>5, <1>6, <1>7 DEF Works, ReleaseStep

LEMMA SettledActs ==
    ASSUME NEW t \in Threads, NEW s \in Sessions, Working(t, s), Acts(t, s), ~left'[s]
    PROVE  SettledInv(s)'
  <1>1. /\ TypeOK /\ TypeOK' /\ Fits(t) /\ Sound(t, s) /\ Released(s)
        /\ SettledInv(s) /\ Frame(t, s)
    BY DEF Working, Sound
  <1>2. CASE Outside(t, s)
    <2>1. UNCHANGED <<leaseVars, ioVars, kernVars, sendVars, queueVars>>
      BY <1>2 DEF Outside, Send, Broadcast, BroadcastNext, BroadcastEnds
    <2>2. SameSession(s)
      BY <2>1 DEF SameSession, SameParts, leaseVars, kernVars, sendVars, queueVars
    <2>3. /\ pc[t] \in AwayPcs \cup {"canSend"}
          /\ pc'[t] \in AwayPcs \cup {"canSend"}
      BY <1>2 DEF Outside, AwayPcs
    <2>. QED
      BY <1>1, <2>2, <2>3, SettledAway
  <1>3. CASE Completes(t, s)
    BY <1>1, <1>3, SettledReceive, SettledSendDone DEF Completes
  <1>4. CASE Works(t, s)
    BY <1>4, SettledWorks
  <1>. QED
    BY <1>2, <1>3, <1>4 DEF Acts

(* What was once left is so for good.                                      *)
LEMMA LeftStays ==
    ASSUME TypeOK, [Next]_vars, NEW s \in Sessions, left[s]
    PROVE  left'[s]
  <1>1. left \in [Sessions -> BOOLEAN]
    BY DEF TypeOK
  <1>2. CASE UNCHANGED vars
    BY <1>2 DEF vars, leaseVars
  <1>3. CASE \E x \in Sessions : Lease(x)
    BY <1>3 DEF Lease
  <1>4. ASSUME NEW t \in Threads, Step(t)
        PROVE  left'[s]
    <2>1. CASE CompleteRelease(t)
      BY <1>1, <2>1 DEF CompleteRelease
    <2>2. CASE ~CompleteRelease(t)
      <3>1. left' = left
        BY <1>4, <2>2
           DEF Step, SendStep, TrySendNext, Dequeue, SetIdle, Recheck, Prepare, BeginIO,
               Gate, IssueSucceeds, IssueFails, DropCurrent, DropToken, OnSendCompleted,
               EnqueueStep, CanSendPacket, PushBack, Discard, BroadcastNext,
               BroadcastEnds, ReleaseStep, Finish, DecrementIO, Retire, ResetQueue,
               ResetCurrent, Free, Repost, leaseVars
      <3>. QED
        BY <3>1
    <2>. QED
      BY <2>1, <2>2
  <1>5. ASSUME NEW t \in Senders, Broadcast(t) \/ \E x \in Sessions : Send(t, x)
        PROVE  left'[s]
    BY <1>5 DEF Broadcast, Send, leaseVars
  <1>6. ASSUME NEW w \in Workers, NEW x \in Sessions,
               \/ RecvRequest(w, x) \/ SendCompletes(w, x) \/ Cancelled(w, x)
               \/ ConnectionEnds(w, x, "recv")
        PROVE  left'[s]
    BY <1>6 DEF RecvRequest, SendCompletes, SendDone, ConnectionEnds, Cancelled,
                IoCancelled, leaseVars
  <1>. QED
    BY <1>2, <1>3, <1>4, <1>5, <1>6 DEF Next

LEMMA InvariantInit ==
    ASSUME Init
    PROVE  IInv
  <1>1. Base0
    BY BaseInit
  <1>2. ASSUME NEW s \in Sessions
        PROVE  SettledInv(s)
    <2>1. /\ poolState[s] = "FREE" /\ sending[s] = 0 /\ current[s] = NoPacket
          /\ queue[s] = <<>> /\ accepted[s] = <<>> /\ wire[s] = <<>>
          /\ live[s]["send"] = 0 /\ dying[s]["send"] = 0
      BY KindsHas DEF Init
    <2>2. \A t \in Threads : pc[t] = "idle"
      BY DEF Init
    <2>3. Busy(s) = {} /\ \A t \in Of(s) : pc[t] = "idle"
      BY <2>2 DEF Busy, Of, AwayPcs
    <2>4. \A t \in Of(s) : ~Sends(t) /\ ~Resets(t) /\ pc[t] \notin DropPcs
      BY <2>3 DEF Sends, Resets, ResetPcs, DropPcs, TokenPcs
    <2>5. Alone(s) /\ Tidied(s)
      BY <2>1, <2>3, <2>4 DEF Alone, Tidied
    <2>6. SendOps(s) = 0
      BY <2>1 DEF SendOps
    <2>7. Passing(s)
      BY <2>1, <2>3, <2>4, <2>6
         DEF Passing, TokenOnce, CurrentHeld, DroppedFor, TokenHeld, Attended
    <2>8. Taken(s) = 0 /\ Len(queue[s]) = 0
      BY <2>1 DEF Taken
    <2>9. Sent(s)
      <3>1. ~Flows(s)
        BY <2>1, <2>3 DEF Flows
      <3>. QED
        BY <2>1, <2>8, <3>1 DEF Sent, QueueInOrder, SentSoFar, InOrder
    <2>. QED
      BY <2>5, <2>7, <2>9 DEF SettledInv
  <1>. QED
    BY <1>1, <1>2 DEF IInv, Base0

LEMMA InvariantStep ==
    ASSUME IInv, [Next]_vars
    PROVE  IInv'
  <1>1. Base0 /\ TypeOK
    BY DEF IInv, Base0
  <1>2. Base0' /\ TypeOK'
    BY <1>1, BaseStep DEF Base0
  <1>3. \A x \in Sessions : ~left'[x] => ~left[x] /\ SettledInv(x)
    BY <1>1, LeftStays DEF IInv
  <1>4. ASSUME NEW s \in Sessions, Lease(s), NEW x \in Sessions, ~left'[x]
        PROVE  SettledInv(x)'
    <2>1. SettledInv(x) /\ Released(x)
      BY <1>1, <1>3, <1>4 DEF Base0
    <2>2. CASE x = s
      BY <1>1, <1>2, <1>4, <2>1, <2>2, SettledLease
    <2>3. CASE x # s
      <3>1. SameSession(x)
        BY <1>1, <1>4, <2>3, LeaseElsewhere DEF SameSession, SameParts
      <3>2. SameBusy(x)
        BY <1>1, <1>4, <2>3, LeaseElsewhere DEF SameBusy, Busy
      <3>. QED
        BY <1>1, <1>2, <2>1, <3>1, <3>2, SettledSame
    <2>. QED
      BY <2>2, <2>3
  <1>5. ASSUME NEW t \in Threads, NEW s \in Sessions, Sound(t, s), Acts(t, s),
               NEW x \in Sessions, ~left'[x]
        PROVE  SettledInv(x)'
    <2>1. SettledInv(x) /\ Released(x) /\ Fits(t) /\ Frame(t, s)
      BY <1>1, <1>3, <1>5 DEF Base0, Sound
    <2>2. CASE x = s
      <3>1. Working(t, x)
        BY <1>1, <1>2, <1>5, <2>1, <2>2 DEF Working
      <3>. QED
        BY <1>5, <2>2, <3>1, SettledActs
    <2>3. CASE x # s
      BY <1>1, <1>2, <2>1, <2>3, SettledElsewhere
    <2>. QED
      BY <2>2, <2>3
  <1>6. ASSUME UNCHANGED vars, NEW x \in Sessions, ~left'[x]
        PROVE  SettledInv(x)'
    <2>1. SettledInv(x)
      BY <1>3, <1>6
    <2>2. SameSession(x) /\ SameBusy(x)
      BY <1>6 DEF SameSession, SameParts, SameBusy, Busy, vars, leaseVars, kernVars,
                  sendVars, queueVars, locals
    <2>. QED
      BY <1>1, <1>2, <2>1, <2>2, SettledSame
  <1>7. \A x \in Sessions : ~left'[x] => SettledInv(x)'
    BY <1>1, <1>4, <1>5, <1>6, NextActs
  <1>. QED
    BY <1>2, <1>7 DEF IInv, Base0

(* The inductive invariant: the count, the stacks and the release of every *)
(* session; token, queue and wire of those still settled.                  *)
THEOREM Invariance == Spec => []IInv
  <1>1. Init => IInv
    BY InvariantInit
  <1>2. IInv /\ [Next]_vars => IInv'
    BY InvariantStep
  <1>. QED
    BY <1>1, <1>2, PTL DEF Spec

OneSender ==
    \A s \in Settled :
      /\ \A t, u \in Of(s) : Sends(t) /\ Sends(u) => t = u
      /\ SendOps(s) <= 1
      /\ \A t \in Of(s) : Sends(t) => SendOps(s) = 0

(* m_sending is a token: two threads never both send for a session, nor a  *)
(* thread while a send is in the kernel.                                   *)
THEOREM TokenIsOne == Spec => []OneSender
  <1>1. IInv => OneSender
    BY DEF IInv, OneSender, Settled, SettledInv, Passing, TokenOnce
  <1>. QED
    BY <1>1, Invariance, PTL

(* Whoever finds m_sending taken may rely on its holder: no packet waits   *)
(* in a session in use with nobody to send it.                             *)
THEOREM NothingStranded == Spec => []NoStrandedPacket
  <1>1. ASSUME IInv
        PROVE  NoStrandedPacket
    <2>. SUFFICES ASSUME NEW s \in Smooth, Stranded(s)
                  PROVE  FALSE
      BY DEF NoStrandedPacket
    <2>1. s \in Sessions /\ SettledInv(s) /\ ~short[s]
      BY <1>1 DEF IInv, Smooth, Settled
    <2>2. /\ poolState[s] = "IN_USE" /\ live[s]["send"] = 0
          /\ queue[s] # <<>> \/ current[s] # NoPacket
          /\ \A t \in On(s) : pc[t] \notin SendPcs \cup {"retire"}
      BY DEF Stranded
    <2>3. PICK t \in Of(s) : pc[t] \in SendPcs \cup {"retire"}
      BY <2>1, <2>2 DEF SettledInv, Passing, Attended
    <2>4. pc[t] \notin AwayPcs
      BY <2>3 DEF SendPcs, AwayPcs
    <2>5. t \in On(s)
      BY <2>4 DEF On, Of
    <2>. QED
      BY <2>2, <2>3, <2>5
  <1>. QED
    BY <1>1, Invariance, PTL

(* What goes over the wire is the packets of the connection, whole and in  *)
(* the order they were queued in, however a completion cuts them.          *)
THEOREM StreamIsIntact == Spec => []StreamIntact
  <1>1. IInv => StreamIntact
    BY DEF IInv, StreamIntact, Smooth, Settled, SettledInv, Sent, InOrder
  <1>. QED
    BY <1>1, Invariance, PTL

-----------------------------------------------------------------------------
(* References.  A step changes the holders of a packet among one thread    *)
(* and one session.                                                        *)

LatePcs == {"dropToken", "free"}
CastAt(l, q) == l = "nextTarget" \/ Casting(q)

Hand(t, p)   == pkt[t] = p /\ pc[t] \in EnqueuePcs
Casts(t, p)  == pkt[t] = p /\ CastAt(pc[t], stack[t])
IsSent(s, p) == current[s] = p /\ \A u \in Of(s) : pc[u] \notin LatePcs

One(b) == IF b THEN 1 ELSE 0

Own(t, s, p) == One(Hand(t, p)) + One(Casts(t, p)) + Queued(s, p) + One(IsSent(s, p))

Accounted(p) ==
    refs[p] = Cardinality(InHand(p)) + Cardinality(Broadcasting(p))
              + Cardinality(InQueues(p)) + Cardinality(BeingSent(p))

(* What was not made yet has no holder.                                    *)
Fresh(p) == p > made => refs[p] = 0

RefsInv == Settled = Sessions => \A p \in Packets : Accounted(p) /\ Fresh(p)

LEMMA CountOne ==
    ASSUME NEW T, IsFiniteSet(T), NEW A \in SUBSET T, NEW B \in SUBSET T,
           NEW t \in T, \A u \in T \ {t} : u \in A <=> u \in B
    PROVE  /\ Cardinality(A) \in Nat /\ Cardinality(B) \in Nat
           /\ Cardinality(B) + One(t \in A) = Cardinality(A) + One(t \in B)
  <1>1. IsFiniteSet(A) /\ IsFiniteSet(B)
    BY FS_Subset
  <1>2. Cardinality(A) \in Nat /\ Cardinality(B) \in Nat
    BY <1>1, FS_CardinalityType
  <1>3. CASE t \in A /\ t \notin B
    <2>1. B = A \ {t}
      BY <1>3
    <2>2. Cardinality(B) = Cardinality(A) - 1
      BY <1>1, <1>3, <2>1, FS_RemoveElement
    <2>. QED
      BY <1>2, <1>3, <2>2 DEF One
  <1>4. CASE t \notin A /\ t \in B
    <2>1. B = A \cup {t}
      BY <1>4
    <2>2. Cardinality(B) = Cardinality(A) + 1
      BY <1>1, <1>4, <2>1, FS_AddElement
    <2>. QED
      BY <1>2, <1>4, <2>2 DEF One
  <1>5. CASE t \in A <=> t \in B
    <2>1. A = B
      BY <1>5
    <2>. QED
      BY <1>2, <2>1 DEF One
  <1>. QED
    BY <1>3, <1>4, <1>5

SpotsOf(w, p) == {i \in DOMAIN w : w[i] = p}

PlacesOf(q, p) ==
    {place \in Sessions \X (1 .. QueueDepth) :
       place[2] \in DOMAIN q[place[1]] /\ q[place[1]][place[2]] = p}

Queues == {q \in [Sessions -> Seq(Packets)] : \A s \in Sessions : Len(q[s]) <= QueueDepth}

LEMMA SpotsAre ==
    ASSUME NEW q \in Queues, NEW s \in Sessions, NEW p
    PROVE  /\ SpotsOf(q[s], p) \subseteq 1 .. QueueDepth
           /\ IsFiniteSet(SpotsOf(q[s], p)) /\ Cardinality(SpotsOf(q[s], p)) \in Nat
  <1>1. q[s] \in Seq(Packets) /\ Len(q[s]) <= QueueDepth /\ QueueDepth \in Nat
    BY DepthAssumption DEF Queues
  <1>2. DOMAIN q[s] = 1 .. Len(q[s]) /\ Len(q[s]) \in Nat
    BY <1>1
  <1>3. SpotsOf(q[s], p) \subseteq 1 .. QueueDepth
    BY <1>1, <1>2 DEF SpotsOf
  <1>4. IsFiniteSet(1 .. QueueDepth)
    BY <1>1, FS_Interval
  <1>. QED
    BY <1>3, <1>4, FS_Subset, FS_CardinalityType

LEMMA PlacesSplit ==
    ASSUME NEW q \in Queues, NEW s \in Sessions, NEW p,
           NEW rest, rest = {place \in PlacesOf(q, p) : place[1] # s}
    PROVE  /\ IsFiniteSet(rest) /\ Cardinality(rest) \in Nat
           /\ Cardinality(PlacesOf(q, p)) = Cardinality(rest) + Cardinality(SpotsOf(q[s], p))
  <1>1. IsFiniteSet(Sessions \X (1 .. QueueDepth))
    <2>1. IsFiniteSet(1 .. QueueDepth)
      BY DepthAssumption, FS_Interval
    <2>. QED
      BY <2>1, SessionsAssumption, FS_Product
  <1>2. IsFiniteSet(rest)
    <2>1. rest \subseteq Sessions \X (1 .. QueueDepth)
      BY DEF PlacesOf
    <2>. QED
      BY <1>1, <2>1, FS_Subset
  <1>3. SpotsOf(q[s], p) \subseteq 1 .. QueueDepth /\ IsFiniteSet(SpotsOf(q[s], p))
        /\ Cardinality(SpotsOf(q[s], p)) \in Nat
    BY SpotsAre
  <1>. DEFINE here == {s} \X SpotsOf(q[s], p)
  <1>4. IsFiniteSet(here) /\ Cardinality(here) = Cardinality(SpotsOf(q[s], p))
    <2>1. IsFiniteSet({s}) /\ Cardinality({s}) = 1
      BY FS_Singleton
    <2>2. IsFiniteSet(here) /\ Cardinality(here) = 1 * Cardinality(SpotsOf(q[s], p))
      BY <1>3, <2>1, FS_Product
    <2>. QED
      BY <1>3, <2>2
  <1>5. PlacesOf(q, p) = rest \cup here
    <2>1. ASSUME NEW x \in PlacesOf(q, p)
          PROVE  x \in rest \cup here
      <3>1. /\ x \in Sessions \X (1 .. QueueDepth) /\ x = <<x[1], x[2]>>
            /\ x[2] \in DOMAIN q[x[1]] /\ q[x[1]][x[2]] = p
        BY <2>1 DEF PlacesOf
      <3>2. CASE x[1] = s
        <4>1. x[2] \in SpotsOf(q[s], p)
          BY <3>1, <3>2 DEF SpotsOf
        <4>. QED
          BY <3>1, <3>2, <4>1
      <3>3. CASE x[1] # s
        BY <2>1, <3>3
      <3>. QED
        BY <3>2, <3>3
    <2>2. ASSUME NEW x \in here
          PROVE  x \in PlacesOf(q, p)
      <3>1. PICK i \in SpotsOf(q[s], p) : x = <<s, i>>
        BY <2>2
      <3>2. i \in 1 .. QueueDepth /\ i \in DOMAIN q[s] /\ q[s][i] = p
        BY <1>3 DEF SpotsOf
      <3>3. x \in Sessions \X (1 .. QueueDepth) /\ x[1] = s /\ x[2] = i
        BY <3>1, <3>2
      <3>. QED
        BY <3>2, <3>3 DEF PlacesOf
    <2>. QED
      BY <2>1, <2>2
  <1>6. rest \cap here = {}
    <2>1. \A x \in here : x[1] = s
      OBVIOUS
    <2>. QED
      BY <2>1
  <1>. HIDE DEF here
  <1>7. Cardinality(rest) \in Nat
    BY <1>2, FS_CardinalityType
  <1>8. Cardinality(rest \cup here) = Cardinality(rest) + Cardinality(here) - 0
    BY <1>2, <1>4, <1>6, FS_Union, FS_EmptySet
  <1>9. Cardinality(rest) + Cardinality(here) - 0
          = Cardinality(rest) + Cardinality(SpotsOf(q[s], p))
    <2>1. \A a, b \in Nat : a + b - 0 = a + b
      OBVIOUS
    <2>. QED
      BY <1>3, <1>4, <1>7, <2>1
  <1>10. Cardinality(PlacesOf(q, p)) = Cardinality(rest \cup here)
    BY <1>5
  <1>. QED
    BY <1>2, <1>7, <1>8, <1>9, <1>10

LEMMA PlaceChange ==
    ASSUME NEW q \in Queues, NEW r \in Queues, NEW s \in Sessions, NEW p,
           \A x \in Sessions \ {s} : r[x] = q[x]
    PROVE  /\ Cardinality(PlacesOf(q, p)) \in Nat /\ Cardinality(PlacesOf(r, p)) \in Nat
           /\ Cardinality(PlacesOf(r, p)) + Cardinality(SpotsOf(q[s], p))
                = Cardinality(PlacesOf(q, p)) + Cardinality(SpotsOf(r[s], p))
  <1>. DEFINE a == {place \in PlacesOf(q, p) : place[1] # s}
              b == {place \in PlacesOf(r, p) : place[1] # s}
  <1>1. a = b
    BY DEF PlacesOf
  <1>2. /\ Cardinality(a) \in Nat
        /\ Cardinality(PlacesOf(q, p)) = Cardinality(a) + Cardinality(SpotsOf(q[s], p))
    BY PlacesSplit
  <1>3. Cardinality(PlacesOf(r, p)) = Cardinality(b) + Cardinality(SpotsOf(r[s], p))
    BY PlacesSplit
  <1>4. Cardinality(SpotsOf(q[s], p)) \in Nat /\ Cardinality(SpotsOf(r[s], p)) \in Nat
    BY SpotsAre
  <1>. HIDE DEF a, b
  <1>. QED
    BY <1>1, <1>2, <1>3, <1>4

(* A packet at the end of the queue, and one away from its head.           *)
LEMMA SpotsAppend ==
    ASSUME NEW w \in Seq(Packets), NEW x \in Packets, NEW p,
           IsFiniteSet(SpotsOf(w, p))
    PROVE  Cardinality(SpotsOf(Append(w, x), p)) = Cardinality(SpotsOf(w, p)) + One(x = p)
  <1>1. Len(w) \in Nat /\ DOMAIN w = 1 .. Len(w) /\ DOMAIN Append(w, x) = 1 .. Len(w) + 1
        /\ Append(w, x)[Len(w) + 1] = x /\ \A i \in DOMAIN w : Append(w, x)[i] = w[i]
    OBVIOUS
  <1>2. Cardinality(SpotsOf(w, p)) \in Nat
    BY FS_CardinalityType
  <1>3. 1 .. Len(w) + 1 = (1 .. Len(w)) \cup {Len(w) + 1} /\ Len(w) + 1 \notin 1 .. Len(w)
    BY <1>1
  <1>4. CASE x = p
    <2>1. SpotsOf(Append(w, x), p) = SpotsOf(w, p) \cup {Len(w) + 1}
      BY <1>1, <1>3, <1>4 DEF SpotsOf
    <2>2. Len(w) + 1 \notin SpotsOf(w, p)
      BY <1>1, <1>3 DEF SpotsOf
    <2>3. Cardinality(SpotsOf(Append(w, x), p)) = Cardinality(SpotsOf(w, p)) + 1
      BY <2>1, <2>2, FS_AddElement
    <2>. QED
      BY <1>4, <2>3 DEF One
  <1>5. CASE x # p
    <2>1. SpotsOf(Append(w, x), p) = SpotsOf(w, p)
      BY <1>1, <1>3, <1>5 DEF SpotsOf
    <2>. QED
      BY <1>2, <1>5, <2>1 DEF One
  <1>. QED
    BY <1>4, <1>5

LEMMA SpotsTail ==
    ASSUME NEW w \in Seq(Packets), w # <<>>, NEW p,
           IsFiniteSet(SpotsOf(w, p)), IsFiniteSet(SpotsOf(Tail(w), p))
    PROVE  Cardinality(SpotsOf(w, p)) = Cardinality(SpotsOf(Tail(w), p)) + One(Head(w) = p)
  <1>1. /\ Len(w) \in Nat \ {0} /\ DOMAIN w = 1 .. Len(w)
        /\ DOMAIN Tail(w) = 1 .. Len(w) - 1 /\ Head(w) = w[1]
        /\ \A i \in DOMAIN Tail(w) : Tail(w)[i] = w[i + 1]
    OBVIOUS
  <1>. DEFINE A == SpotsOf(Tail(w), p)
              B == SpotsOf(w, p) \ {1}
              f == [i \in A |-> i + 1]
  <1>2. \A i \in A : i \in Int /\ i + 1 \in B
    BY <1>1 DEF SpotsOf
  <1>3. \A j \in B : j - 1 \in A /\ (j - 1) + 1 = j
    <2>. SUFFICES ASSUME NEW j \in B
                  PROVE  j - 1 \in A /\ (j - 1) + 1 = j
      OBVIOUS
    <2>1. j \in 1 .. Len(w) /\ j # 1 /\ w[j] = p
      BY <1>1 DEF SpotsOf
    <2>2. j - 1 \in 1 .. Len(w) - 1 /\ (j - 1) + 1 = j
      BY <1>1, <2>1
    <2>3. Tail(w)[j - 1] = p
      BY <1>1, <2>1, <2>2
    <2>. QED
      BY <1>1, <2>2, <2>3 DEF SpotsOf
  <1>4. f \in Bijection(A, B)
    <2>1. f \in [A -> B]
      BY <1>2
    <2>2. \A a, b \in A : f[a] = f[b] => a = b
      BY <1>2
    <2>3. \A j \in B : \E a \in A : f[a] = j
      BY <1>3
    <2>. QED
      BY <2>1, <2>2, <2>3 DEF Bijection, Injection, Surjection, IsInjective
  <1>5. Cardinality(B) = Cardinality(A)
    BY <1>4, FS_Bijection DEF ExistsBijection
  <1>6. Cardinality(SpotsOf(w, p)) \in Nat /\ Cardinality(A) \in Nat
    BY FS_CardinalityType
  <1>7. 1 \in SpotsOf(w, p) <=> Head(w) = p
    BY <1>1 DEF SpotsOf
  <1>8. Cardinality(B) = IF 1 \in SpotsOf(w, p) THEN Cardinality(SpotsOf(w, p)) - 1
                         ELSE Cardinality(SpotsOf(w, p))
    BY FS_RemoveElement
  <1>. HIDE DEF A, B, f
  <1>. QED
    BY <1>5, <1>6, <1>7, <1>8 DEF One, A

-----------------------------------------------------------------------------
(* What a step does to the count of a packet it does to what its thread    *)
(* and its session hold.                                                   *)
Balances(t, s, p) == refs'[p] + Own(t, s, p) = refs[p] + Own(t, s, p)'

LEMMA HoldersAre ==
    ASSUME NEW p
    PROVE  /\ InHand(p) = {u \in Threads : Hand(u, p)}
           /\ Broadcasting(p) = {u \in Threads : Casts(u, p)}
           /\ InQueues(p) = PlacesOf(queue, p)
           /\ BeingSent(p) = {x \in Sessions : IsSent(x, p)}
           /\ \A x : Queued(x, p) = Cardinality(SpotsOf(queue[x], p))
  <1>1. InHand(p) = {u \in Threads : Hand(u, p)}
    BY DEF InHand, Hand, EnqueuePcs
  <1>2. Broadcasting(p) = {u \in Threads : Casts(u, p)}
    BY DEF Broadcasting, Casts, CastAt, Casting
  <1>3. InQueues(p) = PlacesOf(queue, p)
    BY DEF InQueues, PlacesOf
  <1>4. ASSUME NEW x \in Sessions
        PROVE  (\A u \in On(x) : pc[u] \notin {"dropToken", "free"})
                 <=> \A u \in Of(x) : pc[u] \notin LatePcs
    BY DEF On, Of, LatePcs, AwayPcs
  <1>5. BeingSent(p) = {x \in Sessions : IsSent(x, p)}
    BY <1>4 DEF BeingSent, IsSent
  <1>. QED
    BY <1>1, <1>2, <1>3, <1>5 DEF Queued, SpotsOf

LEMMA HoldersBecome ==
    ASSUME NEW p
    PROVE  /\ InHand(p)' = {u \in Threads : Hand(u, p)'}
           /\ Broadcasting(p)' = {u \in Threads : Casts(u, p)'}
           /\ InQueues(p)' = PlacesOf(queue', p)
           /\ BeingSent(p)' = {x \in Sessions : IsSent(x, p)'}
           /\ \A x : Queued(x, p)' = Cardinality(SpotsOf(queue'[x], p))
  <1>1. InHand(p)' = {u \in Threads : Hand(u, p)'}
    BY DEF InHand, Hand, EnqueuePcs
  <1>2. Broadcasting(p)' = {u \in Threads : Casts(u, p)'}
    BY DEF Broadcasting, Casts, CastAt, Casting
  <1>3. InQueues(p)' = PlacesOf(queue', p)
    BY DEF InQueues, PlacesOf
  <1>4. ASSUME NEW x \in Sessions
        PROVE  (\A u \in On(x)' : pc'[u] \notin {"dropToken", "free"})
                 <=> \A u \in Of(x)' : pc'[u] \notin LatePcs
    BY DEF On, Of, LatePcs, AwayPcs
  <1>5. BeingSent(p)' = {x \in Sessions : IsSent(x, p)'}
    BY <1>4 DEF BeingSent, IsSent
  <1>. QED
    BY <1>1, <1>2, <1>3, <1>5 DEF Queued, SpotsOf

LEMMA QueuesAre ==
    /\ TypeOK => queue \in Queues
    /\ TypeOK' => queue' \in Queues
  BY DEF TypeOK, Queues

(* Only t changes what it holds, and only s.                               *)
LEMMA HoldersOf ==
    ASSUME TypeOK, NEW t \in Threads, NEW s \in Sessions, Frame(t, s), NEW p,
           pc[t] \in LatePcs => ses[t] = s
    PROVE  /\ \A u \in Threads \ {t} : /\ Hand(u, p)' <=> Hand(u, p)
                                       /\ Casts(u, p)' <=> Casts(u, p)
           /\ \A x \in Sessions \ {s} : /\ queue'[x] = queue[x]
                                        /\ IsSent(x, p)' <=> IsSent(x, p)
  <1>1. \A u \in Threads \ {t} : /\ Hand(u, p)' <=> Hand(u, p)
                                 /\ Casts(u, p)' <=> Casts(u, p)
    BY DEF Frame, Hand, Casts
  <1>2. ASSUME NEW x \in Sessions \ {s}
        PROVE  queue'[x] = queue[x] /\ (IsSent(x, p)' <=> IsSent(x, p))
    <2>1. queue'[x] = queue[x] /\ current'[x] = current[x]
      BY DEF Frame
    <2>2. (\A u \in Of(x)' : pc'[u] \notin LatePcs) <=> \A u \in Of(x) : pc[u] \notin LatePcs
      <3>1. \A u \in Threads \ {t} : pc'[u] = pc[u] /\ (u \in Of(x)' <=> u \in Of(x))
        BY DEF Frame, Of
      <3>2. t \notin Of(x)' /\ (t \in Of(x) => pc[t] \notin LatePcs)
        BY DEF Frame, Of
      <3>. QED
        BY <3>1, <3>2, OfThreads
    <2>. QED
      BY <2>1, <2>2 DEF IsSent
  <1>. QED
    BY <1>1, <1>2
LEMMA Sums ==
    /\ \A a, b, c, d \in Nat : a + b + c + d \in Nat
    /\ \A r, v \in Int, a, b, c, d, i, j, k, l, h, f, q, n, x, y, z, w \in Nat :
         /\ r = a + b + c + d
         /\ v + (h + f + q + n) = r + (x + y + z + w)
         /\ i + h = a + x /\ j + f = b + y /\ k + q = c + z /\ l + n = d + w
         => v = i + j + k + l
  OBVIOUS

LEMMA AccountsStep ==
    ASSUME TypeOK, TypeOK', NEW t \in Threads, NEW s \in Sessions, Frame(t, s),
           NEW p \in Packets, Accounted(p), Balances(t, s, p)
    PROVE  Accounted(p)'
  <1>1. /\ InHand(p) = {u \in Threads : Hand(u, p)}
        /\ Broadcasting(p) = {u \in Threads : Casts(u, p)}
        /\ InQueues(p) = PlacesOf(queue, p)
        /\ BeingSent(p) = {x \in Sessions : IsSent(x, p)}
        /\ Queued(s, p) = Cardinality(SpotsOf(queue[s], p))
    BY HoldersAre
  <1>2. /\ InHand(p)' = {u \in Threads : Hand(u, p)'}
        /\ Broadcasting(p)' = {u \in Threads : Casts(u, p)'}
        /\ InQueues(p)' = PlacesOf(queue', p)
        /\ BeingSent(p)' = {x \in Sessions : IsSent(x, p)'}
        /\ Queued(s, p)' = Cardinality(SpotsOf(queue'[s], p))
    BY HoldersBecome
  <1>3. /\ \A u \in Threads \ {t} : /\ Hand(u, p)' <=> Hand(u, p)
                                    /\ Casts(u, p)' <=> Casts(u, p)
        /\ \A x \in Sessions \ {s} : /\ queue'[x] = queue[x]
                                     /\ IsSent(x, p)' <=> IsSent(x, p)
    BY HoldersOf DEF Frame, LatePcs
  <1>4. /\ Cardinality(InHand(p)) \in Nat /\ Cardinality(InHand(p)') \in Nat
        /\ Cardinality(InHand(p)') + One(Hand(t, p))
             = Cardinality(InHand(p)) + One(Hand(t, p)')
    <2>1. /\ Cardinality(InHand(p)') + One(t \in InHand(p))
               = Cardinality(InHand(p)) + One(t \in InHand(p)')
          /\ Cardinality(InHand(p)) \in Nat /\ Cardinality(InHand(p)') \in Nat
      BY <1>1, <1>2, <1>3, ThreadsAssumption, CountOne
    <2>. QED
      BY <1>1, <1>2, <2>1 DEF One
  <1>5. /\ Cardinality(Broadcasting(p)) \in Nat /\ Cardinality(Broadcasting(p)') \in Nat
        /\ Cardinality(Broadcasting(p)') + One(Casts(t, p))
             = Cardinality(Broadcasting(p)) + One(Casts(t, p)')
    <2>1. /\ Cardinality(Broadcasting(p)') + One(t \in Broadcasting(p))
               = Cardinality(Broadcasting(p)) + One(t \in Broadcasting(p)')
          /\ Cardinality(Broadcasting(p)) \in Nat /\ Cardinality(Broadcasting(p)') \in Nat
      BY <1>1, <1>2, <1>3, ThreadsAssumption, CountOne
    <2>. QED
      BY <1>1, <1>2, <2>1 DEF One
  <1>6. /\ Cardinality(InQueues(p)) \in Nat /\ Cardinality(InQueues(p)') \in Nat
        /\ Cardinality(InQueues(p)') + Queued(s, p)
             = Cardinality(InQueues(p)) + Queued(s, p)'
        /\ Queued(s, p) \in Nat /\ Queued(s, p)' \in Nat
    BY <1>1, <1>2, <1>3, QueuesAre, PlaceChange, SpotsAre
  <1>7. /\ Cardinality(BeingSent(p)) \in Nat /\ Cardinality(BeingSent(p)') \in Nat
        /\ Cardinality(BeingSent(p)') + One(IsSent(s, p))
             = Cardinality(BeingSent(p)) + One(IsSent(s, p)')
    <2>1. /\ Cardinality(BeingSent(p)') + One(s \in BeingSent(p))
               = Cardinality(BeingSent(p)) + One(s \in BeingSent(p)')
          /\ Cardinality(BeingSent(p)) \in Nat /\ Cardinality(BeingSent(p)') \in Nat
      BY <1>1, <1>2, <1>3, SessionsAssumption, CountOne
    <2>. QED
      BY <1>1, <1>2, <2>1 DEF One
  <1>8. /\ One(Hand(t, p)) \in Nat /\ One(Hand(t, p)') \in Nat
        /\ One(Casts(t, p)) \in Nat /\ One(Casts(t, p)') \in Nat
        /\ One(IsSent(s, p)) \in Nat /\ One(IsSent(s, p)') \in Nat
    BY DEF One
  <1>9. refs[p] \in Int /\ refs'[p] \in Int
    BY DEF TypeOK
  <1>10. refs[p] = Cardinality(InHand(p)) + Cardinality(Broadcasting(p))
                   + Cardinality(InQueues(p)) + Cardinality(BeingSent(p))
    BY DEF Accounted
  <1>11. refs'[p] + (One(Hand(t, p)) + One(Casts(t, p)) + Queued(s, p) + One(IsSent(s, p)))
           = refs[p] + (One(Hand(t, p)') + One(Casts(t, p)') + Queued(s, p)'
                        + One(IsSent(s, p)'))
    BY DEF Balances, Own, One
  <1>12. refs'[p] = Cardinality(InHand(p)') + Cardinality(Broadcasting(p)')
                    + Cardinality(InQueues(p)') + Cardinality(BeingSent(p)')
    BY <1>4, <1>5, <1>6, <1>7, <1>8, <1>9, <1>10, <1>11, Sums
  <1>. QED
    BY <1>12 DEF Accounted

LEMMA MemberCounts ==
    ASSUME NEW T, IsFiniteSet(T), NEW A \in SUBSET T, NEW x
    PROVE  Cardinality(A) \in Nat /\ One(x \in A) <= Cardinality(A)
  <1>1. IsFiniteSet(A) /\ Cardinality(A) \in Nat
    BY FS_Subset, FS_CardinalityType
  <1>2. x \in A => Cardinality(A) # 0
    BY <1>1, FS_EmptySet
  <1>. QED
    BY <1>1, <1>2 DEF One

(* Who holds a packet has a reference to it.                               *)
LEMMA HeldIsReferred ==
    ASSUME TypeOK, NEW t \in Threads, NEW s \in Sessions, NEW p \in Packets, Accounted(p)
    PROVE  Own(t, s, p) \in Nat /\ Own(t, s, p) <= refs[p]
  <1>1. /\ InHand(p) = {u \in Threads : Hand(u, p)}
        /\ Broadcasting(p) = {u \in Threads : Casts(u, p)}
        /\ InQueues(p) = PlacesOf(queue, p)
        /\ BeingSent(p) = {x \in Sessions : IsSent(x, p)}
        /\ Queued(s, p) = Cardinality(SpotsOf(queue[s], p))
    BY HoldersAre
  <1>2. Cardinality(InHand(p)) \in Nat /\ One(Hand(t, p)) <= Cardinality(InHand(p))
    <2>1. Cardinality(InHand(p)) \in Nat /\ One(t \in InHand(p)) <= Cardinality(InHand(p))
      BY <1>1, ThreadsAssumption, MemberCounts
    <2>. QED
      BY <1>1, <2>1 DEF One
  <1>3. Cardinality(Broadcasting(p)) \in Nat
        /\ One(Casts(t, p)) <= Cardinality(Broadcasting(p))
    <2>1. Cardinality(Broadcasting(p)) \in Nat
          /\ One(t \in Broadcasting(p)) <= Cardinality(Broadcasting(p))
      BY <1>1, ThreadsAssumption, MemberCounts
    <2>. QED
      BY <1>1, <2>1 DEF One
  <1>4. Cardinality(BeingSent(p)) \in Nat /\ One(IsSent(s, p)) <= Cardinality(BeingSent(p))
    <2>1. Cardinality(BeingSent(p)) \in Nat
          /\ One(s \in BeingSent(p)) <= Cardinality(BeingSent(p))
      BY <1>1, SessionsAssumption, MemberCounts
    <2>. QED
      BY <1>1, <2>1 DEF One
  <1>5. Cardinality(InQueues(p)) \in Nat /\ Queued(s, p) \in Nat
        /\ Queued(s, p) <= Cardinality(InQueues(p))
    <2>. DEFINE rest == {place \in PlacesOf(queue, p) : place[1] # s}
    <2>1. Cardinality(rest) \in Nat
          /\ Cardinality(InQueues(p)) = Cardinality(rest) + Queued(s, p)
      BY <1>1, QueuesAre, PlacesSplit
    <2>2. Queued(s, p) \in Nat
      BY <1>1, QueuesAre, SpotsAre
    <2>. HIDE DEF rest
    <2>. QED
      BY <2>1, <2>2
  <1>6. /\ One(Hand(t, p)) \in Nat /\ One(Casts(t, p)) \in Nat
        /\ One(IsSent(s, p)) \in Nat
    BY DEF One
  <1>7. refs[p] = Cardinality(InHand(p)) + Cardinality(Broadcasting(p))
                  + Cardinality(InQueues(p)) + Cardinality(BeingSent(p))
    BY DEF Accounted
  <1>8. \A a, b, c, d, i, j, k, l \in Nat :
           i <= a /\ j <= b /\ k <= c /\ l <= d =>
             i + j + k + l \in Nat /\ i + j + k + l <= a + b + c + d
    OBVIOUS
  <1>9. /\ One(Hand(t, p)) + One(Casts(t, p)) + Queued(s, p) + One(IsSent(s, p)) \in Nat
        /\ One(Hand(t, p)) + One(Casts(t, p)) + Queued(s, p) + One(IsSent(s, p)) <= refs[p]
    BY <1>2, <1>3, <1>4, <1>5, <1>6, <1>7, <1>8
  <1>. QED
    BY <1>9 DEF Own

(* What becomes of the sums in a step.                                     *)
Kept(t, s) ==
    \A p \in Packets :
      /\ Balances(t, s, p)
      /\ refs'[p] = refs[p] \/ Own(t, s, p) # 0 \/ p <= made'

LEMMA KeptCounts ==
    ASSUME TypeOK, TypeOK', NEW t \in Threads, NEW s \in Sessions, Frame(t, s),
           \A p \in Packets : Accounted(p) /\ Fresh(p),
           made <= made', Kept(t, s)
    PROVE  \A p \in Packets : Accounted(p)' /\ Fresh(p)'
  <1>. SUFFICES ASSUME NEW p \in Packets
                PROVE  Accounted(p)' /\ Fresh(p)'
    OBVIOUS
  <1>1. Accounted(p)'
    BY AccountsStep DEF Kept
  <1>2. Own(t, s, p) \in Nat /\ Own(t, s, p) <= refs[p] /\ refs[p] \in Int
    BY HeldIsReferred DEF TypeOK
  <1>3. made \in Int /\ made' \in Int /\ p \in Int
    BY DEF TypeOK, Packets
  <1>4. ASSUME p > made'
        PROVE  refs'[p] = 0
    <2>1. ~(p <= made') /\ p > made
      BY <1>3, <1>4
    <2>2. refs[p] = 0
      BY <2>1 DEF Fresh
    <2>3. Own(t, s, p) = 0
      BY <1>2, <2>2
    <2>. QED
      BY <2>1, <2>2, <2>3 DEF Kept
  <1>. QED
    BY <1>1, <1>4 DEF Fresh

-----------------------------------------------------------------------------
(* A broadcast a thread is in stays below what it does meanwhile.          *)
SameCast(t) == CastAt(pc'[t], stack'[t]) <=> CastAt(pc[t], stack[t])

LEMMA ReturnCasts ==
    ASSUME TypeOK, NEW t \in Threads, Return(t)
    PROVE  CastAt(pc'[t], stack'[t]) <=> Casting(stack[t])
  <1>1. stack[t] \in Seq(Pcs)
    BY TypesOf
  <1>2. CASE stack[t] = <<>>
    <2>1. At(t, "idle", <<>>)
      BY <1>2, ReturnAt
    <2>. QED
      BY <1>2, <2>1, Frames DEF At, CastAt
  <1>3. CASE stack[t] # <<>>
    <2>. DEFINE w == stack[t]
    <2>1. w \in Seq(Pcs) /\ w # <<>>
      BY <1>1, <1>3
    <2>. HIDE DEF w
    <2>. DEFINE r == Head(w)
                q == Tail(w)
    <2>2. r \in Pcs /\ q \in Seq(Pcs) /\ w = <<r>> \o q
      BY <2>1
    <2>. HIDE DEF r, q
    <2>3. stack[t] = Then(r, q)
      BY <2>2 DEF Then, w
    <2>4. At(t, r, q)
      BY <2>2, <2>3, ReturnAt
    <2>5. pc'[t] = r /\ stack'[t] = q
      BY <2>4 DEF At
    <2>6. Casting(Then(r, q)) <=> r = "nextTarget" \/ Casting(q)
      BY <2>2, ThenFacts
    <2>. QED
      BY <2>3, <2>5, <2>6 DEF CastAt
  <1>. QED
    BY <1>2, <1>3

LEMMA GotoCasts ==
    ASSUME TypeOK, NEW t \in Threads, pc[t] # "nextTarget"
    PROVE  /\ Return(t) => SameCast(t)
           /\ \A l \in Pcs \ {"nextTarget"} : Goto(t, l) => SameCast(t)
           /\ \A l \in Pcs \ {"nextTarget"}, r \in Pcs \ {"nextTarget"} :
                Call(t, l, <<r>>) => SameCast(t)
           /\ \A l \in Pcs \ {"nextTarget"}, r, r2 \in Pcs \ {"nextTarget"} :
                Call(t, l, <<r, r2>>) => SameCast(t)
  <1>1. stack[t] \in Seq(Pcs)
    BY TypesOf
  <1>2. Return(t) => SameCast(t)
    BY ReturnCasts DEF SameCast, CastAt
  <1>3. ASSUME NEW l \in Pcs \ {"nextTarget"}, Goto(t, l)
        PROVE  SameCast(t)
    BY <1>3, GotoAt DEF SameCast, At, CastAt
  <1>4. ASSUME NEW l \in Pcs \ {"nextTarget"}, NEW r \in Pcs \ {"nextTarget"},
               Call(t, l, <<r>>)
        PROVE  SameCast(t)
    <2>1. pc'[t] = l /\ stack'[t] = Then(r, stack[t])
      BY <1>4, CallAt DEF At
    <2>2. Casting(Then(r, stack[t])) <=> Casting(stack[t])
      BY <1>1, ThenFacts
    <2>. QED
      BY <2>1, <2>2 DEF SameCast, CastAt
  <1>5. ASSUME NEW l \in Pcs \ {"nextTarget"}, NEW r \in Pcs \ {"nextTarget"},
               NEW r2 \in Pcs \ {"nextTarget"}, Call(t, l, <<r, r2>>)
        PROVE  SameCast(t)
    <2>1. pc'[t] = l /\ stack'[t] = Then(r, Then(r2, stack[t]))
      <3>1. r2 \in Pcs /\ r \in Pcs /\ l \in Pcs
        OBVIOUS
      <3>2. At(t, l, Then(r, Then(r2, stack[t])))
        BY <1>5, <3>1, CallAt
      <3>. QED
        BY <3>2 DEF At
    <2>2. Then(r2, stack[t]) \in Seq(Pcs)
          /\ (Casting(Then(r2, stack[t])) <=> Casting(stack[t]))
      BY <1>1, ThenFacts
    <2>3. Casting(Then(r, Then(r2, stack[t]))) <=> Casting(Then(r2, stack[t]))
      BY <2>2, ThenFacts
    <2>. QED
      BY <2>1, <2>2, <2>3 DEF SameCast, CastAt
  <1>. QED
    BY <1>2, <1>3, <1>4, <1>5

-----------------------------------------------------------------------------
(* Steps that pass no packet on.                                           *)
LEMMA SentSame ==
    ASSUME NEW t \in Threads, NEW s \in Sessions, Frame(t, s), NEW p,
           current'[s] = current[s], pc[t] \notin LatePcs, pc'[t] \notin LatePcs
    PROVE  IsSent(s, p)' <=> IsSent(s, p)
  <1>1. \A u \in Threads \ {t} : pc'[u] = pc[u] /\ (u \in Of(s)' <=> u \in Of(s))
    BY DEF Frame, Of
  <1>2. (\A u \in Of(s)' : pc'[u] \notin LatePcs) <=> \A u \in Of(s) : pc[u] \notin LatePcs
    BY <1>1, OfThreads
  <1>. QED
    BY <1>2 DEF IsSent

LEMMA QueuedIs ==
    ASSUME NEW s \in Sessions, NEW p
    PROVE  /\ TypeOK => Queued(s, p) \in Nat
           /\ TypeOK' => Queued(s, p)' \in Nat
           /\ queue'[s] = queue[s] => Queued(s, p)' = Queued(s, p)
  <1>1. Queued(s, p) = Cardinality(SpotsOf(queue[s], p))
        /\ Queued(s, p)' = Cardinality(SpotsOf(queue'[s], p))
    BY HoldersAre, HoldersBecome
  <1>. QED
    BY <1>1, QueuesAre, SpotsAre

LEMMA KeptPlain ==
    ASSUME TypeOK, NEW t \in Threads, NEW s \in Sessions, Frame(t, s),
           refs' = refs, queue'[s] = queue[s], current'[s] = current[s],
           pkt'[t] = pkt[t], SameCast(t),
           pc'[t] \in EnqueuePcs <=> pc[t] \in EnqueuePcs,
           pc[t] \notin LatePcs, pc'[t] \notin LatePcs
    PROVE  Kept(t, s)
  <1>1. ASSUME NEW p \in Packets
        PROVE  Balances(t, s, p)
    <2>1. /\ Hand(t, p)' <=> Hand(t, p)
          /\ Casts(t, p)' <=> Casts(t, p)
      BY DEF Hand, Casts, SameCast
    <2>2. IsSent(s, p)' <=> IsSent(s, p)
      BY SentSame
    <2>3. Queued(s, p)' = Queued(s, p)
      BY QueuedIs
    <2>4. Own(t, s, p)' = Own(t, s, p)
      BY <2>1, <2>2, <2>3 DEF Own, One
    <2>. QED
      BY <2>4 DEF Balances
  <1>. QED
    BY <1>1 DEF Kept

LEMMA ReturnsTo ==
    ASSUME TypeOK, NEW t \in Threads, Fits(t), Return(t), pc[t] # "idle"
    PROVE  pc'[t] \in HomePcs \cup {"try", "retire"}
  <1>1. CASE Base(t, stack[t]) \/ (t \in Workers /\ stack[t] = <<>>)
    BY <1>1, ReturnHome
  <1>2. CASE Trying(t, stack[t])
    BY <1>2, ReturnTrying DEF At
  <1>3. CASE Undoing(t, stack[t])
    BY <1>3, ReturnUndoing DEF At, HomePcs
  <1>4. CASE Retiring(t, stack[t])
    BY <1>4, ReturnRetiring DEF At
  <1>5. t \in Workers => Base(t, OfDone)
    BY DEF Base
  <1>6. t \in Senders => Base(t, <<>>)
    BY ThreadKinds DEF Base
  <1>7. FitsAt(t, pc[t], stack[t]) /\ pc[t] \in Pcs
    BY TypesOf DEF Fits
  <1>8. pc[t] \in {"idle", "nextTarget", "repost", "sent", "retire", "finish", "dropOwn"}
                   \cup EnqueuePcs \cup PostPcs \cup DropPcs \cup LastPcs
    BY <1>7 DEF Pcs, SendPcs, ReleasePcs, AwayPcs, EnqueuePcs, PostPcs, DropPcs,
                LastPcs, ResetPcs
  <1>9. \/ Base(t, stack[t]) \/ (t \in Workers /\ stack[t] = <<>>)
        \/ Trying(t, stack[t]) \/ Undoing(t, stack[t]) \/ Retiring(t, stack[t])
    BY <1>5, <1>6, <1>7, <1>8 DEF FitsAt
  <1>. QED
    BY <1>1, <1>2, <1>3, <1>4, <1>9

CalmPcs == Pcs \ ({"idle", "nextTarget"} \cup EnqueuePcs \cup LatePcs)

LEMMA KeptMoves ==
    ASSUME TypeOK, NEW t \in Threads, Fits(t), NEW s \in Sessions, Frame(t, s),
           pc[t] \in CalmPcs, refs' = refs, queue'[s] = queue[s],
           current'[s] = current[s], pkt' = pkt,
           \/ Return(t)
           \/ \E l \in CalmPcs : Goto(t, l)
           \/ \E r \in {"try", "finish"} : Call(t, "dropCurrent", <<r>>)
           \/ Call(t, "dropCurrent", <<"retire", "finish">>)
    PROVE  Kept(t, s)
  <1>1. /\ pc[t] \notin {"idle", "nextTarget"} \cup EnqueuePcs \cup LatePcs
        /\ CalmPcs \subseteq Pcs \ {"nextTarget"}
    BY DEF CalmPcs
  <1>2. {"dropCurrent", "try", "finish", "retire"} \subseteq CalmPcs
    BY DEF CalmPcs, Pcs, SendPcs, ReleasePcs, AwayPcs, EnqueuePcs, LatePcs
  <1>3. CASE Return(t)
    <2>1. pc'[t] \notin EnqueuePcs \cup LatePcs
      BY <1>1, <1>3, ReturnsTo DEF HomePcs, EnqueuePcs, LatePcs
    <2>2. SameCast(t)
      BY <1>1, <1>3, GotoCasts
    <2>. QED
      BY <1>1, <2>1, <2>2, KeptPlain
  <1>4. ASSUME NEW l \in CalmPcs, Goto(t, l)
        PROVE  Kept(t, s)
    <2>1. pc'[t] = l
      BY <1>1, <1>4, GotoAt DEF At
    <2>2. SameCast(t)
      BY <1>1, <1>4, GotoCasts
    <2>. QED
      BY <1>1, <2>1, <2>2, KeptPlain DEF CalmPcs
  <1>5. ASSUME NEW r \in {"try", "finish"}, Call(t, "dropCurrent", <<r>>)
        PROVE  Kept(t, s)
    <2>1. pc'[t] = "dropCurrent"
      BY <1>1, <1>2, <1>5, CallAt DEF At
    <2>2. SameCast(t)
      BY <1>1, <1>2, <1>5, GotoCasts
    <2>. QED
      BY <1>1, <2>1, <2>2, KeptPlain DEF EnqueuePcs, LatePcs
  <1>6. CASE Call(t, "dropCurrent", <<"retire", "finish">>)
    <2>1. pc'[t] = "dropCurrent"
      <3>1. {"dropCurrent", "retire", "finish"} \subseteq Pcs
        BY <1>1, <1>2
      <3>. QED
        BY <1>6, <3>1, CallAt DEF At
    <2>2. SameCast(t)
      BY <1>1, <1>2, <1>6, GotoCasts
    <2>. QED
      BY <1>1, <2>1, <2>2, KeptPlain DEF EnqueuePcs, LatePcs
  <1>. QED
    BY <1>3, <1>4, <1>5, <1>6

LEMMA CalmPcsAre ==
    {"repost", "finish", "try", "dequeue", "setIdle", "recheck", "prepare", "begin",
     "gate", "issue", "dropCurrent", "sent", "retire", "complete", "resetQueue",
     "resetCurrent"} \subseteq CalmPcs
  BY DEF CalmPcs, Pcs, SendPcs, ReleasePcs, AwayPcs, EnqueuePcs, LatePcs

LEMMA KeptPost ==
    ASSUME TypeOK, NEW t \in Threads, Fits(t), NEW s \in Sessions, s = ses[t], Frame(t, s),
           \/ TrySendNext(t) \/ SetIdle(t) \/ Recheck(t) \/ Prepare(t) \/ BeginIO(t)
           \/ Gate(t) \/ IssueSucceeds(t) \/ IssueFails(t) \/ OnSendCompleted(t)
    PROVE  Kept(t, s) /\ made' = made
  <1>1. /\ UNCHANGED <<queue, current, refs, made, pkt>>
        /\ pc[t] \in {"try", "setIdle", "recheck", "prepare", "begin", "gate", "issue",
                      "sent"}
    BY DEF TrySendNext, SetIdle, Recheck, Prepare, BeginIO, Gate, IssueSucceeds,
           IssueFails, OnSendCompleted, sendVars, queueVars, pktVars, locals
  <1>2. \/ Return(t)
        \/ \E l \in {"dequeue", "recheck", "try", "dropCurrent", "begin", "gate", "issue",
                     "finish", "prepare"} : Goto(t, l)
        \/ \E r \in {"try", "finish"} : Call(t, "dropCurrent", <<r>>)
        \/ Call(t, "dropCurrent", <<"retire", "finish">>)
    BY DEF TrySendNext, SetIdle, Recheck, Prepare, BeginIO, Gate, IssueSucceeds,
           IssueFails, OnSendCompleted
  <1>3. Kept(t, s)
    BY <1>1, <1>2, CalmPcsAre, KeptMoves
  <1>. QED
    BY <1>1, <1>3

LEMMA KeptRest ==
    ASSUME TypeOK, NEW t \in Threads, Fits(t), NEW s \in Sessions, s = ses[t], Frame(t, s),
           \/ Finish(t) \/ Retire(t) \/ CompleteRelease(t) \/ Repost(t)
           \/ Dequeue(t) /\ (current[s] # NoPacket \/ queue[s] = <<>>)
    PROVE  Kept(t, s) /\ made' = made
  <1>1. /\ UNCHANGED <<queue, current, refs, made, pkt>>
        /\ pc[t] \in {"finish", "retire", "complete", "repost", "dequeue"}
    BY DEF Finish, DecrementIO, Retire, CompleteRelease, Repost, Dequeue,
           sendVars, queueVars, pktVars, locals
  <1>2. \/ Return(t)
        \/ \E l \in {"complete", "resetQueue", "finish", "prepare", "setIdle"} : Goto(t, l)
    BY DEF Finish, DecrementIO, Retire, CompleteRelease, Repost, Dequeue
  <1>3. Kept(t, s)
    BY <1>1, <1>2, CalmPcsAre, KeptMoves
  <1>. QED
    BY <1>1, <1>3

LEMMA KeptStarts ==
    ASSUME TypeOK, NEW t \in Workers, Fits(t), NEW s \in Sessions, Frame(t, s),
           \/ SendDone(t, s)
           \/ \E k \in Kinds : ConnectionEnds(t, s, k) \/ IoCancelled(t, s, k)
    PROVE  Kept(t, s) /\ made' = made
  <1>1. t \in Threads
    BY DEF Threads
  <1>2. UNCHANGED <<queue, current, refs, made, pkt>>
    BY DEF SendDone, ConnectionEnds, IoCancelled, sendVars, queueVars, pktVars
  <1>3. PICK l \in {"sent", "retire", "finish"}, q \in {OfDone, <<>>} : Begin(t, s, l, q)
    BY DEF SendDone, ConnectionEnds, IoCancelled, OfDone, Then
  <1>4. Starts(t, s, l, q)
    BY <1>1, <1>3, CalmPcsAre, Frames, StartsAt DEF CalmPcs
  <1>5. pc[t] = "idle" /\ stack[t] = <<>> /\ pc'[t] = l /\ stack'[t] = q
    BY <1>4 DEF Starts, At
  <1>6. SameCast(t)
    BY <1>5, Frames DEF SameCast, CastAt
  <1>7. Kept(t, s)
    BY <1>1, <1>2, <1>5, <1>6, KeptPlain DEF EnqueuePcs, LatePcs
  <1>. QED
    BY <1>2, <1>7

-----------------------------------------------------------------------------
(* Steps that hand a packet over.                                          *)
LEMMA KeptEnqueue ==
    ASSUME TypeOK, TypeOK', NEW t \in Threads, Fits(t), NEW s \in Sessions, s = ses[t],
           Frame(t, s),
           CanSendPacket(t) \/ (PushBack(t) /\ Len(queue[s]) >= QueueDepth)
    PROVE  Kept(t, s) /\ made' = made
  <1>1. /\ UNCHANGED <<queue, current, refs, made, pkt>>
        /\ pc[t] \in {"canSend", "push"}
    BY DEF CanSendPacket, PushBack, sendVars, queueVars, pktVars, locals
  <1>2. PICK l \in {"push", "discard"} : Goto(t, l)
    BY DEF CanSendPacket, PushBack
  <1>3. l \in Pcs
    BY DEF Pcs, AwayPcs
  <1>4. pc'[t] = l /\ SameCast(t)
    BY <1>1, <1>2, <1>3, GotoAt, GotoCasts DEF At
  <1>5. Kept(t, s)
    BY <1>1, <1>4, KeptPlain DEF EnqueuePcs, LatePcs
  <1>. QED
    BY <1>1, <1>5

LEMMA KeptAccepts ==
    ASSUME TypeOK, TypeOK', NEW t \in Threads, Fits(t), NEW s \in Sessions, s = ses[t],
           Frame(t, s), PushBack(t), ~(Len(queue[s]) >= QueueDepth)
    PROVE  Kept(t, s) /\ made' = made
  <1>1. /\ UNCHANGED <<current, refs, made, pkt>> /\ pc[t] = "push" /\ Goto(t, "try")
        /\ queue' = [queue EXCEPT ![s] = Append(@, pkt[t])]
    BY DEF PushBack, sendVars, pktVars, locals
  <1>2. pc'[t] = "try" /\ SameCast(t)
    BY <1>1, CalmPcsAre, GotoAt, GotoCasts DEF At, CalmPcs
  <1>3. pkt[t] \in Packets
    BY <1>1, InHandIsPacket DEF EnqueuePcs
  <1>4. queue \in [Sessions -> Seq(Packets)]
    BY DEF TypeOK
  <1>5. ASSUME NEW p \in Packets
        PROVE  Balances(t, s, p)
    <2>1. Hand(t, p)' <=> FALSE
      BY <1>2 DEF Hand, EnqueuePcs
    <2>2. Hand(t, p) <=> pkt[t] = p
      BY <1>1 DEF Hand, EnqueuePcs
    <2>3. Casts(t, p)' <=> Casts(t, p)
      BY <1>1, <1>2 DEF Casts, SameCast
    <2>4. IsSent(s, p)' <=> IsSent(s, p)
      BY <1>1, <1>2, SentSame DEF LatePcs
    <2>5. Queued(s, p)' = Queued(s, p) + One(pkt[t] = p)
      <3>1. queue'[s] = Append(queue[s], pkt[t]) /\ queue[s] \in Seq(Packets)
        BY <1>1, <1>4
      <3>2. IsFiniteSet(SpotsOf(queue[s], p))
        BY QueuesAre, SpotsAre
      <3>3. Cardinality(SpotsOf(Append(queue[s], pkt[t]), p))
              = Cardinality(SpotsOf(queue[s], p)) + One(pkt[t] = p)
        BY <1>3, <3>1, <3>2, SpotsAppend
      <3>. QED
        BY <3>1, <3>3, HoldersAre, HoldersBecome
    <2>6. Queued(s, p) \in Nat
      BY QueuedIs
    <2>7. Own(t, s, p)' = Own(t, s, p)
      <3>1. One(Hand(t, p)) = One(pkt[t] = p) /\ One(Hand(t, p)') = 0
        BY <2>1, <2>2 DEF One
      <3>2. One(Casts(t, p)') = One(Casts(t, p)) /\ One(IsSent(s, p)') = One(IsSent(s, p))
        BY <2>3, <2>4 DEF One
      <3>3. /\ One(pkt[t] = p) \in Nat /\ One(Casts(t, p)) \in Nat
            /\ One(IsSent(s, p)) \in Nat
        BY DEF One
      <3>4. \A a, b, c, d \in Nat : 0 + b + (c + a) + d = a + b + c + d
        OBVIOUS
      <3>5. One(Hand(t, p)') + One(Casts(t, p)') + Queued(s, p)' + One(IsSent(s, p)')
              = One(Hand(t, p)) + One(Casts(t, p)) + Queued(s, p) + One(IsSent(s, p))
        BY <2>5, <2>6, <3>1, <3>2, <3>3, <3>4
      <3>. QED
        BY <3>5 DEF Own, One
    <2>. QED
      BY <1>1, <2>7 DEF Balances
  <1>6. Kept(t, s)
    BY <1>1, <1>5 DEF Kept
  <1>. QED
    BY <1>1, <1>6

(* A reference is given back, and the one who held it holds it no more.    *)
LEMMA GivesBack ==
    ASSUME TypeOK, TypeOK', NEW t \in Threads, NEW s \in Sessions,
           NEW x \in Packets \cup {NoPacket}, Release(x), queue'[s] = queue[s],
           NEW p \in Packets,
           \/ /\ Hand(t, p) <=> x = p
              /\ ~Hand(t, p)'
              /\ Casts(t, p)' <=> Casts(t, p)
              /\ IsSent(s, p)' <=> IsSent(s, p)
           \/ /\ Hand(t, p)' <=> Hand(t, p)
              /\ Casts(t, p) <=> x = p
              /\ ~Casts(t, p)'
              /\ IsSent(s, p)' <=> IsSent(s, p)
           \/ /\ Hand(t, p)' <=> Hand(t, p)
              /\ Casts(t, p)' <=> Casts(t, p)
              /\ IsSent(s, p) <=> x = p
              /\ ~IsSent(s, p)'
    PROVE  /\ Balances(t, s, p)
           /\ refs'[p] = refs[p] \/ Own(t, s, p) # 0
  <1>1. refs \in [Packets -> Int] /\ NoPacket \notin Packets
    BY DEF TypeOK, NoPacket, Packets
  <1>2. refs'[p] = refs[p] - One(x = p)
    BY <1>1 DEF Release, One
  <1>3. Queued(s, p) \in Nat /\ Queued(s, p)' = Queued(s, p)
    BY QueuedIs
  <1>4. /\ One(Hand(t, p)) \in Nat /\ One(Hand(t, p)') \in Nat
        /\ One(Casts(t, p)) \in Nat /\ One(Casts(t, p)') \in Nat
        /\ One(IsSent(s, p)) \in Nat /\ One(IsSent(s, p)') \in Nat
        /\ One(x = p) \in Nat
    BY DEF One
  <1>5. One(Hand(t, p)) + One(Casts(t, p)) + One(IsSent(s, p))
          = One(Hand(t, p)') + One(Casts(t, p)') + One(IsSent(s, p)') + One(x = p)
    BY DEF One
  <1>6. \A r \in Int, a, b, c, d, i, j, k, l \in Nat :
           a + b + d = i + j + l + k => (r - k) + (a + b + c + d) = r + (i + j + c + l)
    <2>1. \A r, c, m, n, k \in Int : m = n + k => (r - k) + (m + c) = r + (n + c)
      OBVIOUS
    <2>2. \A a, b, c, d \in Nat : /\ a + b + c + d = (a + b + d) + c
                                  /\ a + b + d \in Int
      OBVIOUS
    <2>. QED
      BY <2>1, <2>2
  <1>7. refs'[p] + (One(Hand(t, p)) + One(Casts(t, p)) + Queued(s, p) + One(IsSent(s, p)))
          = refs[p] + (One(Hand(t, p)') + One(Casts(t, p)') + Queued(s, p)'
                       + One(IsSent(s, p)'))
    BY <1>1, <1>2, <1>3, <1>4, <1>5, <1>6
  <1>8. Balances(t, s, p)
    BY <1>7 DEF Balances, Own, One
  <1>9. ASSUME x = p
        PROVE  Own(t, s, p) # 0
    <2>1. One(Hand(t, p)) + One(Casts(t, p)) + One(IsSent(s, p)) # 0
      BY <1>4, <1>5, <1>9 DEF One
    <2>2. One(Hand(t, p)) + One(Casts(t, p)) + Queued(s, p) + One(IsSent(s, p)) # 0
      BY <1>3, <1>4, <2>1
    <2>. QED
      BY <2>2 DEF Own
  <1>10. x # p => refs'[p] = refs[p]
    BY <1>1 DEF Release
  <1>. QED
    BY <1>8, <1>9, <1>10

LEMMA KeptDiscard ==
    ASSUME TypeOK, TypeOK', NEW t \in Threads, Fits(t), NEW s \in Sessions, s = ses[t],
           Frame(t, s), Discard(t)
    PROVE  Kept(t, s) /\ made' = made
  <1>1. /\ UNCHANGED <<queue, current, made, pkt>> /\ pc[t] = "discard" /\ Return(t)
        /\ Release(pkt[t])
    BY DEF Discard, sendVars, queueVars, locals
  <1>2. pc'[t] \notin EnqueuePcs \cup LatePcs
    BY <1>1, ReturnsTo DEF HomePcs, EnqueuePcs, LatePcs
  <1>3. SameCast(t)
    BY <1>1, GotoCasts
  <1>4. pkt[t] \in Packets
    BY <1>1, InHandIsPacket DEF EnqueuePcs
  <1>5. ASSUME NEW p \in Packets
        PROVE  Balances(t, s, p) /\ (refs'[p] = refs[p] \/ Own(t, s, p) # 0)
    <2>1. (Hand(t, p) <=> pkt[t] = p) /\ ~Hand(t, p)'
      BY <1>1, <1>2 DEF Hand, EnqueuePcs
    <2>2. Casts(t, p)' <=> Casts(t, p)
      BY <1>1, <1>3 DEF Casts, SameCast
    <2>3. IsSent(s, p)' <=> IsSent(s, p)
      BY <1>1, <1>2, SentSame DEF LatePcs
    <2>. QED
      BY <1>1, <1>4, <2>1, <2>2, <2>3, GivesBack
  <1>6. Kept(t, s)
    BY <1>5 DEF Kept
  <1>. QED
    BY <1>1, <1>6

LEMMA KeptBroadcastEnds ==
    ASSUME TypeOK, TypeOK', NEW t \in Threads, Fits(t), NEW s \in Sessions,
           Frame(t, s), BroadcastEnds(t)
    PROVE  Kept(t, s) /\ made' = made
  <1>1. /\ UNCHANGED <<queue, current, made, pkt>> /\ pc[t] = "nextTarget"
        /\ Release(pkt[t])
    BY DEF BroadcastEnds, sendVars, queueVars, locals
  <1>2. pc'[t] = "idle" /\ stack'[t] = <<>>
    <2>1. Return(t) /\ stack[t] = <<>>
      BY <1>1, Outsiders DEF BroadcastEnds
    <2>. QED
      BY <2>1, ReturnAt DEF At
  <1>3. pkt[t] \in Packets
    BY <1>1, InHandIsPacket
  <1>4. ASSUME NEW p \in Packets
        PROVE  Balances(t, s, p) /\ (refs'[p] = refs[p] \/ Own(t, s, p) # 0)
    <2>1. Hand(t, p)' <=> Hand(t, p)
      BY <1>1, <1>2 DEF Hand, EnqueuePcs
    <2>2. (Casts(t, p) <=> pkt[t] = p) /\ ~Casts(t, p)'
      BY <1>1, <1>2, Frames DEF Casts, CastAt
    <2>3. IsSent(s, p)' <=> IsSent(s, p)
      BY <1>1, <1>2, SentSame DEF LatePcs
    <2>. QED
      BY <1>1, <1>3, <2>1, <2>2, <2>3, GivesBack
  <1>5. Kept(t, s)
    BY <1>4 DEF Kept
  <1>. QED
    BY <1>1, <1>5

(* The current packet is given back by a thread alone with it.             *)
LEMMA KeptDrops ==
    ASSUME NEW t \in Threads, NEW s \in Sessions, s = ses[t], Working(t, s),
           DropCurrent(t) \/ ResetCurrent(t)
    PROVE  Kept(t, s) /\ made' = made
  <1>1. /\ UNCHANGED <<queue, current, made, pkt>>
        /\ pc[t] \in {"dropCurrent", "resetCurrent"}
        /\ Release(current[s])
    BY DEF DropCurrent, ResetCurrent, sendVars, queueVars, locals
  <1>2. TypeOK /\ TypeOK' /\ Fits(t) /\ Frame(t, s) /\ t \in Of(s)
    BY DEF Working, Sound, Of
  <1>3. PICK l \in LatePcs : l \in Pcs \ {"nextTarget"} /\ Goto(t, l)
    BY DEF DropCurrent, ResetCurrent, LatePcs, Pcs, SendPcs, ReleasePcs
  <1>4. pc'[t] = l /\ SameCast(t)
    BY <1>1, <1>2, <1>3, GotoAt, GotoCasts DEF At
  <1>5. \A u \in Of(s) : pc[u] \notin LatePcs
    <2>1. CASE DropCurrent(t)
      <3>1. pc[t] = "dropCurrent" /\ Sends(t)
        BY <2>1 DEF DropCurrent, Sends, TokenPcs
      <3>2. \A u \in Of(s) : Sends(u) => u = t
        BY <1>2, <3>1 DEF Working, SettledInv, Passing, TokenOnce
      <3>3. ~Gone(s)
        BY <3>1, AtWork DEF Working, SettledInv, AwayPcs, ResetPcs
      <3>4. \A u \in Of(s) : pc[u] # "dropToken" /\ pc[u] # "free"
        BY <3>1, <3>2, <3>3 DEF Sends, TokenPcs, Gone, Resets, ResetPcs
      <3>. QED
        BY <3>4 DEF LatePcs
    <2>2. CASE ResetCurrent(t)
      <3>1. pc[t] = "resetCurrent"
        BY <2>2 DEF ResetCurrent
      <3>2. Busy(s) = {t}
        BY <3>1, Resetting DEF ResetPcs
      <3>3. \A u \in Of(s) : pc[u] \in LatePcs => u \in Busy(s)
        BY DEF Of, Busy, LatePcs, AwayPcs
      <3>. QED
        BY <3>1, <3>2, <3>3 DEF LatePcs
    <2>. QED
      BY <2>1, <2>2
  <1>6. current[s] \in Packets \cup {NoPacket}
    BY <1>2 DEF TypeOK
  <1>7. ASSUME NEW p \in Packets
        PROVE  Balances(t, s, p) /\ (refs'[p] = refs[p] \/ Own(t, s, p) # 0)
    <2>1. Hand(t, p)' <=> Hand(t, p)
      BY <1>1, <1>3, <1>4 DEF Hand, EnqueuePcs, LatePcs
    <2>2. Casts(t, p)' <=> Casts(t, p)
      BY <1>1, <1>4 DEF Casts, SameCast
    <2>3. IsSent(s, p) <=> current[s] = p
      BY <1>5 DEF IsSent
    <2>4. ~IsSent(s, p)'
      BY <1>2, <1>3, <1>4 DEF IsSent, Frame, Of
    <2>. QED
      BY <1>1, <1>2, <1>6, <2>1, <2>2, <2>3, <2>4, GivesBack
  <1>8. Kept(t, s)
    BY <1>7 DEF Kept
  <1>. QED
    BY <1>1, <1>8

(* It is forgotten a step later.                                           *)
LEMMA KeptForgets ==
    ASSUME TypeOK, TypeOK', NEW t \in Threads, Fits(t), NEW s \in Sessions, s = ses[t],
           Frame(t, s), DropToken(t) \/ Free(t)
    PROVE  Kept(t, s) /\ made' = made
  <1>1. /\ UNCHANGED <<queue, refs, made, pkt>> /\ pc[t] \in LatePcs /\ Return(t)
        /\ current' = [current EXCEPT ![s] = NoPacket]
    BY DEF DropToken, Free, queueVars, pktVars, locals, LatePcs
  <1>2. pc[t] \notin EnqueuePcs \cup {"idle", "nextTarget"}
    BY <1>1 DEF LatePcs, EnqueuePcs
  <1>3. pc'[t] \notin EnqueuePcs /\ SameCast(t)
    BY <1>1, <1>2, ReturnsTo, GotoCasts DEF HomePcs, EnqueuePcs
  <1>4. current'[s] = NoPacket /\ NoPacket \notin Packets
    BY <1>1 DEF TypeOK, NoPacket, Packets
  <1>5. ASSUME NEW p \in Packets
        PROVE  Balances(t, s, p)
    <2>1. Hand(t, p)' <=> Hand(t, p)
      BY <1>2, <1>3 DEF Hand
    <2>2. Casts(t, p)' <=> Casts(t, p)
      BY <1>1, <1>3 DEF Casts, SameCast
    <2>3. ~IsSent(s, p) /\ ~IsSent(s, p)'
      BY <1>1, <1>4 DEF IsSent, Of
    <2>4. Queued(s, p)' = Queued(s, p)
      BY <1>1, QueuedIs
    <2>5. Own(t, s, p)' = Own(t, s, p)
      BY <2>1, <2>2, <2>3, <2>4 DEF Own, One
    <2>. QED
      BY <1>1, <2>5 DEF Balances
  <1>6. Kept(t, s)
    BY <1>1, <1>5 DEF Kept
  <1>. QED
    BY <1>1, <1>6

LEMMA KeptResetQueue ==
    ASSUME TypeOK, TypeOK', NEW t \in Threads, Fits(t), NEW s \in Sessions, s = ses[t],
           Frame(t, s), ResetQueue(t)
    PROVE  Kept(t, s) /\ made' = made
  <1>1. /\ UNCHANGED <<current, made, pkt>> /\ pc[t] = "resetQueue"
        /\ Goto(t, "resetCurrent")
        /\ refs' = [p \in Packets |-> refs[p] - Queued(s, p)]
        /\ queue' = [queue EXCEPT ![s] = <<>>]
    BY DEF ResetQueue, sendVars, locals
  <1>2. pc'[t] = "resetCurrent" /\ SameCast(t)
    BY <1>1, CalmPcsAre, GotoAt, GotoCasts DEF At, CalmPcs
  <1>3. queue'[s] = <<>>
    BY <1>1 DEF TypeOK
  <1>4. ASSUME NEW p \in Packets
        PROVE  Balances(t, s, p) /\ (refs'[p] = refs[p] \/ Own(t, s, p) # 0)
    <2>1. One(Hand(t, p)') = One(Hand(t, p))
      BY <1>1, <1>2 DEF Hand, EnqueuePcs, One
    <2>2. One(Casts(t, p)') = One(Casts(t, p))
      BY <1>1, <1>2 DEF Casts, SameCast, One
    <2>3. One(IsSent(s, p)') = One(IsSent(s, p))
      <3>1. IsSent(s, p)' <=> IsSent(s, p)
        BY <1>1, <1>2, SentSame DEF LatePcs
      <3>. QED
        BY <3>1 DEF One
    <2>4. Queued(s, p)' = 0
      <3>1. SpotsOf(queue'[s], p) = {}
        BY <1>3 DEF SpotsOf
      <3>. QED
        BY <3>1, HoldersBecome, FS_EmptySet
    <2>5. Queued(s, p) \in Nat /\ refs[p] \in Int /\ refs'[p] = refs[p] - Queued(s, p)
      BY <1>1, QueuedIs DEF TypeOK
    <2>6. /\ One(Hand(t, p)) \in Nat /\ One(Casts(t, p)) \in Nat
          /\ One(IsSent(s, p)) \in Nat
      BY DEF One
    <2>7. \A r \in Int, a, b, c, d \in Nat :
            (r - c) + (a + b + c + d) = r + (a + b + 0 + d)
      OBVIOUS
    <2>8. refs'[p] + (One(Hand(t, p)) + One(Casts(t, p)) + Queued(s, p) + One(IsSent(s, p)))
            = refs[p] + (One(Hand(t, p)') + One(Casts(t, p)') + Queued(s, p)'
                         + One(IsSent(s, p)'))
      BY <2>1, <2>2, <2>3, <2>4, <2>5, <2>6, <2>7
    <2>9. Balances(t, s, p)
      BY <2>8 DEF Balances, Own, One
    <2>10. CASE Queued(s, p) = 0
      BY <2>5, <2>9, <2>10
    <2>11. CASE Queued(s, p) # 0
      <3>1. One(Hand(t, p)) + One(Casts(t, p)) + Queued(s, p) + One(IsSent(s, p)) # 0
        BY <2>5, <2>6, <2>11
      <3>. QED
        BY <2>9, <3>1 DEF Own
    <2>. QED
      BY <2>10, <2>11
  <1>5. Kept(t, s)
    BY <1>4 DEF Kept
  <1>. QED
    BY <1>1, <1>5

LEMMA KeptDequeue ==
    ASSUME NEW t \in Threads, NEW s \in Sessions, s = ses[t], Working(t, s),
           Dequeue(t), current[s] = NoPacket, queue[s] # <<>>
    PROVE  Kept(t, s) /\ made' = made
  <1>1. /\ UNCHANGED <<refs, made, pkt>> /\ pc[t] = "dequeue" /\ Goto(t, "prepare")
        /\ current' = [current EXCEPT ![s] = Head(queue[s])]
        /\ queue' = [queue EXCEPT ![s] = Tail(@)]
    BY DEF Dequeue, pktVars, locals
  <1>2. TypeOK /\ TypeOK' /\ Fits(t) /\ Frame(t, s) /\ t \in Of(s)
    BY DEF Working, Sound, Of
  <1>3. pc'[t] = "prepare" /\ SameCast(t)
    BY <1>1, <1>2, CalmPcsAre, GotoAt, GotoCasts DEF At, CalmPcs
  <1>4. \A u \in Of(s)' : pc'[u] \notin LatePcs
    <2>1. \A u \in Of(s) : pc[u] # "dropToken" /\ pc[u] # "free"
      <3>1. Sends(t)
        BY <1>1 DEF Sends, TokenPcs
      <3>2. \A u \in Of(s) : Sends(u) => u = t
        BY <1>2, <3>1 DEF Working, SettledInv, Passing, TokenOnce
      <3>3. ~Gone(s)
        BY <1>1, AtWork DEF Working, SettledInv, AwayPcs, ResetPcs
      <3>. QED
        BY <1>1, <3>2, <3>3 DEF Sends, TokenPcs, Gone, Resets, ResetPcs
    <2>2. \A u \in Of(s)' : u = t \/ (u \in Of(s) /\ pc'[u] = pc[u])
      BY <1>2, OfThreads, OthersHelp
    <2>. QED
      BY <1>3, <2>1, <2>2 DEF LatePcs
  <1>5. current'[s] = Head(queue[s]) /\ queue'[s] = Tail(queue[s])
        /\ queue[s] \in Seq(Packets) /\ NoPacket \notin Packets
    BY <1>1, <1>2 DEF TypeOK, NoPacket, Packets
  <1>6. ASSUME NEW p \in Packets
        PROVE  Balances(t, s, p)
    <2>1. One(Hand(t, p)') = One(Hand(t, p))
      BY <1>1, <1>3 DEF Hand, EnqueuePcs, One
    <2>2. One(Casts(t, p)') = One(Casts(t, p))
      BY <1>1, <1>3 DEF Casts, SameCast, One
    <2>3. One(IsSent(s, p)) = 0
      BY <1>5 DEF IsSent, One
    <2>4. One(IsSent(s, p)') = One(Head(queue[s]) = p)
      BY <1>4, <1>5 DEF IsSent, One
    <2>5. Queued(s, p) = Queued(s, p)' + One(Head(queue[s]) = p)
      <3>1. IsFiniteSet(SpotsOf(queue[s], p)) /\ IsFiniteSet(SpotsOf(queue'[s], p))
        BY <1>2, QueuesAre, SpotsAre
      <3>2. Cardinality(SpotsOf(queue[s], p))
              = Cardinality(SpotsOf(Tail(queue[s]), p)) + One(Head(queue[s]) = p)
        BY <1>5, <3>1, SpotsTail
      <3>. QED
        BY <1>5, <3>2, HoldersAre, HoldersBecome
    <2>6. Queued(s, p)' \in Nat
      BY <1>2, QueuedIs
    <2>7. /\ One(Hand(t, p)) \in Nat /\ One(Casts(t, p)) \in Nat
          /\ One(Head(queue[s]) = p) \in Nat
      BY DEF One
    <2>8. \A a, b, c, d \in Nat : a + b + (c + d) + 0 = a + b + c + d
      OBVIOUS
    <2>9. One(Hand(t, p)) + One(Casts(t, p)) + Queued(s, p) + One(IsSent(s, p))
            = One(Hand(t, p)') + One(Casts(t, p)') + Queued(s, p)' + One(IsSent(s, p)')
      BY <2>1, <2>2, <2>3, <2>4, <2>5, <2>6, <2>7, <2>8
    <2>10. Own(t, s, p)' = Own(t, s, p)
      BY <2>9 DEF Own, One
    <2>. QED
      BY <1>1, <2>10 DEF Balances
  <1>7. Kept(t, s)
    BY <1>1, <1>6 DEF Kept
  <1>. QED
    BY <1>1, <1>7

LEMMA KeptBroadcastNext ==
    ASSUME TypeOK, TypeOK', NEW t \in Threads, Fits(t), NEW s \in Sessions,
           Frame(t, s), BroadcastNext(t)
    PROVE  Kept(t, s) /\ made' = made
  <1>1. /\ UNCHANGED <<queue, current, made, pkt>> /\ pc[t] = "nextTarget"
        /\ refs' = [refs EXCEPT ![pkt[t]] = @ + 1]
    BY DEF BroadcastNext, sendVars, queueVars
  <1>2. pc'[t] = "canSend" /\ stack'[t] = OfCast
    BY SoundBroadcastNext
  <1>3. pkt[t] \in Packets /\ refs \in [Packets -> Int]
    BY <1>1, InHandIsPacket DEF TypeOK
  <1>4. ASSUME NEW p \in Packets
        PROVE  Balances(t, s, p) /\ (refs'[p] = refs[p] \/ Own(t, s, p) # 0)
    <2>1. One(Hand(t, p)) = 0 /\ One(Hand(t, p)') = One(pkt[t] = p)
      BY <1>1, <1>2 DEF Hand, EnqueuePcs, One
    <2>2. One(Casts(t, p)) = One(pkt[t] = p) /\ One(Casts(t, p)') = One(pkt[t] = p)
      BY <1>1, <1>2, Frames DEF Casts, CastAt, One
    <2>3. One(IsSent(s, p)') = One(IsSent(s, p))
      <3>1. IsSent(s, p)' <=> IsSent(s, p)
        BY <1>1, <1>2, SentSame DEF LatePcs
      <3>. QED
        BY <3>1 DEF One
    <2>4. Queued(s, p) \in Nat /\ Queued(s, p)' = Queued(s, p)
      BY <1>1, QueuedIs
    <2>5. refs'[p] = refs[p] + One(pkt[t] = p) /\ refs[p] \in Int
      BY <1>1, <1>3 DEF One
    <2>6. One(pkt[t] = p) \in Nat /\ One(IsSent(s, p)) \in Nat
      BY DEF One
    <2>7. \A r \in Int, x, c, d \in Nat :
            (r + x) + (0 + x + c + d) = r + (x + x + c + d)
      OBVIOUS
    <2>8. refs'[p] + (One(Hand(t, p)) + One(Casts(t, p)) + Queued(s, p) + One(IsSent(s, p)))
            = refs[p] + (One(Hand(t, p)') + One(Casts(t, p)') + Queued(s, p)'
                         + One(IsSent(s, p)'))
      BY <2>1, <2>2, <2>3, <2>4, <2>5, <2>6, <2>7
    <2>9. Balances(t, s, p)
      BY <2>8 DEF Balances, Own, One
    <2>10. ASSUME pkt[t] = p
           PROVE  Own(t, s, p) # 0
      <3>1. One(Hand(t, p)) + One(Casts(t, p)) + Queued(s, p) + One(IsSent(s, p)) # 0
        BY <2>1, <2>2, <2>4, <2>6, <2>10 DEF One
      <3>. QED
        BY <3>1 DEF Own
    <2>11. pkt[t] # p => refs'[p] = refs[p]
      BY <1>1, <1>3
    <2>. QED
      BY <2>9, <2>10, <2>11
  <1>5. Kept(t, s)
    BY <1>4 DEF Kept
  <1>. QED
    BY <1>1, <1>5

(* A new packet is its creator's.                                          *)
LEMMA KeptCreates ==
    ASSUME TypeOK, TypeOK', NEW t \in Threads, Fits(t), NEW s \in Sessions,
           Frame(t, s), \A p \in Packets : Accounted(p) /\ Fresh(p),
           Create(t), UNCHANGED <<queue, current>>,
           NEW l \in {"canSend", "nextTarget"}, NEW q \in {<<>>, OfRecv},
           Begin(t, s, l, q)
    PROVE  Kept(t, s) /\ made <= made'
  <1>1. /\ pkt'[t] = made + 1 /\ made' = made + 1
        /\ refs' = [refs EXCEPT ![made + 1] = 1]
    BY CreateTypes
  <1>2. pc[t] = "idle" /\ stack[t] = <<>> /\ pc'[t] = l /\ stack'[t] = q
    <2>1. l \in Pcs /\ q \in Seq(Pcs)
      BY Frames DEF Pcs
    <2>2. Starts(t, s, l, q)
      BY <2>1, StartsAt
    <2>. QED
      BY <2>2 DEF Starts, At
  <1>3. refs \in [Packets -> Int] /\ made \in Int /\ Packets \subseteq Int
    BY DEF TypeOK, Packets
  <1>4. ASSUME NEW p \in Packets
        PROVE  Balances(t, s, p) /\ (refs'[p] = refs[p] \/ p <= made')
    <2>1. One(Hand(t, p)) = 0 /\ One(Casts(t, p)) = 0
      BY <1>2, Frames DEF Hand, Casts, CastAt, EnqueuePcs, One
    <2>2. One(Hand(t, p)') + One(Casts(t, p)') = One(made + 1 = p)
      BY <1>1, <1>2, Frames DEF Hand, Casts, CastAt, EnqueuePcs, One
    <2>3. One(IsSent(s, p)') = One(IsSent(s, p))
      <3>1. IsSent(s, p)' <=> IsSent(s, p)
        BY <1>2, SentSame DEF LatePcs
      <3>. QED
        BY <3>1 DEF One
    <2>4. Queued(s, p) \in Nat /\ Queued(s, p)' = Queued(s, p)
      BY QueuedIs
    <2>5. refs'[p] = refs[p] + One(made + 1 = p)
      <3>1. CASE made + 1 = p
        <4>1. p > made
          BY <1>3, <3>1
        <4>2. refs[p] = 0
          BY <4>1 DEF Fresh
        <4>. QED
          BY <1>1, <1>3, <3>1, <4>2 DEF One
      <3>2. CASE made + 1 # p
        <4>1. refs'[p] = refs[p] /\ refs[p] \in Int
          BY <1>1, <1>3, <3>2
        <4>. QED
          BY <3>2, <4>1 DEF One
      <3>. QED
        BY <3>1, <3>2
    <2>6. /\ One(made + 1 = p) \in Nat /\ One(IsSent(s, p)) \in Nat
          /\ One(Hand(t, p)') \in Nat /\ One(Casts(t, p)') \in Nat /\ refs[p] \in Int
      BY <1>3 DEF One
    <2>7. \A r \in Int, x, i, j, c, d \in Nat :
            i + j = x => (r + x) + (0 + 0 + c + d) = r + (i + j + c + d)
      OBVIOUS
    <2>8. refs'[p] + (One(Hand(t, p)) + One(Casts(t, p)) + Queued(s, p) + One(IsSent(s, p)))
            = refs[p] + (One(Hand(t, p)') + One(Casts(t, p)') + Queued(s, p)'
                         + One(IsSent(s, p)'))
      BY <2>1, <2>2, <2>3, <2>4, <2>5, <2>6, <2>7
    <2>9. Balances(t, s, p)
      BY <2>8 DEF Balances, Own, One
    <2>10. CASE made + 1 = p
      BY <1>1, <1>3, <2>9, <2>10
    <2>11. CASE made + 1 # p
      BY <1>1, <1>3, <2>9, <2>11
    <2>. QED
      BY <2>10, <2>11
  <1>5. Kept(t, s)
    BY <1>4 DEF Kept
  <1>. QED
    BY <1>1, <1>3, <1>5

LEMMA KeptActs ==
    ASSUME NEW t \in Threads, NEW s \in Sessions, Working(t, s), Acts(t, s),
           \A p \in Packets : Accounted(p) /\ Fresh(p)
    PROVE  Kept(t, s) /\ made <= made'
  <1>0. TypeOK /\ TypeOK' /\ Fits(t) /\ Frame(t, s)
    BY DEF Working, Sound
  <1>1. TypeOK /\ TypeOK' /\ Fits(t) /\ Frame(t, s) /\ made \in Int
    <2>1. made \in Int
      BY <1>0 DEF TypeOK
    <2>. QED
      BY <1>0, <2>1
  <1>2. CASE Outside(t, s)
    <2>1. CASE BroadcastNext(t)
      BY <1>1, <2>1, KeptBroadcastNext
    <2>2. CASE BroadcastEnds(t)
      BY <1>1, <2>2, KeptBroadcastEnds
    <2>3. CASE Send(t, s)
      <3>1. /\ Create(t) /\ UNCHANGED <<queue, current>>
            /\ Begin(t, s, "canSend", <<>>)
        BY <2>3 DEF Send, sendVars, queueVars
      <3>. QED
        BY <1>1, <3>1, KeptCreates
    <2>4. CASE Broadcast(t)
      <3>1. Create(t) /\ UNCHANGED <<queue, current>>
        BY <2>4 DEF Broadcast, sendVars, queueVars
      <3>2. PICK x \in Sessions : Begin(t, x, "nextTarget", <<>>)
        BY <2>4 DEF Broadcast
      <3>3. x = s
        <4>1. ses'[t] = x
          BY <1>1, <3>2, BeginAt, Frames
        <4>. QED
          BY <1>1, <4>1 DEF Frame
      <3>. QED
        BY <1>1, <3>1, <3>2, <3>3, KeptCreates
    <2>. QED
      BY <1>2, <2>1, <2>2, <2>3, <2>4 DEF Outside
  <1>3. CASE Completes(t, s)
    <2>1. CASE RecvRequest(t, s)
      <3>1. /\ Create(t) /\ UNCHANGED <<queue, current>>
            /\ Begin(t, s, "canSend", OfRecv)
        BY <2>1 DEF RecvRequest, sendVars, queueVars, OfRecv, Then
      <3>. QED
        BY <1>1, <3>1, KeptCreates
    <2>2. CASE ~RecvRequest(t, s)
      BY <1>1, <1>3, <2>2, KeptStarts DEF Completes
    <2>. QED
      BY <2>1, <2>2
  <1>4. CASE Works(t, s)
    <2>1. s = ses[t]
      BY <1>4 DEF Works
    <2>2. CASE Posts(t)
      <3>1. CASE Dequeue(t)
        BY <1>1, <2>1, <3>1, KeptRest, KeptDequeue
      <3>2. CASE DropCurrent(t) \/ DropToken(t)
        BY <1>1, <2>1, <3>2, KeptDrops, KeptForgets
      <3>3. CASE ~(Dequeue(t) \/ DropCurrent(t) \/ DropToken(t))
        BY <1>1, <2>1, <2>2, <3>3, KeptPost DEF Posts
      <3>. QED
        BY <3>1, <3>2, <3>3
    <2>3. CASE CanSendPacket(t) \/ PushBack(t) \/ Discard(t)
      BY <1>1, <2>1, <2>3, KeptEnqueue, KeptAccepts, KeptDiscard
    <2>4. CASE ReleaseStep(t) \/ Repost(t)
      BY <1>1, <2>1, <2>4, KeptRest, KeptResetQueue, KeptDrops, KeptForgets
         DEF ReleaseStep
    <2>. QED
      BY <1>4, <2>2, <2>3, <2>4 DEF Works
  <1>. QED
    BY <1>2, <1>3, <1>4 DEF Acts

(* A lease, and no step at all, leave every holder alone.                  *)
LEMMA AccountsSame ==
    ASSUME UNCHANGED <<refs, made, pc, stack, pkt, ses, queue, current>>,
           NEW p, Accounted(p) /\ Fresh(p)
    PROVE  Accounted(p)' /\ Fresh(p)'
  <1>1. /\ InHand(p)' = InHand(p) /\ Broadcasting(p)' = Broadcasting(p)
        /\ InQueues(p)' = InQueues(p)
    BY DEF InHand, Broadcasting, InQueues
  <1>2. \A x : On(x)' = On(x)
    BY DEF On
  <1>3. BeingSent(p)' = BeingSent(p)
    BY <1>2 DEF BeingSent
  <1>. QED
    BY <1>1, <1>3 DEF Accounted, Fresh

LEMMA RefsInit ==
    ASSUME Init
    PROVE  RefsInv
  <1>. SUFFICES ASSUME NEW p \in Packets
                PROVE  Accounted(p) /\ Fresh(p)
    BY DEF RefsInv
  <1>1. NoPacket \notin Packets
    BY DEF NoPacket, Packets
  <1>2. InHand(p) = {} /\ Broadcasting(p) = {}
    BY <1>1 DEF Init, InHand, Broadcasting
  <1>3. InQueues(p) = {}
    BY DEF Init, InQueues
  <1>4. BeingSent(p) = {}
    BY <1>1 DEF Init, BeingSent
  <1>5. refs[p] = 0
    BY DEF Init
  <1>. QED
    BY <1>2, <1>3, <1>4, <1>5, FS_EmptySet DEF Accounted, Fresh

LEMMA RefsStep ==
    ASSUME IInv, RefsInv, [Next]_vars
    PROVE  RefsInv'
  <1>1. Base0 /\ TypeOK
    BY DEF IInv, Base0
  <1>2. Base0' /\ TypeOK'
    BY <1>1, BaseStep DEF Base0
  <1>. SUFFICES ASSUME (Settled = Sessions)'
                PROVE  \A p \in Packets : Accounted(p)' /\ Fresh(p)'
    BY DEF RefsInv
  <1>3. \A x \in Sessions : ~left[x]
    BY <1>1, LeftStays DEF Settled
  <1>4. \A p \in Packets : Accounted(p) /\ Fresh(p)
    <2>1. Settled = Sessions
      BY <1>3 DEF Settled
    <2>. QED
      BY <2>1 DEF RefsInv
  <1>5. CASE \E s \in Sessions : Lease(s)
    <2>1. UNCHANGED <<refs, made, pc, stack, pkt, ses, queue, current>>
      BY <1>5 DEF Lease, sendVars, pktVars, locals
    <2>. QED
      BY <1>4, <2>1, AccountsSame
  <1>6. CASE UNCHANGED vars
    <2>1. UNCHANGED <<refs, made, pc, stack, pkt, ses, queue, current>>
      BY <1>6 DEF vars, sendVars, queueVars, pktVars, locals
    <2>. QED
      BY <1>4, <2>1, AccountsSame
  <1>7. ASSUME NEW t \in Threads, NEW s \in Sessions, Sound(t, s), Acts(t, s)
        PROVE  \A p \in Packets : Accounted(p)' /\ Fresh(p)'
    <2>1. Working(t, s) /\ Frame(t, s)
      BY <1>1, <1>2, <1>3, <1>7 DEF Working, IInv, Base0, Sound
    <2>2. Kept(t, s) /\ made <= made'
      BY <1>4, <1>7, <2>1, KeptActs
    <2>. QED
      BY <1>1, <1>2, <1>4, <2>1, <2>2, KeptCounts
  <1>. QED
    BY <1>1, <1>5, <1>6, <1>7, NextActs

(* As long as no session was reset under the hands of a sender, a packet   *)
(* is referred to exactly as often as it is held: none leaks, and none     *)
(* goes back to its pool while it is queued or sent.                       *)
THEOREM RefsAreCounted == Spec => []RefsAreHolders
  <1>1. Init => IInv /\ RefsInv
    BY InvariantInit, RefsInit
  <1>2. (IInv /\ RefsInv) /\ [Next]_vars => (IInv /\ RefsInv)'
    BY InvariantStep, RefsStep
  <1>3. RefsInv => RefsAreHolders
    BY DEF RefsInv, RefsAreHolders, Accounted
  <1>. QED
    BY <1>1, <1>2, <1>3, PTL DEF Spec
=============================================================================
