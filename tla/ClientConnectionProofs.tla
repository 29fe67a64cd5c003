----------------------- MODULE ClientConnectionProofs -----------------------
(* Proofs about ClientConnection, for any set of workers, any levels of    *)
(* the pause and any idle timeout.                                         *)
EXTENDS ClientConnection, FiniteSetTheorems, FunctionTheorems, TLAPS

-----------------------------------------------------------------------------
(* Type correctness                                                        *)

LEMMA Names ==
    /\ \A step \in {"off", "post", "running", "joinWatchdog", "joinScheduler",
                     "await", "stopCore", "idle", "watch", "wait"} : step \in Steps
    /\ \A step \in {"latch", "cancel", "cancelIO", "unpause", "reserve", "read",
                     "drop", "settle", "complete"} : step \in Steps
    /\ \A step \in {"issue", "tell", "repost", "pause", "recheck", "resume",
                     "drained", "look"} : step \in Steps
  BY DEF Steps

LEMMA ThreadNames ==
    /\ App \in Threads /\ Watchdog \in Threads /\ Scheduler \in Threads
    /\ \A t \in Workers : t \in Threads
  BY DEF Threads

LEMMA StateNames ==
    \A name \in {"ready", "connecting", "aborted", "connected", "authPending"} :
        name \in States
  BY DEF States

LEMMA CountIsInt ==
    ASSUME NEW s \in ClientSession
    PROVE  /\ s.count \in Int /\ s.count + 1 \in Int
           /\ s.count - (IF s.paused THEN 1 ELSE 0) \in Int
  BY DEF ClientSession

LEMMA Fields ==
    ASSUME NEW s \in ClientSession, NEW n \in Int, NEW b \in BOOLEAN,
           NEW name \in States
    PROVE  /\ [s EXCEPT !.count = n] \in ClientSession
           /\ [s EXCEPT !.paused = b] \in ClientSession
           /\ [s EXCEPT !.notified = b] \in ClientSession
           /\ [s EXCEPT !.state = name] \in ClientSession
           /\ [s EXCEPT !.count = n, !.state = name] \in ClientSession
           /\ [s EXCEPT !.paused = b, !.count = n] \in ClientSession
           /\ [s EXCEPT !.notified = b, !.state = name] \in ClientSession
           /\ [s EXCEPT !.socket = b] \in ClientSession
  <1>1. [s EXCEPT !.count = n] \in ClientSession
    BY DEF ClientSession
  <1>2. [s EXCEPT !.paused = b] \in ClientSession
    BY DEF ClientSession
  <1>3. [s EXCEPT !.notified = b] \in ClientSession
    BY DEF ClientSession
  <1>4. [s EXCEPT !.state = name] \in ClientSession
    BY DEF ClientSession
  <1>5. [s EXCEPT !.count = n, !.state = name] \in ClientSession
    BY DEF ClientSession
  <1>6. [s EXCEPT !.paused = b, !.count = n] \in ClientSession
    BY DEF ClientSession
  <1>7. [s EXCEPT !.notified = b, !.state = name] \in ClientSession
    BY DEF ClientSession
  <1>8. [s EXCEPT !.socket = b] \in ClientSession
    BY DEF ClientSession
  <1>. QED
    BY <1>1, <1>2, <1>3, <1>4, <1>5, <1>6, <1>7, <1>8

LEMMA MinOfTwo ==
    ASSUME NEW a \in Int, NEW b \in Int
    PROVE  Min({a, b}) = IF a <= b THEN a ELSE b
  <1>. DEFINE m == IF a <= b THEN a ELSE b
  <1>1. m \in {a, b} /\ \A y \in {a, b} : m <= y
    OBVIOUS
  <1>2. ASSUME NEW x \in {a, b}, \A y \in {a, b} : x <= y
        PROVE  x = m
    BY <1>2
  <1>. QED
    BY <1>1, <1>2 DEF Min

LEMMA ZeroTicks == 0 \in 0 .. IdleTicks /\ 0 \in 0 .. IdleTicks - 1
  BY ClientAssumption DEF ClientAssumption

LEMMA GotoType ==
    ASSUME TypeOK, NEW t \in Threads, NEW to \in Steps, Goto(t, to)
    PROVE  pc' \in [Threads -> Steps]
  BY DEF TypeOK, Goto

LEMMA LeaveType ==
    ASSUME TypeOK, NEW t \in Threads, Leave(t)
    PROVE  pc' \in [Threads -> Steps]
  BY Names DEF TypeOK, Leave, Home, Goto

LEMMA BeginType ==
    ASSUME TypeOK, NEW t \in Threads, NEW s \in ClientSession, NEW to \in Steps,
           BeginIO(t, s, to)
    PROVE  session' \in ClientSession /\ pc' \in [Threads -> Steps]
  <1>1. [s EXCEPT !.count = s.count + 1] \in ClientSession
    <2>1. s.count + 1 \in Int
      BY CountIsInt
    <2>. QED
      BY <2>1 DEF ClientSession
  <1>2. Goto(t, "drop") \/ Goto(t, to)
    BY DEF BeginIO
  <1>3. pc' \in [Threads -> Steps]
    BY <1>2, GotoType, Names
  <1>4. session' \in ClientSession
    BY <1>1 DEF BeginIO
  <1>. QED
    BY <1>3, <1>4

LEMMA TypeApplication ==
    ASSUME TypeOK,
           \/ StartClient
           \/ PostConnect
           \/ StopClient
           \/ JoinWatchdog
           \/ JoinScheduler
           \/ AwaitIOCancel
           \/ RetrySlice
           \/ StopCore
    PROVE  TypeOK'
  <1>. USE ClientAssumption, ThreadNames, Names
  <1>1. CASE StartClient
    <2>1. pc' \in [Threads -> Steps]
      BY <1>1 DEF StartClient
    <2>2. session' \in ClientSession
      <3>1. NoSession \in ClientSession
        BY DEF NoSession, ClientSession, States
      <3>2. [NoSession EXCEPT !.socket = TRUE] \in ClientSession
        BY <3>1 DEF ClientSession
      <3>. QED
        BY <1>1, <3>2 DEF StartClient
    <2>3. io' \in [Ops -> Results]
      BY <1>1 DEF StartClient, Results
    <2>. QED
      BY <1>1, <2>1, <2>2, <2>3, ZeroTicks DEF TypeOK, StartClient, ClearFlags
  <1>2. CASE PostConnect
    <2>1. pc' \in [Threads -> Steps]
      BY <1>2 DEF PostConnect, Goto, TypeOK
    <2>2. session' \in ClientSession
      <3>1. session \in ClientSession /\ session.count + 1 \in Int
        BY CountIsInt DEF TypeOK
      <3>2. [session EXCEPT !.count = @ + 1, !.state = "connecting"]
              \in ClientSession
        BY <3>1, Fields, StateNames
      <3>3. [session EXCEPT !.count = @ + 1, !.state = "aborted"]
              \in ClientSession
        BY <3>1, Fields, StateNames
      <3>. QED
        BY <1>2, <3>2, <3>3 DEF PostConnect
    <2>3. io' \in [Ops -> Results]
      BY <1>2 DEF PostConnect, TypeOK, Results
    <2>4. owes' \in [Threads -> Nat]
      BY <1>2 DEF PostConnect, TypeOK
    <2>. QED
      BY <1>2, <2>1, <2>2, <2>3, <2>4
      DEF TypeOK, flags, clock, threads, outside, PostConnect
  <1>3. CASE StopClient
    <2>1. pc' \in [Threads -> Steps]
      BY <1>3, GotoType DEF StopClient
    <2>. QED
      BY <1>3, <2>1
      DEF TypeOK, flags, clock, threads, outside, StopClient
  <1>4. CASE JoinWatchdog
    BY <1>4 DEF TypeOK, ClientSession, Ops, States, Results, flags, clock,
       threads, outside, JoinWatchdog, Joined
  <1>5. CASE JoinScheduler
    BY <1>5 DEF TypeOK, ClientSession, Ops, States, Results, flags, clock,
       threads, outside, JoinScheduler, Joined
  <1>6. CASE AwaitIOCancel
    BY <1>6 DEF TypeOK, ClientSession, Ops, States, Results, flags, clock,
       threads, outside, AwaitIOCancel, Goto
  <1>7. CASE RetrySlice
    <2>1. pc' \in [Threads -> Steps]
      BY <1>7 DEF RetrySlice, Goto, TypeOK
    <2>2. session' \in ClientSession
      BY <1>7 DEF RetrySlice, TypeOK, ClientSession, States
    <2>3. io' \in [Ops -> Results]
      BY <1>7 DEF RetrySlice, ReissueCancelIo, Aborted, Pending, TypeOK, Results
    <2>4. owes' \in [Threads -> Nat]
      BY <1>7 DEF RetrySlice, TypeOK
    <2>. QED
      BY <1>7, <2>1, <2>2, <2>3, <2>4
      DEF TypeOK, flags, clock, threads, outside, RetrySlice
  <1>8. CASE StopCore
    BY <1>8 DEF TypeOK, ClientSession, Ops, States, Results, flags, clock,
       threads, outside, StopCore
  <1>. QED
    BY <1>1, <1>2, <1>3, <1>4, <1>5, <1>6, <1>7, <1>8

LEMMA TypeKernel ==
    ASSUME TypeOK,
           \/ \E o \in Ops : Succeeds(o)
           \/ \E o \in Ops : Breaks(o)
           \/ \E answer \in {"auth", "refuse"} : Answers(answer)
           \/ \E what \in {"data", "beat"} : Sends(what)
           \/ Closes
    PROVE  TypeOK'
  <1>. USE ClientAssumption, ThreadNames, Names
  <1>1. ASSUME NEW o \in Ops, Succeeds(o) PROVE TypeOK'
    BY <1>1 DEF TypeOK, ClientSession, Ops, States, Results, flags, clock,
       threads, outside, Succeeds, Completes
  <1>2. ASSUME NEW o \in Ops, Breaks(o) PROVE TypeOK'
    BY <1>2 DEF TypeOK, ClientSession, Ops, States, Results, flags, clock,
       threads, outside, Breaks, Completes
  <1>3. ASSUME NEW answer \in {"auth", "refuse"}, Answers(answer) PROVE TypeOK'
    BY <1>3 DEF TypeOK, ClientSession, Ops, States, Results, flags, clock,
       threads, outside, Answers, Completes
  <1>4. ASSUME NEW what \in {"data", "beat"}, Sends(what) PROVE TypeOK'
    BY <1>4 DEF TypeOK, ClientSession, Ops, States, Results, flags, clock,
       threads, outside, Sends, Completes
  <1>5. CASE Closes
    BY <1>5 DEF TypeOK, ClientSession, Ops, States, Results, flags, clock,
       threads, outside, Closes, Completes
  <1>. QED
    BY <1>1, <1>2, <1>3, <1>4, <1>5

LEMMA TypeDisconnect ==
    ASSUME TypeOK, NEW t \in Threads,
           \/ EnterDisconnect(t)
           \/ SetCancel(t)
           \/ CancelIO(t)
           \/ ReleaseUnpostedIO(t)
           \/ Reserve(t)
           \/ ReadCount(t)
           \/ DecrementIO(t)
           \/ Settle(t)
           \/ CompleteDisconnect(t)
    PROVE  TypeOK'
  <1>. USE ClientAssumption, ThreadNames, Names
  <1>1. CASE EnterDisconnect(t)
    BY <1>1 DEF TypeOK, ClientSession, Ops, States, Results, flags, clock,
       threads, outside, EnterDisconnect, Leave, Home, Goto
  <1>2. CASE SetCancel(t)
    BY <1>2 DEF TypeOK, ClientSession, Ops, States, Results, flags, clock,
       threads, outside, SetCancel, Goto
  <1>3. CASE CancelIO(t)
    BY <1>3 DEF TypeOK, ClientSession, Ops, States, Results, flags, clock,
       threads, outside, CancelIO, Aborted, Pending, Goto
  <1>4. CASE ReleaseUnpostedIO(t)
    <2>1. pc' \in [Threads -> Steps]
      BY <1>4, GotoType DEF ReleaseUnpostedIO
    <2>2. session' \in ClientSession
      BY <1>4, Fields, CountIsInt, StateNames DEF ReleaseUnpostedIO, TypeOK
    <2>. QED
      BY <1>4, <2>1, <2>2
      DEF TypeOK, flags, clock, threads, outside, ReleaseUnpostedIO
  <1>5. CASE Reserve(t)
    BY <1>5 DEF TypeOK, ClientSession, Ops, States, Results, flags, clock,
       threads, outside, Reserve, Goto
  <1>6. CASE ReadCount(t)
    BY <1>6 DEF TypeOK, ClientSession, Ops, States, Results, flags, clock,
       threads, outside, ReadCount, Leave, Home, Goto
  <1>7. CASE DecrementIO(t)
    BY <1>7 DEF TypeOK, ClientSession, Ops, States, Results, flags, clock,
       threads, outside, DecrementIO, Home, Goto
  <1>8. CASE Settle(t)
    <2>1. pc' \in [Threads -> Steps]
      BY <1>8, GotoType, LeaveType DEF Settle
    <2>2. session' \in ClientSession
      BY <1>8 DEF Settle, TypeOK, ClientSession, States
    <2>. QED
      BY <1>8, <2>1, <2>2
      DEF TypeOK, flags, clock, threads, outside, Settle
  <1>9. CASE CompleteDisconnect(t)
    BY <1>9 DEF TypeOK, ClientSession, Ops, States, Results, flags, clock,
       threads, outside, CompleteDisconnect, Leave, Home, Goto
  <1>. QED
    BY <1>1, <1>2, <1>3, <1>4, <1>5, <1>6, <1>7, <1>8, <1>9

LEMMA TypePost ==
    ASSUME TypeOK, NEW t \in Workers \cup {Scheduler},
           \/ Issue(t)
           \/ ResumeReceive(t)
    PROVE  TypeOK'
  <1>. USE ClientAssumption, ThreadNames, Names
  <1>1. CASE Issue(t)
    BY <1>1 DEF TypeOK, ClientSession, Ops, States, Results, flags, clock,
       threads, outside, Issue, IssueSucceeds, IssueFails, Leave, Home, Goto
  <1>2. CASE ResumeReceive(t)
    <2>1. [session EXCEPT !.paused = FALSE] \in ClientSession
      BY Fields, CountIsInt, StateNames DEF TypeOK
    <2>2. session' \in ClientSession /\ pc' \in [Threads -> Steps]
      BY <1>2, <2>1, BeginType, LeaveType DEF ResumeReceive, TypeOK
    <2>3. op' \in [Threads -> Ops \cup {"none"}] /\ owes' \in [Threads -> Nat]
      BY <1>2 DEF ResumeReceive, TypeOK, Ops
    <2>. QED
      BY <1>2, <2>1, <2>2, <2>3
      DEF TypeOK, flags, clock, threads, outside, ResumeReceive
  <1>. QED
    BY <1>1, <1>2

LEMMA TypeWorker ==
    ASSUME TypeOK, NEW t \in Workers,
           \/ HandleConnect(t)
           \/ TellConnected(t)
           \/ HandleConnectCancelled(t)
           \/ HandleDone(t)
           \/ HandleAuth(t)
           \/ HandleRefuse(t)
           \/ HandleBeat(t)
           \/ HandleData(t)
           \/ HandleClose(t)
           \/ Repost(t)
           \/ Pause(t)
           \/ Recheck(t)
    PROVE  TypeOK'
  <1>. USE ClientAssumption, ThreadNames, Names
  <1>1. CASE HandleConnect(t)
    <2>1. [session EXCEPT !.state = "connected"] \in ClientSession
      BY Fields, CountIsInt, StateNames DEF TypeOK
    <2>2. session' \in ClientSession /\ pc' \in [Threads -> Steps]
      BY <1>1, <2>1, BeginType, GotoType DEF HandleConnect, TypeOK
    <2>3. io' \in [Ops -> Results]
      BY <1>1 DEF HandleConnect, Takes, TypeOK, Results
    <2>4. op' \in [Threads -> Ops \cup {"none"}] /\ owes' \in [Threads -> Nat]
      BY <1>1 DEF HandleConnect, Takes, TypeOK, Ops
    <2>. QED
      BY <1>1, <2>1, <2>2, <2>3, <2>4
      DEF TypeOK, flags, clock, threads, outside, HandleConnect, Takes
  <1>2. CASE TellConnected(t)
    <2>1. [session EXCEPT !.notified = TRUE] \in ClientSession
      BY Fields, CountIsInt, StateNames DEF TypeOK
    <2>2. session' \in ClientSession /\ pc' \in [Threads -> Steps]
      <3>. DEFINE n == [session EXCEPT !.notified = TRUE]
      <3>1. [n EXCEPT !.state = "authPending"] \in ClientSession
        BY <2>1, Fields, CountIsInt, StateNames
      <3>. QED
        BY <1>2, <2>1, <3>1, BeginType, GotoType DEF TellConnected
    <2>3. op' \in [Threads -> Ops \cup {"none"}]
      BY <1>2 DEF TellConnected, TypeOK, Ops
    <2>. QED
      BY <1>2, <2>1, <2>2, <2>3
      DEF TypeOK, flags, clock, threads, outside, TellConnected
  <1>3. CASE HandleConnectCancelled(t)
    BY <1>3 DEF TypeOK, ClientSession, Ops, States, Results, flags, clock,
       threads, outside, HandleConnectCancelled, ReportFailure, Takes, Goto
  <1>4. CASE HandleDone(t)
    BY <1>4 DEF TypeOK, ClientSession, Ops, States, Results, flags, clock,
       threads, outside, HandleDone, Takes, Goto
  <1>5. CASE HandleAuth(t)
    BY <1>5 DEF TypeOK, ClientSession, Ops, States, Results, flags, clock,
       threads, outside, HandleAuth, Takes, Heard, Goto
  <1>6. CASE HandleRefuse(t)
    BY <1>6 DEF TypeOK, ClientSession, Ops, States, Results, flags, clock,
       threads, outside, HandleRefuse, Takes, Heard, Drops, Goto
  <1>7. CASE HandleBeat(t)
    BY <1>7 DEF TypeOK, ClientSession, Ops, States, Results, flags, clock,
       threads, outside, HandleBeat, Takes, Heard, Drops, Goto
  <1>8. CASE HandleData(t)
    BY <1>8 DEF TypeOK, ClientSession, Ops, States, Results, flags, clock,
       threads, outside, HandleData, Takes, Heard, Drops, Goto
  <1>9. CASE HandleClose(t)
    BY <1>9 DEF TypeOK, ClientSession, Ops, States, Results, flags, clock,
       threads, outside, HandleClose, Takes, Drops, Goto
  <1>10. CASE Repost(t)
    BY <1>10 DEF TypeOK, ClientSession, Ops, States, Results, flags, clock,
       threads, outside, Repost, BeginIO, Leave, Home, Goto
  <1>11. CASE Pause(t)
    BY <1>11 DEF TypeOK, ClientSession, Ops, States, Results, flags, clock,
       threads, outside, Pause, Goto
  <1>12. CASE Recheck(t)
    BY <1>12 DEF TypeOK, ClientSession, Ops, States, Results, flags, clock,
       threads, outside, Recheck, Leave, Home, Goto
  <1>. QED
    BY <1>1, <1>2, <1>3, <1>4, <1>5, <1>6, <1>7, <1>8, <1>9, <1>10, <1>11, <1>12

LEMMA TypeOther ==
    ASSUME TypeOK,
           \/ WaitDequeueJob(Scheduler)
           \/ ResumeReceiveIfDrained(Scheduler)
           \/ Tick
           \/ Look
    PROVE  TypeOK'
  <1>. USE ClientAssumption, ThreadNames, Names
  <1>1. CASE WaitDequeueJob(Scheduler)
    BY <1>1 DEF TypeOK, ClientSession, Ops, States, Results, flags, clock,
       threads, outside, WaitDequeueJob, Goto
  <1>2. CASE ResumeReceiveIfDrained(Scheduler)
    BY <1>2 DEF TypeOK, ClientSession, Ops, States, Results, flags, clock,
       threads, outside, ResumeReceiveIfDrained, Home, Goto
  <1>3. CASE Tick
    <2>1. /\ quiet \in Int /\ heard \in Int /\ IdleTicks \in Int
          /\ quiet + 1 \in Int /\ heard + 1 \in Int /\ IdleTicks - 1 \in Int
      BY DEF TypeOK
    <2>2. quiet' \in 0 .. IdleTicks /\ heard' \in 0 .. IdleTicks - 1
      BY <1>3, <2>1, MinOfTwo DEF Tick, TypeOK
    <2>3. pc' \in [Threads -> Steps]
      BY <1>3, GotoType DEF Tick
    <2>. QED
      BY <1>3, <2>2, <2>3 DEF TypeOK, Tick, flags, outside
  <1>4. CASE Look
    <2>1. pc' \in [Threads -> Steps]
      BY <1>4, GotoType DEF Look, Drops
    <2>. QED
      BY <1>4, <2>1, ZeroTicks DEF TypeOK, flags, outside, Look, Baseline, Drops
  <1>. QED
    BY <1>1, <1>2, <1>3, <1>4

-----------------------------------------------------------------------------
(* What opens the connection: the call to come, and ConnectEx.             *)
Opening == pc[App] = "post" \/ io["connect"] # "none"

(* A worker on the way from HandleConnect to the request.                  *)
Asking(t) == pc[t] = "tell" \/ (pc[t] = "issue" /\ op[t] \in {"connect", "send"})

(* A thread on the way to the next receive, or to the pause in its place.  *)
Listening(t) ==
    \/ pc[t] \in {"repost", "pause"}
    \/ pc[t] = "issue" /\ op[t] \in {"connect", "recv"}

IssueKnown ==
    \A t \in Threads : 
      /\ pc[t] = "issue" => op[t] # "none" 
      /\ pc[t] \in {"repost", "pause"} => op[t] = "recv"

(* The request is asked for once, and nothing answers it before.           *)
AskedOnce ==
    /\ pc[App] = "post" => io["connect"] = "none"
    /\ Opening => server = "away" /\ \A t \in Threads : ~Asking(t)
    /\ \A t \in Threads : Asking(t) =>
         server = "away" /\ \A u \in Threads : Asking(u) => u = t
    /\ session.state = "established" \/ io["recv"] = "auth" => server # "away"

(* One receive at most is posted, to be posted or paused.                  *)
OneReceive ==
    /\ ~(io["recv"] # "none" /\ session.paused)
    /\ Opening =>
         io["recv"] = "none" /\ ~session.paused /\ \A t \in Threads : ~Listening(t)
    /\ \A t \in Threads : Listening(t) =>
         /\ io["recv"] = "none" /\ ~session.paused
         /\ \A u \in Threads : Listening(u) => u = t

(* quiet is not ahead of heard by more than n ticks (which end at the      *)
(* timeout).                                                               *)
Ahead(n) == heard = IdleTicks - 1 \/ quiet <= heard + n

Watched == armed /\ session.state = "established"

SilenceIsHeard ==
    /\ Ahead(1)
    /\ Watched /\ session.paused /\ pc[Watchdog] \notin {"look", "off"} => Ahead(0)
    /\ Watched /\ (\E t \in Threads : pc[t] \in {"repost", "pause"}) => Ahead(0)

LEMMA BeginFields ==
    ASSUME NEW s \in ClientSession, NEW t, NEW to, BeginIO(t, s, to)
    PROVE  session'.paused = s.paused /\ session'.state = s.state
  BY DEF BeginIO, ClientSession

LEMMA TellFields ==
    ASSUME TypeOK, NEW t \in Workers, TellConnected(t)
    PROVE  /\ session'.paused = session.paused
           /\ session'.state \in {session.state, "authPending"}
  <1>. DEFINE s == [session EXCEPT !.notified = TRUE]
              a == [s EXCEPT !.state = "authPending"]
  <1>1. s \in ClientSession /\ s.paused = session.paused /\ s.state = session.state
    BY DEF TypeOK, ClientSession
  <1>2. a \in ClientSession /\ a.paused = s.paused /\ a.state = "authPending"
    BY <1>1, StateNames DEF ClientSession
  <1>3. BeginIO(t, a, "issue") \/ session' = s
    BY DEF TellConnected
  <1>. HIDE DEF s, a
  <1>. QED
    BY <1>1, <1>2, <1>3, BeginFields

LEMMA ChainApplication ==
    ASSUME TypeOK, IssueKnown, AskedOnce, OneReceive,
           \/ StartClient
           \/ PostConnect
           \/ StopClient
           \/ JoinWatchdog
           \/ JoinScheduler
           \/ AwaitIOCancel
           \/ RetrySlice
           \/ StopCore
    PROVE  IssueKnown' /\ AskedOnce' /\ OneReceive'
  <1>. USE ClientAssumption, ThreadNames DEF ClientAssumption
  <1>1. CASE StartClient
    BY <1>1 DEF IssueKnown, AskedOnce, OneReceive, Opening, Asking, Listening,
       TypeOK, ClientSession, Ops, flags, clock, threads, outside,
       StartClient, ClearFlags, NoSession
  <1>2. CASE PostConnect
    <2>1. session'.paused = session.paused /\ session'.state # "established"
      BY <1>2 DEF PostConnect, TypeOK, ClientSession
    <2>2. /\ pc[App] = "post" /\ UNCHANGED <<server, op>>
          /\ \/ /\ io' = [io EXCEPT !["connect"] = "pending"]
                /\ pc' = [pc EXCEPT ![App] = "running"]
             \/ UNCHANGED io /\ pc' = [pc EXCEPT ![App] = "latch"]
      BY <1>2 DEF PostConnect, Goto
    <2>. QED
      <3>1. IssueKnown'
        BY <2>1, <2>2 DEF TypeOK, IssueKnown
      <3>2. AskedOnce'
        BY <2>1, <2>2
        DEF TypeOK, Ops, IssueKnown, AskedOnce, Opening, Asking, OneReceive, Listening
      <3>3. OneReceive'
        BY <2>1, <2>2
        DEF TypeOK, Ops, IssueKnown, AskedOnce, Opening, Asking, OneReceive, Listening
      <3>. QED
        BY <3>1, <3>2, <3>3
  <1>3. CASE StopClient
    BY <1>3 DEF IssueKnown, AskedOnce, OneReceive, Opening, Asking, Listening,
       TypeOK, ClientSession, Ops, flags, clock, threads, outside, StopClient,
       Goto
  <1>4. CASE JoinWatchdog
    BY <1>4 DEF IssueKnown, AskedOnce, OneReceive, Opening, Asking, Listening,
       TypeOK, ClientSession, Ops, flags, clock, threads, outside,
       JoinWatchdog, Joined
  <1>5. CASE JoinScheduler
    BY <1>5 DEF IssueKnown, AskedOnce, OneReceive, Opening, Asking, Listening,
       TypeOK, ClientSession, Ops, flags, clock, threads, outside,
       JoinScheduler, Joined
  <1>6. CASE AwaitIOCancel
    BY <1>6 DEF IssueKnown, AskedOnce, OneReceive, Opening, Asking, Listening,
       TypeOK, ClientSession, Ops, flags, clock, threads, outside,
       AwaitIOCancel, Goto
  <1>7. CASE RetrySlice
    BY <1>7 DEF IssueKnown, AskedOnce, OneReceive, Opening, Asking, Listening,
       TypeOK, ClientSession, Ops, flags, clock, threads, outside, RetrySlice,
       ReissueCancelIo, Aborted, Pending, Goto
  <1>8. CASE StopCore
    BY <1>8 DEF IssueKnown, AskedOnce, OneReceive, Opening, Asking, Listening,
       TypeOK, ClientSession, Ops, flags, clock, threads, outside, StopCore
  <1>. QED
    BY <1>1, <1>2, <1>3, <1>4, <1>5, <1>6, <1>7, <1>8

LEMMA ChainKernel ==
    ASSUME TypeOK, IssueKnown, AskedOnce, OneReceive,
           \/ \E o \in Ops : Succeeds(o)
           \/ \E o \in Ops : Breaks(o)
           \/ \E answer \in {"auth", "refuse"} : Answers(answer)
           \/ \E what \in {"data", "beat"} : Sends(what)
           \/ Closes
    PROVE  IssueKnown' /\ AskedOnce' /\ OneReceive'
  <1>. USE ClientAssumption, ThreadNames DEF ClientAssumption
  <1>1. ASSUME NEW o \in Ops, Succeeds(o) PROVE IssueKnown' /\ AskedOnce' /\ OneReceive'
    BY <1>1 DEF IssueKnown, AskedOnce, OneReceive, Opening, Asking, Listening,
       TypeOK, ClientSession, Ops, flags, clock, threads, outside, Succeeds,
       Completes
  <1>2. ASSUME NEW o \in Ops, Breaks(o) PROVE IssueKnown' /\ AskedOnce' /\ OneReceive'
    BY <1>2 DEF IssueKnown, AskedOnce, OneReceive, Opening, Asking, Listening,
       TypeOK, ClientSession, Ops, flags, clock, threads, outside, Breaks,
       Completes
  <1>3. ASSUME NEW answer \in {"auth", "refuse"}, Answers(answer) PROVE IssueKnown' /\ AskedOnce' /\ OneReceive'
    BY <1>3 DEF IssueKnown, AskedOnce, OneReceive, Opening, Asking, Listening,
       TypeOK, ClientSession, Ops, flags, clock, threads, outside, Answers,
       Completes
  <1>4. ASSUME NEW what \in {"data", "beat"}, Sends(what) PROVE IssueKnown' /\ AskedOnce' /\ OneReceive'
    BY <1>4 DEF IssueKnown, AskedOnce, OneReceive, Opening, Asking, Listening,
       TypeOK, ClientSession, Ops, flags, clock, threads, outside, Sends,
       Completes
  <1>5. CASE Closes
    BY <1>5 DEF IssueKnown, AskedOnce, OneReceive, Opening, Asking, Listening,
       TypeOK, ClientSession, Ops, flags, clock, threads, outside, Closes,
       Completes
  <1>. QED
    BY <1>1, <1>2, <1>3, <1>4, <1>5

LEMMA ChainDisconnect ==
    ASSUME TypeOK, IssueKnown, AskedOnce, OneReceive, NEW t \in Threads,
           \/ EnterDisconnect(t)
           \/ SetCancel(t)
           \/ CancelIO(t)
           \/ ReleaseUnpostedIO(t)
           \/ Reserve(t)
           \/ ReadCount(t)
           \/ DecrementIO(t)
           \/ Settle(t)
           \/ CompleteDisconnect(t)
    PROVE  IssueKnown' /\ AskedOnce' /\ OneReceive'
  <1>. USE ClientAssumption, ThreadNames DEF ClientAssumption
  <1>1. CASE EnterDisconnect(t)
    BY <1>1 DEF IssueKnown, AskedOnce, OneReceive, Opening, Asking, Listening,
       TypeOK, ClientSession, Ops, flags, clock, threads, outside,
       EnterDisconnect, Leave, Home, Goto
  <1>2. CASE SetCancel(t)
    BY <1>2 DEF IssueKnown, AskedOnce, OneReceive, Opening, Asking, Listening,
       TypeOK, ClientSession, Ops, flags, clock, threads, outside, SetCancel,
       Goto
  <1>3. CASE CancelIO(t)
    BY <1>3 DEF IssueKnown, AskedOnce, OneReceive, Opening, Asking, Listening,
       TypeOK, ClientSession, Ops, flags, clock, threads, outside, CancelIO,
       Aborted, Pending, Goto
  <1>4. CASE ReleaseUnpostedIO(t)
    BY <1>4 DEF IssueKnown, AskedOnce, OneReceive, Opening, Asking, Listening,
       TypeOK, ClientSession, Ops, flags, clock, threads, outside,
       ReleaseUnpostedIO, Goto
  <1>5. CASE Reserve(t)
    BY <1>5 DEF IssueKnown, AskedOnce, OneReceive, Opening, Asking, Listening,
       TypeOK, ClientSession, Ops, flags, clock, threads, outside, Reserve,
       Goto
  <1>6. CASE ReadCount(t)
    BY <1>6 DEF IssueKnown, AskedOnce, OneReceive, Opening, Asking, Listening,
       TypeOK, ClientSession, Ops, flags, clock, threads, outside, ReadCount,
       Leave, Home, Goto
  <1>7. CASE DecrementIO(t)
    BY <1>7 DEF IssueKnown, AskedOnce, OneReceive, Opening, Asking, Listening,
       TypeOK, ClientSession, Ops, flags, clock, threads, outside,
       DecrementIO, Home, Goto
  <1>8. CASE Settle(t)
    BY <1>8 DEF IssueKnown, AskedOnce, OneReceive, Opening, Asking, Listening,
       TypeOK, ClientSession, Ops, flags, clock, threads, outside, Settle,
       Leave, Home, Goto
  <1>9. CASE CompleteDisconnect(t)
    BY <1>9 DEF IssueKnown, AskedOnce, OneReceive, Opening, Asking, Listening,
       TypeOK, ClientSession, Ops, flags, clock, threads, outside,
       CompleteDisconnect, Leave, Home, Goto
  <1>. QED
    BY <1>1, <1>2, <1>3, <1>4, <1>5, <1>6, <1>7, <1>8, <1>9

LEMMA ChainPost ==
    ASSUME TypeOK, IssueKnown, AskedOnce, OneReceive, NEW t \in Workers \cup {Scheduler},
           \/ Issue(t)
           \/ ResumeReceive(t)
    PROVE  IssueKnown' /\ AskedOnce' /\ OneReceive'
  <1>. USE ClientAssumption, ThreadNames DEF ClientAssumption
  <1>1. CASE Issue(t)
    BY <1>1 DEF IssueKnown, AskedOnce, OneReceive, Opening, Asking, Listening,
       TypeOK, ClientSession, Ops, flags, clock, threads, outside, Issue,
       IssueSucceeds, IssueFails, Leave, Home, Goto
  <1>2. CASE ResumeReceive(t)
    <2>1. CASE ~session.paused
      BY <1>2, <2>1 DEF ResumeReceive, Leave, Home, Goto, IssueKnown, AskedOnce,
         OneReceive, Opening, Asking, Listening, TypeOK, flags, clock, outside
    <2>2. CASE session.paused
      <3>1. ~session'.paused /\ session'.state = session.state
        BY <1>2, <2>2 DEF ResumeReceive, BeginIO, TypeOK, ClientSession
      <3>2. /\ UNCHANGED <<io, server>> /\ op' = [op EXCEPT ![t] = "recv"]
            /\ \/ pc' = [pc EXCEPT ![t] = "issue"]
               \/ pc' = [pc EXCEPT ![t] = "drop"]
        BY <1>2, <2>2 DEF ResumeReceive, BeginIO, Goto, outside
      <3>3. pc[t] = "resume"
        BY <1>2 DEF ResumeReceive
      <3>. QED
        <4>1. IssueKnown'
          BY <2>2, <3>1, <3>2, <3>3 DEF TypeOK, IssueKnown
        <4>2. AskedOnce'
          BY <2>2, <3>1, <3>2, <3>3
          DEF TypeOK, Ops, IssueKnown, AskedOnce, Opening, Asking, OneReceive, Listening
        <4>3. OneReceive'
          BY <2>2, <3>1, <3>2, <3>3
          DEF TypeOK, Ops, IssueKnown, AskedOnce, Opening, Asking, OneReceive, Listening
        <4>. QED
          BY <4>1, <4>2, <4>3
    <2>. QED
      BY <2>1, <2>2
  <1>. QED
    BY <1>1, <1>2

LEMMA ChainWorker ==
    ASSUME TypeOK, IssueKnown, AskedOnce, OneReceive, NEW t \in Workers,
           \/ HandleConnect(t)
           \/ TellConnected(t)
           \/ HandleConnectCancelled(t)
           \/ HandleDone(t)
           \/ HandleAuth(t)
           \/ HandleRefuse(t)
           \/ HandleBeat(t)
           \/ HandleData(t)
           \/ HandleClose(t)
           \/ Repost(t)
           \/ Pause(t)
           \/ Recheck(t)
    PROVE  IssueKnown' /\ AskedOnce' /\ OneReceive'
  <1>. USE ClientAssumption, ThreadNames DEF ClientAssumption
  <1>1. CASE HandleConnect(t)
    <2>1. /\ session'.paused = session.paused
          /\ session'.state \in {session.state, "connected"}
      <3>. DEFINE s == [session EXCEPT !.state = "connected"]
      <3>1. s \in ClientSession /\ s.paused = session.paused /\ s.state = "connected"
        BY StateNames DEF TypeOK, ClientSession
      <3>2. BeginIO(t, s, "issue") \/ session' = session
        BY <1>1 DEF HandleConnect
      <3>. HIDE DEF s
      <3>. QED
        BY <3>1, <3>2, BeginFields
    <2>2. /\ pc[t] = "idle" /\ io["connect"] = "ok"
          /\ io' = [io EXCEPT !["connect"] = "none"]
          /\ op' = [op EXCEPT ![t] = "connect"] /\ server' = server
          /\ \E to \in {"issue", "drop", "latch"} : pc' = [pc EXCEPT ![t] = to]
      BY <1>1 DEF HandleConnect, Takes, BeginIO, Goto
    <2>. QED
      <3>1. IssueKnown'
        BY <2>1, <2>2 DEF TypeOK, IssueKnown
      <3>2. AskedOnce'
        BY <2>1, <2>2
        DEF TypeOK, Ops, IssueKnown, AskedOnce, Opening, Asking, OneReceive, Listening
      <3>3. OneReceive'
        BY <2>1, <2>2
        DEF TypeOK, Ops, IssueKnown, AskedOnce, Opening, Asking, OneReceive, Listening
      <3>. QED
        BY <3>1, <3>2, <3>3
  <1>2. CASE TellConnected(t)
    <2>1. /\ session'.paused = session.paused
          /\ session'.state \in {session.state, "authPending"}
      BY <1>2, ThreadNames, TellFields
    <2>2. /\ pc[t] = "tell" /\ UNCHANGED <<io, server>>
          /\ \/ /\ op' = [op EXCEPT ![t] = "send"]
                /\ \E to \in {"issue", "drop"} : pc' = [pc EXCEPT ![t] = to]
             \/ op' = op /\ pc' = [pc EXCEPT ![t] = "latch"]
      BY <1>2 DEF TellConnected, BeginIO, Goto
    <2>. QED
      <3>1. IssueKnown'
        BY <2>1, <2>2 DEF TypeOK, IssueKnown
      <3>2. AskedOnce'
        BY <2>1, <2>2
        DEF TypeOK, Ops, IssueKnown, AskedOnce, Opening, Asking, OneReceive, Listening
      <3>3. OneReceive'
        BY <2>1, <2>2
        DEF TypeOK, Ops, IssueKnown, AskedOnce, Opening, Asking, OneReceive, Listening
      <3>. QED
        BY <3>1, <3>2, <3>3
  <1>3. CASE HandleConnectCancelled(t)
    BY <1>3 DEF IssueKnown, AskedOnce, OneReceive, Opening, Asking, Listening,
       TypeOK, ClientSession, Ops, flags, clock, threads, outside,
       HandleConnectCancelled, ReportFailure, Takes, Goto
  <1>4. CASE HandleDone(t)
    BY <1>4 DEF IssueKnown, AskedOnce, OneReceive, Opening, Asking, Listening,
       TypeOK, ClientSession, Ops, flags, clock, threads, outside, HandleDone,
       Takes, Goto
  <1>5. CASE HandleAuth(t)
    BY <1>5 DEF IssueKnown, AskedOnce, OneReceive, Opening, Asking, Listening,
       TypeOK, ClientSession, Ops, flags, clock, threads, outside, HandleAuth,
       Takes, Heard, Goto
  <1>6. CASE HandleRefuse(t)
    BY <1>6 DEF IssueKnown, AskedOnce, OneReceive, Opening, Asking, Listening,
       TypeOK, ClientSession, Ops, flags, clock, threads, outside,
       HandleRefuse, Takes, Heard, Drops, Goto
  <1>7. CASE HandleBeat(t)
    BY <1>7 DEF IssueKnown, AskedOnce, OneReceive, Opening, Asking, Listening,
       TypeOK, ClientSession, Ops, flags, clock, threads, outside, HandleBeat,
       Takes, Heard, Drops, Goto
  <1>8. CASE HandleData(t)
    BY <1>8 DEF IssueKnown, AskedOnce, OneReceive, Opening, Asking, Listening,
       TypeOK, ClientSession, Ops, flags, clock, threads, outside, HandleData,
       Takes, Heard, Drops, Goto
  <1>9. CASE HandleClose(t)
    BY <1>9 DEF IssueKnown, AskedOnce, OneReceive, Opening, Asking, Listening,
       TypeOK, ClientSession, Ops, flags, clock, threads, outside,
       HandleClose, Takes, Drops, Goto
  <1>10. CASE Repost(t)
    BY <1>10 DEF IssueKnown, AskedOnce, OneReceive, Opening, Asking,
       Listening, TypeOK, ClientSession, Ops, flags, clock, threads, outside,
       Repost, BeginIO, Leave, Home, Goto
  <1>11. CASE Pause(t)
    BY <1>11 DEF IssueKnown, AskedOnce, OneReceive, Opening, Asking,
       Listening, TypeOK, ClientSession, Ops, flags, clock, threads, outside,
       Pause, Goto
  <1>12. CASE Recheck(t)
    BY <1>12 DEF IssueKnown, AskedOnce, OneReceive, Opening, Asking,
       Listening, TypeOK, ClientSession, Ops, flags, clock, threads, outside,
       Recheck, Leave, Home, Goto
  <1>. QED
    BY <1>1, <1>2, <1>3, <1>4, <1>5, <1>6, <1>7, <1>8, <1>9, <1>10, <1>11, <1>12

LEMMA ChainOther ==
    ASSUME TypeOK, IssueKnown, AskedOnce, OneReceive,
           \/ WaitDequeueJob(Scheduler)
           \/ ResumeReceiveIfDrained(Scheduler)
           \/ Tick
           \/ Look
    PROVE  IssueKnown' /\ AskedOnce' /\ OneReceive'
  <1>. USE ClientAssumption, ThreadNames DEF ClientAssumption
  <1>1. CASE WaitDequeueJob(Scheduler)
    BY <1>1 DEF IssueKnown, AskedOnce, OneReceive, Opening, Asking, Listening,
       TypeOK, ClientSession, Ops, flags, clock, threads, outside,
       WaitDequeueJob, Goto
  <1>2. CASE ResumeReceiveIfDrained(Scheduler)
    BY <1>2 DEF IssueKnown, AskedOnce, OneReceive, Opening, Asking, Listening,
       TypeOK, ClientSession, Ops, flags, clock, threads, outside,
       ResumeReceiveIfDrained, Home, Goto
  <1>3. CASE Tick
    BY <1>3 DEF IssueKnown, AskedOnce, OneReceive, Opening, Asking, Listening,
       TypeOK, ClientSession, Ops, flags, clock, threads, outside, Tick, Goto
  <1>4. CASE Look
    BY <1>4 DEF IssueKnown, AskedOnce, OneReceive, Opening, Asking, Listening,
       TypeOK, ClientSession, Ops, flags, clock, threads, outside, Look,
       Baseline, Drops, Goto
  <1>. QED
    BY <1>1, <1>2, <1>3, <1>4

-----------------------------------------------------------------------------
(* Silence                                                                 *)

LEMMA SilenceApplication ==
    ASSUME TypeOK, OneReceive, SilenceIsHeard,
           \/ StartClient
           \/ PostConnect
           \/ StopClient
           \/ JoinWatchdog
           \/ JoinScheduler
           \/ AwaitIOCancel
           \/ RetrySlice
           \/ StopCore
    PROVE  SilenceIsHeard'
  <1>. USE ClientAssumption, ThreadNames DEF ClientAssumption
  <1>1. CASE StartClient
    BY <1>1 DEF SilenceIsHeard, Ahead, Watched, TypeOK, ClientSession, flags,
       clock, threads, outside, StartClient, ClearFlags, NoSession
  <1>2. CASE PostConnect
    BY <1>2 DEF SilenceIsHeard, Ahead, Watched, TypeOK, ClientSession, flags,
       clock, threads, outside, PostConnect, Goto
  <1>3. CASE StopClient
    BY <1>3 DEF SilenceIsHeard, Ahead, Watched, TypeOK, ClientSession, flags,
       clock, threads, outside, StopClient, Goto
  <1>4. CASE JoinWatchdog
    BY <1>4 DEF SilenceIsHeard, Ahead, Watched, TypeOK, ClientSession, flags,
       clock, threads, outside, JoinWatchdog, Joined
  <1>5. CASE JoinScheduler
    BY <1>5 DEF SilenceIsHeard, Ahead, Watched, TypeOK, ClientSession, flags,
       clock, threads, outside, JoinScheduler, Joined
  <1>6. CASE AwaitIOCancel
    BY <1>6 DEF SilenceIsHeard, Ahead, Watched, TypeOK, ClientSession, flags,
       clock, threads, outside, AwaitIOCancel, Goto
  <1>7. CASE RetrySlice
    BY <1>7 DEF SilenceIsHeard, Ahead, Watched, TypeOK, ClientSession, flags,
       clock, threads, outside, RetrySlice, ReissueCancelIo, Aborted, Pending,
       Goto
  <1>8. CASE StopCore
    BY <1>8 DEF SilenceIsHeard, Ahead, Watched, TypeOK, ClientSession, flags,
       clock, threads, outside, StopCore
  <1>. QED
    BY <1>1, <1>2, <1>3, <1>4, <1>5, <1>6, <1>7, <1>8

LEMMA SilenceKernel ==
    ASSUME TypeOK, OneReceive, SilenceIsHeard,
           \/ \E o \in Ops : Succeeds(o)
           \/ \E o \in Ops : Breaks(o)
           \/ \E answer \in {"auth", "refuse"} : Answers(answer)
           \/ \E what \in {"data", "beat"} : Sends(what)
           \/ Closes
    PROVE  SilenceIsHeard'
  <1>. USE ClientAssumption, ThreadNames DEF ClientAssumption
  <1>1. ASSUME NEW o \in Ops, Succeeds(o) PROVE SilenceIsHeard'
    BY <1>1 DEF SilenceIsHeard, Ahead, Watched, TypeOK, ClientSession, flags,
       clock, threads, outside, Succeeds, Completes
  <1>2. ASSUME NEW o \in Ops, Breaks(o) PROVE SilenceIsHeard'
    BY <1>2 DEF SilenceIsHeard, Ahead, Watched, TypeOK, ClientSession, flags,
       clock, threads, outside, Breaks, Completes
  <1>3. ASSUME NEW answer \in {"auth", "refuse"}, Answers(answer) PROVE SilenceIsHeard'
    BY <1>3 DEF SilenceIsHeard, Ahead, Watched, TypeOK, ClientSession, flags,
       clock, threads, outside, Answers, Completes
  <1>4. ASSUME NEW what \in {"data", "beat"}, Sends(what) PROVE SilenceIsHeard'
    BY <1>4 DEF SilenceIsHeard, Ahead, Watched, TypeOK, ClientSession, flags,
       clock, threads, outside, Sends, Completes
  <1>5. CASE Closes
    BY <1>5 DEF SilenceIsHeard, Ahead, Watched, TypeOK, ClientSession, flags,
       clock, threads, outside, Closes, Completes
  <1>. QED
    BY <1>1, <1>2, <1>3, <1>4, <1>5

LEMMA SilenceDisconnect ==
    ASSUME TypeOK, OneReceive, SilenceIsHeard, NEW t \in Threads,
           \/ EnterDisconnect(t)
           \/ SetCancel(t)
           \/ CancelIO(t)
           \/ ReleaseUnpostedIO(t)
           \/ Reserve(t)
           \/ ReadCount(t)
           \/ DecrementIO(t)
           \/ Settle(t)
           \/ CompleteDisconnect(t)
    PROVE  SilenceIsHeard'
  <1>. USE ClientAssumption, ThreadNames DEF ClientAssumption
  <1>1. CASE EnterDisconnect(t)
    BY <1>1 DEF SilenceIsHeard, Ahead, Watched, TypeOK, ClientSession, flags,
       clock, threads, outside, EnterDisconnect, Leave, Home, Goto
  <1>2. CASE SetCancel(t)
    BY <1>2 DEF SilenceIsHeard, Ahead, Watched, TypeOK, ClientSession, flags,
       clock, threads, outside, SetCancel, Goto
  <1>3. CASE CancelIO(t)
    BY <1>3 DEF SilenceIsHeard, Ahead, Watched, TypeOK, ClientSession, flags,
       clock, threads, outside, CancelIO, Aborted, Pending, Goto
  <1>4. CASE ReleaseUnpostedIO(t)
    BY <1>4 DEF SilenceIsHeard, Ahead, Watched, TypeOK, ClientSession, flags,
       clock, threads, outside, ReleaseUnpostedIO, Goto
  <1>5. CASE Reserve(t)
    BY <1>5 DEF SilenceIsHeard, Ahead, Watched, TypeOK, ClientSession, flags,
       clock, threads, outside, Reserve, Goto
  <1>6. CASE ReadCount(t)
    BY <1>6 DEF SilenceIsHeard, Ahead, Watched, TypeOK, ClientSession, flags,
       clock, threads, outside, ReadCount, Leave, Home, Goto
  <1>7. CASE DecrementIO(t)
    BY <1>7 DEF SilenceIsHeard, Ahead, Watched, TypeOK, ClientSession, flags,
       clock, threads, outside, DecrementIO, Home, Goto
  <1>8. CASE Settle(t)
    BY <1>8 DEF SilenceIsHeard, Ahead, Watched, TypeOK, ClientSession, flags,
       clock, threads, outside, Settle, Leave, Home, Goto
  <1>9. CASE CompleteDisconnect(t)
    BY <1>9 DEF SilenceIsHeard, Ahead, Watched, TypeOK, ClientSession, flags,
       clock, threads, outside, CompleteDisconnect, Leave, Home, Goto
  <1>. QED
    BY <1>1, <1>2, <1>3, <1>4, <1>5, <1>6, <1>7, <1>8, <1>9

LEMMA SilencePost ==
    ASSUME TypeOK, OneReceive, SilenceIsHeard, NEW t \in Workers \cup {Scheduler},
           \/ Issue(t)
           \/ ResumeReceive(t)
    PROVE  SilenceIsHeard'
  <1>. USE ClientAssumption, ThreadNames DEF ClientAssumption
  <1>1. CASE Issue(t)
    <2>1. /\ UNCHANGED <<session, armed, quiet, heard>>
          /\ \/ Goto(t, "latch") \/ Goto(t, "tell") \/ Leave(t)
      BY <1>1 DEF Issue, IssueSucceeds, IssueFails, flags, clock
    <2>. QED
      BY <2>1 DEF SilenceIsHeard, Ahead, Watched, TypeOK, Leave, Home, Goto
  <1>2. CASE ResumeReceive(t)
    <2>1. Goto(t, "drop") \/ Goto(t, "issue") \/ Goto(t, Home(t))
      BY <1>2 DEF ResumeReceive, BeginIO, Leave, Goto
    <2>2. /\ UNCHANGED <<armed, quiet, heard>>
          /\ session'.state = session.state
          /\ session'.paused => session.paused
      <3>. DEFINE resumed == [session EXCEPT !.paused = FALSE]
      <3>1. /\ resumed \in ClientSession
            /\ resumed.state = session.state /\ resumed.paused = FALSE
        BY DEF TypeOK, ClientSession
      <3>2. BeginIO(t, resumed, "issue") \/ session' = session
        BY <1>2 DEF ResumeReceive
      <3>. HIDE DEF resumed
      <3>3. /\ session'.state = session.state
            /\ session'.paused => session.paused
        BY <3>1, <3>2, BeginFields
      <3>. QED
        BY <1>2, <3>3 DEF ResumeReceive, clock
    <2>. QED
      BY <2>1, <2>2 DEF SilenceIsHeard, Ahead, Watched, TypeOK, Home, Goto
  <1>. QED
    BY <1>1, <1>2

LEMMA SilenceWorker ==
    ASSUME TypeOK, OneReceive, SilenceIsHeard, NEW t \in Workers,
           \/ HandleConnect(t)
           \/ TellConnected(t)
           \/ HandleConnectCancelled(t)
           \/ HandleDone(t)
           \/ HandleAuth(t)
           \/ HandleRefuse(t)
           \/ HandleBeat(t)
           \/ HandleData(t)
           \/ HandleClose(t)
           \/ Repost(t)
           \/ Pause(t)
           \/ Recheck(t)
    PROVE  SilenceIsHeard'
  <1>. USE ClientAssumption, ThreadNames DEF ClientAssumption
  <1>1. CASE HandleConnect(t)
    BY <1>1 DEF SilenceIsHeard, Ahead, Watched, TypeOK, ClientSession, flags,
       clock, threads, outside, HandleConnect, Takes, BeginIO, Goto
  <1>2. CASE TellConnected(t)
    <2>1. session'.paused = session.paused /\ (Watched' => Watched)
      BY <1>2, TellFields DEF TellConnected, Watched, clock
    <2>2. /\ UNCHANGED <<quiet, heard>>
          /\ \E to \in {"issue", "drop", "latch"} : pc' = [pc EXCEPT ![t] = to]
      BY <1>2 DEF TellConnected, BeginIO, Goto, clock
    <2>. QED
      BY <2>1, <2>2 DEF SilenceIsHeard, Ahead, TypeOK
  <1>3. CASE HandleConnectCancelled(t)
    BY <1>3 DEF SilenceIsHeard, Ahead, Watched, TypeOK, ClientSession, flags,
       clock, threads, outside, HandleConnectCancelled, ReportFailure, Takes,
       Goto
  <1>4. CASE HandleDone(t)
    BY <1>4 DEF SilenceIsHeard, Ahead, Watched, TypeOK, ClientSession, flags,
       clock, threads, outside, HandleDone, Takes, Goto
  <1>5. CASE HandleAuth(t)
    BY <1>5 DEF SilenceIsHeard, Ahead, Watched, TypeOK, ClientSession, flags,
       clock, threads, outside, HandleAuth, Takes, Heard, Goto
  <1>6. CASE HandleRefuse(t)
    BY <1>6 DEF SilenceIsHeard, Ahead, Watched, TypeOK, ClientSession, flags,
       clock, threads, outside, HandleRefuse, Takes, Heard, Drops, Goto
  <1>7. CASE HandleBeat(t)
    BY <1>7 DEF SilenceIsHeard, Ahead, Watched, TypeOK, ClientSession, flags,
       clock, threads, outside, HandleBeat, Takes, Heard, Drops, Goto
  <1>8. CASE HandleData(t)
    BY <1>8 DEF SilenceIsHeard, Ahead, Watched, TypeOK, ClientSession, flags,
       clock, threads, outside, HandleData, Takes, Heard, Drops, Goto
  <1>9. CASE HandleClose(t)
    BY <1>9 DEF SilenceIsHeard, Ahead, Watched, TypeOK, ClientSession, flags,
       clock, threads, outside, HandleClose, Takes, Drops, Goto
  <1>10. CASE Repost(t)
    BY <1>10 DEF SilenceIsHeard, Ahead, Watched, TypeOK, ClientSession, flags,
       clock, threads, outside, Repost, BeginIO, Leave, Home, Goto
  <1>11. CASE Pause(t)
    BY <1>11 DEF SilenceIsHeard, Ahead, Watched, TypeOK, ClientSession, flags,
       clock, threads, outside, Pause, Goto
  <1>12. CASE Recheck(t)
    BY <1>12 DEF SilenceIsHeard, Ahead, Watched, TypeOK, ClientSession, flags,
       clock, threads, outside, Recheck, Leave, Home, Goto
  <1>. QED
    BY <1>1, <1>2, <1>3, <1>4, <1>5, <1>6, <1>7, <1>8, <1>9, <1>10, <1>11, <1>12

LEMMA SilenceOther ==
    ASSUME TypeOK, OneReceive, SilenceIsHeard,
           \/ WaitDequeueJob(Scheduler)
           \/ ResumeReceiveIfDrained(Scheduler)
           \/ Tick
           \/ Look
    PROVE  SilenceIsHeard'
  <1>. USE ClientAssumption, ThreadNames DEF ClientAssumption
  <1>1. CASE WaitDequeueJob(Scheduler)
    BY <1>1 DEF SilenceIsHeard, Ahead, Watched, TypeOK, ClientSession, flags,
       clock, threads, outside, WaitDequeueJob, Goto
  <1>2. CASE ResumeReceiveIfDrained(Scheduler)
    BY <1>2 DEF SilenceIsHeard, Ahead, Watched, TypeOK, ClientSession, flags,
       clock, threads, outside, ResumeReceiveIfDrained, Home, Goto
  <1>3. CASE Tick
    <2>1. /\ quiet' = Min({quiet + 1, IdleTicks})
          /\ heard' = IF session.paused THEN heard ELSE Min({heard + 1, IdleTicks - 1})
      BY <1>3 DEF Tick
    <2>2. /\ quiet \in Nat /\ quiet <= IdleTicks /\ IdleTicks \in Nat
          /\ heard \in Nat /\ heard <= IdleTicks - 1
      BY DEF TypeOK
    <2>3. /\ quiet' = IF quiet + 1 <= IdleTicks THEN quiet + 1 ELSE IdleTicks
          /\ heard' = IF session.paused THEN heard
                      ELSE IF heard + 1 <= IdleTicks - 1 THEN heard + 1
                      ELSE IdleTicks - 1
      BY <2>1, <2>2, MinOfTwo
    <2>4. Ahead(0) => Ahead(1)' /\ (~session.paused => Ahead(0)')
      BY <2>2, <2>3 DEF Ahead
    <2>5. Ahead(1) /\ ~session.paused => Ahead(1)'
      BY <2>2, <2>3 DEF Ahead
    <2>6. /\ session.paused => Ahead(0)
          /\ Watched /\ (\E t \in Threads : pc[t] \in {"repost", "pause"}) => Ahead(0)
          /\ Watched /\ Ahead(1)
      BY <1>3 DEF Tick, SilenceIsHeard, Watched
    <2>7. pc' = [pc EXCEPT ![Watchdog] = "look"] /\ UNCHANGED <<session, armed>>
      BY <1>3 DEF Tick, Goto
    <2>8. Ahead(1)'
      BY <2>4, <2>5, <2>6
    <2>9. (\E t \in Threads : pc'[t] \in {"repost", "pause"}) => Ahead(0)'
      <3>1. ASSUME NEW t \in Threads, pc'[t] \in {"repost", "pause"}
            PROVE  pc[t] \in {"repost", "pause"}
        BY <2>7, <3>1 DEF TypeOK
      <3>2. ASSUME NEW t \in Threads, pc[t] \in {"repost", "pause"}
            PROVE  ~session.paused
        BY <3>2 DEF OneReceive, Listening
      <3>. QED
        BY <2>4, <2>6, <3>1, <3>2
    <2>10. pc'[Watchdog] = "look"
      BY <2>7 DEF TypeOK
    <2>. QED
      BY <2>8, <2>9, <2>10 DEF SilenceIsHeard
  <1>4. CASE Look
    BY <1>4 DEF SilenceIsHeard, Ahead, Watched, TypeOK, ClientSession, flags,
       clock, threads, outside, Look, Baseline, Drops, Goto
  <1>. QED
    BY <1>1, <1>2, <1>3, <1>4

-----------------------------------------------------------------------------
(* The theorems                                                            *)

IInv == TypeOK /\ IssueKnown /\ AskedOnce /\ OneReceive /\ SilenceIsHeard

LEMMA IInvInit == Init => IInv
  <1>. SUFFICES ASSUME Init PROVE IInv
    OBVIOUS
  <1>1. TypeOK
    <2>1. NoSession \in ClientSession
      BY DEF NoSession, ClientSession, States
    <2>. QED
      BY <2>1, ZeroTicks, Names DEF Init, TypeOK, Ops, Results
  <1>2. IssueKnown /\ AskedOnce /\ OneReceive
    BY ThreadNames DEF Init, NoSession, Ops, IssueKnown, AskedOnce, OneReceive,
       Opening, Asking, Listening
  <1>3. SilenceIsHeard
    BY ThreadNames DEF Init, SilenceIsHeard, Ahead, NoSession, Watched
  <1>. QED
    BY <1>1, <1>2, <1>3 DEF IInv

LEMMA IInvStep == IInv /\ [Next]_vars => IInv'
  <1>. SUFFICES ASSUME IInv, [Next]_vars PROVE IInv'
    OBVIOUS
  <1>. USE DEF IInv
  <1>1. CASE \/ StartClient \/ PostConnect \/ StopClient \/ Stops
    BY <1>1, TypeApplication, ChainApplication, SilenceApplication DEF Stops
  <1>2. CASE Kernel
    BY <1>2, TypeKernel, ChainKernel, SilenceKernel DEF Kernel
  <1>3. ASSUME NEW t \in Threads, Disconnects(t) PROVE IInv'
    BY <1>3, TypeDisconnect, ChainDisconnect, SilenceDisconnect DEF Disconnects
  <1>4. ASSUME NEW t \in Workers \cup {Scheduler}, Posts(t) PROVE IInv'
    BY <1>4, TypePost, ChainPost, SilencePost DEF Posts
  <1>5. ASSUME NEW t \in Workers, Worker(t) PROVE IInv'
    BY <1>5, TypeWorker, ChainWorker, SilenceWorker DEF Worker
  <1>6. CASE Schedules \/ Tick \/ Look
    BY <1>6, TypeOther, ChainOther, SilenceOther DEF Schedules
  <1>7. CASE UNCHANGED vars
    BY <1>7 DEF vars, flags, clock, threads, outside, TypeOK, IssueKnown,
       AskedOnce, OneReceive, SilenceIsHeard, Opening, Asking, Listening, Ahead,
       Watched
  <1>. QED
    BY <1>1, <1>2, <1>3, <1>4, <1>5, <1>6, <1>7 DEF Next

LEMMA Invariance == Spec => []IInv
  BY IInvInit, IInvStep, PTL DEF Spec

(* Every variable keeps its type, for any number of workers.               *)
THEOREM TypeCorrect == Spec => []TypeOK
  <1>1. IInv => TypeOK
    BY DEF IInv
  <1>. QED
    BY Invariance, <1>1, PTL

(* While the client runs nobody takes ESTABLISHED back but the disconnect: *)
(* the request to be let in is out, and its answer cannot come, before the *)
(* last write of the worker that sends it (SendSystemAuthRequest).         *)
THEOREM EstablishedKept == Spec => EstablishedStays
  <1>1. ASSUME IInv, [Next]_vars, session.state = "established", pc[App] # "off"
        PROVE  session'.state \in {"established", "disconnected"}
    <2>. USE <1>1 DEF IInv
    <2>1. /\ ~Opening /\ server # "away"
          /\ \A t \in Threads : ~Asking(t)
      BY DEF AskedOnce
    <2>2. CASE StartClient \/ PostConnect \/ StopClient \/ Stops
      BY <2>1, <2>2 DEF StartClient, PostConnect, StopClient, Stops, JoinWatchdog,
         JoinScheduler, AwaitIOCancel, RetrySlice, StopCore, Opening, TypeOK,
         ClientSession
    <2>3. CASE Kernel \/ Schedules \/ Tick \/ Look
      BY <2>3 DEF Kernel, Succeeds, Breaks, Answers, Sends, Closes, Completes,
         Schedules, WaitDequeueJob, ResumeReceiveIfDrained, Tick, Look, Drops
    <2>4. ASSUME NEW t \in Threads, Disconnects(t)
          PROVE  session'.state \in {"established", "disconnected"}
      BY <2>4 DEF Disconnects, EnterDisconnect, SetCancel, CancelIO,
         ReleaseUnpostedIO, Reserve, ReadCount, DecrementIO, Settle,
         CompleteDisconnect, TypeOK, ClientSession
    <2>5. ASSUME NEW t \in Workers \cup {Scheduler}, Posts(t)
          PROVE  session'.state \in {"established", "disconnected"}
      BY <2>5 DEF Posts, Issue, IssueSucceeds, IssueFails, ResumeReceive, BeginIO,
         TypeOK, ClientSession
    <2>6. ASSUME NEW t \in Workers, Worker(t)
          PROVE  session'.state \in {"established", "disconnected"}
      <3>1. ~HandleConnect(t) /\ ~HandleConnectCancelled(t)
        BY <2>1 DEF HandleConnect, HandleConnectCancelled, Takes, Opening
      <3>2. ~TellConnected(t)
        BY <2>1, ThreadNames DEF TellConnected, Asking
      <3>. QED
        BY <2>6, <3>1, <3>2 DEF Worker, HandleDone, HandleAuth, HandleRefuse,
           HandleBeat, HandleData, HandleClose, Drops, Repost, BeginIO, Pause,
           Recheck, TypeOK, ClientSession
    <2>7. CASE UNCHANGED vars
      BY <2>7 DEF vars
    <2>. QED
      BY <2>2, <2>3, <2>4, <2>5, <2>6, <2>7 DEF Next
  <1>. QED
    BY Invariance, <1>1, PTL DEF Spec, EstablishedStays

(* The watchdog never ends a connection because of a silence that was the  *)
(* client's own pause, whatever the levels and the timeout.                *)
THEOREM WatchdogFair == Spec => WatchdogIsFair
  <1>1. ASSUME IInv, [Next]_vars, pc[Watchdog] = "look", pc'[Watchdog] = "latch"
        PROVE  heard >= IdleTicks - 1
    <2>. USE <1>1 DEF IInv
    <2>1. Look
      <3>1. CASE StartClient \/ PostConnect \/ StopClient \/ Stops
        BY <3>1, ClientAssumption, ThreadNames DEF ClientAssumption, StartClient,
           PostConnect, StopClient, Stops, JoinWatchdog, JoinScheduler, Joined,
           AwaitIOCancel, RetrySlice, StopCore, Goto, TypeOK
      <3>2. CASE Kernel \/ Tick
        BY <3>2 DEF Kernel, Succeeds, Breaks, Answers, Sends, Closes, Completes,
           Tick, threads
      <3>3. ASSUME NEW t \in Threads, Disconnects(t) PROVE FALSE
        BY <3>3, ThreadNames DEF Disconnects, EnterDisconnect, SetCancel, CancelIO,
           ReleaseUnpostedIO, Reserve, ReadCount, DecrementIO, Settle,
           CompleteDisconnect, Leave, Goto, TypeOK
      <3>4. ASSUME NEW t \in Workers \cup {Scheduler}, Posts(t) PROVE FALSE
        BY <3>4, ClientAssumption, ThreadNames DEF ClientAssumption, Posts, Issue,
           IssueSucceeds, IssueFails, ResumeReceive, BeginIO, Leave, Goto, TypeOK
      <3>5. ASSUME NEW t \in Workers, Worker(t) PROVE FALSE
        BY <3>5, ClientAssumption, ThreadNames DEF ClientAssumption, Worker,
           HandleConnect, TellConnected, HandleConnectCancelled, HandleDone,
           HandleAuth, HandleRefuse, HandleBeat, HandleData, HandleClose, Drops,
           Repost, BeginIO, Pause, Recheck, Leave, Goto, TypeOK
      <3>6. CASE Schedules
        BY <3>6, ClientAssumption, ThreadNames DEF ClientAssumption, Schedules,
           WaitDequeueJob, ResumeReceiveIfDrained, Goto, TypeOK
      <3>7. CASE UNCHANGED vars
        BY <3>7 DEF vars, threads
      <3>. QED
        BY <3>1, <3>2, <3>3, <3>4, <3>5, <3>6, <3>7 DEF Next
    <2>2. quiet = IdleTicks
      BY <2>1, ThreadNames DEF Look, Goto, TypeOK
    <2>. QED
      BY <2>2, ClientAssumption DEF SilenceIsHeard, Ahead, TypeOK, ClientAssumption
  <1>. QED
    BY Invariance, <1>1, PTL DEF Spec, WatchdogIsFair

-----------------------------------------------------------------------------
(* The count, and what a thread owes where it is.                          *)

Begins == {"issue", "pause"}

Posted == {o \in Ops : io[o] # "none"}
Begun  == {t \in Threads : pc[t] \in Begins}
One(b) == IF b THEN 1 ELSE 0

Counted ==
    /\ IsFiniteSet(Debts)
    /\ session.count = Cardinality(Posted) + Cardinality(Debts)
                       + Cardinality(Begun) + One(session.paused)

AppSteps == {"post", "running", "joinWatchdog", "joinScheduler", "await",
             "stopCore"}

FreeSteps == AppSteps \cup {"off", "idle", "watch", "wait", "look", "drained",
                            "settle", "complete"}

OwingSteps == Begins \cup {"tell", "repost", "recheck", "drop"}

OwesKnown ==
    \A t \in Threads : /\ pc[t] \in FreeSteps => owes[t] = 0
                       /\ pc[t] \in OwingSteps => owes[t] > 0

(* A first send finds no other outstanding.                                *)
SentOnce == server = "away" => io["send"] = "none"

-----------------------------------------------------------------------------
(* The end of a connection is with one thread or reserved, until it is     *)
(* over.                                                                   *)

CancelSteps == {"cancel", "cancelIO", "unpause", "reserve"}

Ends(t)    == pc[t] \in CancelSteps \cup {"complete"}
Settles(t) == pc[t] \in {"read", "settle"}

EndOnce ==
    /\ \A t, u \in Threads : Ends(t) /\ Ends(u) => t = u
    /\ \A t \in Threads : Ends(t) => disconnecting /\ ~session.pending
    /\ session.pending => disconnecting

(* ... and is carried out when the count is 0.                             *)
EndComes ==
    /\ \A t \in Threads : pc[t] \in {"settle", "complete"} => session.count = 0
    /\ session.pending /\ session.count = 0 => \E t \in Threads : Settles(t)
    /\ disconnecting /\ ~session.pending /\ (\A t \in Threads : ~Ends(t)) =>
         session.count = 0 /\ ~session.socket /\ ~session.notified

-----------------------------------------------------------------------------
(* The life of a client.                                                   *)

DisconnectSteps == CancelSteps \cup {"read", "drop", "settle", "complete"}

Phases ==
    /\ \A t \in Threads : pc[t] \in AppSteps => t = App
    /\ pc[App] = "off" =>
         /\ \A t \in Threads : pc[t] = "off"
         /\ session.count = 0 /\ ~session.pending
         /\ ~session.socket /\ ~session.notified
    /\ pc[App] = "post" =>
         /\ ~disconnecting /\ ~armed /\ jobs = 0 /\ session.count = 0
         /\ \A t \in Threads : t # App => pc[t] \in {"idle", "watch", "wait"}
    /\ destroyed /\ pc[App] # "joinWatchdog" => pc[Watchdog] = "off"
    /\ destroyed /\ pc[App] \notin {"joinWatchdog", "joinScheduler"} =>
         pc[Scheduler] = "off"
    /\ pc[App] \in {"joinWatchdog", "joinScheduler", "await", "stopCore"} =>
         destroyed
    /\ pc[App] \in DisconnectSteps \cup {"await", "stopCore"} => disconnecting
    /\ pc[App] = "stopCore" => session.count = 0

-----------------------------------------------------------------------------
(* What the service was told.                                              *)

Reported ==
    /\ session.notified <=> told \in {"connected", "established"}
    /\ Opening => told = "nothing"
    /\ \A t \in Threads :
         /\ pc[t] = "tell" \/ (pc[t] = "issue" /\ op[t] = "connect") =>
              told = "nothing"
         /\ pc[t] = "issue" /\ op[t] = "send" => told = "connected"
    /\ server = "asked" /\ session.count # 0 => told = "connected"
    /\ io["recv"] = "auth" => server = "accepted" /\ told = "connected"

-----------------------------------------------------------------------------
(* What some steps do, a field of the session at a time.                   *)

(* What follows from an exact count: at 0 nothing is held.                 *)
CountKnown ==
    /\ session.count >= 0
    /\ session.count = 0 =>
         /\ ~session.paused /\ \A o \in Ops : io[o] = "none"
         /\ \A t \in Threads : owes[t] = 0 /\ pc[t] \notin OwingSteps

(* Fields that most steps leave alone.                                     *)
Kept == /\ session'.socket = session.socket /\ session'.pending = session.pending

LEMMA OpNames == "connect" \in Ops /\ "recv" \in Ops /\ "send" \in Ops
  BY DEF Ops

LEMMA CountTypes ==
    ASSUME TypeOK
    PROVE  /\ session.count \in Int /\ session.paused \in BOOLEAN
           /\ pc \in [Threads -> Steps] /\ owes \in [Threads -> Nat]
           /\ io \in [Ops -> Results] /\ "recv" \in Ops
  BY DEF TypeOK, ClientSession, Ops

LEMMA BeginEffect ==
    ASSUME NEW s \in ClientSession, NEW t, NEW to, BeginIO(t, s, to)
    PROVE  /\ session'.socket = s.socket /\ session'.pending = s.pending
           /\ session'.paused = s.paused /\ session'.notified = s.notified
           /\ \/ session'.count = s.count /\ pc' = [pc EXCEPT ![t] = "drop"]
              \/ session'.count = s.count + 1 /\ pc' = [pc EXCEPT ![t] = to]
  BY DEF BeginIO, ClientSession, Goto

LEMMA PostConnectEffect ==
    ASSUME TypeOK, PostConnect
    PROVE  /\ Kept /\ session'.notified = session.notified
           /\ session'.paused = session.paused
           /\ session'.count = session.count + 1 /\ pc[App] = "post"
           /\ \/ /\ io' = [io EXCEPT !["connect"] = "pending"]
                 /\ pc' = [pc EXCEPT ![App] = "running"] /\ owes' = owes
              \/ /\ io' = io /\ pc' = [pc EXCEPT ![App] = "latch"]
                 /\ owes' = [owes EXCEPT ![App] = 1]
           /\ UNCHANGED <<flags, jobs, clock, server, op, told>>
  BY DEF TypeOK, ClientSession, PostConnect, Goto, Kept

LEMMA ConnectEffect ==
    ASSUME TypeOK, NEW t \in Workers, HandleConnect(t)
    PROVE  /\ Kept /\ session'.notified = session.notified
           /\ session'.paused = session.paused
           /\ pc[t] = "idle" /\ io["connect"] = "ok"
           /\ io' = [io EXCEPT !["connect"] = "none"]
           /\ owes' = [owes EXCEPT ![t] = 1] /\ op' = [op EXCEPT ![t] = "connect"]
           /\ \/ /\ session'.count = session.count + 1
                 /\ pc' = [pc EXCEPT ![t] = "issue"]
              \/ /\ session'.count = session.count
                 /\ \E to \in {"drop", "latch"} : pc' = [pc EXCEPT ![t] = to]
           /\ UNCHANGED <<flags, jobs, armed, heard, server, told>>
  <1>. DEFINE s == [session EXCEPT !.state = "connected"]
  <1>1. /\ s \in ClientSession /\ s.socket = session.socket
        /\ s.pending = session.pending /\ s.paused = session.paused
        /\ s.notified = session.notified /\ s.count = session.count
    BY StateNames DEF TypeOK, ClientSession
  <1>2. BeginIO(t, s, "issue") \/ (session' = session /\ Goto(t, "latch"))
    BY DEF HandleConnect
  <1>. HIDE DEF s
  <1>3. /\ Kept /\ session'.notified = session.notified
        /\ session'.paused = session.paused
        /\ \/ /\ session'.count = session.count + 1
              /\ pc' = [pc EXCEPT ![t] = "issue"]
           \/ /\ session'.count = session.count
              /\ \E to \in {"drop", "latch"} : pc' = [pc EXCEPT ![t] = to]
    BY <1>1, <1>2, BeginEffect DEF Goto, Kept
  <1>. QED
    BY <1>3 DEF HandleConnect, Takes

LEMMA TellEffect ==
    ASSUME TypeOK, NEW t \in Workers, TellConnected(t)
    PROVE  /\ Kept /\ session'.notified
           /\ session'.paused = session.paused
           /\ pc[t] = "tell" /\ told' = "connected"
           /\ \/ /\ session'.count = session.count + 1
                 /\ pc' = [pc EXCEPT ![t] = "issue"]
                 /\ op' = [op EXCEPT ![t] = "send"]
              \/ /\ session'.count = session.count
                 /\ \E to \in {"drop", "latch"} : pc' = [pc EXCEPT ![t] = to]
           /\ UNCHANGED <<flags, jobs, clock, io, server, owes>>
  <1>. DEFINE s == [session EXCEPT !.notified = TRUE]
              a == [s EXCEPT !.state = "authPending"]
  <1>1. /\ s \in ClientSession /\ s.socket = session.socket
        /\ s.pending = session.pending /\ s.paused = session.paused
        /\ s.notified /\ s.count = session.count
    BY DEF TypeOK, ClientSession
  <1>2. /\ a \in ClientSession /\ a.socket = s.socket
        /\ a.pending = s.pending /\ a.paused = s.paused
        /\ a.notified = s.notified /\ a.count = s.count
    BY <1>1, StateNames DEF ClientSession
  <1>3. \/ BeginIO(t, a, "issue") /\ op' = [op EXCEPT ![t] = "send"]
        \/ session' = s /\ Goto(t, "latch")
    BY DEF TellConnected
  <1>. HIDE DEF s, a
  <1>4. CASE BeginIO(t, a, "issue") /\ op' = [op EXCEPT ![t] = "send"]
    <2>1. /\ session'.socket = a.socket /\ session'.pending = a.pending
          /\ session'.paused = a.paused /\ session'.notified = a.notified
          /\ \/ session'.count = a.count /\ pc' = [pc EXCEPT ![t] = "drop"]
             \/ session'.count = a.count + 1 /\ pc' = [pc EXCEPT ![t] = "issue"]
      BY <1>2, <1>4, BeginEffect
    <2>2. Kept /\ session'.paused = session.paused
      BY <1>1, <1>2, <2>1 DEF Kept
    <2>3. session'.notified
      BY <1>1, <1>2, <2>1
    <2>. QED
      BY <1>1, <1>2, <1>4, <2>1, <2>2, <2>3 DEF TellConnected
  <1>5. CASE session' = s /\ Goto(t, "latch")
    <2>1. session'.notified
      BY <1>1, <1>5
    <2>. QED
      BY <1>1, <1>5, <2>1 DEF TellConnected, Goto, Kept
  <1>. QED
    BY <1>3, <1>4, <1>5

LEMMA ResumeEffect ==
    ASSUME TypeOK, NEW t \in Workers \cup {Scheduler}, ResumeReceive(t),
           session.paused
    PROVE  /\ Kept /\ session'.notified = session.notified
           /\ ~session'.paused
           /\ pc[t] = "resume"
           /\ owes' = [owes EXCEPT ![t] = owes[t] + 1]
           /\ op' = [op EXCEPT ![t] = "recv"]
           /\ \/ /\ session'.count = session.count + 1
                 /\ pc' = [pc EXCEPT ![t] = "issue"]
              \/ /\ session'.count = session.count
                 /\ pc' = [pc EXCEPT ![t] = "drop"]
           /\ UNCHANGED <<flags, jobs, clock, io, server, told>>
  <1>. DEFINE s == [session EXCEPT !.paused = FALSE]
  <1>1. /\ s \in ClientSession /\ s.socket = session.socket
        /\ s.pending = session.pending /\ ~s.paused
        /\ s.notified = session.notified /\ s.count = session.count
    BY DEF TypeOK, ClientSession
  <1>2. BeginIO(t, s, "issue")
    BY DEF ResumeReceive
  <1>. HIDE DEF s
  <1>3. /\ Kept /\ session'.notified = session.notified
        /\ ~session'.paused
        /\ \/ /\ session'.count = session.count + 1
              /\ pc' = [pc EXCEPT ![t] = "issue"]
           \/ /\ session'.count = session.count
              /\ pc' = [pc EXCEPT ![t] = "drop"]
    BY <1>1, <1>2, BeginEffect DEF Kept
  <1>. QED
    BY <1>3 DEF ResumeReceive, outside

LEMMA ResumeNothing ==
    ASSUME TypeOK, NEW t \in Workers \cup {Scheduler}, ResumeReceive(t),
           ~session.paused
    PROVE  /\ pc[t] = "resume" /\ Leave(t)
           /\ UNCHANGED <<session, op, owes, flags, jobs, clock, io, server, told>>
  BY DEF ResumeReceive, outside

LEMMA KernelEffect ==
    ASSUME Kernel
    PROVE  /\ \E o \in Ops, r \in {"ok", "failed", "auth", "refuse", "data",
                                   "beat", "closed"} :
                /\ io[o] = "pending" /\ io' = [io EXCEPT ![o] = r]
                /\ server' = server \/ server' = "accepted"
                /\ server = "away" => server' = "away"
                /\ o = "recv" /\ r = "auth" =>
                     server = "asked" /\ server' = "accepted"
                /\ ~(o = "recv" /\ r = "auth") => server' = server
           /\ UNCHANGED <<flags, session, jobs, clock, threads, told>>
  BY DEF Kernel, Succeeds, Breaks, Answers, Sends, Closes, Completes, Ops

LEMMA AbortedKeeps ==
    ASSUME TypeOK, io' = Aborted
    PROVE  \A o \in Ops : /\ io'[o] = "none" <=> io[o] = "none"
                          /\ io'[o] = "auth" <=> io[o] = "auth"
  BY DEF TypeOK, Aborted, Pending


(* A thread moves, to where a disconnection sends it.                      *)
Moves(t) ==
    \E to \in {"drop", "idle", "watch", "wait", "await", "running", "cancel",
              "settle", "complete"} :
        /\ pc' = [pc EXCEPT ![t] = to]
        /\ to \in {"await", "running"} => t = App
        /\ to = "await" <=> to \in {"await", "running"} /\ destroyed

LEMMA LeaveMoves ==
    ASSUME TypeOK, NEW t \in Threads
    PROVE  /\ Leave(t) => Moves(t)
           /\ Goto(t, Home(t)) => Moves(t)
  <1>1. Goto(t, Home(t)) => Moves(t)
    BY DEF Moves, Goto, Home, Threads
  <1>2. Goto(t, "drop") => Moves(t)
    BY DEF Moves, Goto
  <1>. QED
    BY <1>1, <1>2 DEF Leave

-----------------------------------------------------------------------------
(* Every step is balanced: the count changes by what a thread owes and has *)
(* begun, what it takes from the kernel or gives to it, and the pause.     *)

Share(t)  == owes[t] + One(pc[t] \in Begins)
Out(o)    == One(io[o] # "none")
PauseHeld == One(session.paused)

Balanced(t, o) ==
    /\ \A u \in Threads : u # t => /\ pc'[u] \in Begins <=> pc[u] \in Begins
                                  /\ owes'[u] = owes[u]
    /\ \A q \in Ops : q # o => (io'[q] = "none" <=> io[q] = "none")
    /\ session'.count - session.count =
         (Share(t)' - Share(t)) + (Out(o)' - Out(o)) + (PauseHeld' - PauseHeld)

BalancedStep == \E t \in Threads, o \in Ops : Balanced(t, o)

(* A step that no share depends on.                                        *)
Quiet ==
    /\ \A t \in Threads : pc'[t] \in Begins <=> pc[t] \in Begins
    /\ owes' = owes
    /\ \A o \in Ops : io'[o] = "none" <=> io[o] = "none"
    /\ session'.count = session.count /\ session'.paused = session.paused

LEMMA QuietBalanced ==
    ASSUME TypeOK, Quiet
    PROVE  BalancedStep
  <1>1. App \in Threads /\ "recv" \in Ops
    BY ThreadNames, OpNames
  <1>2. Share(App)' = Share(App) /\ Share(App) \in Int
    BY <1>1, CountTypes DEF Share, One, Quiet
  <1>3. Out("recv")' = Out("recv") /\ Out("recv") \in Int
    BY <1>1 DEF Out, One, Quiet
  <1>4. PauseHeld' = PauseHeld /\ PauseHeld \in Int
    BY DEF PauseHeld, One, Quiet
  <1>5. session'.count - session.count = 0
    BY CountTypes DEF Quiet
  <1>6. Balanced(App, "recv")
    BY <1>2, <1>3, <1>4, <1>5 DEF Balanced, Quiet
  <1>. QED
    BY <1>1, <1>6 DEF BalancedStep

(* A thread begins an operation, or a pause.                               *)
LEMMA BeginBalanced ==
    ASSUME TypeOK, NEW t \in Threads, pc[t] \notin Begins,
           \/ /\ \E to \in Begins : pc' = [pc EXCEPT ![t] = to]
              /\ session'.count = session.count + 1
           \/ /\ \E to \in Steps \ Begins : pc' = [pc EXCEPT ![t] = to]
              /\ session'.count = session.count,
           owes' = owes, io' = io, session'.paused = session.paused
    PROVE  BalancedStep
  <1>1. Share(t) = owes[t] /\ owes[t] \in Int /\ session.count \in Int
    BY CountTypes DEF Share, One
  <1>2. Out("recv")' = Out("recv") /\ Out("recv") \in Int
    BY DEF Out, One
  <1>3. PauseHeld' = PauseHeld /\ PauseHeld \in Int
    BY DEF PauseHeld, One
  <1>4. session'.count - session.count = Share(t)' - Share(t)
    <2>1. CASE pc'[t] \in Begins
      <3>1. Share(t)' = owes[t] + 1 /\ session'.count = session.count + 1
        BY <2>1, CountTypes DEF Share, One
      <3>. QED
        BY <1>1, <3>1
    <2>2. CASE pc'[t] \notin Begins
      <3>1. Share(t)' = owes[t] + 0 /\ session'.count = session.count
        BY <2>2, CountTypes DEF Share, One
      <3>. QED
        BY <1>1, <3>1
    <2>. QED
      BY <2>1, <2>2
  <1>5. Share(t)' \in Int
    BY <1>1, CountTypes DEF Share, One
  <1>6. Balanced(t, "recv")
    BY <1>1, <1>2, <1>3, <1>4, <1>5, CountTypes DEF Balanced
  <1>. QED
    BY <1>6, OpNames DEF BalancedStep

(* A worker takes what an operation has come to.                           *)
LEMMA TakeBalanced ==
    ASSUME TypeOK, OwesKnown, NEW t \in Workers, NEW o \in Ops, NEW r, r # "none",
           Takes(t, o, r),
           \E to \in Steps \ Begins : pc' = [pc EXCEPT ![t] = to],
           session'.count = session.count, session'.paused = session.paused
    PROVE  BalancedStep
  <1>0. t \in Threads /\ owes[t] = 0 /\ pc[t] = "idle"
    BY ThreadNames DEF OwesKnown, FreeSteps, Takes
  <1>1. Share(t) = 0 /\ Share(t)' = 1
    BY <1>0, CountTypes DEF Share, One, Takes, Begins
  <1>2. Out(o) = 1 /\ Out(o)' = 0
    BY CountTypes DEF Out, One, Takes
  <1>3. PauseHeld' = PauseHeld /\ PauseHeld \in Int
    BY DEF PauseHeld, One
  <1>4. session'.count - session.count = 0
    BY CountTypes
  <1>5. \A u \in Threads : u # t => /\ pc'[u] \in Begins <=> pc[u] \in Begins
                                  /\ owes'[u] = owes[u]
    BY <1>0, CountTypes DEF Takes
  <1>6. \A q \in Ops : q # o => (io'[q] = "none" <=> io[q] = "none")
    BY CountTypes DEF Takes
  <1>7. Balanced(t, o)
    BY <1>1, <1>2, <1>3, <1>4, <1>5, <1>6 DEF Balanced
  <1>. QED
    BY <1>0, <1>7 DEF BalancedStep

LEMMA BalanceApplication ==
    ASSUME TypeOK, TypeOK', AskedOnce, OwesKnown, Phases, CountKnown,
           \/ StartClient
           \/ PostConnect
           \/ StopClient
           \/ JoinWatchdog
           \/ JoinScheduler
           \/ AwaitIOCancel
           \/ RetrySlice
           \/ StopCore
    PROVE  BalancedStep
  <1>. USE ClientAssumption, ThreadNames
       DEF ClientAssumption, Begins
  <1>1. CASE StartClient
    <2>1. /\ pc[App] = "off" /\ owes' = owes
          /\ session'.count = 0 /\ session'.paused = FALSE
          /\ \A o \in Ops : io'[o] = "none"
          /\ \A t \in Threads : pc'[t] \in {"idle", "watch", "wait", "post"}
      BY <1>1 DEF StartClient, NoSession
    <2>2. /\ session.count = 0 /\ session.paused = FALSE
          /\ \A o \in Ops : io[o] = "none"
          /\ \A t \in Threads : pc[t] \notin Begins
      BY <2>1 DEF Phases, CountKnown, OwingSteps, TypeOK, ClientSession
    <2>3. Quiet
      BY <2>1, <2>2 DEF Quiet
    <2>. QED
      BY <2>3, QuietBalanced
  <1>2. CASE PostConnect
    <2>1. /\ pc[App] = "post" /\ io["connect"] = "none" /\ owes[App] = 0
          /\ App \in Threads /\ "connect" \in Ops
      BY <1>2, OpNames DEF PostConnect, AskedOnce, OwesKnown, FreeSteps, AppSteps
    <2>2. PauseHeld' = PauseHeld /\ PauseHeld \in Int
      BY <1>2, PostConnectEffect DEF PauseHeld, One
    <2>3. session'.count - session.count = 1
      BY <1>2, PostConnectEffect, CountTypes
    <2>4. Share(App) = 0 /\ Out("connect") = 0
      BY <2>1 DEF Share, Out, One
    <2>5. \/ Share(App)' = 0 /\ Out("connect")' = 1
          \/ Share(App)' = 1 /\ Out("connect")' = 0
      BY <1>2, <2>1, PostConnectEffect, CountTypes DEF Share, Out, One
    <2>6. Balanced(App, "connect")
      BY <1>2, <2>2, <2>3, <2>4, <2>5, PostConnectEffect, CountTypes DEF Balanced
    <2>. QED
      BY <2>1, <2>6 DEF BalancedStep
  <1>3. CASE StopClient
    <2>1. Quiet
      BY <1>3 DEF StopClient, Goto, Quiet, TypeOK, outside
    <2>. QED
      BY <2>1, QuietBalanced
  <1>4. CASE JoinWatchdog
    <2>1. Quiet
      BY <1>4 DEF JoinWatchdog, Joined, Quiet, TypeOK, outside
    <2>. QED
      BY <2>1, QuietBalanced
  <1>5. CASE JoinScheduler
    <2>1. Quiet
      BY <1>5 DEF JoinScheduler, Joined, Quiet, TypeOK, outside
    <2>. QED
      BY <2>1, QuietBalanced
  <1>6. CASE AwaitIOCancel
    <2>1. Quiet
      BY <1>6 DEF AwaitIOCancel, Goto, Quiet, TypeOK, outside
    <2>. QED
      BY <2>1, QuietBalanced
  <1>7. CASE RetrySlice
    <2>1. owes[App] = 0 /\ pc[App] = "await"
      BY <1>7 DEF RetrySlice, OwesKnown, FreeSteps, AppSteps
    <2>2. CASE /\ session.paused /\ session' = [session EXCEPT !.paused = FALSE]
               /\ owes' = [owes EXCEPT ![App] = 1] /\ Goto(App, "drop")
               /\ UNCHANGED io
      <3>1. PauseHeld' = 0 /\ PauseHeld = 1
        BY <2>2 DEF PauseHeld, One, TypeOK, ClientSession
      <3>2. session'.count - session.count = 0
        BY <2>2 DEF TypeOK, ClientSession
      <3>3. Share(App) = 0 /\ Share(App)' = 1
        BY <2>1, <2>2, CountTypes DEF Share, One, Goto
      <3>4. Out("recv")' = Out("recv") /\ Out("recv") \in Int
        BY <2>2 DEF Out, One
      <3>5. Balanced(App, "recv")
        BY <2>2, <3>1, <3>2, <3>3, <3>4, CountTypes DEF Balanced, Goto
      <3>. QED
        BY <3>5, OpNames DEF BalancedStep
    <2>3. CASE ReissueCancelIo /\ UNCHANGED <<session, owes, pc>>
      <3>1. Quiet
        BY <2>3, AbortedKeeps DEF ReissueCancelIo, Quiet
      <3>. QED
        BY <3>1, QuietBalanced
    <2>. QED
      BY <1>7, <2>2, <2>3 DEF RetrySlice
  <1>8. CASE StopCore
    <2>1. \A t \in Threads : pc[t] \notin Begins /\ pc'[t] \notin Begins
      BY <1>8 DEF StopCore, Phases, Threads
    <2>2. Quiet
      BY <1>8, <2>1 DEF StopCore, Quiet, outside
    <2>. QED
      BY <2>2, QuietBalanced
  <1>. QED
    BY <1>1, <1>2, <1>3, <1>4, <1>5, <1>6, <1>7, <1>8

LEMMA BalanceKernel ==
    ASSUME TypeOK, Kernel
    PROVE  BalancedStep
  <1>1. Quiet
    BY KernelEffect DEF Quiet, TypeOK, threads
  <1>. QED
    BY <1>1, QuietBalanced

LEMMA BalanceDisconnect ==
    ASSUME TypeOK, OwesKnown, NEW t \in Threads,
           \/ EnterDisconnect(t)
           \/ SetCancel(t)
           \/ CancelIO(t)
           \/ ReleaseUnpostedIO(t)
           \/ Reserve(t)
           \/ ReadCount(t)
           \/ DecrementIO(t)
           \/ Settle(t)
           \/ CompleteDisconnect(t)
    PROVE  BalancedStep
  <1>1. CASE \/ EnterDisconnect(t) \/ SetCancel(t) \/ Reserve(t) \/ ReadCount(t)
             \/ Settle(t) \/ CompleteDisconnect(t)
    <2>1. owes' = owes /\ io' = io /\ pc[t] \notin Begins
      BY <1>1 DEF EnterDisconnect, SetCancel, Reserve, ReadCount, Settle,
         CompleteDisconnect, outside, Begins
    <2>2. session'.count = session.count /\ session'.paused = session.paused
      BY <1>1 DEF EnterDisconnect, SetCancel, Reserve, ReadCount, Settle,
         CompleteDisconnect, TypeOK, ClientSession
    <2>3. \E to \in Steps \ Begins : pc' = [pc EXCEPT ![t] = to]
      BY <1>1, Names DEF EnterDisconnect, SetCancel, Reserve, ReadCount, Settle,
         CompleteDisconnect, Leave, Home, Goto, Begins
    <2>4. Quiet
      BY <2>1, <2>2, <2>3, CountTypes DEF Quiet
    <2>. QED
      BY <2>4, QuietBalanced
  <1>2. CASE CancelIO(t)
    <2>1. Quiet
      BY <1>2, AbortedKeeps, CountTypes DEF CancelIO, Goto, Quiet, Begins
    <2>. QED
      BY <2>1, QuietBalanced
  <1>3. CASE ReleaseUnpostedIO(t)
    <2>1. Share(t)' = Share(t) /\ Share(t) \in Int
      BY <1>3, CountTypes DEF ReleaseUnpostedIO, Goto, Share, One, Begins
    <2>2. Out("recv")' = Out("recv") /\ Out("recv") \in Int
      BY <1>3 DEF ReleaseUnpostedIO, outside, Out, One
    <2>3. /\ PauseHeld' = 0 /\ PauseHeld = IF session.paused THEN 1 ELSE 0
          /\ session'.count = session.count - (IF session.paused THEN 1 ELSE 0)
      BY <1>3 DEF ReleaseUnpostedIO, PauseHeld, One, TypeOK, ClientSession
    <2>4. session'.count - session.count = PauseHeld' - PauseHeld
      BY <2>3, CountTypes
    <2>5. PauseHeld' - PauseHeld \in Int
      BY <2>3
    <2>6. \A u \in Threads : u # t => /\ pc'[u] \in Begins <=> pc[u] \in Begins
                                      /\ owes'[u] = owes[u]
      BY <1>3, CountTypes DEF ReleaseUnpostedIO, Goto
    <2>7. Balanced(t, "recv")
      BY <1>3, <2>1, <2>2, <2>4, <2>5, <2>6 DEF Balanced, ReleaseUnpostedIO, outside
    <2>. QED
      BY <2>7, OpNames DEF BalancedStep
  <1>4. CASE DecrementIO(t)
    <2>1. Share(t) = owes[t] /\ owes[t] \in Int /\ Share(t)' = 0
      BY <1>4, CountTypes DEF DecrementIO, Home, Goto, Share, One, Begins
    <2>2. Out("recv")' = Out("recv") /\ Out("recv") \in Int
      BY <1>4 DEF DecrementIO, outside, Out, One
    <2>3. PauseHeld' = PauseHeld /\ PauseHeld \in Int
      BY <1>4 DEF DecrementIO, PauseHeld, One, TypeOK, ClientSession
    <2>4. session'.count = session.count - owes[t]
      BY <1>4 DEF DecrementIO, TypeOK, ClientSession
    <2>5. session'.count - session.count = Share(t)' - Share(t)
      BY <2>1, <2>4, CountTypes
    <2>6. \A u \in Threads : u # t => /\ pc'[u] \in Begins <=> pc[u] \in Begins
                                      /\ owes'[u] = owes[u]
      BY <1>4, CountTypes DEF DecrementIO, Home, Goto
    <2>7. Balanced(t, "recv")
      BY <1>4, <2>1, <2>2, <2>3, <2>5, <2>6 DEF Balanced, DecrementIO, outside
    <2>. QED
      BY <2>7, OpNames DEF BalancedStep
  <1>. QED
    BY <1>1, <1>2, <1>3, <1>4

LEMMA BalancePost ==
    ASSUME TypeOK, IssueKnown, AskedOnce, OneReceive, SentOnce,
           NEW t \in Workers \cup {Scheduler},
           \/ Issue(t)
           \/ ResumeReceive(t)
    PROVE  BalancedStep
  <1>0. t \in Threads
    BY ThreadNames
  <1>1. CASE Issue(t)
    <2>1. session' = session /\ pc[t] = "issue"
      BY <1>1 DEF Issue, IssueSucceeds, IssueFails
    <2>2. PauseHeld' = PauseHeld /\ PauseHeld \in Int
      BY <2>1 DEF PauseHeld, One
    <2>3. session'.count - session.count = 0
      BY <2>1, CountTypes
    <2>4. Share(t) = owes[t] + 1 /\ owes[t] \in Int
      BY <1>0, <2>1, CountTypes DEF Share, One, Begins
    <2>5. CASE IssueFails(t)
      <3>1. Share(t)' = owes[t] + 1 + 0
        BY <1>0, <2>5, CountTypes DEF IssueFails, Goto, Share, One, Begins
      <3>2. Out("recv")' = Out("recv") /\ Out("recv") \in Int
        BY <2>5 DEF IssueFails, Out, One
      <3>3. \A u \in Threads : u # t => /\ pc'[u] \in Begins <=> pc[u] \in Begins
                                        /\ owes'[u] = owes[u]
        BY <1>0, <2>5, CountTypes DEF IssueFails, Goto
      <3>4. Balanced(t, "recv")
        BY <2>2, <2>3, <2>4, <2>5, <3>1, <3>2, <3>3 DEF Balanced, IssueFails
      <3>. QED
        BY <1>0, <3>4, OpNames DEF BalancedStep
    <2>6. CASE IssueSucceeds(t)
      <3>1. \E o \in Ops : io[o] = "none" /\ io' = [io EXCEPT ![o] = "pending"]
        <4>. DEFINE p == IF op[t] = "send" THEN "send" ELSE "recv"
        <4>1. p \in Ops /\ io[p] = "none"
          BY <1>0, <2>1, OpNames DEF IssueKnown, AskedOnce, Asking, SentOnce,
             OneReceive, Listening, TypeOK, Ops
        <4>2. io' = [io EXCEPT ![p] = "pending"]
          BY <2>6 DEF IssueSucceeds
        <4>. HIDE DEF p
        <4>. QED
          BY <4>1, <4>2
      <3>2. owes' = owes /\ \E to \in Steps \ Begins : pc' = [pc EXCEPT ![t] = to]
        <4>1. \E to \in Steps \ Begins : Goto(t, to)
          BY <2>6, Names DEF IssueSucceeds, Leave, Home, Begins
        <4>. QED
          BY <2>6, <4>1 DEF IssueSucceeds, Goto
      <3>. PICK o \in Ops : io[o] = "none" /\ io' = [io EXCEPT ![o] = "pending"]
        BY <3>1
      <3>3. Share(t)' = owes[t] + 0
        BY <1>0, <3>2, CountTypes DEF Share, One
      <3>4. Out(o)' = 1 /\ Out(o) = 0
        BY CountTypes DEF Out, One
      <3>5. \A u \in Threads : u # t => /\ pc'[u] \in Begins <=> pc[u] \in Begins
                                        /\ owes'[u] = owes[u]
        BY <1>0, <3>2, CountTypes
      <3>6. \A q \in Ops : q # o => (io'[q] = "none" <=> io[q] = "none")
        BY CountTypes
      <3>7. Balanced(t, o)
        BY <2>2, <2>3, <2>4, <3>3, <3>4, <3>5, <3>6 DEF Balanced
      <3>. QED
        BY <1>0, <3>7 DEF BalancedStep
    <2>. QED
      BY <1>1, <2>5, <2>6 DEF Issue
  <1>2. CASE ResumeReceive(t) /\ session.paused
    <2>1. PauseHeld' = 0 /\ PauseHeld = 1
      BY <1>2, ResumeEffect DEF PauseHeld, One
    <2>2. Share(t) = owes[t] /\ owes[t] \in Int
      BY <1>0, <1>2, ResumeEffect, CountTypes DEF Share, One, Begins
    <2>3. \/ Share(t)' = owes[t] + 1 + 1 /\ session'.count = session.count + 1
          \/ Share(t)' = owes[t] + 1 + 0 /\ session'.count = session.count
      BY <1>0, <1>2, ResumeEffect, CountTypes DEF Share, One, Begins
    <2>4. Out("recv")' = Out("recv") /\ Out("recv") \in Int
      BY <1>2, ResumeEffect DEF Out, One
    <2>5. \A u \in Threads : u # t => /\ pc'[u] \in Begins <=> pc[u] \in Begins
                                      /\ owes'[u] = owes[u]
      BY <1>0, <1>2, ResumeEffect, CountTypes
    <2>6. io' = io /\ session.count \in Int
      BY <1>2, ResumeEffect, CountTypes
    <2>7. Balanced(t, "recv")
      BY <2>1, <2>2, <2>3, <2>4, <2>5, <2>6 DEF Balanced
    <2>. QED
      BY <1>0, <2>7, OpNames DEF BalancedStep
  <1>3. CASE ResumeReceive(t) /\ ~session.paused
    <2>1. \E to \in Steps \ Begins : Goto(t, to)
      BY <1>3, ResumeNothing, Names DEF Leave, Home, Begins
    <2>2. UNCHANGED <<session, io, owes>> /\ pc[t] = "resume"
      BY <1>3, ResumeNothing
    <2>3. Quiet
      BY <1>0, <2>1, <2>2, CountTypes DEF Quiet, Goto, Begins
    <2>. QED
      BY <2>3, QuietBalanced
  <1>. QED
    BY <1>1, <1>2, <1>3

LEMMA BalanceWorker ==
    ASSUME TypeOK, TypeOK', OneReceive, OwesKnown, NEW t \in Workers,
           \/ HandleConnect(t)
           \/ TellConnected(t)
           \/ HandleConnectCancelled(t)
           \/ HandleDone(t)
           \/ HandleAuth(t)
           \/ HandleRefuse(t)
           \/ HandleBeat(t)
           \/ HandleData(t)
           \/ HandleClose(t)
           \/ Repost(t)
           \/ Pause(t)
           \/ Recheck(t)
    PROVE  BalancedStep
  <1>0. t \in Threads
    BY ThreadNames
  <1>1. CASE HandleConnect(t)
    <2>1. Share(t) = 0 /\ session.count \in Int
      BY <1>0, <1>1, ConnectEffect, CountTypes
      DEF Share, One, Begins, OwesKnown, FreeSteps
    <2>2. Out("connect") = 1 /\ Out("connect")' = 0
      BY <1>1, ConnectEffect, CountTypes, OpNames DEF Out, One
    <2>3. PauseHeld' = PauseHeld /\ PauseHeld \in Int
      BY <1>1, ConnectEffect DEF PauseHeld, One
    <2>4. \/ Share(t)' = 2 /\ session'.count = session.count + 1
          \/ Share(t)' = 1 /\ session'.count = session.count
      BY <1>0, <1>1, ConnectEffect, CountTypes DEF Share, One, Begins
    <2>5. \A u \in Threads : u # t => /\ pc'[u] \in Begins <=> pc[u] \in Begins
                                      /\ owes'[u] = owes[u]
      BY <1>0, <1>1, ConnectEffect, CountTypes
    <2>6. \A q \in Ops : q # "connect" => (io'[q] = "none" <=> io[q] = "none")
      BY <1>1, ConnectEffect, CountTypes
    <2>7. Balanced(t, "connect")
      BY <2>1, <2>2, <2>3, <2>4, <2>5, <2>6 DEF Balanced
    <2>. QED
      BY <1>0, <2>7, OpNames DEF BalancedStep
  <1>2. CASE TellConnected(t)
    <2>1. \/ /\ \E to \in Begins : pc' = [pc EXCEPT ![t] = to]
             /\ session'.count = session.count + 1
          \/ /\ \E to \in Steps \ Begins : pc' = [pc EXCEPT ![t] = to]
             /\ session'.count = session.count
      BY <1>2, TellEffect, Names DEF Begins
    <2>2. pc[t] \notin Begins
      BY <1>2, TellEffect DEF Begins
    <2>3. owes' = owes /\ io' = io /\ session'.paused = session.paused
      BY <1>2, TellEffect
    <2>. QED
      BY <1>0, <2>1, <2>2, <2>3, BeginBalanced
  <1>3. CASE HandleConnectCancelled(t)
    <2>1. \E to \in Steps \ Begins : pc' = [pc EXCEPT ![t] = to]
      BY <1>3, Names DEF HandleConnectCancelled, ReportFailure, Goto, Begins
    <2>2. session'.count = session.count /\ session'.paused = session.paused
      BY <1>3 DEF HandleConnectCancelled, ReportFailure, Goto, TypeOK, ClientSession
    <2>3. \E r \in {"failed", "aborted"} : Takes(t, "connect", r)
      BY <1>3, OpNames DEF HandleConnectCancelled
    <2>. QED
      BY <2>1, <2>2, <2>3, TakeBalanced, OpNames
  <1>4. CASE HandleDone(t)
    <2>1. \E to \in Steps \ Begins : pc' = [pc EXCEPT ![t] = to]
      BY <1>4, Names DEF HandleDone, Goto, Begins
    <2>2. session'.count = session.count /\ session'.paused = session.paused
      BY <1>4 DEF HandleDone, Goto, TypeOK, ClientSession
    <2>3. \E o \in Ops, r \in {"ok", "aborted"} : Takes(t, o, r)
      BY <1>4, OpNames DEF HandleDone
    <2>. QED
      BY <2>1, <2>2, <2>3, TakeBalanced, OpNames
  <1>5. CASE HandleAuth(t)
    <2>1. \E to \in Steps \ Begins : pc' = [pc EXCEPT ![t] = to]
      BY <1>5, Names DEF HandleAuth, Goto, Begins
    <2>2. session'.count = session.count /\ session'.paused = session.paused
      BY <1>5 DEF HandleAuth, Goto, TypeOK, ClientSession
    <2>3. Takes(t, "recv", "auth")
      BY <1>5, OpNames DEF HandleAuth
    <2>. QED
      BY <2>1, <2>2, <2>3, TakeBalanced, OpNames
  <1>6. CASE HandleRefuse(t)
    <2>1. \E to \in Steps \ Begins : pc' = [pc EXCEPT ![t] = to]
      BY <1>6, Names DEF HandleRefuse, Drops, Goto, Begins
    <2>2. session'.count = session.count /\ session'.paused = session.paused
      BY <1>6 DEF HandleRefuse, Drops, Goto, TypeOK, ClientSession
    <2>3. Takes(t, "recv", "refuse")
      BY <1>6, OpNames DEF HandleRefuse
    <2>. QED
      BY <2>1, <2>2, <2>3, TakeBalanced, OpNames
  <1>7. CASE HandleBeat(t)
    <2>1. \E to \in Steps \ Begins : pc' = [pc EXCEPT ![t] = to]
      BY <1>7, Names DEF HandleBeat, Drops, Goto, Begins
    <2>2. session'.count = session.count /\ session'.paused = session.paused
      BY <1>7 DEF HandleBeat, Drops, Goto, TypeOK, ClientSession
    <2>3. Takes(t, "recv", "beat")
      BY <1>7, OpNames DEF HandleBeat
    <2>. QED
      BY <2>1, <2>2, <2>3, TakeBalanced, OpNames
  <1>8. CASE HandleData(t)
    <2>1. \E to \in Steps \ Begins : pc' = [pc EXCEPT ![t] = to]
      BY <1>8, Names DEF HandleData, Drops, Goto, Begins
    <2>2. session'.count = session.count /\ session'.paused = session.paused
      BY <1>8 DEF HandleData, Drops, Goto, TypeOK, ClientSession
    <2>3. Takes(t, "recv", "data")
      BY <1>8, OpNames DEF HandleData
    <2>. QED
      BY <2>1, <2>2, <2>3, TakeBalanced, OpNames
  <1>9. CASE HandleClose(t)
    <2>1. \E to \in Steps \ Begins : pc' = [pc EXCEPT ![t] = to]
      BY <1>9, Names DEF HandleClose, Drops, Goto, Begins
    <2>2. session'.count = session.count /\ session'.paused = session.paused
      BY <1>9 DEF HandleClose, Drops, Goto, TypeOK, ClientSession
    <2>3. \E o \in Ops, r \in {"closed", "failed"} : Takes(t, o, r)
      BY <1>9, OpNames DEF HandleClose
    <2>. QED
      BY <2>1, <2>2, <2>3, TakeBalanced, OpNames
  <1>10. CASE Repost(t)
    <2>1. \/ BeginIO(t, session, "issue") \/ BeginIO(t, session, "pause")
          \/ session' = session /\ Leave(t)
      BY <1>10 DEF Repost
    <2>2. session \in ClientSession
      BY DEF TypeOK
    <2>3. session'.paused = session.paused
      BY <2>1, <2>2, BeginEffect
    <2>4. \/ /\ \E to \in Begins : pc' = [pc EXCEPT ![t] = to]
             /\ session'.count = session.count + 1
          \/ /\ \E to \in Steps \ Begins : pc' = [pc EXCEPT ![t] = to]
             /\ session'.count = session.count
      <3>1. CASE BeginIO(t, session, "issue") \/ BeginIO(t, session, "pause")
        BY <2>2, <3>1, BeginEffect, Names DEF Begins
      <3>2. CASE session' = session /\ Leave(t)
        <4>1. \E to \in Steps \ Begins : Goto(t, to)
          BY <3>2, Names DEF Leave, Home, Begins
        <4>. QED
          BY <3>2, <4>1 DEF Goto
      <3>. QED
        BY <2>1, <3>1, <3>2
    <2>5. pc[t] \notin Begins /\ owes' = owes /\ io' = io
      BY <1>10 DEF Repost, outside, Begins
    <2>. QED
      BY <1>0, <2>3, <2>4, <2>5, BeginBalanced
  <1>11. CASE Pause(t)
    <2>1. ~session.paused
      BY <1>0, <1>11 DEF Pause, OneReceive, Listening
    <2>2. PauseHeld = 0 /\ PauseHeld' = 1
      BY <1>11, <2>1 DEF Pause, PauseHeld, One, TypeOK, ClientSession
    <2>3. session'.count - session.count = 0
      BY <1>11 DEF Pause, TypeOK, ClientSession
    <2>4. Share(t) = owes[t] + 1 /\ Share(t)' = owes[t] + 0 /\ owes[t] \in Int
      BY <1>0, <1>11, CountTypes DEF Pause, Goto, Share, One, Begins
    <2>5. Out("recv")' = Out("recv") /\ Out("recv") \in Int
      BY <1>11 DEF Pause, outside, Out, One
    <2>6. \A u \in Threads : u # t => /\ pc'[u] \in Begins <=> pc[u] \in Begins
                                      /\ owes'[u] = owes[u]
      BY <1>0, <1>11, CountTypes DEF Pause, Goto
    <2>7. Balanced(t, "recv")
      BY <1>11, <2>2, <2>3, <2>4, <2>5, <2>6 DEF Balanced, Pause, outside
    <2>. QED
      BY <1>0, <2>7, OpNames DEF BalancedStep
  <1>12. CASE Recheck(t)
    <2>1. \E to \in Steps \ Begins : Goto(t, to)
      BY <1>12, Names DEF Recheck, Leave, Home, Begins
    <2>2. UNCHANGED <<session, io, owes>> /\ pc[t] = "recheck"
      BY <1>12 DEF Recheck, outside
    <2>3. Quiet
      BY <1>0, <2>1, <2>2, CountTypes DEF Quiet, Goto, Begins
    <2>. QED
      BY <2>3, QuietBalanced
  <1>. QED
    BY <1>1, <1>2, <1>3, <1>4, <1>5, <1>6, <1>7, <1>8, <1>9, <1>10, <1>11, <1>12

LEMMA BalanceOther ==
    ASSUME TypeOK,
           \/ WaitDequeueJob(Scheduler)
           \/ ResumeReceiveIfDrained(Scheduler)
           \/ Tick
           \/ Look
    PROVE  BalancedStep
  <1>1. UNCHANGED <<session, io, owes>>
    BY DEF WaitDequeueJob, ResumeReceiveIfDrained, Tick, Look, Drops, outside
  <1>2. CASE WaitDequeueJob(Scheduler) \/ ResumeReceiveIfDrained(Scheduler)
    <2>1. /\ pc[Scheduler] \notin Begins
          /\ \E to \in Steps \ Begins : Goto(Scheduler, to)
      BY <1>2, Names
      DEF WaitDequeueJob, ResumeReceiveIfDrained, Home, Begins
    <2>. QED
      BY <1>1, <2>1, ThreadNames, CountTypes, QuietBalanced DEF Quiet, Goto
  <1>3. CASE Tick \/ Look
    <2>1. /\ pc[Watchdog] \notin Begins
          /\ \E to \in Steps \ Begins : Goto(Watchdog, to)
      BY <1>3, Names DEF Tick, Look, Drops, Begins
    <2>. QED
      BY <1>1, <2>1, ThreadNames, CountTypes, QuietBalanced DEF Quiet, Goto
  <1>. QED
    BY <1>2, <1>3

-----------------------------------------------------------------------------
(* What a balanced step keeps.                                             *)

(* The debts of one thread are as many as it owes.                         *)
LEMMA ShareOf ==
    ASSUME NEW t, NEW n \in Nat
    PROVE  IsFiniteSet({t} \X (1 .. n)) /\ Cardinality({t} \X (1 .. n)) = n
  <1>. DEFINE f == [i \in 1 .. n |-> <<t, i>>]
  <1>1. f \in Bijection(1 .. n, {t} \X (1 .. n))
    <2>1. f \in [1 .. n -> {t} \X (1 .. n)]
      OBVIOUS
    <2>2. \A i, j \in 1 .. n : f[i] = f[j] => i = j
      OBVIOUS
    <2>3. \A p \in {t} \X (1 .. n) : \E i \in 1 .. n : f[i] = p
      OBVIOUS
    <2>. QED
      BY <2>1, <2>2, <2>3, Fun_IsBij
  <1>2. ExistsBijection(1 .. n, {t} \X (1 .. n))
    BY <1>1 DEF ExistsBijection
  <1>3. IsFiniteSet(1 .. n) /\ Cardinality(1 .. n) = n
    BY FS_Interval
  <1>. QED
    BY <1>2, <1>3, FS_Bijection

(* Two sets that differ in one element at most.                            *)
LEMMA OneMember ==
    ASSUME NEW S, NEW T, IsFiniteSet(S), NEW x, S \ {x} = T \ {x}
    PROVE  /\ IsFiniteSet(T)
           /\ Cardinality(T) = Cardinality(S) + One(x \in T) - One(x \in S)
  <1>. DEFINE R == S \ {x}
  <1>1. IsFiniteSet(R) /\ Cardinality(S) = Cardinality(R) + One(x \in S)
    <2>1. IsFiniteSet(R) /\ Cardinality(S) \in Int
      BY FS_RemoveElement, FS_CardinalityType
    <2>2. x \in S => Cardinality(R) = Cardinality(S) - 1
      BY FS_RemoveElement
    <2>3. x \notin S => Cardinality(R) = Cardinality(S)
      BY FS_RemoveElement
    <2>. QED
      BY <2>1, <2>2, <2>3 DEF One
  <1>2. IsFiniteSet(T) /\ Cardinality(T) = Cardinality(R) + One(x \in T)
    <2>1. CASE x \in T
      <3>1. T = R \cup {x} /\ x \notin R
        BY <2>1
      <3>2. IsFiniteSet(T) /\ Cardinality(T) = Cardinality(R) + 1
        BY <1>1, <3>1, FS_AddElement
      <3>. QED
        BY <2>1, <3>2 DEF One
    <2>2. CASE x \notin T
      <3>1. T = R
        BY <2>2
      <3>2. Cardinality(R) \in Int
        BY <1>1, FS_CardinalityType
      <3>. QED
        BY <1>1, <2>2, <3>1, <3>2 DEF One
    <2>. QED
      BY <2>1, <2>2
  <1>3. Cardinality(R) \in Int /\ One(x \in S) \in Int /\ One(x \in T) \in Int
    BY <1>1, FS_CardinalityType DEF One
  <1>. QED
    BY <1>1, <1>2, <1>3

(* The sets that the count is made of are finite.                          *)
LEMMA ThreeAreFinite ==
    ASSUME NEW a, NEW b, NEW c
    PROVE  IsFiniteSet({a, b, c})
  <1>1. IsFiniteSet({a})
    BY FS_Singleton
  <1>2. IsFiniteSet({a} \cup {b})
    BY <1>1, FS_AddElement
  <1>3. IsFiniteSet(({a} \cup {b}) \cup {c})
    BY <1>2, FS_AddElement
  <1>4. {a, b, c} = ({a} \cup {b}) \cup {c}
    OBVIOUS
  <1>. QED
    BY <1>3, <1>4

LEMMA AreFinite ==
    /\ IsFiniteSet(Threads) /\ IsFiniteSet(Ops)
    /\ IsFiniteSet(Begun) /\ IsFiniteSet(Posted)
  <1>1. IsFiniteSet({App, Watchdog, Scheduler})
    BY ThreeAreFinite
  <1>2. IsFiniteSet(Threads)
    BY <1>1, FS_Union, ClientAssumption DEF ClientAssumption, Threads
  <1>3. IsFiniteSet({"connect", "recv", "send"})
    BY ThreeAreFinite
  <1>4. IsFiniteSet(Ops)
    BY <1>3 DEF Ops
  <1>. QED
    BY <1>2, <1>4, FS_Subset DEF Begun, Posted

(* A step that changes what one thread owes.                               *)
LEMMA DebtsChange ==
    ASSUME TypeOK, TypeOK', IsFiniteSet(Debts), NEW t \in Threads,
           \A u \in Threads : u # t => owes'[u] = owes[u]
    PROVE  /\ IsFiniteSet(Debts')
           /\ Cardinality(Debts') = Cardinality(Debts) + owes'[t] - owes[t]
  <1>. DEFINE R == UNION {{u} \X (1 .. owes[u]) : u \in Threads \ {t}}
              S == {t} \X (1 .. owes[t])
              T == {t} \X (1 .. owes'[t])
  <1>1. owes[t] \in Nat /\ owes'[t] \in Nat
    BY DEF TypeOK
  <1>2. Debts = R \cup S /\ R \cap S = {}
    BY DEF Debts
  <1>3. Debts' = R \cup T /\ R \cap T = {}
    <2>1. R = UNION {{u} \X (1 .. owes'[u]) : u \in Threads \ {t}}
      OBVIOUS
    <2>2. Debts' = UNION {{u} \X (1 .. owes'[u]) : u \in Threads}
      BY DEF Debts
    <2>. QED
      BY <2>1, <2>2
  <1>4. IsFiniteSet(S) /\ Cardinality(S) = owes[t]
    BY <1>1, ShareOf
  <1>5. IsFiniteSet(T) /\ Cardinality(T) = owes'[t]
    BY <1>1, ShareOf
  <1>6. IsFiniteSet(R)
    BY <1>2, FS_Subset
  <1>. HIDE DEF R, S, T
  <1>7. Cardinality({}) = 0
    BY FS_EmptySet
  <1>8. Cardinality(Debts) = Cardinality(R) + owes[t] - 0
    BY <1>2, <1>4, <1>6, <1>7, FS_Union
  <1>9. IsFiniteSet(Debts') /\ Cardinality(Debts') = Cardinality(R) + owes'[t] - 0
    BY <1>3, <1>5, <1>6, <1>7, FS_Union
  <1>10. Cardinality(R) \in Int
    BY <1>6, FS_CardinalityType
  <1>. QED
    BY <1>1, <1>8, <1>9, <1>10

(* The count stays exact in a balanced step.                               *)
LEMMA CountedStep ==
    ASSUME TypeOK, TypeOK', Counted, BalancedStep
    PROVE  Counted'
  <1>. PICK t \in Threads, o \in Ops : Balanced(t, o)
    BY DEF BalancedStep
  <1>1. /\ IsFiniteSet(Debts')
        /\ Cardinality(Debts') = Cardinality(Debts) + owes'[t] - owes[t]
    BY DebtsChange DEF Balanced, Counted
  <1>2. Cardinality(Begun') = Cardinality(Begun) + One(pc'[t] \in Begins)
                              - One(pc[t] \in Begins)
    <2>1. Begun \ {t} = Begun' \ {t}
      BY DEF Balanced, Begun
    <2>2. t \in Begun <=> pc[t] \in Begins
      BY DEF Begun
    <2>3. t \in Begun' <=> pc'[t] \in Begins
      BY DEF Begun
    <2>4. Cardinality(Begun') = Cardinality(Begun) + One(t \in Begun')
                                - One(t \in Begun)
      BY <2>1, AreFinite, OneMember
    <2>. QED
      BY <2>2, <2>3, <2>4 DEF One
  <1>3. Cardinality(Posted') = Cardinality(Posted) + One(io'[o] # "none")
                               - One(io[o] # "none")
    <2>1. Posted \ {o} = Posted' \ {o}
      BY DEF Balanced, Posted
    <2>2. o \in Posted <=> io[o] # "none"
      BY DEF Posted
    <2>3. o \in Posted' <=> io'[o] # "none"
      BY DEF Posted
    <2>4. Cardinality(Posted') = Cardinality(Posted) + One(o \in Posted')
                                 - One(o \in Posted)
      BY <2>1, AreFinite, OneMember
    <2>. QED
      BY <2>2, <2>3, <2>4 DEF One
  <1>4. /\ Cardinality(Debts) \in Int /\ Cardinality(Begun) \in Int
        /\ Cardinality(Posted) \in Int
    BY AreFinite, FS_CardinalityType DEF Counted
  <1>5. /\ owes[t] \in Int /\ owes'[t] \in Int
        /\ session.count \in Int /\ session'.count \in Int
    BY DEF TypeOK, ClientSession
  <1>6. /\ One(pc[t] \in Begins) \in Int /\ One(pc'[t] \in Begins) \in Int
        /\ One(io[o] # "none") \in Int /\ One(io'[o] # "none") \in Int
        /\ One(session.paused) \in Int /\ One(session'.paused) \in Int
    BY DEF One
  <1>7. session'.count - session.count =
          ((owes'[t] + One(pc'[t] \in Begins)) - (owes[t] + One(pc[t] \in Begins)))
          + (One(io'[o] # "none") - One(io[o] # "none"))
          + (One(session'.paused) - One(session.paused))
    BY DEF Balanced, Share, Out, PauseHeld
  <1>8. session.count = Cardinality(Posted) + Cardinality(Debts)
                        + Cardinality(Begun) + One(session.paused)
    BY DEF Counted
  <1>. DEFINE a == One(pc[t] \in Begins)     b == One(pc'[t] \in Begins)
              c == One(io[o] # "none")       d == One(io'[o] # "none")
              e == One(session.paused)       f == One(session'.paused)
              k == session.count             l == session'.count
              x == owes[t]                   y == owes'[t]
              P == Cardinality(Posted)       Q == Cardinality(Posted')
              D == Cardinality(Debts)        E == Cardinality(Debts')
              B == Cardinality(Begun)        C == Cardinality(Begun')
  <1>9. /\ a \in Int /\ b \in Int /\ c \in Int /\ d \in Int /\ e \in Int /\ f \in Int
        /\ k \in Int /\ l \in Int /\ x \in Int /\ y \in Int
        /\ P \in Int /\ D \in Int /\ B \in Int
        /\ E = D + y - x /\ C = B + b - a /\ Q = P + d - c
        /\ l - k = ((y + b) - (x + a)) + (d - c) + (f - e)
        /\ k = P + D + B + e
    BY <1>1, <1>2, <1>3, <1>4, <1>5, <1>6, <1>7, <1>8
  <1>. HIDE DEF a, b, c, d, e, f, k, l, x, y, P, Q, D, E, B, C
  <1>10. l = Q + E + C + f
    BY <1>9
  <1>11. session'.count = Cardinality(Posted') + Cardinality(Debts')
                          + Cardinality(Begun') + One(session'.paused)
    BY <1>10 DEF l, Q, E, C, f
  <1>. QED
    BY <1>1, <1>11 DEF Counted

LEMMA CountIsKnown ==
    ASSUME TypeOK, Counted, OwesKnown
    PROVE  CountKnown
  <1>1. /\ Cardinality(Debts) \in Nat /\ Cardinality(Begun) \in Nat
        /\ Cardinality(Posted) \in Nat /\ One(session.paused) \in Nat
    BY AreFinite, FS_CardinalityType DEF Counted, One
  <1>2. session.count >= 0
    BY <1>1 DEF Counted
  <1>3. ASSUME session.count = 0
        PROVE  /\ ~session.paused /\ \A o \in Ops : io[o] = "none"
               /\ \A t \in Threads : owes[t] = 0 /\ pc[t] \notin OwingSteps
    <2>1. /\ Cardinality(Debts) = 0 /\ Cardinality(Posted) = 0
          /\ One(session.paused) = 0
      BY <1>1, <1>3 DEF Counted
    <2>2. Debts = {} /\ Posted = {}
      BY <2>1, AreFinite, FS_EmptySet DEF Counted
    <2>3. ~session.paused
      BY <2>1 DEF One
    <2>4. \A o \in Ops : io[o] = "none"
      BY <2>2 DEF Posted
    <2>5. ASSUME NEW t \in Threads
          PROVE  owes[t] = 0
      <3>1. owes[t] \in Nat
        BY DEF TypeOK
      <3>2. owes[t] > 0 => <<t, 1>> \in {t} \X (1 .. owes[t])
        BY <3>1
      <3>3. {t} \X (1 .. owes[t]) = {}
        BY <2>2 DEF Debts
      <3>. QED
        BY <3>1, <3>2, <3>3
    <2>. QED
      BY <2>3, <2>4, <2>5 DEF OwesKnown
  <1>. QED
    BY <1>2, <1>3 DEF CountKnown

-----------------------------------------------------------------------------
(* What a thread owes, step by step.                                       *)
LEMMA OwesApplication ==
    ASSUME TypeOK, TypeOK', AskedOnce, IssueKnown, OneReceive, OwesKnown,
           SentOnce, Phases, CountKnown,
           \/ StartClient
           \/ PostConnect
           \/ StopClient
           \/ JoinWatchdog
           \/ JoinScheduler
           \/ AwaitIOCancel
           \/ RetrySlice
           \/ StopCore
    PROVE  OwesKnown' /\ SentOnce'
  <1>. USE ClientAssumption, ThreadNames
      DEF ClientAssumption, AskedOnce, Asking, Opening, OwesKnown, AppSteps,
          FreeSteps, OwingSteps, Begins, IssueKnown, SentOnce, Phases,
          CountKnown, TypeOK, ClientSession, Ops, flags, clock, threads,
          outside
  <1>1. CASE StartClient
    BY <1>1 DEF StartClient, ClearFlags, NoSession
  <1>2. CASE PostConnect
    BY <1>2, PostConnectEffect
  <1>3. CASE StopClient
    BY <1>3 DEF StopClient, Goto
  <1>4. CASE JoinWatchdog
    BY <1>4 DEF JoinWatchdog, Joined
  <1>5. CASE JoinScheduler
    BY <1>5 DEF JoinScheduler, Joined
  <1>6. CASE AwaitIOCancel
    BY <1>6 DEF AwaitIOCancel, Goto
  <1>7. CASE RetrySlice
    BY <1>7 DEF RetrySlice, ReissueCancelIo, Aborted, Pending, Goto
  <1>8. CASE StopCore
    BY <1>8 DEF StopCore
  <1>. QED
    BY <1>1, <1>2, <1>3, <1>4, <1>5, <1>6, <1>7, <1>8

LEMMA OwesKernel ==
    ASSUME TypeOK, TypeOK', AskedOnce, IssueKnown, OneReceive, OwesKnown,
           SentOnce, Phases, CountKnown, Kernel
    PROVE  OwesKnown' /\ SentOnce'
  BY KernelEffect, ClientAssumption, ThreadNames DEF ClientAssumption,
     AskedOnce, Asking, Opening, OwesKnown, AppSteps, FreeSteps, OwingSteps,
     Begins, IssueKnown, SentOnce, Phases, CountKnown, TypeOK, ClientSession,
     Ops, flags, clock, threads, outside

LEMMA OwesDisconnect ==
    ASSUME TypeOK, TypeOK', AskedOnce, IssueKnown, OneReceive, OwesKnown,
           SentOnce, Phases, CountKnown, NEW t \in Threads,
           \/ EnterDisconnect(t)
           \/ SetCancel(t)
           \/ CancelIO(t)
           \/ ReleaseUnpostedIO(t)
           \/ Reserve(t)
           \/ ReadCount(t)
           \/ DecrementIO(t)
           \/ Settle(t)
           \/ CompleteDisconnect(t)
    PROVE  OwesKnown' /\ SentOnce'
  <1>. USE ClientAssumption, ThreadNames
      DEF ClientAssumption, AskedOnce, Asking, Opening, OwesKnown, AppSteps,
          FreeSteps, OwingSteps, Begins, IssueKnown, SentOnce, Phases,
          CountKnown, TypeOK, ClientSession, Ops, flags, clock, threads,
          outside
  <1>1. CASE EnterDisconnect(t)
    BY <1>1 DEF EnterDisconnect, Leave, Home, Goto
  <1>2. CASE SetCancel(t)
    BY <1>2 DEF SetCancel, Goto
  <1>3. CASE CancelIO(t)
    BY <1>3 DEF CancelIO, Aborted, Pending, Goto
  <1>4. CASE ReleaseUnpostedIO(t)
    BY <1>4 DEF ReleaseUnpostedIO, Goto
  <1>5. CASE Reserve(t)
    BY <1>5 DEF Reserve, Goto
  <1>6. CASE ReadCount(t)
    BY <1>6 DEF ReadCount, Leave, Home, Goto
  <1>7. CASE DecrementIO(t)
    BY <1>7 DEF DecrementIO, Home, Goto
  <1>8. CASE Settle(t)
    BY <1>8 DEF Settle, Leave, Home, Goto
  <1>9. CASE CompleteDisconnect(t)
    BY <1>9 DEF CompleteDisconnect, Leave, Home, Goto
  <1>. QED
    BY <1>1, <1>2, <1>3, <1>4, <1>5, <1>6, <1>7, <1>8, <1>9

LEMMA OwesPost ==
    ASSUME TypeOK, TypeOK', AskedOnce, IssueKnown, OneReceive, OwesKnown,
           SentOnce, Phases, CountKnown, NEW t \in Workers \cup {Scheduler},
           \/ Issue(t)
           \/ ResumeReceive(t)
    PROVE  OwesKnown' /\ SentOnce'
  <1>. USE ClientAssumption, ThreadNames
      DEF ClientAssumption, AskedOnce, Asking, Opening, OwesKnown, AppSteps,
          FreeSteps, OwingSteps, Begins, IssueKnown, SentOnce, Phases,
          CountKnown, TypeOK, ClientSession, Ops, flags, clock, threads,
          outside
  <1>1. CASE Issue(t)
    BY <1>1 DEF Issue, IssueSucceeds, IssueFails, Leave, Home, Goto
  <1>2. CASE ResumeReceive(t)
    <2>1. CASE session.paused
      BY <1>2, <2>1, ResumeEffect
    <2>2. CASE ~session.paused
      BY <1>2, <2>2, ResumeNothing DEF Leave, Home, Goto
    <2>. QED
      BY <2>1, <2>2
  <1>. QED
    BY <1>1, <1>2

LEMMA OwesWorker ==
    ASSUME TypeOK, TypeOK', AskedOnce, IssueKnown, OneReceive, OwesKnown,
           SentOnce, Phases, CountKnown, NEW t \in Workers,
           \/ HandleConnect(t)
           \/ TellConnected(t)
           \/ HandleConnectCancelled(t)
           \/ HandleDone(t)
           \/ HandleAuth(t)
           \/ HandleRefuse(t)
           \/ HandleBeat(t)
           \/ HandleData(t)
           \/ HandleClose(t)
           \/ Repost(t)
           \/ Pause(t)
           \/ Recheck(t)
    PROVE  OwesKnown' /\ SentOnce'
  <1>. USE ClientAssumption, ThreadNames
      DEF ClientAssumption, AskedOnce, Asking, Opening, OwesKnown, AppSteps,
          FreeSteps, OwingSteps, Begins, IssueKnown, SentOnce, Phases,
          CountKnown, TypeOK, ClientSession, Ops, flags, clock, threads,
          outside
  <1>1. CASE HandleConnect(t)
    BY <1>1, ConnectEffect
  <1>2. CASE TellConnected(t)
    BY <1>2, TellEffect
  <1>3. CASE HandleConnectCancelled(t)
    BY <1>3 DEF HandleConnectCancelled, ReportFailure, Takes, Goto
  <1>4. CASE HandleDone(t)
    BY <1>4 DEF HandleDone, Takes, Goto
  <1>5. CASE HandleAuth(t)
    BY <1>5 DEF HandleAuth, Takes, Heard, Goto
  <1>6. CASE HandleRefuse(t)
    BY <1>6 DEF HandleRefuse, Takes, Heard, Drops, Goto
  <1>7. CASE HandleBeat(t)
    BY <1>7 DEF HandleBeat, Takes, Heard, Drops, Goto
  <1>8. CASE HandleData(t)
    BY <1>8 DEF HandleData, Takes, Heard, Drops, Goto
  <1>9. CASE HandleClose(t)
    BY <1>9 DEF HandleClose, Takes, Drops, Goto
  <1>10. CASE Repost(t)
    BY <1>10 DEF Repost, BeginIO, Leave, Home, Goto
  <1>11. CASE Pause(t)
    BY <1>11 DEF Pause, Goto
  <1>12. CASE Recheck(t)
    BY <1>12 DEF Recheck, Leave, Home, Goto
  <1>. QED
    BY <1>1, <1>2, <1>3, <1>4, <1>5, <1>6, <1>7, <1>8, <1>9, <1>10, <1>11,
       <1>12

LEMMA OwesOther ==
    ASSUME TypeOK, TypeOK', AskedOnce, IssueKnown, OneReceive, OwesKnown,
           SentOnce, Phases, CountKnown,
           \/ WaitDequeueJob(Scheduler)
           \/ ResumeReceiveIfDrained(Scheduler)
           \/ Tick
           \/ Look
    PROVE  OwesKnown' /\ SentOnce'
  <1>. USE ClientAssumption, ThreadNames
      DEF ClientAssumption, AskedOnce, Asking, Opening, OwesKnown, AppSteps,
          FreeSteps, OwingSteps, Begins, IssueKnown, SentOnce, Phases,
          CountKnown, TypeOK, ClientSession, Ops, flags, clock, threads,
          outside
  <1>1. CASE WaitDequeueJob(Scheduler)
    BY <1>1 DEF WaitDequeueJob, Goto
  <1>2. CASE ResumeReceiveIfDrained(Scheduler)
    BY <1>2 DEF ResumeReceiveIfDrained, Home, Goto
  <1>3. CASE Tick
    BY <1>3 DEF Tick, Goto
  <1>4. CASE Look
    BY <1>4 DEF Look, Baseline, Drops, Goto
  <1>. QED
    BY <1>1, <1>2, <1>3, <1>4

-----------------------------------------------------------------------------
(* One thread has the end, or it is reserved, step by step.                *)
LEMMA EndApplication ==
    ASSUME TypeOK, TypeOK', OwesKnown, Phases, EndOnce, EndComes, CountKnown,
           \/ StartClient
           \/ PostConnect
           \/ StopClient
           \/ JoinWatchdog
           \/ JoinScheduler
           \/ AwaitIOCancel
           \/ RetrySlice
           \/ StopCore
    PROVE  EndOnce' /\ EndComes'
  <1>. USE ClientAssumption, ThreadNames
      DEF ClientAssumption, EndOnce, EndComes, Kept, Phases, AppSteps,
          CancelSteps, DisconnectSteps, Ends, Settles, OwesKnown, OwingSteps,
          FreeSteps, Begins, CountKnown, TypeOK, ClientSession, Ops, flags,
          clock, threads, outside
  <1>1. CASE StartClient
    BY <1>1 DEF StartClient, ClearFlags, NoSession
  <1>2. CASE PostConnect
    BY <1>2, PostConnectEffect
  <1>3. CASE StopClient
    BY <1>3 DEF StopClient, Goto
  <1>4. CASE JoinWatchdog
    BY <1>4 DEF JoinWatchdog, Joined
  <1>5. CASE JoinScheduler
    BY <1>5 DEF JoinScheduler, Joined
  <1>6. CASE AwaitIOCancel
    BY <1>6 DEF AwaitIOCancel, Goto
  <1>7. CASE RetrySlice
    BY <1>7 DEF RetrySlice, ReissueCancelIo, Aborted, Pending, Goto
  <1>8. CASE StopCore
    <2>1. \A u \in Threads : pc[u] \in {"idle", "off", "stopCore"}
      BY <1>8 DEF StopCore, Threads
    <2>2. \A u \in Threads : ~Ends(u) /\ ~Settles(u) /\ pc[u] \notin DisconnectSteps
      BY <2>1
    <2>3. \A u \in Threads : pc'[u] = "off"
      BY <1>8 DEF StopCore
    <2>4. session' = session /\ UNCHANGED flags /\ session.count = 0
      BY <1>8 DEF StopCore
    <2>5. ~session.pending
      BY <2>2, <2>4
    <2>. QED
      BY <2>2, <2>3, <2>4, <2>5
  <1>. QED
    BY <1>1, <1>2, <1>3, <1>4, <1>5, <1>6, <1>7, <1>8

LEMMA EndKernel ==
    ASSUME TypeOK, TypeOK', OwesKnown, Phases, EndOnce, EndComes, CountKnown,
           Kernel
    PROVE  EndOnce' /\ EndComes'
  BY KernelEffect, ClientAssumption, ThreadNames DEF ClientAssumption,
     EndOnce, EndComes, Kept, Phases, AppSteps, CancelSteps, DisconnectSteps,
     Ends, Settles, OwesKnown, OwingSteps, FreeSteps, Begins, CountKnown,
     TypeOK, ClientSession, Ops, flags, clock, threads, outside

LEMMA EndDisconnect ==
    ASSUME TypeOK, TypeOK', OwesKnown, Phases, EndOnce, EndComes, CountKnown,
           NEW t \in Threads,
           \/ EnterDisconnect(t)
           \/ SetCancel(t)
           \/ CancelIO(t)
           \/ ReleaseUnpostedIO(t)
           \/ Reserve(t)
           \/ ReadCount(t)
           \/ DecrementIO(t)
           \/ Settle(t)
           \/ CompleteDisconnect(t)
    PROVE  EndOnce' /\ EndComes'
  <1>. USE ClientAssumption, ThreadNames
      DEF ClientAssumption, EndOnce, EndComes, Kept, Phases, AppSteps,
          CancelSteps, DisconnectSteps, Ends, Settles, OwesKnown, OwingSteps,
          FreeSteps, Begins, CountKnown, TypeOK, ClientSession, Ops, flags,
          clock, threads, outside
  <1>1. CASE EnterDisconnect(t)
    BY <1>1 DEF EnterDisconnect, Leave, Home, Goto
  <1>2. CASE SetCancel(t)
    BY <1>2 DEF SetCancel, Goto
  <1>3. CASE CancelIO(t)
    BY <1>3 DEF CancelIO, Aborted, Pending, Goto
  <1>4. CASE ReleaseUnpostedIO(t)
    BY <1>4 DEF ReleaseUnpostedIO, Goto
  <1>5. CASE Reserve(t)
    BY <1>5 DEF Reserve, Goto
  <1>6. CASE ReadCount(t)
    BY <1>6 DEF ReadCount, Leave, Home, Goto
  <1>7. CASE DecrementIO(t)
    BY <1>7 DEF DecrementIO, Home, Goto
  <1>8. CASE Settle(t)
    BY <1>8 DEF Settle, Leave, Home, Goto
  <1>9. CASE CompleteDisconnect(t)
    BY <1>9 DEF CompleteDisconnect, Leave, Home, Goto
  <1>. QED
    BY <1>1, <1>2, <1>3, <1>4, <1>5, <1>6, <1>7, <1>8, <1>9

LEMMA EndPost ==
    ASSUME TypeOK, TypeOK', OwesKnown, Phases, EndOnce, EndComes, CountKnown,
           NEW t \in Workers \cup {Scheduler},
           \/ Issue(t)
           \/ ResumeReceive(t)
    PROVE  EndOnce' /\ EndComes'
  <1>. USE ClientAssumption, ThreadNames
      DEF ClientAssumption, EndOnce, EndComes, Kept, Phases, AppSteps,
          CancelSteps, DisconnectSteps, Ends, Settles, OwesKnown, OwingSteps,
          FreeSteps, Begins, CountKnown, TypeOK, ClientSession, Ops, flags,
          clock, threads, outside
  <1>1. CASE Issue(t)
    BY <1>1 DEF Issue, IssueSucceeds, IssueFails, Leave, Home, Goto
  <1>2. CASE ResumeReceive(t)
    <2>1. CASE session.paused
      BY <1>2, <2>1, ResumeEffect
    <2>2. CASE ~session.paused
      BY <1>2, <2>2, ResumeNothing DEF Leave, Home, Goto
    <2>. QED
      BY <2>1, <2>2
  <1>. QED
    BY <1>1, <1>2

LEMMA EndWorker ==
    ASSUME TypeOK, TypeOK', OwesKnown, Phases, EndOnce, EndComes, CountKnown,
           NEW t \in Workers,
           \/ HandleConnect(t)
           \/ TellConnected(t)
           \/ HandleConnectCancelled(t)
           \/ HandleDone(t)
           \/ HandleAuth(t)
           \/ HandleRefuse(t)
           \/ HandleBeat(t)
           \/ HandleData(t)
           \/ HandleClose(t)
           \/ Repost(t)
           \/ Pause(t)
           \/ Recheck(t)
    PROVE  EndOnce' /\ EndComes'
  <1>. USE ClientAssumption, ThreadNames
      DEF ClientAssumption, EndOnce, EndComes, Kept, Phases, AppSteps,
          CancelSteps, DisconnectSteps, Ends, Settles, OwesKnown, OwingSteps,
          FreeSteps, Begins, CountKnown, TypeOK, ClientSession, Ops, flags,
          clock, threads, outside
  <1>1. CASE HandleConnect(t)
    BY <1>1, ConnectEffect
  <1>2. CASE TellConnected(t)
    BY <1>2, TellEffect
  <1>3. CASE HandleConnectCancelled(t)
    BY <1>3 DEF HandleConnectCancelled, ReportFailure, Takes, Goto
  <1>4. CASE HandleDone(t)
    BY <1>4 DEF HandleDone, Takes, Goto
  <1>5. CASE HandleAuth(t)
    BY <1>5 DEF HandleAuth, Takes, Heard, Goto
  <1>6. CASE HandleRefuse(t)
    BY <1>6 DEF HandleRefuse, Takes, Heard, Drops, Goto
  <1>7. CASE HandleBeat(t)
    BY <1>7 DEF HandleBeat, Takes, Heard, Drops, Goto
  <1>8. CASE HandleData(t)
    BY <1>8 DEF HandleData, Takes, Heard, Drops, Goto
  <1>9. CASE HandleClose(t)
    BY <1>9 DEF HandleClose, Takes, Drops, Goto
  <1>10. CASE Repost(t)
    BY <1>10 DEF Repost, BeginIO, Leave, Home, Goto
  <1>11. CASE Pause(t)
    BY <1>11 DEF Pause, Goto
  <1>12. CASE Recheck(t)
    BY <1>12 DEF Recheck, Leave, Home, Goto
  <1>. QED
    BY <1>1, <1>2, <1>3, <1>4, <1>5, <1>6, <1>7, <1>8, <1>9, <1>10, <1>11,
       <1>12

LEMMA EndOther ==
    ASSUME TypeOK, TypeOK', OwesKnown, Phases, EndOnce, EndComes, CountKnown,
           \/ WaitDequeueJob(Scheduler)
           \/ ResumeReceiveIfDrained(Scheduler)
           \/ Tick
           \/ Look
    PROVE  EndOnce' /\ EndComes'
  <1>. USE ClientAssumption, ThreadNames
      DEF ClientAssumption, EndOnce, EndComes, Kept, Phases, AppSteps,
          CancelSteps, DisconnectSteps, Ends, Settles, OwesKnown, OwingSteps,
          FreeSteps, Begins, CountKnown, TypeOK, ClientSession, Ops, flags,
          clock, threads, outside
  <1>1. CASE WaitDequeueJob(Scheduler)
    BY <1>1 DEF WaitDequeueJob, Goto
  <1>2. CASE ResumeReceiveIfDrained(Scheduler)
    BY <1>2 DEF ResumeReceiveIfDrained, Home, Goto
  <1>3. CASE Tick
    BY <1>3 DEF Tick, Goto
  <1>4. CASE Look
    BY <1>4 DEF Look, Baseline, Drops, Goto
  <1>. QED
    BY <1>1, <1>2, <1>3, <1>4

-----------------------------------------------------------------------------
(* The life of a client, step by step.                                     *)
(* A thread on its way through a disconnection keeps the phases.           *)
LEMMA MovesPhases ==
    ASSUME TypeOK, TypeOK', Phases, NEW t \in Threads, Moves(t),
           UNCHANGED <<destroyed, armed, jobs>>,
           session.count = 0 => session'.count = 0,
           disconnecting \/ pc[t] = "latch" => disconnecting',
           pc[t] \in {"latch", "read", "drop", "settle", "complete"}
    PROVE  Phases'
  <1>. PICK to \in {"drop", "idle", "watch", "wait", "await", "running", "cancel",
                    "settle", "complete"} :
        /\ pc' = [pc EXCEPT ![t] = to]
        /\ to \in {"await", "running"} => t = App
        /\ to = "await" <=> to \in {"await", "running"} /\ destroyed
    BY DEF Moves
  <1>1. pc[t] \notin AppSteps \cup {"off", "idle", "watch", "wait"}
    BY DEF AppSteps
  <1>2. pc'[t] = to /\ \A u \in Threads : u # t => pc'[u] = pc[u]
    BY DEF TypeOK
  <1>3. \A u \in Threads : pc'[u] \in AppSteps => u = App
    BY <1>2 DEF Phases, AppSteps
  <1>4. pc[App] \notin {"off", "post"}
    BY <1>1, ThreadNames, ClientAssumption DEF Phases, AppSteps, ClientAssumption
  <1>5. \/ pc'[App] \notin {"off", "post", "stopCore", "joinWatchdog",
                           "joinScheduler"}
        \/ t # App
    BY <1>2
  <1>6. CASE t = App
    BY <1>1, <1>2, <1>3, <1>5, <1>6, ThreadNames, ClientAssumption
    DEF Phases, AppSteps, CancelSteps, DisconnectSteps, ClientAssumption
  <1>7. CASE t # App
    BY <1>1, <1>2, <1>3, <1>4, <1>7, ThreadNames, ClientAssumption
    DEF Phases, AppSteps, CancelSteps, DisconnectSteps, ClientAssumption
  <1>. QED
    BY <1>6, <1>7

LEMMA PhaseApplication ==
    ASSUME TypeOK, TypeOK', OwesKnown, Phases, EndOnce, EndComes, CountKnown,
           \/ StartClient
           \/ PostConnect
           \/ StopClient
           \/ JoinWatchdog
           \/ JoinScheduler
           \/ AwaitIOCancel
           \/ RetrySlice
           \/ StopCore
    PROVE  Phases'
  <1>. USE ClientAssumption, ThreadNames
      DEF ClientAssumption, EndOnce, EndComes, Kept, Phases, AppSteps,
          CancelSteps, DisconnectSteps, Ends, Settles, OwesKnown, OwingSteps,
          FreeSteps, Begins, CountKnown, TypeOK, ClientSession, Ops, flags,
          clock, threads, outside
  <1>1. CASE StartClient
    <2>1. /\ ~destroyed' /\ ~disconnecting' /\ ~armed' /\ jobs' = 0
          /\ session'.count = 0
      BY <1>1 DEF StartClient, ClearFlags, NoSession
    <2>2. pc' = [u \in Threads |-> IF u \in Workers THEN "idle"
                                ELSE IF u = Watchdog THEN "watch"
                                ELSE IF u = Scheduler THEN "wait" ELSE "post"]
      BY <1>1 DEF StartClient
    <2>3. /\ pc'[App] = "post"
          /\ \A u \in Threads : u # App => pc'[u] \in {"idle", "watch", "wait"}
      BY <2>2 DEF Threads
    <2>. QED
      BY <2>1, <2>3
  <1>2. CASE PostConnect
    BY <1>2, PostConnectEffect
  <1>3. CASE StopClient
    BY <1>3 DEF StopClient, Goto
  <1>4. CASE JoinWatchdog
    BY <1>4 DEF JoinWatchdog, Joined
  <1>5. CASE JoinScheduler
    BY <1>5 DEF JoinScheduler, Joined
  <1>6. CASE AwaitIOCancel
    BY <1>6 DEF AwaitIOCancel, Goto
  <1>7. CASE RetrySlice
    BY <1>7 DEF RetrySlice, ReissueCancelIo, Aborted, Pending, Goto
  <1>8. CASE StopCore
    <2>1. \A u \in Threads : pc[u] \in {"idle", "off", "stopCore"}
      BY <1>8 DEF StopCore, Threads
    <2>2. \A u \in Threads : ~Ends(u) /\ ~Settles(u) /\ pc[u] \notin DisconnectSteps
      BY <2>1
    <2>3. \A u \in Threads : pc'[u] = "off"
      BY <1>8 DEF StopCore
    <2>4. session' = session /\ UNCHANGED flags /\ session.count = 0
      BY <1>8 DEF StopCore
    <2>5. ~session.pending /\ ~session.socket /\ ~session.notified
      BY <2>2, <2>4, <1>8 DEF StopCore
    <2>6. destroyed' /\ destroyed
      BY <1>8 DEF StopCore
    <2>. QED
      BY <2>3, <2>4, <2>5, <2>6
  <1>. QED
    BY <1>1, <1>2, <1>3, <1>4, <1>5, <1>6, <1>7, <1>8

LEMMA PhaseKernel ==
    ASSUME TypeOK, TypeOK', OwesKnown, Phases, EndOnce, EndComes, CountKnown,
           Kernel
    PROVE  Phases'
  BY KernelEffect, ClientAssumption, ThreadNames DEF ClientAssumption,
     EndOnce, EndComes, Kept, Phases, AppSteps, CancelSteps, DisconnectSteps,
     Ends, Settles, OwesKnown, OwingSteps, FreeSteps, Begins, CountKnown,
     TypeOK, ClientSession, Ops, flags, clock, threads, outside

LEMMA PhaseDisconnect ==
    ASSUME TypeOK, TypeOK', OwesKnown, Phases, EndOnce, EndComes, CountKnown,
           NEW t \in Threads,
           \/ EnterDisconnect(t)
           \/ SetCancel(t)
           \/ CancelIO(t)
           \/ ReleaseUnpostedIO(t)
           \/ Reserve(t)
           \/ ReadCount(t)
           \/ DecrementIO(t)
           \/ Settle(t)
           \/ CompleteDisconnect(t)
    PROVE  Phases'
  <1>. USE ClientAssumption, ThreadNames
      DEF ClientAssumption, EndOnce, EndComes, Kept, Phases, AppSteps,
          CancelSteps, DisconnectSteps, Ends, Settles, OwesKnown, OwingSteps,
          FreeSteps, Begins, CountKnown, TypeOK, ClientSession, Ops, flags,
          clock, threads, outside
  <1>1. CASE EnterDisconnect(t)
    <2>1. /\ Moves(t) /\ UNCHANGED <<destroyed, armed, jobs>>
          /\ disconnecting \/ pc[t] = "latch" => disconnecting'
          /\ pc[t] \in {"latch", "read", "drop", "settle", "complete"}
      BY <1>1, LeaveMoves, Names DEF EnterDisconnect, Moves, Home, Goto
    <2>2. session.count = 0 => session'.count = 0
      BY <1>1 DEF EnterDisconnect
    <2>. QED
      BY <2>1, <2>2, MovesPhases
  <1>2. CASE SetCancel(t)
    BY <1>2 DEF SetCancel, Goto
  <1>3. CASE CancelIO(t)
    BY <1>3 DEF CancelIO, Aborted, Pending, Goto
  <1>4. CASE ReleaseUnpostedIO(t)
    BY <1>4 DEF ReleaseUnpostedIO, Goto
  <1>5. CASE Reserve(t)
    BY <1>5 DEF Reserve, Goto
  <1>6. CASE ReadCount(t)
    <2>1. /\ Moves(t) /\ UNCHANGED <<destroyed, armed, jobs>>
          /\ disconnecting \/ pc[t] = "latch" => disconnecting'
          /\ pc[t] \in {"latch", "read", "drop", "settle", "complete"}
      BY <1>6, LeaveMoves, Names DEF ReadCount, Moves, Home, Goto
    <2>2. session.count = 0 => session'.count = 0
      BY <1>6 DEF ReadCount
    <2>. QED
      BY <2>1, <2>2, MovesPhases
  <1>7. CASE DecrementIO(t)
    <2>1. /\ Moves(t) /\ UNCHANGED <<destroyed, armed, jobs>>
          /\ disconnecting \/ pc[t] = "latch" => disconnecting'
          /\ pc[t] \in {"latch", "read", "drop", "settle", "complete"}
      BY <1>7, LeaveMoves, Names DEF DecrementIO, Moves, Home, Goto
    <2>2. session.count = 0 => session'.count = 0
      BY <1>7 DEF DecrementIO
    <2>. QED
      BY <2>1, <2>2, MovesPhases
  <1>8. CASE Settle(t)
    <2>1. /\ Moves(t) /\ UNCHANGED <<destroyed, armed, jobs>>
          /\ disconnecting \/ pc[t] = "latch" => disconnecting'
          /\ pc[t] \in {"latch", "read", "drop", "settle", "complete"}
      BY <1>8, LeaveMoves, Names DEF Settle, Moves, Home, Goto
    <2>2. session.count = 0 => session'.count = 0
      BY <1>8 DEF Settle
    <2>. QED
      BY <2>1, <2>2, MovesPhases
  <1>9. CASE CompleteDisconnect(t)
    <2>1. /\ Moves(t) /\ UNCHANGED <<destroyed, armed, jobs>>
          /\ disconnecting \/ pc[t] = "latch" => disconnecting'
          /\ pc[t] \in {"latch", "read", "drop", "settle", "complete"}
      BY <1>9, LeaveMoves, Names DEF CompleteDisconnect, Moves, Home, Goto
    <2>2. session.count = 0 => session'.count = 0
      BY <1>9 DEF CompleteDisconnect
    <2>. QED
      BY <2>1, <2>2, MovesPhases
  <1>. QED
    BY <1>1, <1>2, <1>3, <1>4, <1>5, <1>6, <1>7, <1>8, <1>9

LEMMA PhasePost ==
    ASSUME TypeOK, TypeOK', OwesKnown, Phases, EndOnce, EndComes, CountKnown,
           NEW t \in Workers \cup {Scheduler},
           \/ Issue(t)
           \/ ResumeReceive(t)
    PROVE  Phases'
  <1>. USE ClientAssumption, ThreadNames
      DEF ClientAssumption, EndOnce, EndComes, Kept, Phases, AppSteps,
          CancelSteps, DisconnectSteps, Ends, Settles, OwesKnown, OwingSteps,
          FreeSteps, Begins, CountKnown, TypeOK, ClientSession, Ops, flags,
          clock, threads, outside
  <1>1. CASE Issue(t)
    BY <1>1 DEF Issue, IssueSucceeds, IssueFails, Leave, Home, Goto
  <1>2. CASE ResumeReceive(t)
    <2>1. CASE session.paused
      BY <1>2, <2>1, ResumeEffect
    <2>2. CASE ~session.paused
      BY <1>2, <2>2, ResumeNothing DEF Leave, Home, Goto
    <2>. QED
      BY <2>1, <2>2
  <1>. QED
    BY <1>1, <1>2

LEMMA PhaseWorker ==
    ASSUME TypeOK, TypeOK', OwesKnown, Phases, EndOnce, EndComes, CountKnown,
           NEW t \in Workers,
           \/ HandleConnect(t)
           \/ TellConnected(t)
           \/ HandleConnectCancelled(t)
           \/ HandleDone(t)
           \/ HandleAuth(t)
           \/ HandleRefuse(t)
           \/ HandleBeat(t)
           \/ HandleData(t)
           \/ HandleClose(t)
           \/ Repost(t)
           \/ Pause(t)
           \/ Recheck(t)
    PROVE  Phases'
  <1>. USE ClientAssumption, ThreadNames
      DEF ClientAssumption, EndOnce, EndComes, Kept, Phases, AppSteps,
          CancelSteps, DisconnectSteps, Ends, Settles, OwesKnown, OwingSteps,
          FreeSteps, Begins, CountKnown, TypeOK, ClientSession, Ops, flags,
          clock, threads, outside
  <1>1. CASE HandleConnect(t)
    BY <1>1, ConnectEffect
  <1>2. CASE TellConnected(t)
    BY <1>2, TellEffect
  <1>3. CASE HandleConnectCancelled(t)
    BY <1>3 DEF HandleConnectCancelled, ReportFailure, Takes, Goto
  <1>4. CASE HandleDone(t)
    BY <1>4 DEF HandleDone, Takes, Goto
  <1>5. CASE HandleAuth(t)
    BY <1>5 DEF HandleAuth, Takes, Heard, Goto
  <1>6. CASE HandleRefuse(t)
    BY <1>6 DEF HandleRefuse, Takes, Heard, Drops, Goto
  <1>7. CASE HandleBeat(t)
    BY <1>7 DEF HandleBeat, Takes, Heard, Drops, Goto
  <1>8. CASE HandleData(t)
    BY <1>8 DEF HandleData, Takes, Heard, Drops, Goto
  <1>9. CASE HandleClose(t)
    BY <1>9 DEF HandleClose, Takes, Drops, Goto
  <1>10. CASE Repost(t)
    BY <1>10 DEF Repost, BeginIO, Leave, Home, Goto
  <1>11. CASE Pause(t)
    BY <1>11 DEF Pause, Goto
  <1>12. CASE Recheck(t)
    BY <1>12 DEF Recheck, Leave, Home, Goto
  <1>. QED
    BY <1>1, <1>2, <1>3, <1>4, <1>5, <1>6, <1>7, <1>8, <1>9, <1>10, <1>11,
       <1>12

LEMMA PhaseOther ==
    ASSUME TypeOK, TypeOK', OwesKnown, Phases, EndOnce, EndComes, CountKnown,
           \/ WaitDequeueJob(Scheduler)
           \/ ResumeReceiveIfDrained(Scheduler)
           \/ Tick
           \/ Look
    PROVE  Phases'
  <1>. USE ClientAssumption, ThreadNames
      DEF ClientAssumption, EndOnce, EndComes, Kept, Phases, AppSteps,
          CancelSteps, DisconnectSteps, Ends, Settles, OwesKnown, OwingSteps,
          FreeSteps, Begins, CountKnown, TypeOK, ClientSession, Ops, flags,
          clock, threads, outside
  <1>1. CASE WaitDequeueJob(Scheduler)
    BY <1>1 DEF WaitDequeueJob, Goto
  <1>2. CASE ResumeReceiveIfDrained(Scheduler)
    BY <1>2 DEF ResumeReceiveIfDrained, Home, Goto
  <1>3. CASE Tick
    BY <1>3 DEF Tick, Goto
  <1>4. CASE Look
    BY <1>4 DEF Look, Baseline, Drops, Goto
  <1>. QED
    BY <1>1, <1>2, <1>3, <1>4

-----------------------------------------------------------------------------
(* What the service was told, step by step.                                *)
LEMMA ReportApplication ==
    ASSUME TypeOK, TypeOK', IssueKnown, AskedOnce, OneReceive, OwesKnown,
           Phases, EndComes, Reported, CountKnown,
           \/ StartClient
           \/ PostConnect
           \/ StopClient
           \/ JoinWatchdog
           \/ JoinScheduler
           \/ AwaitIOCancel
           \/ RetrySlice
           \/ StopCore
    PROVE  Reported'
  <1>. USE ClientAssumption, ThreadNames
      DEF ClientAssumption, Reported, Kept, AskedOnce, Asking, Opening,
          EndComes, Phases, AppSteps, OwesKnown, OwingSteps, FreeSteps,
          Begins, IssueKnown, CountKnown, TypeOK, ClientSession, Ops, flags,
          clock, threads, outside
  <1>1. CASE StartClient
    BY <1>1 DEF StartClient, ClearFlags, NoSession
  <1>2. CASE PostConnect
    BY <1>2, PostConnectEffect
  <1>3. CASE StopClient
    BY <1>3 DEF StopClient, Goto
  <1>4. CASE JoinWatchdog
    BY <1>4 DEF JoinWatchdog, Joined
  <1>5. CASE JoinScheduler
    BY <1>5 DEF JoinScheduler, Joined
  <1>6. CASE AwaitIOCancel
    BY <1>6 DEF AwaitIOCancel, Goto
  <1>7. CASE RetrySlice
    BY <1>7 DEF RetrySlice, ReissueCancelIo, Aborted, Pending, Goto
  <1>8. CASE StopCore
    BY <1>8 DEF StopCore
  <1>. QED
    BY <1>1, <1>2, <1>3, <1>4, <1>5, <1>6, <1>7, <1>8

LEMMA ReportKernel ==
    ASSUME TypeOK, TypeOK', IssueKnown, AskedOnce, OneReceive, OwesKnown,
           Phases, EndComes, Reported, CountKnown, Kernel
    PROVE  Reported'
  BY KernelEffect, ClientAssumption, ThreadNames DEF ClientAssumption,
     Reported, Kept, AskedOnce, Asking, Opening, EndComes, Phases, AppSteps,
     OwesKnown, OwingSteps, FreeSteps, Begins, IssueKnown, CountKnown, TypeOK,
     ClientSession, Ops, flags, clock, threads, outside

LEMMA ReportDisconnect ==
    ASSUME TypeOK, TypeOK', IssueKnown, AskedOnce, OneReceive, OwesKnown,
           Phases, EndComes, Reported, CountKnown, NEW t \in Threads,
           \/ EnterDisconnect(t)
           \/ SetCancel(t)
           \/ CancelIO(t)
           \/ ReleaseUnpostedIO(t)
           \/ Reserve(t)
           \/ ReadCount(t)
           \/ DecrementIO(t)
           \/ Settle(t)
           \/ CompleteDisconnect(t)
    PROVE  Reported'
  <1>. USE ClientAssumption, ThreadNames
      DEF ClientAssumption, Reported, Kept, AskedOnce, Asking, Opening,
          EndComes, Phases, AppSteps, OwesKnown, OwingSteps, FreeSteps,
          Begins, IssueKnown, CountKnown, TypeOK, ClientSession, Ops, flags,
          clock, threads, outside
  <1>1. CASE EnterDisconnect(t)
    BY <1>1 DEF EnterDisconnect, Leave, Home, Goto
  <1>2. CASE SetCancel(t)
    BY <1>2 DEF SetCancel, Goto
  <1>3. CASE CancelIO(t)
    BY <1>3 DEF CancelIO, Aborted, Pending, Goto
  <1>4. CASE ReleaseUnpostedIO(t)
    BY <1>4 DEF ReleaseUnpostedIO, Goto
  <1>5. CASE Reserve(t)
    BY <1>5 DEF Reserve, Goto
  <1>6. CASE ReadCount(t)
    BY <1>6 DEF ReadCount, Leave, Home, Goto
  <1>7. CASE DecrementIO(t)
    BY <1>7 DEF DecrementIO, Home, Goto
  <1>8. CASE Settle(t)
    BY <1>8 DEF Settle, Leave, Home, Goto
  <1>9. CASE CompleteDisconnect(t)
    BY <1>9 DEF CompleteDisconnect, Leave, Home, Goto
  <1>. QED
    BY <1>1, <1>2, <1>3, <1>4, <1>5, <1>6, <1>7, <1>8, <1>9

LEMMA ReportPost ==
    ASSUME TypeOK, TypeOK', IssueKnown, AskedOnce, OneReceive, OwesKnown,
           Phases, EndComes, Reported, CountKnown, NEW t \in Workers \cup
           {Scheduler},
           \/ Issue(t)
           \/ ResumeReceive(t)
    PROVE  Reported'
  <1>. USE ClientAssumption, ThreadNames
      DEF ClientAssumption, Reported, Kept, AskedOnce, Asking, Opening,
          EndComes, Phases, AppSteps, OwesKnown, OwingSteps, FreeSteps,
          Begins, IssueKnown, CountKnown, TypeOK, ClientSession, Ops, flags,
          clock, threads, outside
  <1>1. CASE Issue(t)
    BY <1>1 DEF Issue, IssueSucceeds, IssueFails, Leave, Home, Goto
  <1>2. CASE ResumeReceive(t)
    <2>1. CASE session.paused
      BY <1>2, <2>1, ResumeEffect
    <2>2. CASE ~session.paused
      BY <1>2, <2>2, ResumeNothing DEF Leave, Home, Goto
    <2>. QED
      BY <2>1, <2>2
  <1>. QED
    BY <1>1, <1>2

LEMMA ReportWorker ==
    ASSUME TypeOK, TypeOK', IssueKnown, AskedOnce, OneReceive, OwesKnown,
           Phases, EndComes, Reported, CountKnown, NEW t \in Workers,
           \/ HandleConnect(t)
           \/ TellConnected(t)
           \/ HandleConnectCancelled(t)
           \/ HandleDone(t)
           \/ HandleAuth(t)
           \/ HandleRefuse(t)
           \/ HandleBeat(t)
           \/ HandleData(t)
           \/ HandleClose(t)
           \/ Repost(t)
           \/ Pause(t)
           \/ Recheck(t)
    PROVE  Reported'
  <1>. USE ClientAssumption, ThreadNames
      DEF ClientAssumption, Reported, Kept, AskedOnce, Asking, Opening,
          EndComes, Phases, AppSteps, OwesKnown, OwingSteps, FreeSteps,
          Begins, IssueKnown, CountKnown, TypeOK, ClientSession, Ops, flags,
          clock, threads, outside
  <1>1. CASE HandleConnect(t)
    BY <1>1, ConnectEffect
  <1>2. CASE TellConnected(t)
    <2>1. /\ told' = "connected" /\ session'.notified /\ UNCHANGED <<io, server>>
          /\ pc[t] = "tell"
      BY <1>2, TellEffect
    <2>2. t # App /\ t \in Threads
      OBVIOUS
    <2>3. \/ pc' = [pc EXCEPT ![t] = "issue"] /\ op' = [op EXCEPT ![t] = "send"]
          \/ pc' = [pc EXCEPT ![t] = "drop"] /\ op' = [op EXCEPT ![t] = "send"]
          \/ pc' = [pc EXCEPT ![t] = "latch"] /\ op' = op
      BY <1>2 DEF TellConnected, BeginIO, Goto
    <2>4. /\ \A u \in Threads : u # t => pc'[u] = pc[u] /\ op'[u] = op[u]
          /\ pc'[t] \in {"issue", "drop", "latch"}
          /\ pc'[t] = "issue" => op'[t] = "send"
      BY <2>2, <2>3
    <2>5. Asking(t)
      BY <2>1
    <2>6. ~Opening
      BY <2>2, <2>5
    <2>7. ~Opening'
      BY <2>1, <2>2, <2>4, <2>6
    <2>8. \A u \in Threads : u # t => ~Asking(u)
      BY <2>2, <2>5
    <2>. QED
      BY <2>1, <2>2, <2>4, <2>7, <2>8
  <1>3. CASE HandleConnectCancelled(t)
    BY <1>3 DEF HandleConnectCancelled, ReportFailure, Takes, Goto
  <1>4. CASE HandleDone(t)
    BY <1>4 DEF HandleDone, Takes, Goto
  <1>5. CASE HandleAuth(t)
    BY <1>5 DEF HandleAuth, Takes, Heard, Goto
  <1>6. CASE HandleRefuse(t)
    BY <1>6 DEF HandleRefuse, Takes, Heard, Drops, Goto
  <1>7. CASE HandleBeat(t)
    BY <1>7 DEF HandleBeat, Takes, Heard, Drops, Goto
  <1>8. CASE HandleData(t)
    BY <1>8 DEF HandleData, Takes, Heard, Drops, Goto
  <1>9. CASE HandleClose(t)
    BY <1>9 DEF HandleClose, Takes, Drops, Goto
  <1>10. CASE Repost(t)
    BY <1>10 DEF Repost, BeginIO, Leave, Home, Goto
  <1>11. CASE Pause(t)
    BY <1>11 DEF Pause, Goto
  <1>12. CASE Recheck(t)
    BY <1>12 DEF Recheck, Leave, Home, Goto
  <1>. QED
    BY <1>1, <1>2, <1>3, <1>4, <1>5, <1>6, <1>7, <1>8, <1>9, <1>10, <1>11,
       <1>12

LEMMA ReportOther ==
    ASSUME TypeOK, TypeOK', IssueKnown, AskedOnce, OneReceive, OwesKnown,
           Phases, EndComes, Reported, CountKnown,
           \/ WaitDequeueJob(Scheduler)
           \/ ResumeReceiveIfDrained(Scheduler)
           \/ Tick
           \/ Look
    PROVE  Reported'
  <1>. USE ClientAssumption, ThreadNames
      DEF ClientAssumption, Reported, Kept, AskedOnce, Asking, Opening,
          EndComes, Phases, AppSteps, OwesKnown, OwingSteps, FreeSteps,
          Begins, IssueKnown, CountKnown, TypeOK, ClientSession, Ops, flags,
          clock, threads, outside
  <1>1. CASE WaitDequeueJob(Scheduler)
    BY <1>1 DEF WaitDequeueJob, Goto
  <1>2. CASE ResumeReceiveIfDrained(Scheduler)
    BY <1>2 DEF ResumeReceiveIfDrained, Home, Goto
  <1>3. CASE Tick
    BY <1>3 DEF Tick, Goto
  <1>4. CASE Look
    BY <1>4 DEF Look, Baseline, Drops, Goto
  <1>. QED
    BY <1>1, <1>2, <1>3, <1>4

-----------------------------------------------------------------------------
(* The invariant of the count, of the end, and of what was told.           *)
CInv == /\ IInv /\ Counted /\ OwesKnown /\ SentOnce
        /\ EndOnce /\ EndComes /\ Phases /\ Reported

LEMMA CInvInit == Init => CInv
  <1>. SUFFICES ASSUME Init PROVE CInv
    OBVIOUS
  <1>. USE ThreadNames
  <1>1. IInv
    BY IInvInit
  <1>2. Counted
    <2>1. \A t \in Threads : owes[t] = 0
      BY DEF Init
    <2>2. Debts = {} /\ Begun = {} /\ Posted = {}
      BY <2>1 DEF Init, Debts, Begun, Begins, Posted
    <2>3. session.count = 0 /\ One(session.paused) = 0
      BY DEF Init, NoSession, One
    <2>. QED
      BY <2>2, <2>3, FS_EmptySet DEF Counted
  <1>3. OwesKnown /\ SentOnce
    BY DEF Init, OwesKnown, OwingSteps, Begins, SentOnce, Ops
  <1>4. EndOnce /\ EndComes
    BY DEF Init, NoSession, EndOnce, EndComes, Ends, Settles, CancelSteps
  <1>5. Phases
    BY ClientAssumption
    DEF Init, NoSession, Phases, AppSteps, DisconnectSteps, CancelSteps
  <1>6. Reported
    BY DEF Init, NoSession, Reported, Opening, Ops
  <1>. QED
    BY <1>1, <1>2, <1>3, <1>4, <1>5, <1>6 DEF CInv

LEMMA CInvStep == CInv /\ [Next]_vars => CInv'
  <1>. SUFFICES ASSUME CInv, [Next]_vars PROVE CInv'
    OBVIOUS
  <1>1. /\ TypeOK /\ TypeOK' /\ IInv' /\ CountKnown
        /\ IssueKnown /\ AskedOnce /\ OneReceive
    BY IInvStep, CountIsKnown DEF CInv, IInv
  <1>. USE <1>1 DEF CInv
  <1>2. CASE \/ StartClient \/ PostConnect \/ StopClient \/ Stops
    <2>1. \/ StartClient \/ PostConnect \/ StopClient \/ JoinWatchdog
          \/ JoinScheduler \/ AwaitIOCancel \/ RetrySlice \/ StopCore
      BY <1>2 DEF Stops
    <2>2. Counted'
      BY <2>1, BalanceApplication, CountedStep
    <2>. QED
      BY <2>1, <2>2, OwesApplication, EndApplication, PhaseApplication,
         ReportApplication
  <1>3. CASE Kernel
    BY <1>3, BalanceKernel, CountedStep, OwesKernel, EndKernel, PhaseKernel,
       ReportKernel
  <1>4. ASSUME NEW t \in Threads, Disconnects(t) PROVE CInv'
    BY <1>4, BalanceDisconnect, CountedStep, OwesDisconnect, EndDisconnect,
       PhaseDisconnect, ReportDisconnect DEF Disconnects
  <1>5. ASSUME NEW t \in Workers \cup {Scheduler}, Posts(t) PROVE CInv'
    BY <1>5, BalancePost, CountedStep, OwesPost, EndPost, PhasePost, ReportPost
    DEF Posts
  <1>6. ASSUME NEW t \in Workers, Worker(t) PROVE CInv'
    BY <1>6, BalanceWorker, CountedStep, OwesWorker, EndWorker, PhaseWorker,
       ReportWorker DEF Worker
  <1>7. CASE Schedules \/ Tick \/ Look
    BY <1>7, BalanceOther, CountedStep, OwesOther, EndOther, PhaseOther,
       ReportOther DEF Schedules
  <1>8. CASE UNCHANGED vars
    <2>1. UNCHANGED <<destroyed, disconnecting, session, jobs, armed, io, server,
                      pc, op, owes, told>>
      BY <1>8 DEF vars, flags, clock, threads, outside
    <2>2. Counted'
      BY <2>1 DEF Counted, Debts, Begun, Posted
    <2>3. OwesKnown' /\ SentOnce'
      BY <2>1 DEF OwesKnown, SentOnce
    <2>4. EndOnce' /\ EndComes'
      BY <2>1 DEF EndOnce, EndComes, Ends, Settles
    <2>5. Phases' /\ Reported'
      BY <2>1 DEF Phases, Reported, Opening
    <2>. QED
      BY <2>2, <2>3, <2>4, <2>5
  <1>. QED
    BY <1>2, <1>3, <1>4, <1>5, <1>6, <1>7, <1>8 DEF Next

LEMMA CountInvariance == Spec => []CInv
  BY CInvInit, CInvStep, PTL DEF Spec

(* For any number of workers the I/O count is what is outstanding, so that *)
(* the last one to give a count back is the last one there is, and         *)
(* StopClient waits for nothing else.                                      *)
THEOREM CountHeld == Spec => []CountIsHeld
  <1>1. CInv => CountIsHeld
    BY DEF CInv, Counted, CountIsHeld, Posted, Begun, Begins, One
  <1>. QED
    BY CountInvariance, <1>1, PTL

(* A client that was stopped left nothing posted, reserved or counted, an  *)
(* open socket as little as a service that believes in a connection.       *)
THEOREM StoppedQuiet == Spec => []StoppedIsQuiet
  <1>1. ASSUME CInv PROVE StoppedIsQuiet
    <2>1. TypeOK /\ CountKnown /\ Phases /\ Reported
      BY <1>1, CountIsKnown DEF CInv, IInv
    <2>. QED
      BY <2>1 DEF StoppedIsQuiet, CountKnown, Phases, Reported
  <1>. QED
    BY CountInvariance, <1>1, PTL

(* What the service is told of a connection follows ConnectionReports: a   *)
(* failure, or a connection, its establishment and its end, each of them   *)
(* once, whichever threads meet on the way.                                *)
THEOREM ReportsMade == Spec => IsConnectionReports
  <1>1. Init => Reports!Init
    BY DEF Init, Reports!Init
  <1>2. ASSUME CInv, [Next]_vars PROVE [Reports!Next]_told
    <2>. DEFINE Abstract == Reports!Next \/ told' = told
    <2>1. /\ TypeOK /\ AskedOnce /\ Phases /\ Reported
          /\ told \in {"nothing", "refused", "connected", "established", "ended"}
      BY <1>2 DEF CInv, IInv, TypeOK
    <2>2. CASE StartClient
      <3>1. pc[App] = "off" /\ told' = "nothing"
        BY <2>2 DEF StartClient
      <3>2. told \notin {"connected", "established"}
        BY <2>1, <3>1 DEF Phases, Reported
      <3>. QED
        BY <2>1, <3>1, <3>2 DEF Reports!Next, Reports!Start
    <2>3. CASE PostConnect \/ StopClient \/ Stops \/ Kernel \/ Schedules \/ Tick
               \/ Look
      BY <2>3 DEF PostConnect, StopClient, Stops, JoinWatchdog, JoinScheduler,
         AwaitIOCancel, RetrySlice, StopCore, Kernel, Succeeds, Breaks, Answers,
         Sends, Closes, Completes, Schedules, WaitDequeueJob,
         ResumeReceiveIfDrained, Tick, Look
    <2>4. ASSUME NEW t \in Threads, Disconnects(t) PROVE Abstract
      <3>1. CASE CompleteDisconnect(t)
        BY <2>1, <3>1 DEF CompleteDisconnect, Reported, Reports!Next, Reports!Ended
      <3>2. CASE ~CompleteDisconnect(t)
        BY <2>4, <3>2 DEF Disconnects, EnterDisconnect, SetCancel, CancelIO,
           ReleaseUnpostedIO, Reserve, ReadCount, DecrementIO, Settle
      <3>. QED
        BY <3>1, <3>2
    <2>5. ASSUME NEW t \in Workers \cup {Scheduler}, Posts(t) PROVE told' = told
      BY <2>5 DEF Posts, Issue, ResumeReceive
    <2>6. ASSUME NEW t \in Workers, Worker(t) PROVE Abstract
      <3>1. CASE TellConnected(t)
        <4>1. told = "nothing"
          BY <2>1, <3>1, ThreadNames DEF Reported, TellConnected
        <4>. QED
          BY <3>1, <4>1 DEF TellConnected, Reports!Next, Reports!Connected
      <3>2. CASE HandleConnectCancelled(t)
        <4>1. told = "nothing"
          BY <2>1, <3>2 DEF Reported, HandleConnectCancelled, Takes, Opening
        <4>. QED
          BY <3>2, <4>1
          DEF HandleConnectCancelled, ReportFailure, Reports!Next, Reports!Refused
      <3>3. CASE HandleAuth(t)
        <4>1. told = "connected"
          BY <2>1, <3>3 DEF Reported, HandleAuth, Takes
        <4>. QED
          BY <3>3, <4>1 DEF HandleAuth, Reports!Next, Reports!Established
      <3>4. CASE ~TellConnected(t) /\ ~HandleConnectCancelled(t) /\ ~HandleAuth(t)
        BY <2>6, <3>4 DEF Worker, HandleConnect, HandleDone, HandleRefuse,
           HandleBeat, HandleData, HandleClose, Repost, Pause, Recheck
      <3>. QED
        BY <3>1, <3>2, <3>3, <3>4
    <2>7. CASE UNCHANGED vars
      BY <2>7 DEF vars
    <2>. QED
      BY <1>2, <2>2, <2>3, <2>4, <2>5, <2>6, <2>7 DEF Next
  <1>. QED
    BY CountInvariance, <1>1, <1>2, PTL DEF Spec, IsConnectionReports, Reports!Spec

=============================================================================
