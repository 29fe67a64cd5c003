-------------------------- MODULE ClientConnection --------------------------
(***************************************************************************)
(* The client (IOCPClient): one session, which connects, asks the server   *)
(* to be let in, receives, and is disconnected by whoever notices first    *)
(* that it has to end.                                                     *)
(*                                                                         *)
(* Five kinds of thread meet: the application, which starts and stops the  *)
(* client, the workers of the completion port, the scheduler, which is the *)
(* only consumer of the session's jobs, the watchdog, which ends a         *)
(* connection on which nothing was heard for too long, and the server and  *)
(* the kernel, which complete what was posted.  OnDisconnectRequest lets   *)
(* one thread through; it cancels what is posted and reserves the end,     *)
(* which the thread that gives back the last I/O count carries out.        *)
(*                                                                         *)
(* A step is one access to shared memory, or several of which no order can *)
(* be told from another.  Time passes in ticks; the watchdog wakes once in *)
(* each and looks some time later.  Calls fail and operations break when   *)
(* they like, since each ends the connection.  Left out: the bytes         *)
(* (RecvRing), all sends but the request and the shortage that may meet    *)
(* them (SendPath), the service's own calls, and the time limit of         *)
(* StopClient's wait.                                                      *)
(***************************************************************************)
EXTENDS Integers, FiniteSets, FiniteSetsExt

CONSTANTS
    Workers,     \* threads of the completion port
    App,         \* the thread that calls StartClient and StopClient
    Watchdog,    \* ClientWatchdogThread
    Scheduler,   \* ClientSessionScheduler
    PauseLevel,  \* recvPauseJobDepth
    ResumeLevel, \* recvResumeJobDepth
    IdleTicks    \* the idle timeout, in ticks

Threads == Workers \cup {App, Watchdog, Scheduler}

(* The pause level is not 0, which would turn backpressure off.            *)
ASSUME ClientAssumption ==
    /\ IsFiniteSet(Workers)
    /\ App # Watchdog /\ App # Scheduler /\ Watchdog # Scheduler
    /\ Workers \cap {App, Watchdog, Scheduler} = {}
    /\ PauseLevel \in Nat \ {0} /\ ResumeLevel \in 0 .. PauseLevel - 1
    /\ IdleTicks \in Nat \ {0}

VARIABLES
    destroyed,     \* m_destroyFlag
    disconnecting, \* m_disconnecting
    session,       \* fields of ClientSession, below
    jobs,          \* length of the session's job queue
    armed,         \* the watchdog's m_idleTimeout_ms is not 0
    quiet,         \* ticks since m_lastRecvTick or m_resumeBaselineTick
    io,            \* the kernel: state or result of each operation
    server,        \* "away", "asked", "accepted"
    pc,
    op,            \* what a thread posts, or was called for
    owes,          \* I/O counts a thread has to give back
    told,          \* ghost: the last callback of the service
    heard          \* ghost: ticks of silence, those of a pause not counted

flags   == <<destroyed, disconnecting>>
clock   == <<armed, quiet, heard>>
threads == <<pc, op, owes>>
outside == <<io, server>>
vars    == <<flags, session, jobs, clock, outside, threads, told>>

Ops     == {"connect", "recv", "send"}
Results == {"none", "pending",
            "ok", "failed", "aborted", "auth", "refuse", "data", "beat", "closed"}
States  == {"ready", "connecting", "aborted", "connected", "authPending",
            "established", "disconnected"}

Steps   == {"off", "post", "running", "joinWatchdog", "joinScheduler", "await",
            "stopCore", "idle", "watch", "wait", "latch", "cancel", "cancelIO",
            "unpause", "reserve", "read", "drop", "settle", "complete", "issue",
            "tell", "repost", "pause", "recheck", "resume", "drained", "look"}

ClientSession == [socket : BOOLEAN, state : States, count : Int,
                  cancel : BOOLEAN, pending : BOOLEAN, notified : BOOLEAN,
                  paused : BOOLEAN]

TypeOK ==
    /\ destroyed \in BOOLEAN /\ disconnecting \in BOOLEAN
    /\ session \in ClientSession
    /\ jobs \in Nat
    /\ armed \in BOOLEAN
    /\ quiet \in 0 .. IdleTicks /\ heard \in 0 .. IdleTicks - 1
    /\ io \in [Ops -> Results]
    /\ server \in {"away", "asked", "accepted"}
    /\ pc \in [Threads -> Steps]
    /\ op \in [Threads -> Ops \cup {"none"}] /\ owes \in [Threads -> Nat]
    /\ told \in {"nothing", "refused", "connected", "established", "ended"}

NoSession == [socket |-> FALSE, state |-> "ready", count |-> 0, cancel |-> FALSE,
              pending |-> FALSE, notified |-> FALSE, paused |-> FALSE]

(* A client that has been constructed: StopClient has nothing to do.       *)
Init ==
    /\ destroyed = FALSE /\ disconnecting = FALSE
    /\ session = NoSession /\ jobs = 0
    /\ armed = FALSE /\ quiet = 0 /\ heard = 0
    /\ io = [o \in Ops |-> "none"] /\ server = "away"
    /\ pc = [t \in Threads |-> "off"]
    /\ op = [t \in Threads |-> "none"] /\ owes = [t \in Threads |-> 0]
    /\ told = "nothing"

-----------------------------------------------------------------------------
(* Building blocks.                                                        *)

Goto(t, to) == pc' = [pc EXCEPT ![t] = to]

(* Where a thread is when it has nothing left to do.                       *)
Home(t) ==
    IF t \in Workers THEN "idle"
    ELSE IF t = Watchdog THEN "watch"
    ELSE IF t = Scheduler THEN "wait"
    ELSE IF destroyed THEN "await" ELSE "running"

(* A thread gives back the counts it still holds, then it is done.         *)
Leave(t) == Goto(t, IF owes[t] > 0 THEN "drop" ELSE Home(t))

Pending == {o \in Ops : io[o] = "pending"}

(* CancelIoEx.                                                             *)
Aborted == [o \in Ops |-> IF o \in Pending THEN "aborted" ELSE io[o]]

-----------------------------------------------------------------------------
(* DecrementIO, and the end that was reserved.                             *)

(* Faulty variant: AUTH_PENDING is written once the request is out.        *)
DecrementIOAuthLast(t) ==
    /\ pc[t] = "drop"
    /\ session' = [session EXCEPT !.count = @ - owes[t],
           !.state = IF op[t] = "send" THEN "authPending" ELSE @]
    /\ owes' = [owes EXCEPT ![t] = 0]
    /\ op' = [op EXCEPT ![t] = "none"]
    /\ Goto(t, IF session.count = owes[t] THEN "settle" ELSE Home(t))
    /\ UNCHANGED <<flags, jobs, clock, outside, told>>

(* As long as a thread holds one of several counts, giving back the others *)
(* is not seen by anybody.                                                 *)
DecrementIO(t) ==
    /\ pc[t] = "drop"
    /\ session' = [session EXCEPT !.count = @ - owes[t]]
    /\ owes' = [owes EXCEPT ![t] = 0]
    /\ op' = [op EXCEPT ![t] = "none"]
    /\ Goto(t, IF session.count = owes[t] THEN "settle" ELSE Home(t))
    /\ UNCHANGED <<flags, jobs, clock, outside, told>>

(* The thread that found the count at 0 takes the reservation, if any.     *)
Settle(t) ==
    /\ pc[t] = "settle"
    /\ session' = [session EXCEPT !.pending = FALSE]
    /\ IF session.pending THEN Goto(t, "complete") ELSE Leave(t)
    /\ UNCHANGED <<flags, jobs, clock, outside, op, owes, told>>

(* CompleteDisconnect: the socket is closed, the service is told of the    *)
(* end if it was told of the connection, OnDisconnect sets the state.      *)
CompleteDisconnect(t) ==
    /\ pc[t] = "complete"
    /\ session' = [session EXCEPT !.socket = FALSE, !.notified = FALSE,
                                  !.state = "disconnected"]
    /\ told' = IF session.notified THEN "ended" ELSE told
    /\ Leave(t)
    /\ UNCHANGED <<flags, jobs, clock, outside, op, owes>>

-----------------------------------------------------------------------------
(* OnDisconnectRequest, by any thread.                                     *)

EnterDisconnect(t) ==
    /\ pc[t] = "latch"
    /\ disconnecting' = TRUE
    /\ IF disconnecting THEN Leave(t) ELSE Goto(t, "cancel")
    /\ UNCHANGED <<destroyed, session, jobs, clock, outside, op, owes, told>>

(* CancelPendingIO: m_cancelIo ...                                         *)
SetCancel(t) ==
    /\ pc[t] = "cancel"
    /\ session' = [session EXCEPT !.cancel = TRUE]
    /\ Goto(t, "cancelIO")
    /\ UNCHANGED <<flags, jobs, clock, outside, op, owes, told>>

(* ... then CancelIoEx, then the count of a pause is dropped, unless there *)
(* was nothing to cancel.                                                  *)
CancelIO(t) ==
    /\ pc[t] = "cancelIO"
    /\ io' = Aborted
    /\ Goto(t, IF Pending = {} THEN "reserve" ELSE "unpause")
    /\ UNCHANGED <<flags, session, jobs, clock, server, op, owes, told>>

ReleaseUnpostedIO(t) ==
    /\ pc[t] = "unpause"
    /\ session' = [session EXCEPT !.paused = FALSE,
                                  !.count = @ - (IF session.paused THEN 1 ELSE 0)]
    /\ Goto(t, "reserve")
    /\ UNCHANGED <<flags, jobs, clock, outside, op, owes, told>>

(* RequestRelease: the reservation first, then the count.                  *)
Reserve(t) ==
    /\ pc[t] = "reserve"
    /\ session' = [session EXCEPT !.pending = TRUE]
    /\ Goto(t, "read")
    /\ UNCHANGED <<flags, jobs, clock, outside, op, owes, told>>

ReadCount(t) ==
    /\ pc[t] = "read"
    /\ IF session.count = 0 THEN Goto(t, "settle") ELSE Leave(t)
    /\ UNCHANGED <<flags, session, jobs, clock, outside, op, owes, told>>

-----------------------------------------------------------------------------
(* StartClient and the first operation.                                    *)

(* Faulty variant: the latch of the last connection stays closed.          *)
ClearFlagsButLatch == destroyed' = FALSE /\ UNCHANGED disconnecting

(* The gates of the last life are opened again.                            *)
ClearFlags == destroyed' = FALSE /\ disconnecting' = FALSE

(* A new session with a new socket, a scheduler and a watchdog.            *)
StartClient ==
    /\ pc[App] = "off"
    /\ ClearFlags
    /\ session' = [NoSession EXCEPT !.socket = TRUE]
    /\ jobs' = 0 /\ armed' = FALSE /\ quiet' = 0 /\ heard' = 0
    /\ io' = [o \in Ops |-> "none"] /\ server' = "away"
    /\ pc' = [t \in Threads |-> IF t \in Workers THEN "idle"
                                ELSE IF t = Watchdog THEN "watch"
                                ELSE IF t = Scheduler THEN "wait" ELSE "post"]
    /\ told' = "nothing"
    /\ UNCHANGED <<op, owes>>

(* PostConnect: IncrementIO and ConnectEx.                                 *)
PostConnect ==
    /\ pc[App] = "post"
    /\ \/ /\ session' = [session EXCEPT !.count = @ + 1, !.state = "connecting"]
          /\ io' = [io EXCEPT !["connect"] = "pending"]
          /\ Goto(App, "running")
          /\ owes' = owes
       \/ /\ session' = [session EXCEPT !.count = @ + 1, !.state = "aborted"]
          /\ owes' = [owes EXCEPT ![App] = 1]
          /\ Goto(App, "latch")
          /\ UNCHANGED io
    /\ UNCHANGED <<flags, jobs, clock, server, op, told>>

-----------------------------------------------------------------------------
(* The kernel and the server.  A server answers what it was asked, then it *)
(* sends what it likes; it may close at any time.                          *)

Completes(o, result) ==
    /\ io[o] = "pending"
    /\ io' = [io EXCEPT ![o] = result]
    /\ UNCHANGED <<flags, session, jobs, clock, threads, told>>

Succeeds(o) == o # "recv" /\ Completes(o, "ok") /\ server' = server

Breaks(o) == Completes(o, "failed") /\ server' = server

Answers(answer) ==
    /\ server = "asked"
    /\ Completes("recv", answer)
    /\ server' = IF answer = "auth" THEN "accepted" ELSE server

Sends(what) ==
    /\ server \in {"asked", "accepted"}
    /\ Completes("recv", what)
    /\ server' = server

Closes == Completes("recv", "closed") /\ server' = server

Kernel ==
    \/ \E o \in Ops : Succeeds(o) \/ Breaks(o)
    \/ \E answer \in {"auth", "refuse"} : Answers(answer)
    \/ \E what \in {"data", "beat"} : Sends(what)
    \/ Closes

(* GetQueuedCompletionStatus and HandleCompletion: the worker owes the     *)
(* count of the operation it handles.                                      *)
Takes(t, o, result) ==
    /\ pc[t] = "idle" /\ io[o] = result
    /\ io' = [io EXCEPT ![o] = "none"]
    /\ owes' = [owes EXCEPT ![t] = 1]
    /\ op' = [op EXCEPT ![t] = o]

-----------------------------------------------------------------------------
(* BeginIO, and what it lets through.                                      *)

(* A count is taken and the cancel is read; when it is set the count goes  *)
(* back.  The thread holds another count all the while, so that this goes  *)
(* with the step before it, which turns the session into s.                *)
BeginIO(t, s, to) ==
    IF session.cancel
    THEN session' = s /\ Goto(t, "drop")
    ELSE session' = [s EXCEPT !.count = @ + 1] /\ Goto(t, to)

(* Faulty variant: the count of a call that failed is forgotten.           *)
IssueFailsUncounted(t) ==
    /\ Goto(t, "latch")
    /\ UNCHANGED <<session, io, server, owes>>

(* ClientSession::HandleSocketError: disconnect, then give the count back. *)
IssueFails(t) ==
    /\ owes' = [owes EXCEPT ![t] = @ + 1]
    /\ Goto(t, "latch")
    /\ UNCHANGED <<session, io, server>>

(* WSARecv, or WSASend with the request, which asks the server.            *)
IssueSucceeds(t) ==
    /\ io' = [io EXCEPT ![IF op[t] = "send" THEN "send" ELSE "recv"] = "pending"]
    /\ server' = IF op[t] = "send" /\ server = "away" THEN "asked" ELSE server
    /\ IF op[t] = "connect" THEN Goto(t, "tell") ELSE Leave(t)
    /\ UNCHANGED <<session, owes>>

Issue(t) ==
    /\ pc[t] = "issue"
    /\ IssueSucceeds(t) \/ IssueFails(t)
    /\ UNCHANGED <<flags, jobs, clock, op, told>>
-----------------------------------------------------------------------------
(* The connection: HandleConnect, and the request to be let in.            *)

(* The options of the socket; then the state, the tick, the first receive. *)
HandleConnect(t) ==
    /\ Takes(t, "connect", "ok")
    /\ \/ /\ BeginIO(t, [session EXCEPT !.state = "connected"], "issue")
          /\ quiet' = 0
       \/ /\ Goto(t, "latch")
          /\ UNCHANGED <<session, quiet>>
    /\ UNCHANGED <<flags, jobs, armed, heard, server, told>>

(* MarkServiceConnectNotified and OnClientConnect, before anything is sent; *)
(* then SendSystemAuthRequest: AUTH_PENDING before the packet can go out,  *)
(* taken back when it cannot be queued.                                    *)
TellConnected(t) ==
    /\ pc[t] = "tell"
    /\ told' = "connected"
    /\ LET notified == [session EXCEPT !.notified = TRUE]
       IN  \/ /\ BeginIO(t, [notified EXCEPT !.state = "authPending"], "issue")
              /\ op' = [op EXCEPT ![t] = "send"]
           \/ /\ session' = notified
              /\ Goto(t, "latch")
              /\ UNCHANGED op
    /\ UNCHANGED <<flags, jobs, clock, io, server, owes>>

(* Faulty variant: a connection that never was is reported as ended.       *)
ReportFailureAsEnd == told' = "ended"

ReportFailure == told' = "refused"  \* OnConnectFailed

(* What the client itself has cancelled is no failure to connect.          *)
HandleConnectCancelled(t) ==
    /\ \/ Takes(t, "connect", "failed") /\ ReportFailure
       \/ Takes(t, "connect", "aborted") /\ told' = told
    /\ session' = [session EXCEPT !.state = "aborted"]
    /\ Goto(t, "latch")
    /\ UNCHANGED <<flags, jobs, clock, server>>

(* A request that is out, and anything that was cancelled, only counts.    *)
HandleDone(t) ==
    /\ \/ Takes(t, "send", "ok")
       \/ \E o \in {"recv", "send"} : Takes(t, o, "aborted")
    /\ Goto(t, "drop")
    /\ UNCHANGED <<flags, session, jobs, clock, server, told>>

-----------------------------------------------------------------------------
(* What is received: HandleRecv and HandleSystemPacket.                    *)

Heard == quiet' = 0 /\ heard' = 0

Drops(t) == Goto(t, "latch") /\ UNCHANGED session

(* ESTABLISHED, then the watchdog is armed, if there still is one, then    *)
(* OnSessionEstablished.                                                   *)
HandleAuth(t) ==
    /\ Takes(t, "recv", "auth")
    /\ Heard
    /\ session' = [session EXCEPT !.state = "established"]
    /\ armed' = (pc[Watchdog] # "off")
    /\ told' = "established"
    /\ Goto(t, "repost")
    /\ UNCHANGED <<flags, jobs, server>>

HandleRefuse(t) ==
    /\ Takes(t, "recv", "refuse")
    /\ Heard
    /\ Drops(t)
    /\ UNCHANGED <<flags, jobs, armed, server, told>>

(* Before the session is established a heartbeat breaks the protocol.      *)
HandleBeat(t) ==
    /\ Takes(t, "recv", "beat")
    /\ Heard
    /\ IF session.state = "established"
       THEN Goto(t, "repost") /\ session' = session
       ELSE Drops(t)
    /\ UNCHANGED <<flags, jobs, armed, server, told>>

(* OnReceive: the service submits a job.                                   *)
HandleData(t) ==
    /\ Takes(t, "recv", "data")
    /\ Heard
    /\ IF session.state = "established"
       THEN jobs' = jobs + 1 /\ Goto(t, "repost") /\ session' = session
       ELSE Drops(t) /\ jobs' = jobs
    /\ UNCHANGED <<flags, armed, server, told>>

(* HandleSessionDisconnected and HandleSocketError.                        *)
HandleClose(t) ==
    /\ \/ Takes(t, "recv", "closed")
       \/ \E o \in {"recv", "send"} : Takes(t, o, "failed")
    /\ Drops(t)
    /\ UNCHANGED <<flags, jobs, clock, server, told>>

-----------------------------------------------------------------------------
(* Backpressure: PostReceiveOrPause, and the consumer that resumes.        *)

Repost(t) ==
    /\ pc[t] = "repost"
    /\ IF session.pending THEN Leave(t) /\ UNCHANGED session
       ELSE BeginIO(t, session, IF jobs < PauseLevel THEN "issue" ELSE "pause")
    /\ UNCHANGED <<flags, jobs, clock, outside, op, owes, told>>

(* The pause keeps the count.                                              *)
Pause(t) ==
    /\ pc[t] = "pause"
    /\ session' = [session EXCEPT !.paused = TRUE]
    /\ Goto(t, "recheck")
    /\ UNCHANGED <<flags, jobs, clock, outside, op, owes, told>>

Recheck(t) ==
    /\ pc[t] = "recheck"
    /\ IF jobs > ResumeLevel THEN Leave(t) ELSE Goto(t, "resume")
    /\ UNCHANGED <<flags, session, jobs, clock, outside, op, owes, told>>

(* ResumeReceive: who takes the pause back owes its count.  When BeginIO   *)
(* then refuses, somebody else is disconnecting already.                   *)
ResumeReceive(t) ==
    /\ pc[t] = "resume"
    /\ IF session.paused
       THEN /\ BeginIO(t, [session EXCEPT !.paused = FALSE], "issue")
            /\ owes' = [owes EXCEPT ![t] = @ + 1]
            /\ op' = [op EXCEPT ![t] = "recv"]
       ELSE Leave(t) /\ UNCHANGED <<session, op, owes>>
    /\ UNCHANGED <<flags, jobs, clock, outside, told>>

(* The scheduler takes a job, executes it ...                              *)
WaitDequeueJob(t) ==
    /\ t = Scheduler /\ pc[t] = "wait" /\ jobs > 0
    /\ pc[App] # "joinScheduler"
    /\ jobs' = jobs - 1
    /\ Goto(t, "drained")
    /\ UNCHANGED <<flags, session, clock, outside, op, owes, told>>

(* ... and looks whether the receive waits for it.                         *)
ResumeReceiveIfDrained(t) ==
    /\ pc[t] = "drained"
    /\ Goto(t, IF session.paused /\ jobs <= ResumeLevel THEN "resume" ELSE Home(t))
    /\ UNCHANGED <<flags, session, jobs, clock, outside, op, owes, told>>
-----------------------------------------------------------------------------
(* The watchdog, and time.                                                 *)

(* A tick, which ends the watchdog's wait.  What happens before it is      *)
(* armed, or to a session that is not established, does not matter to it.  *)
Tick ==
    /\ pc[Watchdog] = "watch" /\ armed /\ session.state = "established"
    /\ pc[App] # "joinWatchdog"
    /\ quiet' = Min({quiet + 1, IdleTicks})
    /\ heard' = IF session.paused THEN heard ELSE Min({heard + 1, IdleTicks - 1})
    /\ Goto(Watchdog, "look")
    /\ UNCHANGED <<flags, session, jobs, armed, outside, op, owes, told>>

(* Faulty variant: silence counts although the client did not listen.      *)
NoBaseline == UNCHANGED quiet

(* m_resumeBaselineTick: a pause is not the server's silence.              *)
Baseline == quiet' = 0

Look ==
    /\ pc[Watchdog] = "look"
    /\ IF armed /\ session.state = "established" /\ session.paused
       THEN Baseline ELSE UNCHANGED quiet
    /\ IF armed /\ session.state = "established" /\ ~session.paused
          /\ quiet = IdleTicks
       THEN armed' = FALSE /\ Drops(Watchdog)
       ELSE Goto(Watchdog, "watch") /\ UNCHANGED <<armed, session>>
    /\ UNCHANGED <<flags, jobs, heard, outside, op, owes, told>>

-----------------------------------------------------------------------------
(* StopClient.                                                             *)

StopClient ==
    /\ pc[App] = "running"
    /\ destroyed' = TRUE /\ armed' = FALSE
    /\ Goto(App, "joinWatchdog")
    /\ UNCHANGED <<disconnecting, session, jobs, quiet, heard, outside,
                   op, owes, told>>

Joined(t, to) == pc' = [pc EXCEPT ![t] = "off", ![App] = to]

JoinWatchdog ==
    /\ pc[App] = "joinWatchdog" /\ pc[Watchdog] = "watch"
    /\ Joined(Watchdog, "joinScheduler")
    /\ quiet' = 0 /\ heard' = 0
    /\ UNCHANGED <<flags, session, jobs, armed, outside, op, owes, told>>

(* Jobs that are still queued stay where they are.                         *)
JoinScheduler ==
    /\ pc[App] = "joinScheduler" /\ pc[Scheduler] = "wait"
    /\ Joined(Scheduler, "latch")
    /\ UNCHANGED <<flags, session, jobs, clock, outside, op, owes, told>>

(* WaitForIOCancelComplete: the event is set with the last count.          *)
AwaitIOCancel ==
    /\ pc[App] = "await" /\ session.count = 0
    /\ Goto(App, "stopCore")
    /\ UNCHANGED <<flags, session, jobs, clock, outside, op, owes, told>>

(* Faulty variant: what was posted after the cancel is waited for.         *)
ReissueNothing == Pending # {} /\ UNCHANGED io

(* A thread that had passed BeginIO may have posted after CancelIoEx.      *)
ReissueCancelIo == Pending # {} /\ io' = Aborted

(* A slice of the wait drops the count of a pause, which no completion     *)
(* would bring, and cancels again.                                         *)
RetrySlice ==
    /\ pc[App] = "await" /\ session.count # 0
    /\ \/ /\ session.paused
          /\ session' = [session EXCEPT !.paused = FALSE]
          /\ owes' = [owes EXCEPT ![App] = 1]
          /\ Goto(App, "drop")
          /\ UNCHANGED io
       \/ ReissueCancelIo /\ UNCHANGED <<session, owes, pc>>
    /\ UNCHANGED <<flags, jobs, clock, server, op, told>>

(* IOCPCore::Stop: the workers end.  The session is deleted; its fields    *)
(* stay what its destructor finds.                                         *)
StopCore ==
    /\ pc[App] = "stopCore" /\ \A w \in Workers : pc[w] = "idle"
    /\ pc' = [t \in Threads |-> "off"]
    /\ op' = [t \in Threads |-> "none"]
    /\ UNCHANGED <<flags, session, jobs, clock, outside, owes, told>>

-----------------------------------------------------------------------------
(* A step of a thread that is on its way.                                  *)
Disconnects(t) ==
    \/ EnterDisconnect(t) \/ SetCancel(t) \/ CancelIO(t) \/ ReleaseUnpostedIO(t)
    \/ Reserve(t) \/ ReadCount(t)
    \/ DecrementIO(t) \/ Settle(t) \/ CompleteDisconnect(t)

Posts(t) == Issue(t) \/ ResumeReceive(t)

Worker(t) ==
    \/ HandleConnect(t) \/ TellConnected(t) \/ HandleConnectCancelled(t)
    \/ HandleDone(t) \/ HandleAuth(t) \/ HandleRefuse(t) \/ HandleBeat(t)
    \/ HandleData(t) \/ HandleClose(t)
    \/ Repost(t) \/ Pause(t) \/ Recheck(t)

Schedules == WaitDequeueJob(Scheduler) \/ ResumeReceiveIfDrained(Scheduler)

Stops     == \/ JoinWatchdog \/ JoinScheduler \/ AwaitIOCancel \/ RetrySlice
             \/ StopCore

Next ==
    \/ StartClient \/ PostConnect \/ StopClient \/ Stops
    \/ Kernel \/ Tick
    \/ \E t \in Threads : Disconnects(t)
    \/ \E t \in Workers \cup {Scheduler} : Posts(t)
    \/ \E t \in Workers : Worker(t)
    \/ Schedules \/ Look

Spec == Init /\ [][Next]_vars

(* From OnDisconnectRequest to the last thing a thread does for the end.   *)
OnTheWayOut == {"latch", "cancel", "cancelIO", "unpause", "reserve", "read",
                "drop", "settle", "complete"}

GoesOn(t) ==
    IF pc[t] \in OnTheWayOut THEN Disconnects(t)
    ELSE IF t = App THEN Stops
    ELSE IF t = Watchdog THEN Look
    ELSE IF t = Scheduler THEN Schedules \/ Posts(t)
    ELSE IF pc[t] \in {"issue", "resume"} THEN Posts(t) ELSE Worker(t)

(* Once StopClient has begun every thread that can go on does, and before  *)
(* that nobody has to.  Whether the server answers and the kernel          *)
(* completes what nobody cancels is open.                                  *)
Fairness == \A t \in Threads : WF_vars(destroyed /\ GoesOn(t))

FairSpec == Spec /\ Fairness

-----------------------------------------------------------------------------
(* Properties.                                                             *)

(* What threads have to give back: one pair for each count they owe.       *)
Debts == UNION {{t} \X (1 .. owes[t]) : t \in Threads}

(* The I/O count is exactly what is outstanding: what the kernel has or    *)
(* has completed, what threads still have to give back, a pause, and what  *)
(* a thread has taken but not yet issued (BaseSession::BeginIO, the        *)
(* handlers' DecrementIO).  One too many and StopClient waits in vain, one *)
(* too few and the socket is closed under an operation.                    *)
CountIsHeld ==
    session.count =
        Cardinality({o \in Ops : io[o] # "none"})
        + Cardinality(Debts)
        + Cardinality({t \in Threads : pc[t] \in {"issue", "pause"}})
        + (IF session.paused THEN 1 ELSE 0)

(* A client that has stopped is quiet, in its first life and in every      *)
(* later one (StopClient, BaseSession::Finalize): nothing is posted or     *)
(* reserved, no count is left, the socket is closed, and the service does  *)
(* not believe in a connection any more.                                   *)
StoppedIsQuiet ==
    pc[App] = "off" =>
        /\ \A o \in Ops : io[o] = "none"
        /\ session.count = 0 /\ ~session.pending
        /\ ~session.socket /\ ~session.notified
        /\ told \notin {"connected", "established"}

(* The callbacks of the service (OnClientConnect, OnSessionEstablished,    *)
(* OnConnectFailed, OnClientDisconnect), which five kinds of thread race   *)
(* for, follow the protocol of ConnectionReports.                          *)
Reports == INSTANCE ConnectionReports

IsConnectionReports == Reports!Spec

(* As long as the client runs, a session that is established stays so      *)
(* until it is disconnected: the worker that sends the request never       *)
(* overwrites what the worker that handles the answer has written          *)
(* (SendSystemAuthRequest).                                                *)
EstablishedStays ==
    [][session.state = "established" /\ pc[App] # "off"
         => session'.state \in {"established", "disconnected"}]_vars

(* The watchdog ends a connection only after a silence that is as long     *)
(* as the timeout without the pauses of the client itself, give or take    *)
(* one tick that falls between two looks (ClientWatchdogThread::Run).      *)
WatchdogIsFair ==
    [][pc[Watchdog] = "look" /\ pc'[Watchdog] = "latch"
         => heard >= IdleTicks - 1]_vars

(* StopClient comes to its end, whatever the connection was doing.         *)
StopEnds == destroyed ~> (pc[App] = "off")

=============================================================================
