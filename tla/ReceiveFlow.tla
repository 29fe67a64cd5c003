---------------------------- MODULE ReceiveFlow ----------------------------
(***************************************************************************)
(* From a received packet to its handler, and back-pressure.               *)
(*                                                                         *)
(* A completion of the one receive a session has posted brings a batch of  *)
(* packets.  HandleRecv puts each as a job into the job queue of the       *)
(* session (SubmitPacketJob) and, if m_processing says that nobody has the *)
(* session in hand, puts the session into the ready queue.  A job worker   *)
(* pops it and runs its jobs one after the other.  At the end HandleRecv   *)
(* posts the next receive, or, when too many jobs wait, pauses: it keeps a *)
(* count, marks m_recvPaused, and leaves it to the job worker to resume.   *)
(*                                                                         *)
(* Three kinds of thread: IOCP Workers, JobWorkers (they hold no count of  *)
(* the session they work on) and Closers, which stand for whoever retires  *)
(* a session without holding a count: the heartbeat pass, a failed send of *)
(* the service.  Each step is one interlocked operation or one critical    *)
(* section.  What SessionLifecycle details is coarser here: a session is   *)
(* leased in one step (Lease), and reset in two.                           *)
(***************************************************************************)
EXTENDS Integers, Sequences, FiniteSets, Functions

CONSTANTS
    Sessions,     \* the ClientSession objects of the pool
    Workers,      \* IOCP worker threads
    JobWorkers,   \* ReadySessionWorker threads
    Closers,      \* threads that retire a session without holding a count
    PauseLevel,   \* SessionBufferConfig::recvPauseJobDepth, not 0
    ResumeLevel,  \* SessionBufferConfig::recvResumeJobDepth
    MaxBatch,     \* bound: complete packets in what one receive brings
    MaxPackets,   \* bound: packets per lease
    MaxLeases     \* bound: leases per session

Threads == Workers \cup JobWorkers \cup Closers

ASSUME SessionsAssumption == IsFiniteSet(Sessions) /\ Sessions # {}
ASSUME ThreadsAssumption ==
    /\ IsFiniteSet(Threads)
    /\ Workers \cap JobWorkers = {}
    /\ Workers \cap Closers = {}
    /\ JobWorkers \cap Closers = {}
(* SessionBufferConfig::IsValid wants the two levels apart.                *)
ASSUME LevelsAssumption ==
    /\ PauseLevel \in Nat /\ ResumeLevel \in Nat
    /\ ResumeLevel < PauseLevel
ASSUME BoundsAssumption ==
    /\ MaxBatch \in Nat /\ MaxPackets \in Nat /\ MaxLeases \in Nat

VARIABLES
    (* the pool and BaseSession *)
    poolState,    \* SessionNode::poolState
    open,         \* the socket is attached, the state one of a connection
    ioCount,      \* m_ioCount
    cancelIo,     \* m_cancelIo
    releasePending, \* m_releasePending
    live, dying,  \* operations issued: not cancelled, cancelled
    (* ClientSession *)
    jobs,         \* m_jobQueue: the numbers of the packets in their lease
    processing,   \* m_processing
    paused,       \* m_recvPaused
    (* the scheduler *)
    ready,        \* ReadySessionQueue: its capacity is the number of sessions
    (* ghosts *)
    lease,        \* how often the session has been leased
    received,     \* packets queued in this lease
    done,         \* jobs of this lease that have run
    left,         \* it was once reset under the hands of another thread
    (* threads *)
    pc,           \* the step a thread is about to take
    ses,          \* the session it works on
    stack,        \* where the routines it is in return to
    post,         \* on whose behalf it posts a receive
    batch,        \* packets HandleRecv has still to queue
    job           \* the number of the job in a worker's hand

ioVars     == <<ioCount, cancelIo, releasePending>>
kernelVars == <<live, dying>>
jobVars    == <<jobs, received, done>>
schedVars  == <<processing, ready>>
leaseVars  == <<poolState, open, lease, left>>
vars       == <<leaseVars, ioVars, kernelVars, jobVars, schedVars, paused,
                pc, ses, stack, post, batch, job>>
locals     == <<ses, post, batch, job>>

Kinds == {"recv", "send"}

HandlerPcs == {"parse", "schedule", "push", "unschedule", "checkPending",
               "depth", "beginPause", "gatePause", "mark", "recheck",
               "recvNotPosted", "finish"}
WorkerPcs  == {"drain", "execute", "clear", "recheckJobs", "claimAgain",
               "pushAgain", "unclaim", "resumeCheck", "resumeDepth"}
ResumePcs  == {"resume", "resumeFailed", "dropPause"}
IoPcs      == {"connected", "begin", "gate", "issue", "undoIO"}
ReleasePcs == {"release", "cancel", "cancelIoEx", "dropUnposted", "dropCount",
               "reserve", "readCount", "claim", "token", "complete", "reset"}
Pcs        == {"idle"} \cup HandlerPcs \cup WorkerPcs \cup ResumePcs
              \cup IoPcs \cup ReleasePcs

TypeOK ==
    /\ poolState \in [Sessions -> {"FREE", "IN_USE", "RELEASING"}]
    /\ open \in [Sessions -> BOOLEAN]
    /\ ioCount \in [Sessions -> Int]
    /\ cancelIo \in [Sessions -> 0..1]
    /\ releasePending \in [Sessions -> 0..1]
    /\ live \in [Sessions -> [Kinds -> Nat]]
    /\ dying \in [Sessions -> [Kinds -> Nat]]
    /\ jobs \in [Sessions -> Seq(Nat)]
    /\ processing \in [Sessions -> 0..1]
    /\ paused \in [Sessions -> 0..1]
    /\ ready \in Seq(Sessions)
    /\ lease \in [Sessions -> Nat]
    /\ received \in [Sessions -> Nat]
    /\ done \in [Sessions -> Nat]
    /\ left \in [Sessions -> BOOLEAN]
    /\ pc \in [Threads -> Pcs]
    /\ ses \in [Threads -> Sessions]
    /\ stack \in [Threads -> Seq(Pcs)]
    /\ post \in [Threads -> {"next", "resume"}]
    /\ batch \in [Threads -> Nat]
    /\ job \in [Threads -> Nat]

Init ==
    /\ poolState = [s \in Sessions |-> "FREE"]
    /\ open = [s \in Sessions |-> FALSE]
    /\ ioCount = [s \in Sessions |-> 0]
    /\ cancelIo = [s \in Sessions |-> 0]
    /\ releasePending = [s \in Sessions |-> 0]
    /\ live = [s \in Sessions |-> [k \in Kinds |-> 0]]
    /\ dying = [s \in Sessions |-> [k \in Kinds |-> 0]]
    /\ jobs = [s \in Sessions |-> <<>>]
    /\ processing = [s \in Sessions |-> 0]
    /\ paused = [s \in Sessions |-> 0]
    /\ ready = <<>>
    /\ lease = [s \in Sessions |-> 0]
    /\ received = [s \in Sessions |-> 0]
    /\ done = [s \in Sessions |-> 0]
    /\ left = [s \in Sessions |-> FALSE]
    /\ pc = [t \in Threads |-> "idle"]
    /\ ses = [t \in Threads |-> CHOOSE s \in Sessions : TRUE]
    /\ stack = [t \in Threads |-> <<>>]
    /\ post = [t \in Threads |-> "next"]
    /\ batch = [t \in Threads |-> 0]
    /\ job = [t \in Threads |-> 0]

-----------------------------------------------------------------------------
(* Control flow *)

Goto(t, l) == pc' = [pc EXCEPT ![t] = l] /\ UNCHANGED stack

(* Enter a routine at l, to return to r.                                   *)
Call(t, l, r) ==
    /\ pc' = [pc EXCEPT ![t] = l]
    /\ stack' = [stack EXCEPT ![t] = <<r>> \o @]

Return(t) ==
    /\ pc' = [pc EXCEPT ![t] = IF stack[t] = <<>> THEN "idle" ELSE Head(stack[t])]
    /\ stack' = [stack EXCEPT ![t] = IF @ = <<>> THEN @ ELSE Tail(@)]

(* From here go on at l or return.                                         *)
GotoOrReturn(t, goes, l) == IF goes THEN Goto(t, l) ELSE Return(t)

(* An idle thread takes up session s at l, to go on at the frames.         *)
Begin(t, s, l, frames) ==
    /\ pc[t] = "idle"
    /\ pc' = [pc EXCEPT ![t] = l]
    /\ ses' = [ses EXCEPT ![t] = s]
    /\ stack' = [stack EXCEPT ![t] = frames]

(* The threads at work on a session; where a thread is, callers included.  *)
On(s)     == {t \in Threads : ses[t] = s /\ pc[t] # "idle"}
Frames(t) == {pc[t]} \cup Range(stack[t])

(* Who has session s in hand: its places in the ready queue, the threads   *)
(* about to push it, and the workers that drain it.                        *)
Claims(s) ==
    Cardinality({i \in DOMAIN ready : ready[i] = s})
    + Cardinality({t \in On(s) :
          \/ pc[t] \in {"push", "unschedule", "pushAgain", "unclaim", "clear"}
          \/ {"drain", "execute"} \cap Frames(t) # {}})

-----------------------------------------------------------------------------
(* BaseSession: DecrementIO, and the release *)

(* DecrementIO returns to whoever called the routine it ends; the thread   *)
(* that reaches zero looks at the release token first.                     *)
DecrementIO(t) ==
    LET s == ses[t] IN
    /\ ioCount' = [ioCount EXCEPT ![s] = @ - 1]
    /\ GotoOrReturn(t, ioCount[s] = 1, "token")
    /\ UNCHANGED <<leaseVars, cancelIo, releasePending, kernelVars, jobVars,
                   schedVars, paused, locals>>

TakeToken(t) ==
    LET s == ses[t] IN
    /\ pc[t] \in {"token", "claim"}
    /\ releasePending' = [releasePending EXCEPT ![s] = 0]
    /\ GotoOrReturn(t, releasePending[s] = 1, "complete")
    /\ UNCHANGED <<leaseVars, ioCount, cancelIo, kernelVars, jobVars,
                   schedVars, paused, locals>>

(* ClientSessionPool::Release: losers of the compare-exchange return.      *)
Release(t) ==
    LET s == ses[t] IN
    /\ pc[t] = "release"
    /\ poolState' = IF poolState[s] = "IN_USE"
                    THEN [poolState EXCEPT ![s] = "RELEASING"] ELSE poolState
    /\ GotoOrReturn(t, poolState[s] = "IN_USE", "cancel")
    /\ UNCHANGED <<open, lease, left, ioVars, kernelVars, jobVars, schedVars,
                   paused, locals>>

(* CancelPendingIO closes the gate ...                                     *)
CancelPendingIO(t) ==
    LET s == ses[t] IN
    /\ pc[t] = "cancel"
    /\ cancelIo' = IF open[s] THEN [cancelIo EXCEPT ![s] = 1] ELSE cancelIo
    /\ Goto(t, IF ~open[s] THEN "reserve"
               ELSE IF cancelIo[s] = 0 THEN "cancelIoEx" ELSE "dropUnposted")
    /\ UNCHANGED <<leaseVars, ioCount, releasePending, kernelVars, jobVars,
                   schedVars, paused, locals>>

AbortOperations(s) ==
    /\ live' = [live EXCEPT ![s] = [k \in Kinds |-> 0]]
    /\ dying' = [dying EXCEPT ![s] =
                   [k \in Kinds |-> dying[s][k] + live[s][k]]]

(* ... CancelIoEx; when it finds nothing to cancel, CancelPendingIO        *)
(* returns at once, without ReleaseUnpostedIO.                             *)
CancelIoEx(t) ==
    LET s == ses[t] IN
    /\ pc[t] = "cancelIoEx"
    /\ AbortOperations(s)
    /\ Goto(t, IF \E k \in Kinds : live[s][k] > 0
               THEN "dropUnposted" ELSE "reserve")
    /\ UNCHANGED <<leaseVars, ioVars, jobVars, schedVars, paused, locals>>

(* Faulty variant: the count is dropped paused or not.                     *)
ReleaseUnpostedIOAlways(t) ==
    LET s == ses[t] IN
    /\ pc[t] = "dropUnposted"
    /\ paused' = [paused EXCEPT ![s] = 0]
    /\ Call(t, "dropCount", "reserve")
    /\ UNCHANGED <<leaseVars, ioVars, kernelVars, jobVars, schedVars, locals>>

(* ReleaseUnpostedIO: drop the count of a pause, resume nothing.           *)
ReleaseUnpostedIO(t) ==
    LET s == ses[t] IN
    /\ pc[t] = "dropUnposted"
    /\ paused' = [paused EXCEPT ![s] = 0]
    /\ IF paused[s] = 1 THEN Call(t, "dropCount", "reserve")
       ELSE Goto(t, "reserve")
    /\ UNCHANGED <<leaseVars, ioVars, kernelVars, jobVars, schedVars, locals>>

DropUnposted(t) == pc[t] = "dropCount" /\ DecrementIO(t)

(* RequestRelease: set the token, read the count, claim (TakeToken).       *)
Reserve(t) ==
    /\ pc[t] = "reserve"
    /\ releasePending' = [releasePending EXCEPT ![ses[t]] = 1]
    /\ Goto(t, "readCount")
    /\ UNCHANGED <<leaseVars, ioCount, cancelIo, kernelVars, jobVars,
                   schedVars, paused, locals>>

ReadCount(t) ==
    /\ pc[t] = "readCount"
    /\ GotoOrReturn(t, ioCount[ses[t]] = 0, "claim")
    /\ UNCHANGED <<leaseVars, ioVars, kernelVars, jobVars, schedVars, paused,
                   locals>>

(* CompleteRelease: the socket is closed and the session disconnected; ... *)
CompleteRelease(t) ==
    LET s == ses[t] IN
    /\ pc[t] = "complete"
    /\ open' = [open EXCEPT ![s] = FALSE]
    /\ AbortOperations(s)
    /\ Goto(t, "reset")
    /\ UNCHANGED <<poolState, lease, left, ioVars, jobVars, schedVars, paused,
                   locals>>

(* ... ResetSession; the jobs left are thrown away; the node is FREE.  The *)
(* ready queue and the workers are not looked at.                          *)
ResetSession(t) ==
    LET s == ses[t] IN
    /\ pc[t] = "reset"
    /\ cancelIo' = [cancelIo EXCEPT ![s] = 0]
    /\ releasePending' = [releasePending EXCEPT ![s] = 0]
    /\ processing' = [processing EXCEPT ![s] = 0]
    /\ paused' = [paused EXCEPT ![s] = 0]
    /\ jobs' = [jobs EXCEPT ![s] = <<>>]
    /\ poolState' = [poolState EXCEPT ![s] = "FREE"]
    /\ left' = [left EXCEPT ![s] = @ \/ Claims(s) > 0 \/ On(s) # {t}]
    /\ Return(t)
    /\ UNCHANGED <<open, lease, ioCount, kernelVars, received, done, ready,
                   locals>>

ReleaseStep(t) ==
    \/ TakeToken(t) \/ Release(t) \/ CancelPendingIO(t) \/ CancelIoEx(t)
    \/ ReleaseUnpostedIO(t) \/ DropUnposted(t) \/ Reserve(t) \/ ReadCount(t)
    \/ CompleteRelease(t) \/ ResetSession(t)

-----------------------------------------------------------------------------
(* ClientSession::PostReceive, for the next receive of HandleRecv or to    *)
(* resume after a pause *)

Posted(t)    == IF post[t] = "next" THEN "finish" ELSE "dropPause"
NotPosted(t) == IF post[t] = "next" THEN "recvNotPosted" ELSE "resumeFailed"

(* Not connected, or no room in the receive ring.                          *)
CheckConnected(t) ==
    /\ pc[t] = "connected"
    /\ \/ open[ses[t]] /\ Goto(t, "begin")
       \/ Goto(t, NotPosted(t))
    /\ UNCHANGED <<leaseVars, ioVars, kernelVars, jobVars, schedVars, paused,
                   locals>>

(* BeginIO, here and in PostReceiveOrPause: count first ...                *)
BeginIO(t) ==
    /\ pc[t] \in {"begin", "beginPause"}
    /\ ioCount' = [ioCount EXCEPT ![ses[t]] = @ + 1]
    /\ Goto(t, IF pc[t] = "begin" THEN "gate" ELSE "gatePause")
    /\ UNCHANGED <<leaseVars, cancelIo, releasePending, kernelVars, jobVars,
                   schedVars, paused, locals>>

(* ... then look at the gate; when it is closed, undo the count.           *)
Gate(t) ==
    /\ pc[t] = "gate"
    /\ IF cancelIo[ses[t]] = 0 THEN Goto(t, "issue")
       ELSE Call(t, "undoIO", NotPosted(t))
    /\ UNCHANGED <<leaseVars, ioVars, kernelVars, jobVars, schedVars, paused,
                   locals>>

IssueSucceeds(t) ==
    LET s == ses[t] IN
    /\ pc[t] = "issue"
    /\ open[s]
    /\ live' = [live EXCEPT ![s]["recv"] = @ + 1]
    /\ Goto(t, Posted(t))
    /\ UNCHANGED <<leaseVars, ioVars, dying, jobVars, schedVars, paused,
                   locals>>

(* HandleSocketError: a dead connection is released, a shortage only       *)
(* logged; the count is dropped last.                                      *)
IssueFails(t) ==
    /\ pc[t] = "issue"
    /\ \/ /\ pc' = [pc EXCEPT ![t] = "release"]
          /\ stack' = [stack EXCEPT ![t] = <<"undoIO", NotPosted(t)>> \o @]
       \/ /\ open[ses[t]]
          /\ Call(t, "undoIO", NotPosted(t))
    /\ UNCHANGED <<leaseVars, ioVars, kernelVars, jobVars, schedVars, paused,
                   locals>>

UndoIO(t) == pc[t] = "undoIO" /\ DecrementIO(t)

PostReceiveStep(t) ==
    \/ CheckConnected(t) \/ BeginIO(t) \/ Gate(t) \/ IssueSucceeds(t)
    \/ IssueFails(t) \/ UndoIO(t)

-----------------------------------------------------------------------------
(* ClientSession::ResumeReceive, by the handler that paused or by the job  *)
(* worker *)

(* Faulty variant: whoever comes resumes, without the compare-exchange.    *)
ResumeReceiveAlways(t) ==
    LET s == ses[t] IN
    /\ pc[t] = "resume"
    /\ paused' = [paused EXCEPT ![s] = 0]
    /\ post' = [post EXCEPT ![t] = "resume"]
    /\ Goto(t, "connected")
    /\ UNCHANGED <<leaseVars, ioVars, kernelVars, jobVars, schedVars, ses,
                   batch, job>>

ResumeReceive(t) ==
    LET s == ses[t] IN
    /\ pc[t] = "resume"
    /\ paused' = [paused EXCEPT ![s] = 0]
    /\ post' = [post EXCEPT ![t] = "resume"]
    /\ GotoOrReturn(t, paused[s] = 1, "connected")
    /\ UNCHANGED <<leaseVars, ioVars, kernelVars, jobVars, schedVars, ses,
                   batch, job>>

ResumeFailed(t) ==
    /\ pc[t] = "resumeFailed"
    /\ Call(t, "release", "dropPause")
    /\ UNCHANGED <<leaseVars, ioVars, kernelVars, jobVars, schedVars, paused,
                   locals>>

(* The count of the pause, last.                                           *)
DropPause(t) == pc[t] = "dropPause" /\ DecrementIO(t)

ResumeStep(t) == ResumeReceive(t) \/ ResumeFailed(t) \/ DropPause(t)

-----------------------------------------------------------------------------
(* IOCPServer::HandleRecv and SubmitPacketJob *)

(* The parse loop: a packet is made a job and queued, ...                  *)
SubmitPacketJob(w) ==
    LET s == ses[w] IN
    /\ pc[w] = "parse"
    /\ batch[w] > 0
    /\ batch' = [batch EXCEPT ![w] = @ - 1]
    /\ received' = [received EXCEPT ![s] = @ + 1]
    /\ jobs' = [jobs EXCEPT ![s] = Append(@, received[s] + 1)]
    /\ Goto(w, "schedule")
    /\ UNCHANGED <<leaseVars, ioVars, kernelVars, done, schedVars, paused,
                   ses, post, job>>

(* Faulty variant: every packet pushes the session.                        *)
ScheduleAlways(w) ==
    LET s == ses[w] IN
    /\ pc[w] = "schedule"
    /\ processing' = [processing EXCEPT ![s] = 1]
    /\ Goto(w, "push")
    /\ UNCHANGED <<leaseVars, ioVars, kernelVars, jobVars, ready, paused,
                   locals>>

(* ... the thread that turns m_processing from 0 to 1 ...                  *)
Schedule(w) ==
    LET s == ses[w] IN
    /\ pc[w] = "schedule"
    /\ processing' = [processing EXCEPT ![s] = 1]
    /\ Goto(w, IF processing[s] = 0 THEN "push" ELSE "parse")
    /\ UNCHANGED <<leaseVars, ioVars, kernelVars, jobVars, ready, paused,
                   locals>>

(* ReadySessionQueue::Push                                                 *)
Push(t, pushed, full) ==
    LET hasRoom == Len(ready) < Cardinality(Sessions) IN
    /\ ready' = IF hasRoom THEN Append(ready, ses[t]) ELSE ready
    /\ Goto(t, IF hasRoom THEN pushed ELSE full)
    /\ UNCHANGED <<leaseVars, ioVars, kernelVars, jobVars, processing,
                   paused, locals>>

(* ... pushes the session; a full queue gives m_processing back.           *)
PushReady(w) == pc[w] = "push" /\ Push(w, "parse", "unschedule")

GiveBack(t, l) ==
    /\ processing' = [processing EXCEPT ![ses[t]] = 0]
    /\ Goto(t, l)
    /\ UNCHANGED <<leaseVars, ioVars, kernelVars, jobVars, ready, paused,
                   locals>>

Unschedule(w) == pc[w] = "unschedule" /\ GiveBack(w, "parse")

ParseDone(w) ==
    /\ pc[w] = "parse"
    /\ batch[w] = 0
    /\ Goto(w, "checkPending")
    /\ UNCHANGED <<leaseVars, ioVars, kernelVars, jobVars, schedVars, paused,
                   locals>>

(* The rest of the stream is unusable: the session is released.            *)
ParseBad(w) ==
    /\ pc[w] = "parse"
    /\ batch' = [batch EXCEPT ![w] = 0]
    /\ Call(w, "release", "finish")
    /\ UNCHANGED <<leaseVars, ioVars, kernelVars, jobVars, schedVars, paused,
                   ses, post, job>>

CheckPending(w) ==
    /\ pc[w] = "checkPending"
    /\ Goto(w, IF releasePending[ses[w]] = 1 THEN "finish" ELSE "depth")
    /\ UNCHANGED <<leaseVars, ioVars, kernelVars, jobVars, schedVars, paused,
                   locals>>

(* PostReceiveOrPause: post below the pause level, ...                     *)
PostReceiveOrPause(w) ==
    LET posts == Len(jobs[ses[w]]) < PauseLevel IN
    /\ pc[w] = "depth"
    /\ Goto(w, IF posts THEN "connected" ELSE "beginPause")
    /\ post' = [post EXCEPT ![w] = "next"]
    /\ UNCHANGED <<leaseVars, ioVars, kernelVars, jobVars, schedVars, paused,
                   ses, batch, job>>

(* ... otherwise take a count (BeginIO), unless a cancel is under way, ... *)
GatePause(w) ==
    /\ pc[w] = "gatePause"
    /\ IF cancelIo[ses[w]] = 0 THEN Goto(w, "mark")
       ELSE Call(w, "undoIO", "finish")
    /\ UNCHANGED <<leaseVars, ioVars, kernelVars, jobVars, schedVars, paused,
                   locals>>

(* ... mark the pause, ...                                                 *)
MarkPaused(w) ==
    /\ pc[w] = "mark"
    /\ paused' = [paused EXCEPT ![ses[w]] = 1]
    /\ Goto(w, "recheck")
    /\ UNCHANGED <<leaseVars, ioVars, kernelVars, jobVars, schedVars, locals>>

(* Faulty variant: the handler does not look again after the mark.         *)
RecheckDepthNever(w) ==
    /\ pc[w] = "recheck"
    /\ Goto(w, "finish")
    /\ UNCHANGED <<leaseVars, ioVars, kernelVars, jobVars, schedVars, paused,
                   locals>>

(* ... and look again: the worker may have drained the queue before it     *)
(* could see the mark.                                                     *)
RecheckDepth(w) ==
    /\ pc[w] = "recheck"
    /\ IF Len(jobs[ses[w]]) > ResumeLevel THEN Goto(w, "finish")
       ELSE Call(w, "resume", "finish")
    /\ UNCHANGED <<leaseVars, ioVars, kernelVars, jobVars, schedVars, paused,
                   locals>>

(* PostReceiveOrPause returned false unless a cancel is under way.         *)
RecvNotPosted(w) ==
    /\ pc[w] = "recvNotPosted"
    /\ IF cancelIo[ses[w]] = 1 THEN Goto(w, "finish")
       ELSE Call(w, "release", "finish")
    /\ UNCHANGED <<leaseVars, ioVars, kernelVars, jobVars, schedVars, paused,
                   locals>>

(* The last statement of every completion handler.                         *)
Finish(w) == pc[w] = "finish" /\ DecrementIO(w)

HandlerStep(w) ==
    \/ SubmitPacketJob(w) \/ Schedule(w) \/ PushReady(w) \/ Unschedule(w)
    \/ ParseDone(w) \/ ParseBad(w) \/ CheckPending(w)
    \/ PostReceiveOrPause(w) \/ GatePause(w) \/ MarkPaused(w)
    \/ RecheckDepth(w) \/ RecvNotPosted(w) \/ Finish(w)

-----------------------------------------------------------------------------
(* ReadySessionScheduler::WorkerThreadLoop *)

(* ReadySessionQueue::Pop                                                  *)
Pop(j) ==
    /\ ready # <<>>
    /\ Begin(j, Head(ready), "drain", <<>>)
    /\ ready' = Tail(ready)
    /\ UNCHANGED <<leaseVars, ioVars, kernelVars, jobVars, processing, paused,
                   post, batch, job>>

(* DequeueJob: the loop ends when the queue is empty.                      *)
DequeueJob(j) ==
    LET s == ses[j] IN
    /\ pc[j] = "drain"
    /\ IF jobs[s] = <<>>
       THEN Goto(j, "clear") /\ UNCHANGED <<jobs, job>>
       ELSE /\ jobs' = [jobs EXCEPT ![s] = Tail(@)]
            /\ job' = [job EXCEPT ![j] = Head(jobs[s])]
            /\ Goto(j, "execute")
    /\ UNCHANGED <<leaseVars, ioVars, kernelVars, received, done, schedVars,
                   paused, ses, post, batch>>

(* Job::Execute returns; a handler may also have retired the session (a    *)
(* send that failed).                                                      *)
Execute(j) ==
    LET s == ses[j] IN
    /\ pc[j] = "execute"
    /\ done' = [done EXCEPT ![s] = @ + 1]
    /\ job' = [job EXCEPT ![j] = 0]
    /\ \/ Goto(j, "drain")
       \/ open[s] /\ Call(j, "release", "drain")
    /\ UNCHANGED <<leaseVars, ioVars, kernelVars, jobs, received, schedVars,
                   paused, ses, post, batch>>


ClearProcessing(j) == pc[j] = "clear" /\ GiveBack(j, "recheckJobs")

(* Jobs that came after the last DequeueJob: ...                           *)
RecheckJobs(j) ==
    /\ pc[j] = "recheckJobs"
    /\ Goto(j, IF jobs[ses[j]] # <<>> THEN "claimAgain" ELSE "resumeCheck")
    /\ UNCHANGED <<leaseVars, ioVars, kernelVars, jobVars, schedVars, paused,
                   locals>>

(* Faulty variant: the worker queues the session again unconditionally.    *)
ClaimAgainAlways(j) ==
    LET s == ses[j] IN
    /\ pc[j] = "claimAgain"
    /\ processing' = [processing EXCEPT ![s] = 1]
    /\ Goto(j, "pushAgain")
    /\ UNCHANGED <<leaseVars, ioVars, kernelVars, jobVars, ready, paused,
                   locals>>

(* ... the session is queued again, unless HandleRecv has done so.         *)
ClaimAgain(j) ==
    LET s == ses[j] IN
    /\ pc[j] = "claimAgain"
    /\ processing' = [processing EXCEPT ![s] = 1]
    /\ Goto(j, IF processing[s] = 0 THEN "pushAgain" ELSE "resumeCheck")
    /\ UNCHANGED <<leaseVars, ioVars, kernelVars, jobVars, ready, paused,
                   locals>>

PushAgain(j) == pc[j] = "pushAgain" /\ Push(j, "resumeCheck", "unclaim")

Unclaim(j) == pc[j] = "unclaim" /\ GiveBack(j, "resumeCheck")

(* ResumeReceiveIfDrained                                                  *)
ResumeIfPaused(j) ==
    /\ pc[j] = "resumeCheck"
    /\ GotoOrReturn(j, paused[ses[j]] = 1, "resumeDepth")
    /\ UNCHANGED <<leaseVars, ioVars, kernelVars, jobVars, schedVars, paused,
                   locals>>

ResumeIfDrained(j) ==
    /\ pc[j] = "resumeDepth"
    /\ GotoOrReturn(j, Len(jobs[ses[j]]) <= ResumeLevel, "resume")
    /\ UNCHANGED <<leaseVars, ioVars, kernelVars, jobVars, schedVars, paused,
                   locals>>

WorkerStep(j) ==
    \/ DequeueJob(j) \/ Execute(j) \/ ClearProcessing(j) \/ RecheckJobs(j)
    \/ ClaimAgain(j) \/ PushAgain(j) \/ Unclaim(j) \/ ResumeIfPaused(j)
    \/ ResumeIfDrained(j)

-----------------------------------------------------------------------------
(* Leases and completions *)

(* HandleAccept leases a clean session and posts its first receive; the    *)
(* answer to its authentication may be on its way.  SessionLifecycle       *)
(* details it.                                                             *)
Lease(s) ==
    /\ poolState[s] = "FREE"
    /\ lease[s] < MaxLeases
    /\ poolState' = [poolState EXCEPT ![s] = "IN_USE"]
    /\ open' = [open EXCEPT ![s] = TRUE]
    /\ lease' = [lease EXCEPT ![s] = @ + 1]
    /\ received' = [received EXCEPT ![s] = 0]
    /\ done' = [done EXCEPT ![s] = 0]
    /\ \E sends \in 0..1 :
         /\ live' = [live EXCEPT ![s] =
                       [k \in Kinds |-> IF k = "recv" THEN 1 ELSE sends]]
         /\ ioCount' = [ioCount EXCEPT ![s] = @ + 1 + sends]
    /\ UNCHANGED <<left, cancelIo, releasePending, dying, jobs, schedVars, paused,
                   pc, ses, stack, post, batch, job>>

(* A completion of kind k; a cancelled operation may have completed before *)
(* the cancel reached it.                                                  *)
Dequeue(w, s, k, l, frames) ==
    /\ \/ /\ live[s][k] > 0
          /\ live' = [live EXCEPT ![s][k] = @ - 1]
          /\ dying' = dying
       \/ /\ dying[s][k] > 0
          /\ dying' = [dying EXCEPT ![s][k] = @ - 1]
          /\ live' = live
    /\ Begin(w, s, l, frames)

RecvData(w, s) ==
    /\ Dequeue(w, s, "recv", "parse", <<>>)
    /\ \E n \in 0..MaxBatch :
         /\ received[s] + n <= MaxPackets
         /\ batch' = [batch EXCEPT ![w] = n]
    /\ UNCHANGED <<leaseVars, ioVars, jobVars, schedVars, paused, post, job>>

(* HandleSend, with nothing left to send.                                  *)
SendDone(w, s) ==
    /\ Dequeue(w, s, "send", "finish", <<>>)
    /\ UNCHANGED <<leaseVars, ioVars, jobVars, schedVars, paused, post, batch,
                   job>>

(* Zero bytes, or an error: the session is released.                       *)
ConnectionEnds(w, s, k) ==
    /\ Dequeue(w, s, k, "release", <<"finish">>)
    /\ UNCHANGED <<leaseVars, ioVars, jobVars, schedVars, paused, post, batch,
                   job>>

IoCancelled(w, s, k) ==
    /\ dying[s][k] > 0
    /\ dying' = [dying EXCEPT ![s][k] = @ - 1]
    /\ Begin(w, s, "finish", <<>>)
    /\ UNCHANGED <<leaseVars, ioVars, live, jobVars, schedVars, paused, post,
                   batch, job>>

Complete(w) ==
    \E s \in Sessions :
        \/ RecvData(w, s)
        \/ SendDone(w, s)
        \/ \E k \in Kinds : ConnectionEnds(w, s, k) \/ IoCancelled(w, s, k)

(* NotifyDisconnect or Release from a thread without a count.              *)
Retire(t, s) ==
    /\ open[s]
    /\ Begin(t, s, "release", <<>>)
    /\ UNCHANGED <<leaseVars, ioVars, kernelVars, jobVars, schedVars, paused,
                   post, batch, job>>

-----------------------------------------------------------------------------
Step(t) ==
    \/ ReleaseStep(t) \/ PostReceiveStep(t) \/ ResumeStep(t)
    \/ HandlerStep(t) \/ WorkerStep(t)

Next ==
    \/ \E s \in Sessions : Lease(s)
    \/ \E w \in Workers : Complete(w)
    \/ \E j \in JobWorkers : Pop(j)
    \/ \E t \in Closers, s \in Sessions : Retire(t, s)
    \/ \E t \in Threads : Step(t)

(* Threads that have begun go on, a session that waits is popped, and what *)
(* was cancelled completes.  The peer owes nothing.                        *)
Fairness ==
    /\ \A t \in Threads : WF_vars(Step(t))
    /\ WF_vars(\E j \in JobWorkers : Pop(j))
    /\ \A s \in Sessions, k \in Kinds :
         SF_vars(\E w \in Workers : IoCancelled(w, s, k))

Spec == Init /\ [][Next]_vars
FairSpec == Spec /\ Fairness

-----------------------------------------------------------------------------
(* Properties *)

Outstanding(s, k) == live[s][k] + dying[s][k]

(* The sessions in use that were never reset while another thread still    *)
(* had them in hand: a job worker, or a thread late in a release.  Nothing *)
(* makes the reset wait for those, and the others do not keep what follows.*)
Settled == {s \in Sessions : poolState[s] # "FREE" /\ ~left[s]}

(* The count of a handler, from its completion to its last statement.      *)
HandlerHolds(t) ==
    t \in Workers /\ ~(pc[t] \in {"token", "complete", "reset"} /\ stack[t] = <<>>)

(* The count of BeginIO, until the operation is issued or undone; that of  *)
(* a pause, until m_recvPaused stands for it, and from the thread that     *)
(* took it away to its DecrementIO.                                        *)
IoHolds(t) == pc[t] \in {"gate", "issue"} \/ "undoIO" \in Frames(t)

PauseHolds(t) ==
    \/ pc[t] \in {"gatePause", "mark", "dropCount"}
    \/ {"resumeFailed", "dropPause"} \cap Frames(t) # {}
    \/ pc[t] \in {"connected", "begin", "gate", "issue"} /\ post[t] = "resume"

(* The I/O count is the operations issued, the pause, and what the threads *)
(* hold, across pauses and releases: neither the handler that pauses, the  *)
(* worker that resumes nor the cancel that drops a pause loses a count or  *)
(* drops one twice.                                                        *)
CountIsHeld ==
    \A s \in {r \in Sessions : ~left[r]} :
        ioCount[s] = Outstanding(s, "recv") + Outstanding(s, "send") + paused[s]
                     + Cardinality({t \in On(s) : HandlerHolds(t)})
                     + Cardinality({t \in On(s) : IoHolds(t)})
                     + Cardinality({t \in On(s) : PauseHolds(t)})

(* m_processing says exactly whether somebody has the session in hand, and *)
(* nobody ever shares it: it is in the ready queue once or with one worker *)
(* (SubmitPacketJob: the compare-exchange is what prevents a second Push). *)
ScheduledOnce ==
    \A s \in Settled : processing[s] = Claims(s)

(* One receive of a session is posted or parsed at a time: two would write *)
(* into the same ring, and the packets of the peer would change places.    *)
ParsePcs == {"parse", "schedule", "push", "unschedule", "checkPending",
             "depth", "beginPause", "gatePause", "mark"}
OneReceive ==
    \A s \in Settled :
        Outstanding(s, "recv") + paused[s]
        + Cardinality({t \in On(s) : pc[t] \in ParsePcs}) <= 1


(* Handlers of one connection run one after the other, in the order the    *)
(* packets came, whichever workers run them.                               *)
JobsInOrder ==
    \A j \in JobWorkers :
        pc[j] = "execute" /\ ses[j] \in Settled
            => job[j] = done[ses[j]] + 1

(* A paused peer is heard again, or its session released.                  *)
PauseEnds ==
    \A s \in Sessions :
        paused[s] = 1 ~> Outstanding(s, "recv") > 0 \/ poolState[s] # "IN_USE"

=============================================================================
