\* Two workers, a sender and the heartbeat thread on one session, leased
\* twice; the next AcceptEx may fail.  It may stop when the last lease has
\* ended.
CONSTANTS
    s1 = s1
    w1 = w1
    w2 = w2
    a1 = a1
    h1 = h1
    Sessions <- OneSession
    Workers <- TwoWorkers
    Senders <- OneSender
    Reapers <- OneReaper
    MaxLeases = 2
    AcceptMayStarve = TRUE
SPECIFICATION Spec
CHECK_DEADLOCK FALSE
SYMMETRY WorkerSymmetry
CONSTRAINT FollowOvertaken
INVARIANTS
    CountIsHeld
    ReleaseHasOneOwner
    NoStrandedRelease
    FreeListIsExact
    HandedOutClean
    ResetIsQuiet
    NotificationsPair
    ReasonIsOwn
PROPERTIES
    EndsOwnConnection
