\* A worker and the heartbeat thread on one session, leased twice.
CONSTANTS
    s1 = s1
    w1 = w1
    w2 = w2
    a1 = a1
    h1 = h1
    Sessions <- OneSession
    Workers <- OneWorker
    Senders <- NoThreads
    Reapers <- OneReaper
    MaxLeases = 2
    AcceptMayStarve = FALSE
SPECIFICATION Spec
CHECK_DEADLOCK FALSE
INVARIANTS
    HandedOutAsNew
