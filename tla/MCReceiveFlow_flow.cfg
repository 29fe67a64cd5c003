\* One connection: two IOCP workers, two job workers and a thread that may
\* retire the session at any time.  It may stop when the session is gone.
CONSTANTS
    s1 = s1
    w1 = w1
    w2 = w2
    j1 = j1
    j2 = j2
    c1 = c1
    Sessions <- OneSession
    Workers <- TwoWorkers
    JobWorkers <- TwoJobWorkers
    Closers <- OneCloser
    PauseLevel = 2
    ResumeLevel = 1
    MaxBatch = 1
    MaxPackets = 3
    MaxLeases = 1
SPECIFICATION Spec
CHECK_DEADLOCK FALSE
SYMMETRY ThreadSymmetry
INVARIANTS
    CountIsHeld
    ScheduledOnce
    OneReceive
    JobsInOrder
