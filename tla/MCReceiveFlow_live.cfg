\* Two connections in turn on one session, under fair scheduling.
CONSTANTS
    s1 = s1
    w1 = w1
    w2 = w2
    j1 = j1
    j2 = j2
    c1 = c1
    Sessions <- OneSession
    Workers <- OneWorker
    JobWorkers <- OneJobWorker
    Closers <- NoCloser
    PauseLevel = 1
    ResumeLevel = 0
    MaxBatch = 2
    MaxPackets = 2
    MaxLeases = 2
SPECIFICATION FairSpec
CHECK_DEADLOCK FALSE

    
PROPERTIES
    PauseEnds
    
