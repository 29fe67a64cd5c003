\* A sender declines to post while the session is being reset.
CONSTANTS
    s1 = s1
    w1 = w1
    a1 = a1
    a2 = a2
    Sessions <- OneSession
    Workers <- OneWorker
    Senders <- OneSender
    QueueDepth = 1
    PacketSize = 1
    MaxPackets = 1
    MaxLeases = 1
SPECIFICATION Spec
CHECK_DEADLOCK FALSE
INVARIANTS
    NoDoubleRelease
