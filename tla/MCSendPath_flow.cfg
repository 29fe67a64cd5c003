\* Two senders and a worker on one session, under fair scheduling.
CONSTANTS
    s1 = s1
    w1 = w1
    a1 = a1
    a2 = a2
    Sessions <- OneSession
    Workers <- OneWorker
    Senders <- TwoSenders
    QueueDepth = 1
    PacketSize = 2
    MaxPackets = 2
    MaxLeases = 1
SPECIFICATION FairSpec
CHECK_DEADLOCK FALSE
INVARIANTS
    RefsAreHolders
    NoStrandedPacket
    StreamIntact
PROPERTIES
    PacketsGoHome
