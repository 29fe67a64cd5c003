\* Two slots, two workers, a failure, a stop at any time.
SPECIFICATION FairSpec
\* A stopped server has nothing left to do.
CHECK_DEADLOCK FALSE
CONSTANTS
    w1 = w1
    w2 = w2
    hb = hb
    main = main
    c1 = c1
    none = none
    Workers <- MCWorkers
    Heartbeat = hb
    Main = main
    Sessions <- MCSessions
    NoSession = none
    Slots <- MCSlots2
    MaxPerAddress = 1
    MaxFailures = 1
INVARIANTS
    SlotHasOwner
    CountsAreHeld
    NoAcceptAfterStop
PROPERTIES
    StopEnds
    SlotsComeBack
