\* The same slots; a failed AcceptEx and the refill of its slot.
SPECIFICATION Spec
\* A stopped server has nothing left to do.
CHECK_DEADLOCK FALSE
CONSTANTS
    w1 = w1
    w2 = w2
    hb = hb
    main = main
    c1 = c1
    none = none
    Workers <- MCWorkers
    Heartbeat = hb
    Main = main
    Sessions <- MCSessions
    NoSession = none
    Slots <- MCSlots2
    MaxPerAddress = 1
    MaxFailures = 1
PROPERTIES
    NoHandleIsOverwritten
