\* Two threads grow two bins at the same time.
CONSTANTS
    u1 = u1
    u2 = u2
    main = main
    slot1 = slot1
    NoSlot = NoSlot
    NoThread = NoThread
    MinBinLog = 1
    MaxBinLog = 2
    Alignment = 1
    HeaderBytes = 1
    SegmentTargetBytes = 3
    CacheBytesPerBin = 2
    CacheCapBlockLimit = 4
    CacheCapMinBlocks = 1
    BatchesPerCache = 1
    Users <- TwoUsers
    Main = main
    Sizes = {2, 3}
    Initial <- Nothing
    CommitLimit = 12
    SlotsOfLife <- OneSlot
    MaxSegments = 2
    MaxBalance = 1
    MaxLives = 1
SPECIFICATION Spec
CHECK_DEADLOCK FALSE
INVARIANTS
    CommitWithinLimit
