\* Two threads, one bin with chunks of one block and segments of two, two lives of
\* the pool, which finds a slot of its own in the second.
CONSTANTS
    u1 = u1
    u2 = u2
    main = main
    slot1 = slot1
    NoSlot = NoSlot
    NoThread = NoThread
    MinBinLog = 1
    MaxBinLog = 1
    Alignment = 1
    HeaderBytes = 1
    SegmentTargetBytes = 3
    CacheBytesPerBin = 2
    CacheCapBlockLimit = 4
    CacheCapMinBlocks = 1
    BatchesPerCache = 1
    Users <- TwoUsers
    Main = main
    Sizes = {2}
    Initial <- Nothing
    CommitLimit = 6
    SlotsOfLife <- NoSlotThenFirst
    MaxSegments = 2
    MaxBalance = 1
    MaxLives = 2
SPECIFICATION FairSpec
CHECK_DEADLOCK FALSE
INVARIANTS
    BlocksConserved
    AccountsBalance
    UnmapIsSafe
PROPERTIES
    IsBlockStore
    FinalizeEnds
