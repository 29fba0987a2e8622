CONSTANTS
    Threads = {t1, t2, t3}
    PairSize = 2
    MaxCreate = 2
    CleanRelease = FALSE
    WithRevive = FALSE
    AtLeastNref = 2
    Reqs = {t1, t2, t3}
    NParts = 2
    BlockParts = 2
    NULL = NULL
    UNCONNECTED = UNCONNECTED
    PostMayFail = TRUE
    IdThreads = {t1, t2, t3}
    IdModulus = 32
    IdMaxRange = 3
    CreateRanges = {1}
    LockRanges = {0, 2, 3}
    StartVersions = {26}
    MaxCreates = 2
    MaxPending = 1
    PoolThreads = {p1, p2}
    BlockTypes = {0, 1}
    Buckets = 2
    BucketBlocks = 3
    MaxRegions = 2
    TlsCacheNum = 2
    MaxPoolOps = 6
    LargeThreads = {p1, p2}
    LargeSizes = {1, 2, 3}
    kMaxCachedLargeBlocks = 2
    MaxRegistered = 3
    RpThreads = {p1, p2}
    BlockNitem = 2
    ChunkNitem = 1
    GroupNblock = 1
    MaxNgroup = 2
SPECIFICATION McSpec
SYMMETRY Symmetry
INVARIANTS
    McTypeOK
    HolderSafe
    RecycledOnce
    NoCheckFailure
    RefCountExact
    OneFailer
    RecycleOwed
    SingleWriter
    NoneLost
    SafeMemory
    ChecksHold
    InOrder
    FailedPostsShow
    IdsSafe
    MemoryApart
PROPERTIES
    NeverAddressableAgain
CHECK_DEADLOCK FALSE
