CONSTANTS
    t1 = t1
    t2 = t2
    t3 = t3
    QpSize = 11
    FlowLoads <- McFlowLoads
    ListEnds = {1, 3}
    FaultLoads <- McFaultLoads
    MaxFaults = 1
    Thieves = {t1, t2}
    WsqCapacity = 2
    MaxItems = 4
    Workers = {t1, t2}
    Tasks = {t1, t2}
    Pthread = t3
    LotOf <- McLotOf
    PlNum = 2
    RemoteCap = 1
    TaskPlans <- McTaskPlans
    Sleepers = {t1, t2}
    SleepPlans <- McSleepPlans
    TimerBuckets = 1
    TimerSlots = {1, 2}
    MaxTime = 1
    Interrupted = {t1}
    QueueCap = 3
    QueueItems = {"default", "item"}
    Threads = {t1, t2}
    MaxCreate = 2
    CleanRelease = TRUE
    WithRevive = TRUE
    AtLeastNref = 2
    BlockSize = 4
    MaxEntries = 12
    InitGcSize = 4
    MaxIds = 8
    TlsThreads = {t1, t2}
    Locals = {l1, l2}
    ExitDtors = {}
    SeqModulus = 6
    MaxKeyIds = 2
    MaxObjects = 2
    KeyWorkers = {t1, t2}
    KeysMax = 1
    MaxTables = 3
    MaxData = 3
    MaxKeyVersion = 2
    KeyTableListSize = 2
    BorrowSize = 2
    MapKeys = {0, 4, 8}
    DefaultNbucket = 2
    MinNbucket = 1
    InitNbuckets = {8}
    MaxMapOps = 5
    BlockCap = 2
    InitialCap = 4
    MaxTlsBlocks = 2
    MaxBytes = 5
    MaxIoOps = 5
SPECIFICATION McSpec
INVARIANTS
    McTypeOK
    RingsSafe
    TasksKept
    TimersKept
    ReviveSafe
    TablesKept
    BuffersKept
CHECK_DEADLOCK FALSE
