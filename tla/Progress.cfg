CONSTANTS
    t1 = t1
    t2 = t2
    t3 = t3
    t4 = t4
    BthreadWaiters = {t1}
    PthreadWaiters = {t2}
    TimedWaiters = {t1, t2}
    Interruptible = {t1}
    PrependWaiters = {t2}
    ButexWakers = {t3}
    ButexOps = {"wake", "wake_m", "wake_n", "wake_all", "wake_except", "requeue"}
    MaxStores = 1
    Consumers = {t1, t2}
    Supplier = t3
    TimedConsumers = {t1}
    InterruptedThreads = {t2}
    Readers = {t1, t2}
    Writers = {t3, t4}
    TimedRw = {t1}
    RWLockMaxReaders = 64
    OnceCallers = {t1, t2, t3}
    Reqs = {t1, t2}
    NParts = 1
    BlockParts = 1
    NULL = NULL
    UNCONNECTED = UNCONNECTED
    PostMayFail = TRUE
    Pollers = {t1, t2}
    MaxCompletions = 2
    MaxCqEvents = 2
    PollBatch = 2
SPECIFICATION McSpec
INVARIANTS
    McTypeOK
    SyncSafe
    SinglePoller
    NothingForgotten
    AckedOnce
PROPERTIES
    ImplementsFutex
    AllFinish
CHECK_DEADLOCK FALSE
