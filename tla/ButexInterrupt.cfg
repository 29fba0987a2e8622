SPECIFICATION ButexSpec
CONSTANTS
    BthreadWaiters = {w1}
    PthreadWaiters = {}
    TimedWaiters = {}
    Interruptible = {w1}
    PrependWaiters = {}
    ButexWakers = {}
    ButexOps = {}
    MaxStores = 0
PROPERTIES
    InterruptWakes
CHECK_DEADLOCK FALSE
