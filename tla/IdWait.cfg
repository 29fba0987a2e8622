\* The claim of the interface that a locker waits until the id is unlocked or destroyed.
SPECIFICATION IdSpec
CONSTANTS
    IdThreads = {t1, t2, t3}
    IdModulus = 32
    IdMaxRange = 3
    CreateRanges = {1}
    LockRanges = {0}
    StartVersions = {26}
    MaxCreates = 1
    MaxPending = 1
INVARIANTS
    LockersAwaited
CHECK_DEADLOCK FALSE
