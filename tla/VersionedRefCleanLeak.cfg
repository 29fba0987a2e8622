SPECIFICATION RefSpec
CONSTANTS
    Threads = {t1, t2, t3}
    MaxCreate = 2
    CleanRelease = TRUE
    WithRevive = FALSE
    AtLeastNref = 2
INVARIANTS
    RecycleOwed
CHECK_DEADLOCK FALSE
