CONSTANTS
    r1 = r1
    r2 = r2
    r3 = r3
    Reqs = {r1, r2, r3}
    NParts = 2
    BlockParts = 2
    NULL = NULL
    UNCONNECTED = UNCONNECTED
    PostMayFail = TRUE
SPECIFICATION Spec
INVARIANTS
    OkMeansSent
CHECK_DEADLOCK FALSE
