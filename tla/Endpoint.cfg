CONSTANTS
    r1 = r1
    r2 = r2
    Conns = {r1, r2}
    Calls = {r1, r2}
    kMaxLargeTransfers = 1
    RpcShapes <- McShapes
SPECIFICATION McSpec
INVARIANTS
    McTypeOK
    ConnectSafe
    RpcSafe
PROPERTIES
    OutcomeFinal
    EndingsEnd
CHECK_DEADLOCK FALSE
