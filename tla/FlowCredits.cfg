CONSTANTS
    QpSize = 16
    FlowLoads <- McFlowLoads
    ListEnds = {1}
    FaultLoads = {}
    MaxFaults = 0
SPECIFICATION FlowSpec
INVARIANTS
    WindowTracks
CHECK_DEADLOCK FALSE
