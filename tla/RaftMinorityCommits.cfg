SPECIFICATION SplitSpec
SYMMETRY Symmetry
CONSTANTS
    N = 5
    Payloads = {p1, p2, p3}
    None = None
    FaultConfigs <- SplitConfigs
    MaxDrops = 0
    MaxFaultChanges = 3
    HEARTBEAT_INTERVAL = 0
    ElectionTimeouts = {0, 2}
    Forced = FALSE
    MaxTerm = 3
    MaxPending = 0
INVARIANTS
    Agreement
\* The bounds on terms and faults may leave every node waiting.
CHECK_DEADLOCK FALSE
