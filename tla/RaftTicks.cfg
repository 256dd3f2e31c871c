SPECIFICATION Spec
CONSTANTS
    N = 3
    Payloads = {p1, p2}
    None = None
    FaultConfigs <- AnyConfigs
    MaxDrops = 1
    MaxFaultChanges = 1
    HEARTBEAT_INTERVAL = 1
    ElectionTimeouts = {0, 1}
    Forced = TRUE
    MaxTerm = 2
    MaxPending = 2
INVARIANTS
    TypeOK
    LogsInOrder
    CommitsDense
PROPERTIES
    OneVotePerTerm
    LeaderAppendsOnly
\* The bounds on terms and faults may leave every node waiting.
CHECK_DEADLOCK FALSE
