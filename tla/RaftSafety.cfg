SPECIFICATION Spec
CONSTANTS
    N = 3
    Payloads = {p1, p2}
    None = None
    FaultConfigs <- CrashConfigs
    MaxDrops = 1
    MaxFaultChanges = 2
    HEARTBEAT_INTERVAL = 0
    ElectionTimeouts = {0, 1}
    Forced = FALSE
    MaxTerm = 2
    MaxPending = 0
INVARIANTS
    ElectionSafety
    LogMatching
    LeaderCompleteness
    CommittedStaysInLog
    CommitsOnMajority
PROPERTIES
    ImplementsLog
\* The bounds on terms and faults may leave every node waiting.
CHECK_DEADLOCK FALSE
