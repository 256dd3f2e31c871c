SPECIFICATION FairSpec
CONSTANTS
    N = 4
    Payloads = {p1}
    None = None
    FaultConfigs <- IsolatedLossyConfigs
    MaxDrops = 2
    MaxFaultChanges = 1
    VIEW_CHANGE_TIMEOUT = 1
    MaxView = 1
    MaxSeq = 1
    MaxPending = 0
PROPERTIES
    NextLeaderTakesOver
\* The client may have proposed everything and every node be waiting.
CHECK_DEADLOCK FALSE
