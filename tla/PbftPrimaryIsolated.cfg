SPECIFICATION FairSpec
CONSTANTS
    N = 4
    Payloads = {p1}
    None = None
    FaultConfigs <- IsolationConfigs
    MaxDrops = 0
    MaxFaultChanges = 1
    VIEW_CHANGE_TIMEOUT = 1
    MaxView = 3
    MaxSeq = 1
PROPERTIES
    DeadPrimaryReplaced
\* The client may have proposed everything and every node be waiting.
CHECK_DEADLOCK FALSE
