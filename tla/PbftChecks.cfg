SPECIFICATION DrivenSpec
CONSTANTS
    N = 4
    Payloads = {p1, p2, p3}
    None = None
    FaultConfigs <- OneFaultConfigs
    MaxDrops = 0
    MaxFaultChanges = 1
    VIEW_CHANGE_TIMEOUT = 1
    MaxView = 2
    MaxSeq = 3
INVARIANTS
    Agreement
    Integrity
    TotalOrder
\* The client may have proposed everything and every node be waiting.
CHECK_DEADLOCK FALSE
