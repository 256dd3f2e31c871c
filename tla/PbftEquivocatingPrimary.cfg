SPECIFICATION DrivenSpec
CONSTANTS
    N = 4
    Payloads = {p1}
    None = None
    FaultConfigs <- EquivocatingPrimaryConfigs
    MaxDrops = 0
    MaxFaultChanges = 1
    VIEW_CHANGE_TIMEOUT = 1
    MaxView = 1
    MaxSeq = 1
INVARIANTS
    Agreement
\* The client may have proposed everything and every node be waiting.
CHECK_DEADLOCK FALSE
