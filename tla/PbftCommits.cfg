SPECIFICATION FairSpec
CONSTANTS
    N = 4
    Payloads = {p1, p2}
    None = None
    FaultConfigs <- PrimaryKeptConfigs
    MaxDrops = 0
    MaxFaultChanges = 1
    VIEW_CHANGE_TIMEOUT = 1
    MaxView = 0
    MaxSeq = 2
PROPERTIES
    AcceptedCommits
\* The client may have proposed everything and every node be waiting.
CHECK_DEADLOCK FALSE
