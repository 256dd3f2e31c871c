SPECIFICATION FaultFirstSpec
CONSTANTS
    N = 4
    Payloads = {p1, p2}
    None = None
    FaultConfigs <- BackupIsolatedConfigs
    MaxDrops = 0
    MaxFaultChanges = 1
    VIEW_CHANGE_TIMEOUT = 1
    MaxView = 1
    MaxSeq = 2
    MaxPending = 4
PROPERTIES
    AcceptedCommits
\* The client may have proposed everything and every node be waiting.
CHECK_DEADLOCK FALSE
