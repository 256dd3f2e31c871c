SPECIFICATION Spec
CONSTANTS
    N = 4
    Payloads = {p1, p2}
    None = None
    FaultConfigs <- FaultyConfigs
    MaxDrops = 1
    MaxFaultChanges = 2
    VIEW_CHANGE_TIMEOUT = 1
    MaxView = 1
    MaxSeq = 2
INVARIANTS
    TypeOK
    PerViewOrder
    PreparedBackedByPrePrepared
    NoStuckQuorum
    PayloadWhileUndecided
    CommitBackedByPrepared
    NewViewQuorum
    PrimaryNotSuspicious
    PrimaryNumbersFresh
    PerViewAgreement
    Validity
PROPERTIES
    ImplementsConsensus
\* The client may have proposed everything and every node be waiting.
CHECK_DEADLOCK FALSE
