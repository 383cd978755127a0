SPECIFICATION ObsSpec
CONSTANTS
    Requests = {"turn", "transfer", "metrics"}
    InHandler = FALSE
    Kind <- MCKind
    MaxStarts = 2
INVARIANTS
    CountsAreExact
    SnapshotsInOrder
    AnsweredIsCounted
PROPERTIES
    ShutdownEnds
    QueuedServed
    ReportRecovers
CHECK_DEADLOCK FALSE
