SPECIFICATION Spec
CONSTANTS
    RecordSize <- Sizes4
    Configs <- SameMarks
    InitialConfig <- Base
    Callers = {c1, c2}
    NoCaller <- MCNoCaller
    Paths <- MCPaths
    NoPath <- MCNoPath
    Faults = {"open", "rotate", "write"}
    MaxConfigures = 2
    MaxBackups = 2
INVARIANTS
    TypeOK
    QueuedBytesAccounted
    NewestRecordsKept
    RotationCapHolds
PROPERTIES
    OnlyOldestLost
    ImplementsSinkQueue
CHECK_DEADLOCK FALSE
