SPECIFICATION Spec
CONSTANTS
    RecordSize <- Sizes3
    Configs <- AnyMarks
    InitialConfig <- Base
    Callers = {c1, c2}
    NoCaller <- MCNoCaller
    Paths = {"log"}
    NoPath <- MCNoPath
    Faults = {"open"}
    MaxConfigures = 2
    MaxBackups = 2
INVARIANTS
    IdleMeansUnpaused
PROPERTIES
    FollowsMarksInForce
    ConfigureAnswered
    AcceptedSettles
CHECK_DEADLOCK FALSE
