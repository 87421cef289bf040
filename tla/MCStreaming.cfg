SPECIFICATION FairSpec
CONSTANTS
    Clients = {c1, c2}
    Records <- MCRecords
    Loop = FALSE
    Controls <- MCControls
    AutoRun = auto
    Steppers = {step}
    MaxDraws = 4
    MayOverlap = FALSE
    MaxEdits = 2
INVARIANTS
    WindowSelects
    HeaderOnceFirst
PROPERTIES
    StreamFollowsSchedule
    SwapTakesEffect
    DrawnIsAired
CHECK_DEADLOCK FALSE
