SPECIFICATION FairSpec
CONSTANTS
    Clients = {c1, c2}
    c1 = c1
    c2 = c2
    nobody = nobody
    NoClient = nobody
    SendHeader = TRUE
    HighMark = 1
    LowMark = 0
    HardCap = 1
    BufferLimit = 0
    SwallowCancel = FALSE
    MayStop = TRUE
    StopMeets = {}
    Stalled = {c2}
    MaxMessages = 1
PROPERTIES
    LostClientLeaves
    SlowClientLeaves
    StopLeavesNobody
    BroadcastReturns
CHECK_DEADLOCK FALSE
