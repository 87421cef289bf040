SPECIFICATION Spec
CONSTANTS
    Clients = {c1, c2}
    c1 = c1
    c2 = c2
    nobody = nobody
    NoClient = nobody
    SendHeader = TRUE
    HighMark = 1
    LowMark = 0
    HardCap = 1
    BufferLimit = 0
    SwallowCancel = TRUE
    MayStop = FALSE
    StopMeets = {1}
    Stalled = {}
    MaxMessages = 2
INVARIANTS
    ReadyEventFollowsClients
    NothingOutlivesClient
PROPERTY ImplementsClientStream
SYMMETRY Interchangeable
CHECK_DEADLOCK FALSE
