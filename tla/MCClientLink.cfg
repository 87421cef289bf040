SPECIFICATION LiveSpec
CONSTANTS
    TimeoutIsOSError = TRUE
    SwallowCancel = TRUE
    MaxPayloads = 3
    MaxStarts = 2
    MaxFaults = 2
INVARIANTS
    StopLeavesNothing
    SentInOrderOnce
PROPERTY
    LinkReconnects
CHECK_DEADLOCK FALSE
