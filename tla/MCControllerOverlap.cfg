SPECIFICATION Spec
CONSTANTS
    Jobs = {j1, j2}
    NoJob = nobody
    Closing = j1
    Commands = {"transmit", "stopTransport"}
    Faults = {}
    MaxBuilds = 3
    MayOverlap = TRUE
INVARIANTS
    NoResidue
CHECK_DEADLOCK FALSE
