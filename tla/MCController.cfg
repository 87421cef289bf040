SPECIFICATION Spec
CONSTANTS
    Jobs = {j1, j2}
    NoJob = nobody
    Closing = j1
    Commands <- AllCommands
    Faults <- AllFaults
    MaxBuilds = 3
    MayOverlap = FALSE
INVARIANTS
    NoResidue
    AllOrNothing
    ShutdownLeavesNothing
CHECK_DEADLOCK FALSE
