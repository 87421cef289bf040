SPECIFICATION FairSpec
CONSTANTS
    High = 3
    Low = 1
    QueueMax = 8
    Sizes <- MCSizes
    Peers = {p1, p2, p3}
    Yield = 2
INVARIANTS
    GateFollowsSink
    OvershootBounded
    NoTcpDrop
PROPERTIES
    PeersResume
CHECK_DEADLOCK FALSE
