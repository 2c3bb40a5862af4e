SPECIFICATION Spec
CONSTANTS
    Bits = 3
    Me = 0
    Peers = {1, 2, 3}
    BucketSize = 2
    MaxBlacklisted = 1
    MaxPackets = 3
    None = None
INVARIANTS TableSound BrokenStaysMarked
PROPERTIES GoodNodesStay
CHECK_DEADLOCK FALSE
