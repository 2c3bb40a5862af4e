SPECIFICATION FairSearchSpec
CONSTANTS
    Bits = 2
    Others <- TwoPeers
    Broken <- BrokenPeer
    SearchNodes = 2
    Closest = 1
    Parallel = 1
    Targets <- OneTarget
    MaxSearches = 1
    TidSpan = 2
    MaxSearchCalls = 2
    MaxRotations = 2
    MaxArrivals = 3
    NoToken = NoToken
INVARIANTS SearchSorted AckedWasAnnounced
PROPERTIES DoneIsComplete SearchesEnd
CHECK_DEADLOCK FALSE
