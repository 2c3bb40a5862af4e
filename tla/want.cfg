CONSTANTS
    t1 = t1
    t2 = t2
    x = x
    y = y
    Callers <- MCCallers
    Processor = engine
    Cids <- MCCids
    NoCid = none
    Timeout = 1
    MaxAttempts = 0
    Demand <- MCDemand
    MaxCalls = 3
SPECIFICATION LiveSpec
INVARIANTS OneEntryPerCid ReceivedReachesEntry
PROPERTIES  CallsReturn EveryWantProcessed
CHECK_DEADLOCK FALSE
