CONSTANTS
    b1 = b1  name = name
    Threads = {t1, t2}
    Blocks = {b1}
    Name = name
    Paths = {1}
    Messages <- MessageSet
    Radix = 2
    FirstTime = 5
    MaxTime = 7
    MaxSkew = 1
    MaxOps = 3
    MaxCrashes = 1
SPECIFICATION Spec
INVARIANTS JournalSound ReadAfterWrite
PROPERTIES AdjustNeverLater CallsReturn
CHECK_DEADLOCK FALSE
