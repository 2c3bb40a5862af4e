CONSTANTS
    b1 = b1  name = name
    Threads = {t1, t2}
    Blocks = {b1}
    Name = name
    Paths = {1, 2}
    Messages <- MessageSet
    Radix = 2
    FirstTime = 5
    MaxTime = 7
    MaxSkew = 1
    MaxOps = 2
    MaxCrashes = 0
SPECIFICATION Spec
PROPERTY PutUpdates
CHECK_DEADLOCK FALSE
