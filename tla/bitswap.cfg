CONSTANTS
    n1 = n1  n2 = n2  x = x  y = y  z = z
    Nodes = {n1, n2}
    Cids = {x, y, z}
    Initial <- Apart
    MaxFaults = 1
    MaxStops = 1
SPECIFICATION LiveSpec
INVARIANTS OnlyRequestedTravels RequestIsSomewhere HasBlockHasQueue
PROPERTIES RequestAnswered
CHECK_DEADLOCK FALSE
