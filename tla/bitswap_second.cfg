CONSTANTS
    n1 = n1  n2 = n2  x = x  y = y  z = z
    Nodes = {n1, n2}
    Cids = {x, y}
    Initial <- SecondHasAll
    MaxFaults = 0
    MaxStops = 0
SPECIFICATION Spec
PROPERTY WantsAreRecorded
CHECK_DEADLOCK FALSE
