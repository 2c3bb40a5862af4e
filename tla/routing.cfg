SPECIFICATION FairSpec
CONSTANTS
  n1 = n1  n2 = n2  n3 = n3  x = x  y = y  z = z
  None = None
  Nodes = {n1, n2, n3}
  Keys = {x, y, z}
  Data <- Blocks
  NameOf <- Named
  Links <- Line
  Stores <- Known
  Before <- Announced
  Ops <- LineOps
  MaxCalls = 2
  MaxFaults = 1
INVARIANTS ProvidersRight AnswerTrue ListenerStays
PROPERTIES CallReturns
CHECK_DEADLOCK FALSE
