CONSTANTS
    d1 = d1  d2 = d2
    Dialers = {d1, d2}
    Supported <- SupportedList
    Proposals <- ProposalSet
    MaxConns = 2
    MaxSlow = 1
SPECIFICATION LiveSpec
INVARIANTS JoinedIsVerified FaultHasCause DialFailsForCause
PROPERTIES ThreadsEnd
CHECK_DEADLOCK FALSE
