CONSTANTS
    r1 = r1  r2 = r2
    AmServer = FALSE
    Backlog = 2
    Ids = {1, 2}
    Readers = {r1, r2}
    MaxFrames = 3
    MaxWrites = 2
SPECIFICATION LiveSpec
INVARIANTS IdsApart AnnouncedOnce BytesInOrder
PROPERTIES Drained
CHECK_DEADLOCK FALSE
