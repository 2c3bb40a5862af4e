CONSTANTS
    Peers = {p1, p2, p3}
    Entries = {e1, e2, e3}
    Null = null
    Creators = {w1, w2}
    Readers = {r}
    Api = {"add", "remove", "pop"}
    MaxLocked = 1
SPECIFICATION Spec
SYMMETRY Symmetry
INVARIANTS WalkMissesNobody ListSound
CHECK_DEADLOCK FALSE
