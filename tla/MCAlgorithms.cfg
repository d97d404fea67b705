SPECIFICATION Spec
CONSTANTS
    a = a
    b = b
    c = c
    d = d
    Clients <- Four
    Pids = {1, 2}
    FS_LOCK_EOF = 3
    SignBit = 16
INVARIANTS WalkAgrees BlockersAsked ListWellFormed RangesExact
PROPERTY ListKeepsPromise
CHECK_DEADLOCK FALSE
