SPECIFICATION FairSpec
CONSTANTS
    a = a
    b = b
    c = c
    Clients <- Pair
    Modes <- PairModes
    Closers <- None
    Killable <- None
    MaxVersion = 1
PROPERTIES EventuallyGranted
CHECK_DEADLOCK FALSE
