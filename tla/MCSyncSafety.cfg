SPECIFICATION Spec
CONSTANTS
    a = a
    b = b
    c = c
    Clients <- Pair
    Modes <- PairModes
    Closers <- Pair
    Killable <- Pair
    MaxVersion = 3
INVARIANTS TypeOK Exclusion NoFatal StatesOrdered
PROPERTY KeepsPromise
CHECK_DEADLOCK FALSE
