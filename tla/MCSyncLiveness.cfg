SPECIFICATION ScenarioSpec
CONSTANTS
    a = a
    b = b
    c = c
    Clients <- Triple
    Modes <- AnyMode
    Closers <- Triple
    Killable <- None
    MaxVersion = 2
INVARIANT Coherent
PROPERTIES EventuallyGranted EventuallyClosed
CHECK_DEADLOCK FALSE
