SPECIFICATION Spec
CONSTANTS
    Subjects = {"wait"}
    IdProcs = {1, 2, 3}
    PID_MAX = 6
    MAX_RANGE_SIZE = 3
    IdMortal = {2}
    Callers = {"s", "t"}
    Peers = {"p", "q"}
    Connected = {"p"}
    MaxRequests = 2
    IpcFailures = {}
    Kids = {"k", "m"}
    Waiters = {"s", "t"}
    CwCalls <- Calls
    Mortal = {"m"}
    Unreadable = {"m"}
    MaxWaits <- WaitsOf
INVARIANT
    CwLockProtects
CHECK_DEADLOCK FALSE
