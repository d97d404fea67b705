SPECIFICATION Spec
CONSTANTS
    Subjects = {"ids", "ipc", "wait"}
    IdProcs = {1, 2, 3}
    PID_MAX = 5
    MAX_RANGE_SIZE = 3
    IdMortal = {2}
    Callers = {"s", "t"}
    Peers = {"p", "q"}
    Connected = {"p"}
    MaxRequests = 2
    IpcFailures <- FailingCalls
    Kids = {"k", "m"}
    Waiters = {"s", "t"}
    CwCalls <- Calls
    Mortal = {"m"}
    Unreadable = {"m"}
    MaxWaits <- WaitsOf
INVARIANTS
    IdNoBug IdNeverReused IdAgreement
    IpcNoStrayResponse IpcFailureIsLocal
    CwReportedOnce CwNodesAlive
PROPERTIES
    IpcRequestEnds CwWaitEnds
CHECK_DEADLOCK FALSE
