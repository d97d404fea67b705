SPECIFICATION Spec
CONSTANTS
    FS_LOCK_EOF = 0
    Pids = {1, 2}
    Leader = 1
    Threads = {1, 2}
    ProcOf <- IdentityOfThreads
    HandleOf <- OwnHandles
    Creator <- OwnCreators
    Scenarios <- NotifyScenarios
INVARIANT NotifyInitialized
CHECK_DEADLOCK FALSE
