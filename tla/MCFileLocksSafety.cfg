SPECIFICATION Spec
CONSTANTS
    FS_LOCK_EOF = 1
    Pids = {1, 2, 3, 4}
    Leader = 1
    Threads = {1, 2, 3, 4}
    ProcOf <- IdentityOfThreads
    HandleOf <- OwnHandles
    Creator <- OwnCreators
    Scenarios <- SafetyScenarios
INVARIANTS NoConflict ExitedClean BlockedForReason
PROPERTY AnswerTrue
CHECK_DEADLOCK FALSE
