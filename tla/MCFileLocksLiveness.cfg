SPECIFICATION FairSpec
CONSTANTS
    FS_LOCK_EOF = 0
    Pids = {1, 2, 3}
    Leader = 1
    Threads = {2, 3, 4}
    ProcOf <- TwoThreads
    HandleOf <- OwnHandles
    Creator <- OwnCreators
    Scenarios <- LivenessScenarios
INVARIANTS NobodyForgotten
PROPERTY EventuallyReturns
CHECK_DEADLOCK FALSE
