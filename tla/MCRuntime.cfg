SPECIFICATION Spec
CONSTANTS
    Subjects = {"async", "memory"}
    AsThreads = {1, 2, 3}
    AsWorkers = {11, 12}
    AsScripts <- CallScripts
    MAX_IDLE_CYCLES = 2
    VmEnd = 6
    AslrTop = 3
    VmThreads = {1, 2}
    VmScripts <- MemoryScripts
    VmLengths = {1, 2}
    BrkStart = 0
    BrkEnd = 2
    VmFailures = {"alloc", "free", "protect"}
CHECK_DEADLOCK FALSE
INVARIANTS AsRefsExact AsOneWorker VmHostCalls VmHostAgrees
PROPERTIES AsCleanupDone VmKeepsPages
