SPECIFICATION Spec
CONSTANTS
    Subjects = {"async"}
    AsThreads = {1, 2, 3}
    AsWorkers = {11, 12}
    AsScripts <- AlarmAndExit
    MAX_IDLE_CYCLES = 2
    VmEnd = 6
    AslrTop = 3
    VmThreads = {1, 2}
    VmScripts <- MemoryScripts
    VmLengths = {1, 2}
    BrkStart = 0
    BrkEnd = 2
    VmFailures = {}
CHECK_DEADLOCK FALSE
PROPERTY AsAlarmFires
