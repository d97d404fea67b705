SPECIFICATION Spec
CONSTANTS
    Subjects = {"rwlock", "futex"}
    RwThreads = {1, 2, 3, 4}
    WRITER_WEIGHT = 8
    FuThreads = {1, 2, 3}
    Futexes = {1, 2, 3, 4}
    FuScripts <- Scripts
    FuJoinAddrs = {3}
    Words = {0, 1}
CHECK_DEADLOCK FALSE
INVARIANTS RwSafe FutexRefsExact FutexNoLostWakeup
PROPERTIES RwNobodyStarves FutexWakeComplete FutexCallsEnd
