SPECIFICATION FairSpec
CONSTANTS
    N = 3
    TIMES = 2
    idleproc = idle
    mutex = mutex
    MAX_TIME_SLICE = 1
    Procs <- MCProcs
    Sems <- MCSems
INVARIANT TableInOrder
PROPERTY AllQuit
