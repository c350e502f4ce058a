SPECIFICATION FairSpec
CONSTANTS
    Procs = {p1, p2, p3}
    idleproc = idle
    MAX_TIME_SLICE = 1
    sem = sem
    Sems = {sem}
    Permits = 1
INVARIANTS
    QueuesExact
    PermitsAccounted
PROPERTIES
    ImplementsFairSemaphore
    WaitersServed
