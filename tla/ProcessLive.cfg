SPECIFICATION FairSpec
CONSTANTS
    idleproc = idle
    initproc = init
    UserPids = {p2, p3, p4}
    MAX_PROCESS = 5
    swap_init_ok = TRUE
PROPERTIES
    RunnableRuns
    KilledUserStops
    OrphansReaped
