SPECIFICATION FairSpec
CONSTANTS
    idleproc = idle
    initproc = init
    UserPids = {p2, p3}
    MAX_PROCESS = 4
    swap_init_ok = TRUE
PROPERTY KillLeadsToExit
