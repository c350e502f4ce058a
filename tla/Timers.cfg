SPECIFICATION FairSpec
CONSTANTS
    Procs = {p1, p2, p3}
    idleproc = idle
    MAX_TIME_SLICE = 1
    MaxTime = 2
INVARIANT ListsExact
PROPERTIES
    ImplementsAlarmClock
    NobodyStuck
