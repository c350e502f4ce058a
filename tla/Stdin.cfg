SPECIFICATION FairSpec
CONSTANTS
    Procs = {p1, p2}
    idleproc = idle
    MAX_TIME_SLICE = 1
    Chars = {a, b}
    STDIN_BUFSIZE = 2
    MaxLen = 2
    MaxTyped = 4
INVARIANT ReadersQueued
PROPERTIES
    ImplementsTypeahead
    ReadersServed
