SPECIFICATION GetPidSpec
CONSTANTS
    MaxProcess = 4
    MaxPid = 6
INVARIANTS
    UniquePids
    CacheKept
PROPERTY ScanTerminates
