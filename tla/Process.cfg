SPECIFICATION Spec
CONSTANTS
    idleproc = idle
    initproc = init
    UserPids = {p2, p3, p4, p5}
    MAX_PROCESS = 5
    swap_init_ok = FALSE
SYMMETRY UserSymmetry
INVARIANTS
    NoLostWakeup
    FamilyTree
    CurrentAlive
    SchedulingSound
    ResourcesBalanced
PROPERTY ZombieReapedByParent
