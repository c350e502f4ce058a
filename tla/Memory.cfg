SPECIFICATION Spec
CONSTANTS
    Regions <- MCRegions
    Two = {p1, p2}
    Three = {o1, o2, o3}
    Values = {v1, v2}
    PGSIZE = 2
    AddrSpace = 12
    USERBASE = 2
    USERTOP = 10
    USTACKSIZE = 4
    SegmentFlags <- MCSegmentFlags
    Lens = {0, 1, 2, 3, 5, 11}
    NULL = NULL
SYMMETRY Symmetry
INVARIANTS
    FreeListSound
PROPERTIES
    ImplementsAllocator
    AreasKept
    SwapIsTransparent
