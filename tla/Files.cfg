SPECIFICATION Spec
CONSTANTS
    Two = {t1, t2}
    Pair = {p1, p2}
    Three = {q1, q2, q3}
    top = top
    d = d
    e = e
    leaf = leaf
    stdin = stdin
    l = l
    home = home
    NULL = NULL
SYMMETRY Symmetry
CHECK_DEADLOCK FALSE
INVARIANTS
    PathsResolve
    ImageSound
PROPERTIES
    DescriptorsKept
    VolumeKept
