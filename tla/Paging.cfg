SPECIFICATION PagingHeapSpec
CONSTANTS
    Tasks = {p1, p2}
    Objects = {o1, o2, o3}
    Contents = {v1, v2}
    NFrames = 8
    NPages = 5
    NPTEENTRY = 2
    Programs <- MCPrograms
    Sizes = {1, 7, 12, 20}
    SLOB_UNIT = 2
    PageUnits = 6
    BigblockSize = 3
    HeapPages = 3
    None = None
SYMMETRY PagingHeapSymmetry
INVARIANT PagesAccounted
PROPERTIES
    MemoryIsPrivate
    HeapIsKept
