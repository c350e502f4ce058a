SPECIFICATION Spec
CONSTANTS
    Entries = {e1, e2, e3, e4}
    Other = Other
    Undf = Undf
    SO = SO
    SOL = SOL
    Fun = Fun
    PSym = PSym
    SLine = SLine
    E0 = E0
    NO = NO
    NULL = NULL
CHECK_DEADLOCK FALSE
INVARIANTS
    KernelAsLinked
    ProgramAsLinked
    SymbolsFound
    PoolSound
PROPERTY ConsoleUnderstands
