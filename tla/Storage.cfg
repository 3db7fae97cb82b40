SPECIFICATION StorageSpec
CONSTANTS
    SizeLimit = 31
    Types <- AllTypes
    Threads = {t1, t2}
    Storage = {s1, s2}
    NULL = null
    WordBits = 5
    SizeMax = 15
    PointerSize = 2
INVARIANTS
    SizeIsExact
    OnlyImpossibleSizesAreRefused
    RtTypeOK
    ErrorTellsLastAllocation
