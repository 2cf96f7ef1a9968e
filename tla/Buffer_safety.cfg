SPECIFICATION Spec
CONSTANTS
    o1 = o1
    o2 = o2
    w1 = w1
    w2 = w2
    bg = bg
    Objs = {o1, o2}
    VarObjs = {o2}
    Workers = {w1, w2}
    Bg = bg
    LruCount = 2
    Limit = 2
    Word = 16
    Size <- Sizes
    MaxLoads = 3
    MaxBgOps = 2
    MaxWrites = 1
    MaxPins = 2
    MaxRefs = 2
    None = None
SYMMETRY Symmetry
INVARIANTS
    GCQueueExact
    MemAccounted
    NoDangling
    NoAbort
PROPERTY
    ImplementsPageStore
