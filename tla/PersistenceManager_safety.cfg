SPECIFICATION Spec
CONSTANTS
    p1 = p1
    p2 = p2
    w1 = w1
    bg = bg
    Paths = {p1, p2}
    Workers = {w1}
    Bg = bg
    Sizes <- SomeSizes
    Composed = {p1, p2}
    Limit = 6
    ObjAlignment = 2
    MaxPersists = 3
    MaxReads = 2
    MaxTasks = 2
    MaxRestarts = 1
INVARIANTS
    RefCountExact
    MappedReadable
    RangesExact
    DurableReadable
    NoAbort
