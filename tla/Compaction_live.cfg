SPECIFICATION Spec
CONSTANTS
    d1 = d1
    d2 = d2
    i1 = i1
    c1 = c1
    None = None
    Deleters = {d1}
    Inserters = {i1}
    Compactions = {c1}
    InitialRows <- Growing
    Victims <- SomeRows
    BlockCapacity = 3
    SegmentCapacity = 4
    InsertRows = {1, 2}
    MaxSegments = 5
INVARIANT CurrentExact
PROPERTY CompactionEnds
