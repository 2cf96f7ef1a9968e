SPECIFICATION Spec
CONSTANTS
    d1 = d1
    d2 = d2
    i1 = i1
    c1 = c1
    None = None
    Deleters = {d1}
    Inserters = {}
    Compactions = {c1}
    InitialRows <- Sealed
    Victims <- MostRows
    BlockCapacity = 3
    SegmentCapacity = 4
    InsertRows = {1, 2}
    MaxSegments = 5
PROPERTY UsedSegmentKept
