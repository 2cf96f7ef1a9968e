CONSTANTS
    t1 = t1
    t2 = t2
    t3 = t3
    None = None
    Txns = {t1, t2, t3}
    MaxOps = 2
    MaxAlters = 1
    MaxScans = 2
    MaxEntries = 5
SYMMETRY Symmetry
SPECIFICATION Spec
INVARIANTS
    VersionsOrdered
    FirstDdlWins
    FrontIsOwn
    HeldAlive
    DirsExact
PROPERTIES
    SnapshotStable
