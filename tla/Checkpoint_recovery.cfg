SPECIFICATION Spec
CONSTANTS
    a = a
    b = b
    CkpId <- MCCkpId
    Kind <- MCExclusive
    MaxInFlight = 3
    MaxConflict = 1
    MaxTs = 11
    CanCrash = TRUE
    UNCOMMIT_TS = 99
SYMMETRY MCSymmetry
INVARIANTS
    CrashSafe
    NewTsAfterLog
    NoAbort
    FullIsComplete
