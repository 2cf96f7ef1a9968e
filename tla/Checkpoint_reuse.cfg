SPECIFICATION Spec
CONSTANTS
    a = a
    b = b
    CkpId <- MCCkpId
    Kind <- MCExclusive
    MaxInFlight = 2
    MaxConflict = 1
    MaxTs = 11
    CanCrash = TRUE
    UNCOMMIT_TS = 99
SYMMETRY MCSymmetry
INVARIANT TsAboveLog
