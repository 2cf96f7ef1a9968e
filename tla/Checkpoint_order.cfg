SPECIFICATION Spec
CONSTANTS
    a = a
    b = b
    CkpId <- MCCkpId
    Kind <- MCExclusive
    MaxInFlight = 2
    MaxConflict = 0
    MaxTs = 10
    CanCrash = FALSE
    UNCOMMIT_TS = 99
SYMMETRY MCSymmetry
INVARIANT FullInOrder
CHECK_DEADLOCK FALSE
