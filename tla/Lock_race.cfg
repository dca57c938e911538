CONSTANTS
    Proc = {p1, p2, p3}
    NoLock = NoLock
    StaleAfter = 1
    MaxPass = 1
    MaxClock = 2
SPECIFICATION Spec
INVARIANT UnforcedExclusion
SYMMETRY Symmetry
CHECK_DEADLOCK FALSE
