CONSTANTS
    Proc = {p1, p2, p3}
    NoLock = NoLock
SPECIFICATION Spec
INVARIANT Serialized
SYMMETRY Symmetry
CHECK_DEADLOCK FALSE
