CONSTANTS
    Proc = {p1, p2, p3}
    NoLock = NoLock
SPECIFICATION FairSpec
INVARIANT TypeOK
INVARIANT HolderOwnsLock
INVARIANT NoOrphanLock
PROPERTY AcquireReturns
PROPERTY DeadHolderIsReclaimed
PROPERTY ImplementsMutex
CHECK_DEADLOCK FALSE
