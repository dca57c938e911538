CONSTANTS
    Proc = {p1, p2, p3}
    NoLock = NoLock
    StaleAfter = 1
    MaxPass = 1
    MaxClock = 2
SPECIFICATION FairSpec
INVARIANT TypeOK
INVARIANT NoOrphanLock
INVARIANT StaleMeansOver
INVARIANT PassOwnsLock
INVARIANT AttemptsSuffice
PROPERTY AcquireReturns
PROPERTY CrashedLockIsTakenOver
PROPERTY ImplementsMutex
CHECK_DEADLOCK FALSE
