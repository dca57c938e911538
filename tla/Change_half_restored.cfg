CONSTANTS
    Change = {c1, c2}
    Session = {s1}
    Domain = {1, 2}
    Drafts <- SomeDrafts
    Absent = Absent
    MaxClock = 2
SPECIFICATION Spec
INVARIANT AtomicCommit
CHECK_DEADLOCK FALSE
