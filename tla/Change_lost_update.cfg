CONSTANTS
    Change = {c1, c2}
    Session = {s1, s2}
    Domain = {1, 2}
    Drafts <- SomeDrafts
    Absent = Absent
    MaxClock = 2
SPECIFICATION Spec
INVARIANT ArchivedIsOnPages
CHECK_DEADLOCK FALSE
