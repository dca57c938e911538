CONSTANTS
    Change = {c1}
    Session = {s1, s2}
    Domain = {1, 2}
    Drafts <- SomeDrafts
    Absent = Absent
    MaxClock = 5
SPECIFICATION Spec
PROPERTY ImplementsLifecycle
CHECK_DEADLOCK FALSE
