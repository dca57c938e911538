CONSTANTS
    Change = {c1}
    Session = {s1}
    Domain = {1, 2}
    Drafts <- SomeDrafts
    Absent = Absent
    MaxClock = 3
SPECIFICATION Spec
INVARIANT TransitionsAreLegal
CHECK_DEADLOCK FALSE
