CONSTANTS
    Change = {c1, c2}
    Session = {s1}
    Domain = {1, 2}
    Drafts <- SomeDrafts
    Absent = Absent
    MaxClock = 4
SPECIFICATION Spec
INVARIANT SupersededWasArchived
CHECK_DEADLOCK FALSE
