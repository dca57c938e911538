CONSTANTS
    Change = {c1, c2}
    Session = {s1}
    Domain = {1, 2}
    Drafts <- SomeDrafts
    Absent = Absent
    MaxClock = 5
SPECIFICATION Spec
INVARIANT TypeOK
INVARIANT AllOrNone
INVARIANT ArchivedIsOnPages
PROPERTY ReplacesWhatWasReviewed
PROPERTY LogIsKept
PROPERTY ImplementsLifecycle
SYMMETRY Symmetry
CHECK_DEADLOCK FALSE
