CONSTANTS
    Change = {c1}
    Session = {s1}
    Domain = {1, 2}
    Drafts <- SomeDrafts
    Absent = Absent
    MaxClock = 4
SPECIFICATION Spec
PROPERTY ProposalWins
CHECK_DEADLOCK FALSE
