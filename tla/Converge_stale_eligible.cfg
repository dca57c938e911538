CONSTANTS
    Dims = {d1}
    DimensionLists = {{d1}}
    Headings = {d1}
    Verdicts = {"green", "yellow"}
    PassLimits = {2, 3}
    NoState = NoState
    NoPrompt = NoPrompt
    Quiet = TRUE
    MaxRound = 3
    MaxEdits = 1
SPECIFICATION Spec
PROPERTY SignedOnlyConverged
CHECK_DEADLOCK FALSE
