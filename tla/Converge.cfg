CONSTANTS
    Dims = {d1, d2}
    DimensionLists = {{d1}, {d1, d2}}
    Headings = {d1}
    Verdicts = {"green", "yellow"}
    PassLimits = {2, 3}
    NoState = NoState
    NoPrompt = NoPrompt
    Quiet = TRUE
    MaxRound = 2
    MaxEdits = 1
SPECIFICATION FairSpec
INVARIANT TypeOK
INVARIANT EligibleMeansConverged
INVARIANT NotesAreAnswered
INVARIANT OwnEditsDontInvalidate
PROPERTY AnswersAreKept
PROPERTY RetiredIsNotApplied
PROPERTY PassEnds
PROPERTY ImplementsProtocol
CHECK_DEADLOCK FALSE
