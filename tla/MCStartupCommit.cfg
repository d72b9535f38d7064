\* Everybody may be killed and lose patience around the commit.
SPECIFICATION FairSpec
CONSTANTS
    Impatient <- Everybody
    MayCrash <- Everybody
INVARIANTS
    NoUnwantedJob
    AnswerIsTrue
    CertainIsSafe
    CommittedKeepsShell
PROPERTIES
    ImplementsJobStart
    AbandonedShellStops
    StagingRemoved
\* A startup comes to an end.
CHECK_DEADLOCK FALSE
