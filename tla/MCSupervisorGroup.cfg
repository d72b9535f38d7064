\* The command may do anything to its group, and the runner may die.
SPECIFICATION FairSpec
CONSTANTS
    Children = {"child"}
    Limit = 2
    MaxChunks = 3
INVARIANTS
    OwnGroupOnly
    NothingOutlives
    OrdinaryEndIsShells
    OutcomeHasOutput
PROPERTIES
    ImplementsSupervision
    SupervisionEnds
    RunnerDeathStopsGroup
\* A job comes to an end.
CHECK_DEADLOCK FALSE
