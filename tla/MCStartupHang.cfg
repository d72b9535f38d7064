\* No timer ever fires, but everybody may be killed.
SPECIFICATION FairSpec
CONSTANTS
    Impatient <- Nobody
    MayCrash <- Everybody
PROPERTIES
    StartReturns
\* A startup comes to an end.
CHECK_DEADLOCK FALSE
