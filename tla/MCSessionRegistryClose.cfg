\* Sessions are deleted and the plugin is disposed around their launches.
SPECIFICATION FairSpec
CONSTANTS
    s1 = s1
    s2 = s2
    run = run
    start = start
    other = other
    Sessions = {s1, s2}
    Launches = {run, start, other}
    Runs = {run}
    Owner <- Owners
    Impatient = {start}
    Deletable = {s1}
INVARIANTS
    OnlyOwnJobs
    DisposeIsComplete
PROPERTIES
    DeletedSessionsJobsCancelled
    CloseReturns
\* Everything comes to an end.
CHECK_DEADLOCK FALSE
