\* Installs and uninstalls of two processes, with failures and a kill.
SPECIFICATION FairSpec
CONSTANTS
    p1 = p1
    p2 = p2
    v1 = v1
    v2 = v2
    Procs = {p1, p2}
    Versions = {v1, v2}
    Inodes = {1, 2}
    Uninstall = Uninstall
    None = None
    Offers <- Updates
    MaxOps = 3
    MaxFaults = 1
    MaxCrashes = 1
    MaxMeddles = 1
INVARIANTS
    OneAtATime
    CurrentIsComplete
    InstallKeepsReleases
    FailedInstallRestores
    RefusedForCause
PROPERTIES
    ImplementsInstallation
    OperationsEnd
\* The bounded operations come to an end.
CHECK_DEADLOCK FALSE
