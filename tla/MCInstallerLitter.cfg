\* One process may be killed anywhere in an install or an uninstall; nothing fails.
SPECIFICATION Spec
CONSTANTS
    p1 = p1
    p2 = p2
    v1 = v1
    v2 = v2
    Procs = {p1, p2}
    Versions = {v1, v2}
    Inodes = {1, 2}
    Uninstall = Uninstall
    None = None
    Offers <- Updates
    MaxOps = 2
    MaxFaults = 0
    MaxCrashes = 1
    MaxMeddles = 0
INVARIANTS
    UninstallRemovesOwned
\* The bounded operations come to an end.
CHECK_DEADLOCK FALSE
