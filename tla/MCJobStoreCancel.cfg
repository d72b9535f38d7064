\* Cancellation and recovery race the runner's own publication.
SPECIFICATION Spec
CONSTANTS
    c1 = c1
    c2 = c2
    owner = owner
    observer = observer
    Runner = Runner
    NoOne = NoOne
    Clients = {c1, c2}
    Sessions = {owner}
    Owner = owner
    SessionOf <- SameSession
    Ops <- CancelAndAny
    Limit = 1
    Chunks = {2}
    Exits = {"succeeded", "nonzero_exit"}
    Explicit = {}
    Inodes = {0}
    MayTimeOut = {c1, Runner}
    MayCrash = {c1, c2, Runner}
INVARIANTS
    CancelHonoured
    RunnerLostOnlyIfDead
PROPERTIES
    TerminalFrozen
