\* Two waits of one session race to commit cursors while output arrives.
SPECIFICATION Spec
CONSTANTS
    c1 = c1
    c2 = c2
    owner = owner
    observer = observer
    Runner = Runner
    NoOne = NoOne
    Clients = {c1, c2}
    Sessions = {owner}
    Owner = owner
    SessionOf <- SameSession
    Ops <- TwoWaiters
    Limit = 2
    Chunks = {1}
    Exits = {"succeeded"}
    Explicit = {}
    Inodes = {0}
    MayTimeOut = {}
    MayCrash = {c1, Runner}
INVARIANTS
    CountedBytesExist
    CursorWithinDelivered
    IntentFencesMutations
PROPERTIES
    NoLostUpdate
