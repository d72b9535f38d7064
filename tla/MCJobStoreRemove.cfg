\* Two removals and a cancellation race the runner and each other.
SPECIFICATION Spec
CONSTANTS
    c1 = c1
    c2 = c2
    owner = owner
    observer = observer
    Runner = Runner
    NoOne = NoOne
    Clients = {c1, c2}
    Sessions = {owner}
    Owner = owner
    SessionOf <- SameSession
    Ops <- RemoveAndCancel
    Limit = 1
    Chunks = {2}
    Exits = {"succeeded"}
    Explicit = {}
    Inodes = {0, 1, 2, 3}
    MayTimeOut = {c1, c2, Runner}
    MayCrash = {c1, c2, Runner}
INVARIANTS
    LeaseProtectsDirectory
PROPERTIES
    RemovalIsFinal
    ImplementsLifecycle
