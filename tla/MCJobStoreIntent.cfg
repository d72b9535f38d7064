\* The runner and an observer may die at any step; the other client keeps cancelling.
SPECIFICATION PersistentSpec
CONSTANTS
    c1 = c1
    c2 = c2
    owner = owner
    observer = observer
    Runner = Runner
    NoOne = NoOne
    Clients = {c1, c2}
    Sessions = {owner}
    Owner = owner
    SessionOf <- SameSession
    Ops <- PollAndCancel
    Limit = 1
    Chunks = {1}
    Exits = {"succeeded"}
    Explicit = {}
    Inodes = {0}
    MayTimeOut = {}
    MayCrash = {c1, Runner}
PROPERTIES
    StaleIntentCleared
