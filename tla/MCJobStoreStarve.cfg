\* Commands keep coming while the runner publishes.
SPECIFICATION FairSpec
CONSTANTS
    c1 = c1
    c2 = c2
    owner = owner
    observer = observer
    Runner = Runner
    NoOne = NoOne
    Clients = {c1, c2}
    Sessions = {owner, observer}
    Owner = owner
    SessionOf <- TwoSessions
    Ops <- CancelAndWait
    Limit = 1
    Chunks = {1}
    Exits = {"succeeded"}
    Explicit = {1}
    Inodes = {0}
    MayTimeOut = {c1, c2}
    MayCrash = {c1, c2}
PROPERTIES
    PublicationCompletes
