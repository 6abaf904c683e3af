SPECIFICATION Spec
CONSTANTS
    run = run
    worker = worker
    shell = shell
    server = server
    o1 = o1
    o2 = o2
    Tokens <- MCTokens
    Root = run
    BookToken = worker
    ParentOf <- MCParentOf
    Jobs = {shell, server}
    Restarting = {server}
    Owners = {o1, o2}
    MaxRestarts = 1
INVARIANTS
    WriterHolds
    HolderIsAlive
PROPERTIES
    StopSticks
    CancelEnds
CHECK_DEADLOCK FALSE
