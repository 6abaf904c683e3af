SPECIFICATION Spec
CONSTANTS
    run = run
    worker = worker
    shell = shell
    server = server
    o1 = o1
    o2 = o2
    Tokens <- MCOneToken
    Root = run
    BookToken = run
    ParentOf <- MCOneParent
    Jobs = {server}
    Restarting = {server}
    Owners = {o1, o2}
    MaxRestarts = 1
PROPERTIES
    ExitFreesWorkspace
CHECK_DEADLOCK FALSE
