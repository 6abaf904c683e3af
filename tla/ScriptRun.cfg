SPECIFICATION Spec
CONSTANTS
    read1 = read1
    read2 = read2
    command1 = command1
    t1 = t1
    t2 = t2
    Calls <- MCCalls
    Shared <- MCShared
    Mutating <- MCMutating
    Commands <- MCCommands
    Threads <- MCThreads
    Parallelism = 2
    MaxPending = 2
INVARIANTS
    RunsAlone
    StatusIsHonest
    ReleasedIsIdle
PROPERTIES
    NothingAfterUncertain
    RunEnds
CHECK_DEADLOCK FALSE
