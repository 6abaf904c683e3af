SPECIFICATION Spec
CONSTANTS
    Lead = Lead
    w1 = w1
    n1 = n1
    s1 = s1
    NoMessage = NoMessage
    Workers <- MCWorkers1
    Notes = {}
    Steers <- MCSteers
    Messages <- MCMessages
    To <- MCTo
    Capacity = 1
    Batch = 2
    MaxFaults = 2
    MaxReports = 2
    MaxTries = 2
    MaxRestarts = 1
INVARIANTS
    GivenOnce
    QueueMatchesReceipts
    GivenIsJournaled
    ResultAccounted
    RefusedStaysOut
PROPERTIES
    ReceiptForward
CHECK_DEADLOCK FALSE
