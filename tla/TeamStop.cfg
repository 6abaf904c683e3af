SPECIFICATION Spec
CONSTANTS
    Lead = Lead
    w1 = w1
    n1 = n1
    s1 = s1
    NoMessage = NoMessage
    Workers <- MCWorkers1
    Notes <- MCNotes
    Steers = {}
    Messages <- MCMessages
    To <- MCTo
    Capacity = 2
    Batch = 2
    MaxFaults = 1
    MaxReports = 3
    MaxTries = 1
    MaxRestarts = 1
INVARIANTS
    DeliveredInOrder
    RefusedStaysOut
PROPERTIES
    StopEnds
CHECK_DEADLOCK FALSE
