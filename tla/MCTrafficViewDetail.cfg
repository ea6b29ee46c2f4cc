\* No fault, no lag, answers in order: is what completes while it is open shown?
CONSTANTS
    MaxId = 2
    MaxGets = 2
    MaxBatches = 1
    BusCapacity = 6
    MaxRows = 2
    HistoryLimit = 0
    MaxClears = 0
    Overtaking = FALSE
    Faults = FALSE
SPECIFICATION FairSpec
PROPERTY FreshDetail
CHECK_DEADLOCK FALSE
