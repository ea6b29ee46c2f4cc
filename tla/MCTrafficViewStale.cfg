\* Answers in order, no clear: does a request that fails leave another one's
\* details in the pane?
CONSTANTS
    MaxId = 2
    MaxGets = 2
    MaxBatches = 1
    BusCapacity = 1
    MaxRows = 2
    HistoryLimit = 2
    MaxClears = 0
    Overtaking = FALSE
    Faults = TRUE
SPECIFICATION Spec
INVARIANT DetailIsSelected
CHECK_DEADLOCK FALSE
