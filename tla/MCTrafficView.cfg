\* Two transactions, a bus of two events, a table of one row, one clear, a
\* detail request of the user and a refresh at a time.
CONSTANTS
    MaxId = 2
    MaxGets = 2
    MaxBatches = 1
    BusCapacity = 2
    MaxRows = 1
    HistoryLimit = 1
    MaxClears = 1
    Overtaking = TRUE
    Faults = TRUE
SPECIFICATION Spec
INVARIANTS TypeOK TableIsWhole LoadingEnds RowsAreOwed
PROPERTY NoOtherShown
CHECK_DEADLOCK FALSE
