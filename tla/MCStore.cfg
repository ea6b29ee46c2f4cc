\* Two runs of the process with every fault; prunes keep one row.
CONSTANTS
    MaxId = 3
    MaxRuns = 2
    MaxAsks = 1
    BatchCap = 2
    MaxTransactions = 1
    PruneEvery = 2
    Faults = TRUE
SPECIFICATION Spec
INVARIANTS TypeOK RowBodyIntact OrderAcrossRuns ClearIsFinal
PROPERTIES AnswerIsTrue LogSpec
CHECK_DEADLOCK FALSE
