\* Bodies of up to three bytes against a capture of two, of which one is kept
\* inline; prunes keep one transaction.  No fault, but the process may die.
CONSTANTS
    MaxId = 2
    MaxRuns = 1
    MaxAsks = 2
    BatchCap = 2
    MaxTransactions = 1
    PruneEvery = 1
    Faults = FALSE
    CaptureLimit = 2
    InlineLimit = 1
    MaxBytes = 3
    MaxFrame = 2
SPECIFICATION PFairSpec
INVARIANTS PTypeOK CaptureIsPrefix RetentionInRun
PROPERTIES GetIsTrue PromiseSpec CallsAnswered OverIsAnnounced
CHECK_DEADLOCK FALSE
