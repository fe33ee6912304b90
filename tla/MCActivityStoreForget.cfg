SPECIFICATION Spec
CONSTANTS
    Clients = {c1}
    Capacity = 2
    QueueSize = 1
    MaxSeq = 3
    MaxRuns = 1
    Indeterminate = FALSE
    DestroyMayFail = TRUE
INVARIANTS EventSeqUnique
CHECK_DEADLOCK FALSE
