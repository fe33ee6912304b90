SPECIFICATION Spec
CONSTANTS
    Clients = {c1, c2}
    Capacity = 2
    QueueSize = 2
    MaxSeq = 3
    MaxRuns = 1
    Indeterminate = TRUE
    DestroyMayFail = FALSE
PROPERTIES ReconnectClosesGaps
CHECK_DEADLOCK FALSE
