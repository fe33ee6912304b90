SPECIFICATION FairSpec
CONSTANTS
    Clients = {c1}
    Capacity = 2
    QueueSize = 1
    MaxSeq = 3
    MaxRuns = 2
    Indeterminate = TRUE
    DestroyMayFail = TRUE
INVARIANTS NoSilentGap InOrder ResumesWithinCapacity BufferIsSuffix ViewMatchesHead
PROPERTIES CatchesUp ImplementsFeed
CHECK_DEADLOCK FALSE
