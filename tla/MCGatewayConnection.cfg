SPECIFICATION Spec
CONSTANTS
    Codexes = {k1}
    NoCodex = NoCodex
    Tasks = {t1, t2}
    SendQueueSize = 1
    WatchQueueSize = 2
    MaxWatches = 1
    MaxWatchIds = 2
    MaxSeq = 2
    MaxInputs = 2
    MaxPings = 1
    MayBreak = FALSE
SYMMETRY Symmetric
CHECK_DEADLOCK FALSE
INVARIANTS TypeOK EventsFollowTheirWatch NoOrphanWatcher
