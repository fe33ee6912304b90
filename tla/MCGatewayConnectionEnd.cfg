SPECIFICATION FairSpec
CONSTANTS
    Codexes = {k1}
    NoCodex = NoCodex
    Tasks = {t1}
    SendQueueSize = 1
    WatchQueueSize = 1
    MaxWatches = 1
    MaxWatchIds = 1
    MaxSeq = 2
    MaxInputs = 1
    MaxPings = 0
    MayBreak = TRUE
CHECK_DEADLOCK FALSE
INVARIANTS NoOrphanWatcher
PROPERTIES CloseDelivered LoopsEnd SlowConsumerClosed EndedWatchFreesPlace
