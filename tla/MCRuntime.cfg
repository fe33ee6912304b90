SPECIFICATION FairSpec
CONSTANTS
    Threads = {t1}
    MaxRestarts = 1
    MaxRequests = 2
    MaxFaults = 3
INVARIANTS NoOrphan BudgetSpent RestartIsAwaited
PROPERTIES CloseEnds Recovers
CHECK_DEADLOCK FALSE
