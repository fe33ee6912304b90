SPECIFICATION Spec
CONSTANTS
    LeaseDuration = 3
    WarningBefore = 1
    MaxTime = 4
    MaxFaults = 1
INVARIANTS ResetShowsRebuiltView
CHECK_DEADLOCK FALSE
