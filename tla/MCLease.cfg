SPECIFICATION FairSpec
CONSTANTS
    LeaseDuration = 3
    WarningBefore = 1
    MaxTime = 7
    MaxFaults = 2
INVARIANTS OneWarningPerDeadline LeaseIsDurable ResetShowsLease AcknowledgedLeaseKept
PROPERTIES OnlyStartTurnManages IdleLeaseEnds
CHECK_DEADLOCK FALSE
