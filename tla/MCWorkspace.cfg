SPECIFICATION FairSpec
CONSTANTS
    Agents = {a1}
    Callers = {loop}
    Requests = {w1, w2}
    None = None
    MaxGen = 3
    MaxFaults = 1
    MaxRestores = 1
INVARIANTS MutationIsExclusive StatesAgree FileMatchesAnswers
PROPERTIES GenerationAdvances TokenSpentOnce AcknowledgedIsDurable WorkEnds
CHECK_DEADLOCK FALSE
