SPECIFICATION Spec
CONSTANTS
    Tasks = {t1, t2, t3}
    Ids = {i1}
    Payloads = {p1, p2}
    NoTask = NoTask
    NoEntry = NoEntry
SYMMETRY Symmetric
INVARIANTS AtMostOnce ResultIsDurable ConflictIsHonest
