SPECIFICATION Spec
CONSTANTS
    Tasks = {t1, t2}
    Ids = {i1}
    Payloads = {p1, p2}
    NoTask = NoTask
    NoEntry = NoEntry
INVARIANTS FirstResultKept
