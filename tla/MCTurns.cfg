SPECIFICATION Spec
CONSTANTS
    Starters = {s1}
    Responders = {r1, r2}
    Asks = {q1, q2}
    Decisions = {allow, deny}
    MaxTurns = 2
    MaxIncidents = 4
INVARIANTS AnsweredOnce PendingAgrees OneTurn EndedTurnUnblocks
SYMMETRY Sym
CHECK_DEADLOCK FALSE
