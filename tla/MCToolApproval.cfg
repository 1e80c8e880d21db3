SPECIFICATION FairSpec
CONSTANTS
    t1 = t1
    t2 = t2
    c1 = c1
    c2 = c2
    c3 = c3
    Turns = {t1, t2}
    Calls = {c1, c2, c3}
    Posts = {p1, p2}
    TurnOf <- MCTurnOf
    Settings <- MCSettings
    None = None
INVARIANTS
    ExecutesOnlyApproved
    DenialIsFinal
    NoStaleApproval
PROPERTIES
    BatchesSettle
CHECK_DEADLOCK FALSE
