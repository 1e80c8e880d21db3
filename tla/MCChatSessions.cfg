SPECIFICATION FairSpec
CONSTANTS
    Names = {s}
    Msgs = {m1, m2}
    Dels = {d1}
    MaxMessages = 3
    None = None
INVARIANTS
    NoOverlap
    CancelsOnlyHolder
    RolesAlternate
PROPERTIES
    ImplementsConversations
    ClosedIsRemoved
    RequestsEnd
CHECK_DEADLOCK FALSE
