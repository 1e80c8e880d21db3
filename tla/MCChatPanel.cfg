SPECIFICATION FairSpec
CONSTANTS
    MaxCalls = 2
    Typed = {t1}
    Actions = {a1, a2}
    Prompts = {p1}
    MaxEpochs = 1
    MaxGenerations = 1
    None = None
INVARIANTS
    NoOrphan
    ClearIsFinal
PROPERTIES
    ImplementsSubmissions
    QueuedIsNotLost
    SentWithSession
    ActionsSettle
CHECK_DEADLOCK FALSE
