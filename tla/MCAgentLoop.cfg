SPECIFICATION FairSpec
CONSTANTS
    MaxIterations = 2
    MaxRetries = 1
    MaxBatch = 2
    MaxTurns = 1
    InBand = TRUE
    Kinds = {"plain", "load_tools", "get_interest", "render"}
INVARIANTS
    OneAnswerPerTurn
    NoStaleCompletion
    AnswerIsLastRound
PROPERTY TurnsEnd
CHECK_DEADLOCK FALSE
