CONSTANTS
    c1 = c1
    c2 = c2
    c3 = c3
    Calls = {c1, c2, c3}
    BatchOf <- MCBatchOf
    ToolOf <- MCToolOf
    Clicks = {k1, k2}
    MaxText = 1
    None = none
    Payloads = {"p1", "p2"}
    TabOf <- MCTabOf
    Answers <- MCAnswers
    MaxToken = 12
    MaxStreams = 3
    Tokens = {"{", "}", "F", "D", "t", "q", "k", "x"}
    MaxTokens = 6
    MaxEdits = 1
    Forms <- MCForms
    Texts = {"", "blanks", "x"}
    MODE_TIMEOUT = 3
    Containers = {500, 1000}
    Sizings <- MCSizings
    Deltas <- MCDeltas
SPECIFICATION PartSpec
CHECK_DEADLOCK FALSE
INVARIANT
    ReadWriteIsActivated
