SPECIFICATION Spec
CONSTANTS
    c1 = c1
    c2 = c2
    c3 = c3
    Calls = {c1, c2, c3}
    BatchOf <- MCBatchOf
    ToolOf <- MCToolOf
    Clicks = {p1, p2}
    MaxText = 1
    None = None
PROPERTY CardIsFinal
CHECK_DEADLOCK FALSE
