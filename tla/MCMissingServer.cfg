SPECIFICATION Spec
CONSTANTS
    s1 = s1
    s2 = s2
    t1 = t1
    t2 = t2
    c1 = c1
    c2 = c2
    v1 = v1
    v2 = v2
    v3 = v3
    Servers = {s1, s2}
    Tools = {t1, t2}
    Calls = {c1, c2}
    Configs = {v1}
    Compared <- MCCompared
    ToolOf <- MCToolOf
    Offers <- MCOffers
    Boot <- MCBoot
    MaxFaults = 2
    None = None
INVARIANT MissingServerIsHandled
CHECK_DEADLOCK FALSE
