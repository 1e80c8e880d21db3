SPECIFICATION MCSpec
CONSTANTS
    Ids = {a, b}
    Nav = nav
    Pages = {p, q}
    MaxTabs = 2
    None = none
    mobileLayout = TRUE
SYMMETRY ShellSymmetry
INVARIANTS
    OneOpenTabIsActive
    HandoffsLead
    NavFollowsUrl
    RegionIsSwitchable
PROPERTY EvictionSpares
CHECK_DEADLOCK FALSE
