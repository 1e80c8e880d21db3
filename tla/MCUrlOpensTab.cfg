SPECIFICATION Spec
CONSTANTS
    Ids = {a}
    Nav = nav
    Pages = {p, q}
    MaxTabs = 2
    None = none
    mobileLayout = FALSE
PROPERTY UrlOpensTab
