SPECIFICATION PartsSpec
CONSTANTS
    Repos = {"app", "docs"}
    None = None
    Bad = Bad
    Supplied <- Usual
    MaxHead = 3
    MaxBoots = 3
    Discovered <- Skills
    Destination = "managed"
    Names = {"review"}
    MaxInstalls = 4
    MaxFaults = 2
    MaxOutages = 1
    Checkouts = 2
    NPaths = 3
    Sessions <- Collected
    Binary = Binary
CHECK_DEADLOCK FALSE
INVARIANTS BaselineKept TrustedTree BundleIsTrue BundleIsBounded OthersShown
PROPERTIES TreeSurvives
