SPECIFICATION FairSpec
CONSTANTS
    Prompts = {p1, p2}
    MaxRefresh = 0
PROPERTIES RequestSettles
CHECK_DEADLOCK FALSE
