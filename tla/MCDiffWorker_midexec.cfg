SPECIFICATION Spec
CONSTANTS
    Prompts = {p1, p2}
    MaxRefresh = 0
INVARIANTS NeverShowsMidExecution
CHECK_DEADLOCK FALSE
