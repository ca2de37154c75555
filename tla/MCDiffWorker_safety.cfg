SPECIFICATION Spec
CONSTANTS
    Prompts = {p1, p2}
    MaxRefresh = 1
SYMMETRY PromptSymmetry
INVARIANTS TypeOK
INVARIANTS IdleGate
INVARIANTS NoLostWakeup
INVARIANTS ShownIsCurrent
PROPERTIES SilentOnceUnsupported
PROPERTIES InFlightSurvivesShutdown
CHECK_DEADLOCK FALSE
