SPECIFICATION BridgeSpec
CONSTANTS
    Prompts = {p1, p2}
    NoPrompt = NoPrompt
    MaxFaults = 1
    MaxSessions = 1
CHECK_DEADLOCK FALSE
PROPERTIES PromptsAreAnswered
