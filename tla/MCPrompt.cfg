SPECIFICATION PartsSpec
CONSTANTS
    Prompts = {p1, p2}
    NoPrompt = NoPrompt
    MaxFaults = 2
    MaxSessions = 2
    NotAList = NotAList
    Lists <- AllLists
    PerMessage = 4
    Concurrency = 2
    MaxBytes = 1
CHECK_DEADLOCK FALSE
INVARIANTS Cancellable NothingLostSilently
PROPERTIES HonestCompletion SessionKept NoPromptHangs
