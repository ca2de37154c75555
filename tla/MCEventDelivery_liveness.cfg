SPECIFICATION FairSpec
CONSTANTS
    Events <- OnePrompt
    BootWarnings <- OneWarning
    MaxEventBuffer = 2
    MaxConns = 2
INVARIANTS TypeOK CriticalRetained OneCopy ReplayInOrder
PROPERTIES KeepsPromise Drains
CHECK_DEADLOCK FALSE
