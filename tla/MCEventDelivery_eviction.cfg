SPECIFICATION Spec
CONSTANTS
    Events <- CriticalLoad
    BootWarnings <- NoWarnings
    MaxEventBuffer = 2
    MaxConns = 2
PROPERTIES CriticalEvictedLast
CHECK_DEADLOCK FALSE
