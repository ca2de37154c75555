SPECIFICATION Spec
CONSTANTS
    Events <- TwoErrors
    BootWarnings <- NoWarnings
    MaxEventBuffer = 3
    MaxConns = 2
INVARIANTS NoCriticalLost
CHECK_DEADLOCK FALSE
