SPECIFICATION FairSpec
CONSTANTS
    MaxConns = 3
    MaxAttempts = 4
    MaxDelay = 60
    \* stands for 34, so that the overflow is reached
    OverflowAt = 3
INVARIANTS TypeOK OneSocket
PROPERTIES SummaryIsTrue PeersAreWatched
CHECK_DEADLOCK FALSE
