SPECIFICATION FairSpec
CONSTANTS
    MaxTries = 0
    MaxCount = 2
    TurnOnCounter = 0
    MaxPresses = 1
    MaxFailures = 1
    MaxPending = 1
    MaxLines = 1
    EarlyFailures = FALSE
INVARIANT OffIsOff
PROPERTIES OrderlyShutdown PhasesEnd
