SPECIFICATION Spec
CONSTANTS
    MaxWakeUps = 1
    MaxAttempts = 2
    MaxSignalAttempts = 2
    MaxPoorSignals = 2
    MaxTimeOuts = 1
    MaxRows = 3
    MaxCells = 1
    MaxPending = 2
    MaxLines = 4
    Cards = {2}
    Lists <- MCLists
PROPERTY KeepsCard
CHECK_DEADLOCK FALSE
