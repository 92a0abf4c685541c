CONSTANTS
    MaxCycles = 3
    MaxTries = 3
    MaxLate = 2
    MaxFaults = 2
    MaxLines = 12
SPECIFICATION FairSpec
INVARIANTS PositionIsOfCycle
PROPERTY AcquisitionEnds
CHECK_DEADLOCK FALSE
