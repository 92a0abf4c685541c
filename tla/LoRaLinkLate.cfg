CONSTANTS
    MaxReports = 2
    MaxTimeouts = 1
    ChunkSize = 2
    Lengths = {1}
    Overwritten = {}
    MaxInserts = 2
    MaxAir = 2
SPECIFICATION LinkSpec
INVARIANT ConfirmedArrived
CHECK_DEADLOCK FALSE
