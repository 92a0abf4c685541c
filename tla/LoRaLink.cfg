CONSTANTS
    MaxReports = 3
    MaxTimeouts = 3
    ChunkSize = 2
    Lengths = {1, 4}
    Overwritten = {0, 5}
    MaxInserts = 3
    MaxAir = 4
SPECIFICATION LinkSpec
INVARIANTS NumbersConfirmedOnce ArrivalPerAck AcceptedIsWhole
PROPERTIES ImplementsExchange ExchangeEnds
CHECK_DEADLOCK FALSE
