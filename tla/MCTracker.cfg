SPECIFICATION FairSpec
CONSTANTS
    MaxCycles = 3
    MaxResets = 1
    Capacity = 2
    ServerModes = {"NORMAL", "PURSUIT", "SILENT"}
    Faults = {"no_fix", "power_loss", "memory"}
INVARIANTS
    StatusFits
    MessageInHand
    ChainFollowsAcks
    AckedIsFinal
    Accounted
    OneCycleReports
    LoRaWithModemOff
PROPERTY
    ImplementsLedger
    CycleEndsOrWaits
