CONSTANTS
    SeqModulus = 2
    Sensors = {"RV", "LA", "STABILITY"}
    ProdEntries = 2
    FrsWords = 1
    MaxFaults = 1
    MaxLosses = 0
    MotionThreshold = 1
    StillnessThreshold = 2
    Samples = 1
    MaxReports = 3
    MaxQueue = 1
    MaxLate = 1
    MaxHubResets = 1
SPECIFICATION IMUSpec
INVARIANTS ReportsEnabled CountedOnce NullNeedsFault
CHECK_DEADLOCK FALSE
