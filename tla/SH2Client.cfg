CONSTANTS
    SeqModulus = 3
    Sensors = {"ACCEL"}
    ProdEntries = 3
    FrsWords = 2
    MaxFaults = 1
    MaxLosses = 1
    MaxCalls = 2
    MaxResets = 2
    ClientOps = {"getProdIds", "getSensorConfig", "setSensorConfig", "getFrs", "setFrs", "flush", "getErrors", "getCounts", "sendCmd", "reinitialize", "saveDcdNow", "getOscType", "setCalConfig", "getCalConfig", "startCal", "finishCal"}
SPECIFICATION Spec
INVARIANTS AnswersAreOwn PayloadIsConsecutive RequestsArrive
PROPERTIES OpEnds
CHECK_DEADLOCK FALSE
