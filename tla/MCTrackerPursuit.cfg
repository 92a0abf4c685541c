SPECIFICATION AnsweringSpec
CONSTANTS
    MaxCycles = 3
    MaxResets = 0
    Capacity = 1
    ServerModes = {"PURSUIT"}
    Faults = {}
PROPERTY
    CycleEnds
