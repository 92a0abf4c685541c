SPECIFICATION AnsweringSpec
CONSTANTS
    MaxCycles = 2
    MaxResets = 0
    Capacity = 2
    ServerModes = {"NORMAL"}
    Faults = {"no_fix"}
PROPERTY
    UnsentIsSaved
