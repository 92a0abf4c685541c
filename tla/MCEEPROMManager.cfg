CONSTANTS
    Size = 8
    PageSize = 2
    MaxString = 4
    Strings <- AnyStrings
    MaxResets = 2
    CrashPoints = {"none", "push"}
SPECIFICATION FairSpec
INVARIANT BlankBehind
PROPERTIES ImplementsStack OperationsEnd
