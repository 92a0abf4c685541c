CONSTANTS
    MaxSessions = 2
    ConfigAttempts = 2
    PostAttempts = 2
    MaxInputs = 2
    MaxLines = 4
SPECIFICATION FairSpec
INVARIANTS SuccessWasPosted ReplyIsOwn
PROPERTY GivesUp
CHECK_DEADLOCK FALSE
