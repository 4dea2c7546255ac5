CONSTANTS
    MaxExits = 5
    MaxStarts = 2
    CrashExits = FALSE
SPECIFICATION Spec
PROPERTY FailureAnswered
CHECK_DEADLOCK FALSE
