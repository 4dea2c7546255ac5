CONSTANTS
    MaxExits = 5
    MaxStarts = 2
    CrashExits = TRUE
SPECIFICATION Spec
INVARIANT GiveUpIsFinal
CHECK_DEADLOCK FALSE
