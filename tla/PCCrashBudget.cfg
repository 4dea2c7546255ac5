CONSTANTS
    MaxExits = 5
    MaxStarts = 2
    CrashExits = TRUE
SPECIFICATION Spec
INVARIANT CrashBudgetKept
CHECK_DEADLOCK FALSE
