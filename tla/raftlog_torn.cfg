SPECIFICATION TornSpec
CONSTANTS
    Term = {1, 2}
    MaxIndex = 3
    MaxCrashes = 1
    Torn = Torn
CHECK_DEADLOCK FALSE
PROPERTIES
    CrashAtomic
