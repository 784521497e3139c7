SPECIFICATION Spec
CONSTANTS
    Term = {1, 2}
    MaxIndex = 5
    MaxCrashes = 3
    Torn = Torn
CHECK_DEADLOCK FALSE
INVARIANTS
    TypeOK
    MemoryIsDurable
    EntriesInPlace
PROPERTIES
    CrashAtomic
