SPECIFICATION FaultySpec
CONSTANTS
    Server = {n1, n2, n3}
    Command = {}
    Nil = Nil
    Noop = Noop
    SnapThreshold = 0
    MaxTerm = 1
    MaxIndex = 2
    MaxInFlight = 2
    MaxRestarts = 1
    MaxStops = 0
    MaxDiskErrors = 1
SYMMETRY Symmetry
CHECK_DEADLOCK FALSE
INVARIANTS
    ElectionSafety
