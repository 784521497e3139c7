SPECIFICATION Spec
CONSTANTS
    Server = {n1, n2, n3}
    Command = {x}
    Nil = Nil
    Noop = Noop
    SnapThreshold = 2
    MaxTerm = 1
    MaxIndex = 2
    MaxInFlight = 2
    MaxRestarts = 0
    MaxStops = 1
    MaxDiskErrors = 0
SYMMETRY Symmetry
VIEW View
CHECK_DEADLOCK FALSE
INVARIANTS
    NothingSkipped
    MatchIndexSound
PROPERTIES
    CommittedPrefixStable
