SPECIFICATION TornSpec
CONSTANTS
    Server = {n1, n2, n3}
    Command = {x}
    Nil = Nil
    Noop = Noop
    SnapThreshold = 1
    MaxTerm = 2
    MaxIndex = 2
    MaxInFlight = 1
    MaxRestarts = 100
    MaxStops = 0
    MaxDiskErrors = 0
SYMMETRY Symmetry
VIEW View
CHECK_DEADLOCK FALSE
INVARIANTS
    TypeOK
    ElectionSafety
    LogMatching
    NothingSkipped
    StateMachineSafety
    CommittedOnMajority
    LeaderCompleteness
PROPERTIES
    CommittedPrefixStable
