SPECIFICATION Spec
CONSTANTS
    Region = {east}
    Freshness = 2
    Stability = 1
    MaxSkew = 0
    MaxLag = 0
    NoResult = NoResult
    Owned = FALSE
    SlowValues = {FALSE}
    CertValues = {"none"}
    MaxDelay = 2
    MaxInFlight = 1
    MaxFlips = 2
    MaxAdmin = 2
    MaxCrashes = 1
    MaxDbErrors = 0
VIEW View
INVARIANTS
    OneOpenIncident
