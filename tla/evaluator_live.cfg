SPECIFICATION FairSpec
CONSTANTS
    Region = {east}
    Freshness = 1
    Stability = 1
    MaxSkew = 0
    MaxLag = 0
    NoResult = NoResult
    Owned = FALSE
    SlowValues = {FALSE}
    CertValues = {"none"}
    MaxDelay = 1
    MaxInFlight = 2
    MaxFlips = 3
    MaxAdmin = 1
    MaxCrashes = 1
    MaxDbErrors = 1
PROPERTIES
    IncidentsEventuallyAccurate
    EngineEventuallyAccurate
