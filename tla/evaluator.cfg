SPECIFICATION DeleteSpec
CONSTANTS
    Region = {east}
    Freshness = 2
    Stability = 1
    MaxSkew = 0
    MaxLag = 0
    NoResult = NoResult
    Owned = TRUE
    SlowValues = {TRUE, FALSE}
    CertValues = {"ok", "near"}
    MaxDelay = 1
    MaxInFlight = 1
    MaxFlips = 3
    MaxAdmin = 2
    MaxCrashes = 1
    MaxDbErrors = 0
VIEW View
INVARIANTS
    TypeOK
    OneOpenIncident
    EngineMatchesIncident
    OneSlowWarning
    OneCertWarning
    DeletedHasNoIncident
PROPERTIES
    IncidentLifecycle
