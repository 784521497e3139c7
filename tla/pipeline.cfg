SPECIFICATION FairSpec
CONSTANTS
    Seeded = {s1}
    Owned = {u1}
    Keyword = {"", "k"}
    Entry <- Entries
    None = None
    Region = {east, west}
    MaxJobs = 1
    MaxEvents = 2
INVARIANTS
    TypeOK
    OneLoopPerMonitor
PROPERTIES
    WatchedEventually
    UnwatchedEventually
    MonitoringSurvives
    VerdictsBecomeTrue
