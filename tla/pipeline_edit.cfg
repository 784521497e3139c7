SPECIFICATION FairSpec
CONSTANTS
    Seeded = {s1}
    Owned = {u1}
    Keyword = {"", "k"}
    Entry <- Entries
    None = None
    Region = {east}
    MaxJobs = 1
    MaxEvents = 2
PROPERTIES
    ConfigurationWatched
