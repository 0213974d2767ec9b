SPECIFICATION FairCacheSpec
CONSTANTS
    app = app
    other = other
    Launch = {1, 2, 3}
    CacheKey = {app, other}
    KeyOf <- TwoApps
    Seed <- OtherSeeded
    MaxFailures = 1
    MaxInFlight = 2
INVARIANT CDSTypeOK
PROPERTIES NoKeyAbandoned EvictionHeals
