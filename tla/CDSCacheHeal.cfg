SPECIFICATION FairCacheSpec
CONSTANTS
    app = app
    other = other
    Launch = {1, 2}
    CacheKey = {app}
    KeyOf <- OneApp
    Seed <- AllForeign
    MaxFailures = 1
    MaxInFlight = 2
PROPERTY SelfHeals
