SPECIFICATION CleanupSpec
CONSTANTS
    Jdk <- MCJdk
    Feature <- MCFeature
    Image <- MCImage
    MaxGen = 2
    Inventory <- MCInventory
    Source <- MCSource
    WantsJaz <- NoJaz
    Hosts <- OneHost
    MaxFaults = 0
    MaxCrashes = 0
    Absent = Absent
INVARIANT CleanBeforeRelease
