SPECIFICATION Spec
CONSTANTS
    Jdk <- MCJdk
    Feature <- MCFeature
    Image <- MCImage
    MaxGen = 2
    Inventory <- MCInventory
    Source <- MCSource
    WantsJaz <- NoJaz
    Hosts <- Validated
    MaxFaults = 0
    MaxCrashes = 1
    Absent = Absent
INVARIANT KnownGoodRestored
