SPECIFICATION FairSpec
CONSTANTS
    Jdk <- MCJdk
    Feature <- MCFeature
    Image <- MCImage
    MaxGen = 2
    Inventory <- MCInventory
    Source <- MCSource
    WantsJaz <- JazFirst
    Hosts <- AllHosts
    MaxFaults = 2
    MaxCrashes = 2
    Absent = Absent
INVARIANTS TypeOK ReadyMatchesInventory ReadyExcludesError CapsCovered 
PROPERTIES ReadyWhenServing NeverSilent ConvergesUnlessCut
