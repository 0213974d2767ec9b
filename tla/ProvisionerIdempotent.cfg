SPECIFICATION FairSpec
CONSTANTS
    Jdk <- MCJdk
    Feature <- MCFeature
    Image <- MCImage
    MaxGen = 2
    Inventory <- MCInventory
    Source <- MCSource
    WantsJaz <- JazLast
    Hosts <- GoodHosts
    MaxFaults = 0
    MaxCrashes = 1
    Absent = Absent
PROPERTY Converges
