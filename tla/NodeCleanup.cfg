SPECIFICATION FairCleanup
CONSTANTS
    Jdk <- MCJdk
    Feature <- MCFeature
    Image <- MCImage
    MaxGen = 2
    Inventory <- MCInventory
    Source <- MCSource
    WantsJaz <- NoJaz
    Hosts <- CleanupHosts
    MaxFaults = 1
    MaxCrashes = 0
    Absent = Absent
INVARIANT CleanupReverses
PROPERTY DeletionCompletes
