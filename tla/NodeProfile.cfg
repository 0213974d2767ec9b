SPECIFICATION FairSpec
CONSTANTS
    default = default  batch = batch  edge = edge
    n1 = n1  gke = gke  aks = aks  x = x  y = y
    Profile = {default, batch, edge}
    Node = {n1}  Pool = {x, y}  PoolKey = {gke, aks}
    NoPool = NoPool  NoKey = NoKey  None = None
    ProviderPoolKeys <- Keys
    Labels <- NodeLabels
    Revisions <- Specs
    MaxOps = 3  MaxMoves = 1  MaxFails = 1
INVARIANTS ProfileTypeOK CleanupNotSkipped
PROPERTIES OwnershipSettles DeletionEnds
CHECK_DEADLOCK FALSE
