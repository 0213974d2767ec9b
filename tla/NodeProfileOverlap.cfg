SPECIFICATION Spec
CONSTANTS
    default = default  batch = batch  edge = edge
    n1 = n1  gke = gke  aks = aks  x = x  y = y
    Profile = {batch, edge}
    Node = {n1}  Pool = {x, y}  PoolKey = {gke, aks}
    NoPool = NoPool  NoKey = NoKey  None = None
    ProviderPoolKeys <- Keys
    Labels <- NodeLabels
    Revisions <- Specs
    MaxOps = 3  MaxMoves = 0  MaxFails = 1
INVARIANT OneDaemonSetPerNode
CHECK_DEADLOCK FALSE
