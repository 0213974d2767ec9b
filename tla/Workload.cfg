CONSTANTS
    Node <- MCNode
    Pod = {1, 2}
    Feature = {"8", "21"}
    DistRank <- MCDistRank
    Scenarios <- MCScenarios
SPECIFICATION Spec
INVARIANTS WorkloadTypeOK  WebhookAgrees OptionsReach
PROPERTIES ScalingKept ForeignKept AppSettles AppServed NodeStateSettles
CHECK_DEADLOCK FALSE
