SPECIFICATION Spec
CONSTANTS
    a = a
    b = b
    Nobody = Nobody
    Free = Free
    Task = {a, b}
    Exporter = {e1, e2}
    MaxCreates = 2
    MaxFaults = 1
    MaxStarts = 3
    Feature <- MCFeature
    DistRank <- MCDistRank
    Node <- MCNode
    Inputs <- MCInputs
    Scenarios <- MCScenarios
INVARIANTS ReportIsTrue BlameIsTrue EventsDecode LaunchIsWhole RestartBinds
PROPERTY ReportedOnce
CHECK_DEADLOCK FALSE
