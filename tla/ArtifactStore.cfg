\* Up to three processes on one OCI layout; some may be stopped and run again.
\* The processes end when they have run as often as their jobs say.
CONSTANTS
    Proc = {1, 2, 3}
    Scenarios <- MCAll
    Host = "amd64"
    Feature = {"17", "21"}
    DistRank <- MCDistRank
SPECIFICATION Spec
CHECK_DEADLOCK FALSE
INVARIANTS
    IndexClosed
    NothingLost
    PublishedVerifies
    TrustSound
    AdmissionAgrees
    ManagedAdmitted
    PublishedLaunches
