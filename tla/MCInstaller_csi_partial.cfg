CONSTANTS
    PV = PV
    OtherPV = OtherPV
    NoPV = NoPV
    Requests <- CSIRequests
    Facts <- PrecheckFacts
    Backends <- NFSBackend
    Clusters <- EmptyClusters
    CSIMinVersion <- MCCSIMin
    CHAPMinVersion <- MCCHAPMin
    K8sTimeout = 2
    MaxPolls = 1
    MaxFaults = 1
    MaxRuns = 2
SPECIFICATION Spec
\* The installer process exits after its last run.
CHECK_DEADLOCK FALSE
INVARIANTS
    AlreadyInstalledIsComplete
