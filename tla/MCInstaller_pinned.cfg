CONSTANTS
    PV = PV
    OtherPV = OtherPV
    NoPV = NoPV
    Requests <- PinnedRequests
    Facts <- PrecheckFacts
    Backends <- NFSBackend
    Clusters <- PinnedClusters
    CSIMinVersion <- MCCSIMin
    CHAPMinVersion <- MCCHAPMin
    K8sTimeout = 2
    MaxPolls = 1
    MaxFaults = 0
    MaxRuns = 1
SPECIFICATION Spec
\* The installer process exits after its last run.
CHECK_DEADLOCK FALSE
INVARIANTS
    SuccessImpliesInstalled
