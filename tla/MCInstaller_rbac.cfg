CONSTANTS
    PV = PV
    OtherPV = OtherPV
    NoPV = NoPV
    Requests <- RBACRequests
    Facts <- RBACFacts
    Backends <- NFSBackend
    Clusters <- RBACClusters
    CSIMinVersion <- MCCSIMin
    CHAPMinVersion <- MCCHAPMin
    K8sTimeout = 2
    MaxPolls = 1
    MaxFaults = 2
    MaxRuns = 2
SPECIFICATION Spec
\* The installer process exits after its last run.
CHECK_DEADLOCK FALSE
INVARIANTS
    RBACCleanBeforeCreate
    SuccessImpliesInstalled
