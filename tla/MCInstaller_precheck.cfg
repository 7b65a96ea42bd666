\* Pre-checks against every consistent pre-existing claim/volume pair.
CONSTANTS
    PV = PV
    OtherPV = OtherPV
    NoPV = NoPV
    Requests <- PrecheckRequests
    Facts <- PrecheckFacts
    Backends <- PrecheckBackends
    Clusters <- PrecheckClusters
    CSIMinVersion <- MCCSIMin
    CHAPMinVersion <- MCCHAPMin
    K8sTimeout = 2
    MaxPolls = 1
    MaxFaults = 1
    MaxRuns = 1
SPECIFICATION Spec
CHECK_DEADLOCK FALSE
INVARIANTS
    TypeOK
    AbortBeforeMutation
    SuccessImpliesInstalled
PROPERTIES
    Terminates
    
    RunRefinement
