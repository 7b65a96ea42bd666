------------------------------- MODULE Installer -------------------------------
(***************************************************************************)
(* The `tridentctl install' orchestrator of src/cli/cmd/install.go.        *)
(*                                                                         *)
(* installTrident() is a single-threaded sequence of blocking calls to the *)
(* Kubernetes client, the storage backend and (optionally) the UCP         *)
(* authorization client.  Each call is an interleaving point with the      *)
(* cluster's own controllers (the PV/PVC binder, the pod scheduler), so    *)
(* each step of installTrident is one action, selected by `pc'.  Calls     *)
(* that fail for transport reasons consume one unit of a fault budget.     *)
(* The operator may run the installer again after it exits (Rerun); the    *)
(* cluster persists between runs, the request does not change.            *)
(***************************************************************************)
EXTENDS Naturals, FiniteSets, Sequences

CONSTANTS
    Requests,        \* installation requests (parsed command-line flags)
    Facts,           \* cluster facts: flavor and (minor) version
    Backends,        \* what backend.json yields when the driver is started
    Clusters,        \* cluster states the installer may start against
    PV, OtherPV,     \* the PV named by --pv, and one foreign PV
    NoPV,            \* "no volume name" in a PVC spec
    CSIMinVersion,   \* tridentconfig.KubernetesCSIVersionMin
    CHAPMinVersion,  \* v1.7.0, the iSCSI CHAP floor of createPV
    K8sTimeout,      \* --k8s-timeout, in seconds
    MaxPolls,        \* attempts a back-off loop makes within K8sTimeout
    MaxFaults,       \* bound on failing API steps over the whole behaviour
    MaxRuns          \* bound on installer invocations

PVNames == {PV, OtherPV}

\* Objects whose override YAML is validated before it is submitted.
Overridable == {"pvc", "deployment", "service", "statefulset", "daemonset"}

\* RBAC artifacts created by createRBACObjects / removed by removeRBACObjects.
Artifacts == {"sa", "role", "binding", "scc", "ucpRole", "ucpGrant"}

WorkloadKinds == {"deployment", "service", "statefulset", "daemonset"}

RequestRecs ==
    [csi: BOOLEAN, useK8sRBAC: BOOLEAN, dryRun: BOOLEAN, sizeValid: BOOLEAN,
     badFile: Overridable \cup {"none"}, pvcPin: PVNames \cup {NoPV}]

FactRecs == [flavor: {"OpenShift", "Kubernetes"}, version: Nat]

BackendRecs ==
    [loads: BOOLEAN, pools: BOOLEAN,
     access: {"NFS", "ISCSI", "ISCSICHAP", "Unknown"}]

PVCRecs ==
    [exists: BOOLEAN, phase: {"Pending", "Bound", "Lost"},
     vol: PVNames \cup {NoPV}, labeled: BOOLEAN]

PVRecs ==
    [exists: BOOLEAN, phase: {"Available", "Bound", "Released", "Failed"},
     claim: {"Ours", "OtherName", "OtherNS", "None"}, labeled: BOOLEAN]

PodPhases == {"None", "Running", "Serving"}

ClusterRecs ==
    [ns: BOOLEAN, pvc: PVCRecs, pv: [PVNames -> PVRecs], rbac: SUBSET Artifacts,
     workload: SUBSET WorkloadKinds, vol: BOOLEAN, secret: BOOLEAN,
     pod: PodPhases]

ASSUME ConstantsAssumption ==
    /\ Requests \subseteq RequestRecs /\ Requests # {}
    /\ Facts \subseteq FactRecs /\ Facts # {}
    /\ Backends \subseteq BackendRecs /\ Backends # {}
    /\ Clusters \subseteq ClusterRecs /\ Clusters # {}
    /\ PV # OtherPV /\ NoPV \notin PVNames
    /\ CSIMinVersion \in Nat /\ CHAPMinVersion \in Nat
    /\ K8sTimeout \in Nat
    /\ MaxPolls \in Nat /\ MaxFaults \in Nat /\ MaxRuns \in Nat \ {0}

PCs == {"ParseSize", "CheckInstalled", "CheckNamespace", "CheckPVC",
        "CheckPV", "LoadDriver", "CreateNamespace", "RemoveRBAC",
        "CreateRBAC", "CreatePVC", "AddVolume", "CreatePV", "WaitPVCBound",
        "CreateDeployment", "CreateService", "CreateStatefulSet",
        "CreateDaemonSet", "WaitPod", "WaitREST", "Done"}

ResultKinds == {"None", "OK", "DryRun", "ConfigError", "AlreadyInstalled",
                "Incompatible", "APIError", "CleanupError", "InvalidYAML",
                "NoPools", "CHAPVersion", "UnknownVolume", "PVCTimeout",
                "PodTimeout", "RESTTimeout"}

\* Kinds of cluster or backend objects the installer may change in a run.
Touchable == {"namespace", "rbac", "pvc", "volume", "secret", "pv", "workload"}

VARIABLES
    \* installer (one run of installTrident)
    pc, result, probe, polls, faults,
    \* cluster and storage backend
    ns, pvc, pv, rbac, workload, vol, secret, pod,
    \* the run's configuration, read once
    req, facts, backend,
    \* history: cluster at the run's start, kinds changed, run count
    start, touched, runs, prevResult

installerVars == <<pc, result, probe, polls, faults>>
clusterVars == <<ns, pvc, pv, rbac, workload, vol, secret, pod>>
configVars == <<req, facts, backend>>
historyVars == <<start, touched, runs, prevResult>>
vars == <<installerVars, clusterVars, configVars, historyVars>>

NoResult == [kind |-> "None", secs |-> 0]
NoProbe == [ns |-> FALSE, pvc |-> FALSE, pv |-> FALSE]

-----------------------------------------------------------------------------
(* Helpers shared by the steps.                                            *)

\* End the run with an error (or success) of the given kind.
Finish(kind) == /\ pc' = "Done"
                /\ result' = [kind |-> kind, secs |-> 0]

Goto(next) == pc' = next /\ UNCHANGED result

\* A call to the cluster, the backend or UCP fails for a transport reason.
UseFault == faults < MaxFaults /\ faults' = faults + 1

\* The failing call is fatal: installTrident wraps it and returns.
TransportError == UseFault /\ Finish("APIError")

Touch(kind) == touched' = touched \cup {kind}

\* Mutant: isTridentInstalled (the deployment) asked for a CSI install too.
ControllerIgnoringCSI == "deployment"

\* The deployment (non-CSI) or statefulset (CSI) whose presence means
\* "already installed" and whose pod carries appLabel.
Controller == IF req.csi THEN "statefulset" ELSE "deployment"

\* removeRBACObjects: what it deletes, and which failures set anyErrors.
TeardownTargets ==
    IF req.useK8sRBAC
    THEN {"binding", "role", "sa"} \cup
         (IF facts.flavor = "OpenShift" THEN {"scc"} ELSE {})
    ELSE {"ucpGrant", "ucpRole", "sa"}

\* Mutant: a failed cluster-role deletion does not set anyErrors.
FlaggedMissingRole ==
    IF req.useK8sRBAC THEN TeardownTargets \ {"role"} ELSE {"sa"}

Flagged == IF req.useK8sRBAC THEN TeardownTargets ELSE {"sa"}

\* Mutant: the OpenShift SCC grant is never added.
CreateOrderNoSCC ==
    IF req.useK8sRBAC THEN <<"sa", "role", "binding">>
    ELSE <<"sa", "ucpRole", "ucpGrant">>

\* Mutant: the UCP role is created but never attached to the account.
CreateOrderNoGrant ==
    IF req.useK8sRBAC
    THEN <<"sa", "role", "binding">> \o
         (IF facts.flavor = "OpenShift" THEN <<"scc">> ELSE <<>>)
    ELSE <<"sa", "ucpRole">>

\* createRBACObjects: the order of its create calls.
CreateOrder ==
    IF req.useK8sRBAC
    THEN <<"sa", "role", "binding">> \o
         (IF facts.flavor = "OpenShift" THEN <<"scc">> ELSE <<>>)
    ELSE <<"sa", "ucpRole", "ucpGrant">>

\* `kubectl create' of an object that exists fails with AlreadyExists; the
\* SCC grant is idempotent; UCP's reply for an existing role is unknown.
CreateConflicts(o) == o # "scc"

\* validateTridentPVC / -Deployment / -Service / -StatefulSet / -DaemonSet:
\* the override file of o (if any) loads and carries the required labels,
\* name, namespace and trident container.
FileValid(o) == req.badFile # o

\* loadStorageDriver: setup directory and backend.json present, readable,
\* and factory.NewStorageBackendForConfig starts the driver.
StorageDriverLoads == backend.loads

\* Mutant: the Lost-phase check is missing.
PVCUsableIgnoringLost(c) ==
    /\ c.phase = "Bound" => c.vol = PV
    /\ c.labeled

\* installTrident lines 519-533: a PVC it can work with.
PVCUsable(c) ==
    /\ c.phase # "Lost"
    /\ c.phase = "Bound" => c.vol = PV
    /\ c.labeled

\* installTrident lines 558-583: a PV it can work with (size is only warned).
PVUsable(r) ==
    /\ r.phase \notin {"Released", "Failed"}
    /\ r.phase = "Bound" => r.claim \in {"Ours", "None"}
    /\ r.labeled

-----------------------------------------------------------------------------
(* Initial state: a request, cluster facts, a backend and a cluster.       *)

Init ==
    /\ pc = "ParseSize" /\ result = NoResult /\ probe = NoProbe
    /\ polls = 0 /\ faults = 0
    /\ \E c \in Clusters :
         /\ ns = c.ns /\ pvc = c.pvc /\ pv = c.pv /\ rbac = c.rbac
         /\ workload = c.workload /\ vol = c.vol /\ secret = c.secret
         /\ pod = c.pod
    /\ req \in Requests /\ facts \in Facts /\ backend \in Backends
    /\ start = [pvc |-> pvc, pv |-> pv]
    /\ touched = {} /\ runs = 1 /\ prevResult = "None"

-----------------------------------------------------------------------------
(* Pre-checks: read-only (installTrident lines 454-619).                   *)

\* resource.ParseQuantity(volumeSize).
ParseSize ==
    /\ pc = "ParseSize"
    /\ \/ req.sizeValid /\ Goto("CheckInstalled")
       \/ ~req.sizeValid /\ Finish("ConfigError")
    /\ UNCHANGED <<probe, polls, faults, clusterVars, configVars, historyVars>>

\* CSI version floor, then isTridentInstalled / isCSITridentInstalled.
CheckInstalled ==
    /\ pc = "CheckInstalled"
    /\ \/ req.csi /\ facts.version < CSIMinVersion /\ Finish("ConfigError")
          /\ UNCHANGED faults
       \/ /\ ~req.csi \/ facts.version >= CSIMinVersion
          /\ \/ Controller \in workload /\ Finish("AlreadyInstalled")
                /\ UNCHANGED faults
             \/ Controller \notin workload /\ Goto("CheckNamespace")
                /\ UNCHANGED faults
             \/ TransportError
    /\ UNCHANGED <<probe, polls, clusterVars, configVars, historyVars>>

\* client.CheckNamespaceExists.
CheckNamespace ==
    /\ pc = "CheckNamespace"
    /\ \/ probe' = [probe EXCEPT !.ns = ns] /\ Goto("CheckPVC")
          /\ UNCHANGED faults
       \/ TransportError /\ UNCHANGED probe
    /\ UNCHANGED <<polls, clusterVars, configVars, historyVars>>

\* client.CheckPVCExists, client.GetPVC and the PVC compatibility checks.
CheckPVC ==
    /\ pc = "CheckPVC"
    /\ \/ ~pvc.exists /\ probe' = [probe EXCEPT !.pvc = FALSE]
          /\ Goto("CheckPV") /\ UNCHANGED faults
       \/ pvc.exists /\ PVCUsable(pvc) /\ probe' = [probe EXCEPT !.pvc = TRUE]
          /\ Goto("CheckPV") /\ UNCHANGED faults
       \/ pvc.exists /\ ~PVCUsable(pvc) /\ Finish("Incompatible")
          /\ UNCHANGED <<probe, faults>>
       \/ TransportError /\ UNCHANGED probe
    /\ UNCHANGED <<polls, clusterVars, configVars, historyVars>>

\* client.CheckPVExists, client.GetPV and the PV compatibility checks.
CheckPV ==
    /\ pc = "CheckPV"
    /\ \/ ~pv[PV].exists /\ probe' = [probe EXCEPT !.pv = FALSE]
          /\ Goto("LoadDriver") /\ UNCHANGED faults
       \/ pv[PV].exists /\ PVUsable(pv[PV]) /\ probe' = [probe EXCEPT !.pv = TRUE]
          /\ Goto("LoadDriver") /\ UNCHANGED faults
       \/ pv[PV].exists /\ ~PVUsable(pv[PV]) /\ Finish("Incompatible")
          /\ UNCHANGED <<probe, faults>>
       \/ TransportError /\ UNCHANGED probe
    /\ UNCHANGED <<polls, clusterVars, configVars, historyVars>>

\* Mutant: the dry-run exit is dropped.
LoadDriverIgnoringDryRun ==
    /\ pc = "LoadDriver"
    /\ \/ (probe.pv \/ StorageDriverLoads) /\ Goto("CreateNamespace")
       \/ ~probe.pv /\ ~StorageDriverLoads /\ Finish("ConfigError")
    /\ UNCHANGED <<probe, polls, faults, clusterVars, configVars, historyVars>>

\* loadStorageDriver when the PV is absent, then the dry-run exit.
LoadDriver ==
    /\ pc = "LoadDriver"
    /\ \/ (probe.pv \/ StorageDriverLoads) /\ req.dryRun /\ Finish("DryRun")
       \/ (probe.pv \/ StorageDriverLoads) /\ ~req.dryRun /\ Goto("CreateNamespace")
       \/ ~probe.pv /\ ~StorageDriverLoads /\ Finish("ConfigError")
    /\ UNCHANGED <<probe, polls, faults, clusterVars, configVars, historyVars>>

-----------------------------------------------------------------------------
(* Mutations (installTrident lines 621-682).                               *)

\* Create the namespace if the probe found none.
CreateNamespace ==
    /\ pc = "CreateNamespace"
    /\ \/ probe.ns /\ Goto("RemoveRBAC") /\ UNCHANGED <<ns, faults, touched>>
       \/ ~probe.ns /\ ns' = TRUE /\ Touch("namespace") /\ Goto("RemoveRBAC")
          /\ UNCHANGED faults
       \/ ~probe.ns /\ TransportError /\ UNCHANGED <<ns, touched>>
    /\ UNCHANGED <<probe, polls, pvc, pv, rbac, workload, vol, secret, pod,
                   configVars, start, runs, prevResult>>

\* removeRBACObjects: every deletion is attempted (ignore-if-absent); the
\* ones in `failed' leave their object behind.  installTrident aborts if a
\* flagged deletion failed.
RemoveRBAC ==
    /\ pc = "RemoveRBAC"
    /\ \E failed \in SUBSET TeardownTargets :
         /\ IF failed = {} THEN UNCHANGED faults ELSE UseFault
         /\ rbac' = rbac \ (TeardownTargets \ failed)
         /\ Touch("rbac")
         /\ IF failed \cap Flagged = {} THEN Goto("CreateRBAC")
                                        ELSE Finish("CleanupError")
    /\ UNCHANGED <<probe, polls, ns, pvc, pv, workload, vol, secret, pod,
                   configVars, start, runs, prevResult>>

\* createRBACObjects: the first n create calls of CreateOrder succeed; if
\* n < Len(CreateOrder) call n+1 fails, on a conflict or a transport error.
CreateRBAC ==
    /\ pc = "CreateRBAC"
    /\ \E n \in 0..Len(CreateOrder) :
         /\ \A i \in 1..n : CreateOrder[i] \in rbac =>
                              CreateOrder[i] \notin {"sa", "role", "binding"}
         /\ rbac' = rbac \cup {CreateOrder[i] : i \in 1..n}
         /\ Touch("rbac")
         /\ \/ n = Len(CreateOrder) /\ Goto("CreatePVC") /\ UNCHANGED faults
            \/ /\ n < Len(CreateOrder)
               /\ CreateOrder[n + 1] \in rbac
               /\ CreateConflicts(CreateOrder[n + 1])
               /\ Finish("APIError") /\ UNCHANGED faults
            \/ n < Len(CreateOrder) /\ TransportError
    /\ UNCHANGED <<probe, polls, ns, pvc, pv, workload, vol, secret, pod,
                   configVars, start, runs, prevResult>>

\* Create the PVC if the probe found none, after validateTridentPVC when an
\* override file is used.  A valid override may name a volume (pvcPin).
CreatePVC ==
    /\ pc = "CreatePVC"
    /\ \/ probe.pvc /\ Goto("AddVolume") /\ UNCHANGED <<pvc, faults, touched>>
       \/ ~probe.pvc /\ ~FileValid("pvc") /\ Finish("InvalidYAML")
          /\ UNCHANGED <<pvc, faults, touched>>
       \/ /\ ~probe.pvc /\ FileValid("pvc")
          /\ pvc' = [exists |-> TRUE, phase |-> "Pending", vol |-> req.pvcPin,
                     labeled |-> TRUE]
          /\ Touch("pvc") /\ Goto("AddVolume") /\ UNCHANGED faults
       \/ ~probe.pvc /\ FileValid("pvc") /\ TransportError
          /\ UNCHANGED <<pvc, touched>>
    /\ UNCHANGED <<probe, polls, ns, pv, rbac, workload, vol, secret, pod,
                   configVars, start, runs, prevResult>>

\* createPV, first half: pick a pool and sb.AddVolume.  A driver refuses a
\* volume name it already holds.
AddVolume ==
    /\ pc = "AddVolume"
    /\ \/ probe.pv /\ Goto("WaitPVCBound") /\ UNCHANGED <<vol, faults, touched>>
       \/ ~probe.pv /\ ~backend.pools /\ Finish("NoPools")
          /\ UNCHANGED <<vol, faults, touched>>
       \/ ~probe.pv /\ backend.pools /\ vol /\ Finish("APIError")
          /\ UNCHANGED <<vol, faults, touched>>
       \/ ~probe.pv /\ backend.pools /\ ~vol /\ vol' = TRUE /\ Touch("volume")
          /\ Goto("CreatePV") /\ UNCHANGED faults
       \/ ~probe.pv /\ backend.pools /\ ~vol /\ TransportError
          /\ UNCHANGED <<vol, touched>>
    /\ UNCHANGED <<probe, polls, ns, pvc, pv, rbac, workload, secret, pod,
                   configVars, start, runs, prevResult>>

\* Mutant: the PV manifest lacks the app label.
NewPVUnlabeled == [exists |-> TRUE, phase |-> "Available", claim |-> "Ours",
                   labeled |-> FALSE]

\* The PV createPV submits: pre-bound to our PVC, labeled.
NewPV == [exists |-> TRUE, phase |-> "Available", claim |-> "Ours",
          labeled |-> TRUE]

CreatePVObject ==
    /\ pv' = [pv EXCEPT ![PV] = NewPV] /\ Touch("pv") /\ Goto("WaitPVCBound")

\* createCHAPSecret: create the secret unless one of that name exists (a
\* failing CheckSecretExists or create is a TransportError of CreatePV).
CreateCHAPSecret == secret' = TRUE

CHAPSecretTouched == IF secret THEN {} ELSE {"secret"}

\* createPV, second half: the PV manifest by access type, createCHAPSecret.
CreatePV ==
    /\ pc = "CreatePV"
    /\ \/ /\ backend.access \in {"NFS", "ISCSI"}
          /\ \/ CreatePVObject /\ UNCHANGED faults
             \/ TransportError /\ UNCHANGED <<pv, touched>>
          /\ UNCHANGED secret
       \/ backend.access = "Unknown" /\ Finish("UnknownVolume")
          /\ UNCHANGED <<pv, secret, faults, touched>>
       \/ /\ backend.access = "ISCSICHAP" /\ facts.version < CHAPMinVersion
          /\ Finish("CHAPVersion") /\ UNCHANGED <<pv, secret, faults, touched>>
       \/ /\ backend.access = "ISCSICHAP" /\ facts.version >= CHAPMinVersion
          /\ \/ TransportError /\ UNCHANGED <<pv, secret, touched>>
             \/ /\ CreateCHAPSecret /\ pv' = [pv EXCEPT ![PV] = NewPV]
                /\ touched' = touched \cup CHAPSecretTouched \cup {"pv"}
                /\ Goto("WaitPVCBound") /\ UNCHANGED faults
             \/ \* the PV's creation fails after the secret exists
                /\ CreateCHAPSecret /\ touched' = touched \cup CHAPSecretTouched
                /\ TransportError /\ UNCHANGED pv
    /\ UNCHANGED <<probe, polls, ns, pvc, rbac, workload, vol, pod,
                   configVars, start, runs, prevResult>>

-----------------------------------------------------------------------------
(* Waits and workload (installTrident lines 684-811).                      *)

\* Mutant: the attempt counter is not checked against the budget.
RetryUnbounded(kind, secs) ==
    \/ polls' = polls + 1 /\ UNCHANGED <<pc, result>>
    \/ polls = MaxPolls /\ polls' = 0 /\ pc' = "Done"
       /\ result' = [kind |-> kind, secs |-> secs]

\* One attempt of a back-off loop that has not yet succeeded: retry while
\* attempts remain within K8sTimeout, else time out with `kind'.
Retry(kind, secs) ==
    \/ polls < MaxPolls /\ polls' = polls + 1 /\ UNCHANGED <<pc, result>>
    \/ polls = MaxPolls /\ polls' = 0 /\ pc' = "Done"
       /\ result' = [kind |-> kind, secs |-> secs]

FirstWorkload == IF req.csi THEN "CreateService" ELSE "CreateDeployment"

\* Mutant: the PVC wait retries without spending its time budget.
WaitPVCBoundForever ==
    /\ pc = "WaitPVCBound"
    /\ \/ pvc.phase = "Bound" /\ polls' = 0 /\ Goto(FirstWorkload)
       \/ pvc.phase # "Bound" /\ UNCHANGED <<pc, result, polls>>
    /\ UNCHANGED <<faults, probe, clusterVars, configVars, historyVars>>

\* checkPVCBound under backoff.RetryNotify.  A failing CheckPVCBound call
\* counts as "not bound".  The timeout message prints k8sTimeout, a
\* time.Duration, with %d: its value in nanoseconds.
WaitPVCBound ==
    /\ pc = "WaitPVCBound"
    /\ \/ pvc.phase = "Bound" /\ polls' = 0 /\ Goto(FirstWorkload)
          /\ UNCHANGED faults
       \/ pvc.phase # "Bound" /\ Retry("PVCTimeout", K8sTimeout * 1000000000)
          /\ UNCHANGED faults
       \/ UseFault /\ Retry("PVCTimeout", K8sTimeout * 1000000000)
    /\ UNCHANGED <<probe, clusterVars, configVars, historyVars>>

\* Mutant: an existing object is accepted, as `kubectl apply' would.
CreateWorkloadIgnoringExisting(o, step, next) ==
    /\ pc = step
    /\ \/ ~FileValid(o) /\ Finish("InvalidYAML")
          /\ UNCHANGED <<workload, faults, touched>>
       \/ FileValid(o) /\ o \in workload /\ Goto(next)
          /\ UNCHANGED <<workload, faults, touched>>
       \/ /\ FileValid(o) /\ o \notin workload
          /\ workload' = workload \cup {o} /\ Touch("workload")
          /\ Goto(next) /\ UNCHANGED faults
       \/ FileValid(o) /\ o \notin workload /\ TransportError
          /\ UNCHANGED <<workload, touched>>
    /\ UNCHANGED <<probe, polls, ns, pvc, pv, rbac, vol, secret, pod,
                   configVars, start, runs, prevResult>>

\* Submit workload object o at step `step' (validated override file or
\* rendered YAML); `kubectl create' of an existing object fails.
CreateWorkload(o, step, next) ==
    /\ pc = step
    /\ \/ ~FileValid(o) /\ Finish("InvalidYAML")
          /\ UNCHANGED <<workload, faults, touched>>
       \/ FileValid(o) /\ o \in workload /\ Finish("APIError")
          /\ UNCHANGED <<workload, faults, touched>>
       \/ /\ FileValid(o) /\ o \notin workload
          /\ workload' = workload \cup {o} /\ Touch("workload")
          /\ Goto(next) /\ UNCHANGED faults
       \/ FileValid(o) /\ o \notin workload /\ TransportError
          /\ UNCHANGED <<workload, touched>>
    /\ UNCHANGED <<probe, polls, ns, pvc, pv, rbac, vol, secret, pod,
                   configVars, start, runs, prevResult>>

CreateDeployment == CreateWorkload("deployment", "CreateDeployment", "WaitPod")
CreateService == CreateWorkload("service", "CreateService", "CreateStatefulSet")
CreateStatefulSet ==
    CreateWorkload("statefulset", "CreateStatefulSet", "CreateDaemonSet")
\* Mutant: the daemonset step is skipped.
CreateDaemonSetSkipped ==
    /\ pc = "CreateDaemonSet" /\ Goto("WaitPod")
    /\ UNCHANGED <<probe, polls, faults, clusterVars, configVars, historyVars>>

CreateDaemonSet == CreateWorkload("daemonset", "CreateDaemonSet", "WaitPod")

\* Mutant: the pod wait retries without spending its time budget.
WaitPodForever ==
    /\ pc = "WaitPod"
    /\ \/ pod # "None" /\ polls' = 0 /\ Goto("WaitREST")
       \/ pod = "None" /\ UNCHANGED <<pc, result, polls>>
    /\ UNCHANGED <<faults, probe, clusterVars, configVars, historyVars>>

\* waitForTridentPod: GetPodByLabel(appLabel) until the pod is Running.
WaitPod ==
    /\ pc = "WaitPod"
    /\ \/ pod # "None" /\ polls' = 0 /\ Goto("WaitREST") /\ UNCHANGED faults
       \/ pod = "None" /\ Retry("PodTimeout", 0) /\ UNCHANGED faults
       \/ UseFault /\ Retry("PodTimeout", 0)
    /\ UNCHANGED <<probe, clusterVars, configVars, historyVars>>

\* Mutant: success is declared once the pod runs, without the REST check.
WaitRESTOnRunning ==
    /\ pc = "WaitREST"
    /\ \/ pod # "None" /\ polls' = 0 /\ Finish("OK")
       \/ pod = "None" /\ Retry("RESTTimeout", 0)
    /\ UNCHANGED <<faults, probe, clusterVars, configVars, historyVars>>

\* waitForRESTInterface: `tridentctl version' exec'd in the pod.
WaitREST ==
    /\ pc = "WaitREST"
    /\ \/ pod = "Serving" /\ polls' = 0 /\ Finish("OK") /\ UNCHANGED faults
       \/ pod # "Serving" /\ Retry("RESTTimeout", 0) /\ UNCHANGED faults
       \/ UseFault /\ Retry("RESTTimeout", 0)
    /\ UNCHANGED <<probe, clusterVars, configVars, historyVars>>

-----------------------------------------------------------------------------
(* The cluster's controllers and the operator.                             *)

\* The PV controller binds a Pending PVC to an Available PV pre-bound to it,
\* or to the PV the PVC names.
BindPVC(v) ==
    /\ pvc.exists /\ pvc.phase = "Pending" /\ pvc.vol \in {NoPV, v}
    /\ pv[v].exists /\ pv[v].phase = "Available"
    /\ \/ pv[v].claim = "Ours"
       \/ pv[v].claim = "None" /\ pvc.vol = v
    /\ pvc' = [pvc EXCEPT !.phase = "Bound", !.vol = v]
    /\ pv' = [pv EXCEPT ![v].phase = "Bound", ![v].claim = "Ours"]
    /\ UNCHANGED <<installerVars, ns, rbac, workload, vol, secret, pod,
                   configVars, historyVars>>

\* The controller's pod is scheduled once its PVC is bound, then serves.
PodStarts ==
    /\ pod = "None" /\ ns /\ "sa" \in rbac /\ pvc.phase = "Bound"
    /\ workload \cap {"deployment", "statefulset"} # {}
    /\ pod' = "Running"
    /\ UNCHANGED <<installerVars, ns, pvc, pv, rbac, workload, vol, secret,
                   configVars, historyVars>>

PodServes ==
    /\ pod = "Running" /\ pod' = "Serving"
    /\ UNCHANGED <<installerVars, ns, pvc, pv, rbac, workload, vol, secret,
                   configVars, historyVars>>

\* The operator runs `tridentctl install' again with the same flags.
Rerun ==
    /\ pc = "Done" /\ runs < MaxRuns
    /\ pc' = "ParseSize" /\ result' = NoResult /\ probe' = NoProbe
    /\ polls' = 0
    /\ start' = [pvc |-> pvc, pv |-> pv] /\ touched' = {}
    /\ runs' = runs + 1 /\ prevResult' = result.kind
    /\ UNCHANGED <<faults, clusterVars, configVars>>

-----------------------------------------------------------------------------

InstallerStep ==
    \/ ParseSize \/ CheckInstalled \/ CheckNamespace \/ CheckPVC \/ CheckPV
    \/ LoadDriver \/ CreateNamespace \/ RemoveRBAC \/ CreateRBAC
    \/ CreatePVC \/ AddVolume \/ CreatePV \/ WaitPVCBound
    \/ CreateDeployment \/ CreateService \/ CreateStatefulSet
    \/ CreateDaemonSet \/ WaitPod \/ WaitREST

Environment ==
    \/ \E v \in PVNames : BindPVC(v)
    \/ PodStarts \/ PodServes

Next == InstallerStep \/ Environment \/ Rerun

\* The installer is a process that keeps running until it exits; the
\* cluster's controllers and the operator are not assumed to act.
Spec == Init /\ [][Next]_vars /\ WF_vars(InstallerStep)

-----------------------------------------------------------------------------
(* Properties.                                                             *)

TypeOK ==
    /\ pc \in PCs
    /\ result \in [kind: ResultKinds, secs: Nat]
    /\ probe \in [ns: BOOLEAN, pvc: BOOLEAN, pv: BOOLEAN]
    /\ polls \in 0..MaxPolls /\ faults \in 0..MaxFaults
    /\ ns \in BOOLEAN /\ pvc \in PVCRecs /\ pv \in [PVNames -> PVRecs]
    /\ rbac \subseteq Artifacts /\ workload \subseteq WorkloadKinds
    /\ vol \in BOOLEAN /\ secret \in BOOLEAN /\ pod \in PodPhases
    /\ req \in Requests /\ facts \in Facts /\ backend \in Backends
    /\ start \in [pvc: PVCRecs, pv: [PVNames -> PVRecs]]
    /\ touched \subseteq Touchable
    /\ runs \in 1..MaxRuns /\ prevResult \in ResultKinds

\* Spec 4.1: the existing objects an installation must refuse to adopt.
ClaimIncompatible(c) ==
    c.exists /\ (c.phase = "Lost" \/ (c.phase = "Bound" /\ c.vol # PV)
                 \/ ~c.labeled)

VolumeIncompatible(r) ==
    r.exists /\ (r.phase \in {"Released", "Failed"}
                 \/ (r.phase = "Bound" /\ r.claim \in {"OtherName", "OtherNS"})
                 \/ ~r.labeled)

\* A run that starts against an incompatible claim or volume, or with an
\* unparsable --volume-size, never changes the cluster or the backend: every
\* pre-check of installTrident runs before its first create or delete.
AbortBeforeMutation ==
    (ClaimIncompatible(start.pvc) \/ VolumeIncompatible(start.pv[PV])
       \/ ~req.sizeValid) => touched = {}

\* The RBAC artifacts an installation in this mode consists of (spec 4.2).
ModeArtifacts ==
    IF req.useK8sRBAC
    THEN {"sa", "role", "binding"} \cup
         (IF facts.flavor = "OpenShift" THEN {"scc"} ELSE {})
    ELSE {"sa", "ucpRole", "ucpGrant"}

\* When createRBACObjects starts, no RBAC artifact of an earlier attempt is
\* left: removeRBACObjects removed them all or the run was aborted.
RBACCleanBeforeCreate == pc = "CreateRBAC" => rbac \cap ModeArtifacts = {}

\* The workload objects of the requested topology (spec 4.4).
TopologyWorkload ==
    IF req.csi THEN {"service", "statefulset", "daemonset"} ELSE {"deployment"}

\* A run that reports success leaves a complete installation: namespace,
\* every RBAC artifact of the mode, the PVC bound to the PV named by --pv
\* and that PV bound back to it, the topology's workload objects, and a
\* pod answering on its REST interface.
Installed ==
    /\ ns /\ ModeArtifacts \subseteq rbac
    /\ pvc.exists /\ pvc.phase = "Bound" /\ pvc.vol = PV /\ pvc.labeled
    /\ pv[PV].phase = "Bound" /\ pv[PV].claim = "Ours" /\ pv[PV].labeled
    /\ TopologyWorkload \subseteq workload
    /\ pod = "Serving"

SuccessImpliesInstalled == result.kind = "OK" => Installed

\* Spec 8 (idempotency): a complete installation is never taken apart by a
\* later run.  isTridentInstalled / isCSITridentInstalled stop every rerun
\* before removeRBACObjects, the only step of installTrident that deletes.
InstallationPersists == [][Installed => Installed']_vars

\* Every run ends: each of the three waits is bounded by --k8s-timeout.
Terminates == pc # "Done" ~> pc = "Done"

\* The steps of installTrident from the last (0) to the first.
PCRank(p) ==
    CASE p = "Done" -> 0 [] p = "WaitREST" -> 1 [] p = "WaitPod" -> 2
      [] p = "CreateDaemonSet" -> 3 [] p = "CreateStatefulSet" -> 4
      [] p = "CreateService" -> 5 [] p = "CreateDeployment" -> 6
      [] p = "WaitPVCBound" -> 7 [] p = "CreatePV" -> 8 [] p = "AddVolume" -> 9
      [] p = "CreatePVC" -> 10 [] p = "CreateRBAC" -> 11
      [] p = "RemoveRBAC" -> 12 [] p = "CreateNamespace" -> 13
      [] p = "LoadDriver" -> 14 [] p = "CheckPV" -> 15 [] p = "CheckPVC" -> 16
      [] p = "CheckNamespace" -> 17 [] p = "CheckInstalled" -> 18
      [] p = "ParseSize" -> 19

\* The safety half of Terminates: every step of installTrident moves
\* forward in the code or spends one more attempt of the backoff loop it
\* is in (checkPVCBound, waitForTridentPod, waitForRESTInterface), never
\* beyond the attempt budget.  (rank, attempts left) decreases in the
\* lexicographic order of Nat x 0..MaxPolls, so a run takes a bounded
\* number of steps whatever the cluster does.
InstallerProgress ==
    [][InstallerStep =>
         \/ PCRank(pc') < PCRank(pc)
         \/ pc' = pc /\ polls < polls' /\ polls' <= MaxPolls]_vars

\* Spec 8 (idempotency): after a run that succeeded, running the installer
\* again finds everything present and succeeds without changing anything.
RerunIsNoOp ==
    (runs > 1 /\ prevResult = "OK" /\ pc = "Done") =>
      (result.kind = "OK" /\ touched = {})

\* A CSI installation left half-way: the Trident service exists, the
\* statefulset does not, and the run that created the service (if any) is
\* past its statefulset step.
ServiceOrphaned ==
    /\ req.csi /\ "service" \in workload /\ "statefulset" \notin workload
    /\ pc # "CreateStatefulSet"

\* Hazard at the CSI service create: once a CSI run has created the
\* service and failed before the statefulset, every later run passes
\* isCSITridentInstalled (it looks for the statefulset only) and fails at
\* its own service create with AlreadyExists, so no run ever creates the
\* statefulset or reports success again.
OrphanedServiceBlocks ==
    [][ServiceOrphaned => ServiceOrphaned' /\ result'.kind # "OK"]_vars

\* What installTrident does instead of RerunIsNoOp: a run that follows a
\* success stops at isTridentInstalled / isCSITridentInstalled.  It changes
\* nothing and reports "already installed", or a transport error of that
\* check.
RerunAfterSuccessRefused ==
    prevResult = "OK" =>
      /\ touched = {}
      /\ pc = "Done" => result.kind \in {"AlreadyInstalled", "APIError"}

\* Spec 4.5: the PVC-binding timeout error names the elapsed seconds.
TimeoutNamesSeconds == result.kind = "PVCTimeout" => result.secs = K8sTimeout


\* Spec 7 and 4.3: configuration errors, a backend with zero pools among
\* them, are caught before the first mutation.  The code checks the pools
\* only in createPV, after the namespace, RBAC and PVC steps.
ConfigErrorBeforeMutation ==
    result.kind \in {"ConfigError", "NoPools"} => touched = {}

\* Spec 3: the backend volume a run allocates is referenced by the PV
\* manifest.  A run that ends after sb.AddVolume has created that PV.
VolumeReferenced == (pc = "Done" /\ "volume" \in touched) => "pv" \in touched

\* Spec 4.1 and 8: "already installed" is reported only for a complete
\* installation; isCSITridentInstalled looks at the statefulset alone.
AlreadyInstalledIsComplete ==
    result.kind = "AlreadyInstalled" => TopologyWorkload \subseteq workload


-----------------------------------------------------------------------------
(* Refinement: Installer implements the abstract run of InstallRun.       *)

\* The steps of installTrident that only read (lines 454-619).
ReadOnlyPCs == {"ParseSize", "CheckInstalled", "CheckNamespace", "CheckPVC",
                "CheckPV", "LoadDriver"}

RunPhase ==
    IF pc \in ReadOnlyPCs THEN "check" ELSE IF pc = "Done" THEN "done"
                                         ELSE "mutate"

Run == INSTANCE InstallRun
         WITH phase <- RunPhase, changed <- touched # {},
              outcome <- result.kind, dryRun <- req.dryRun

\* Every behaviour of the installer is a behaviour of the abstract run: the
\* pre-checks of installTrident change nothing, a dry run stops before
\* CreateNamespace, "already installed", "incompatible" and the argument
\* errors are only reported before the first mutation, and every run ends.
RunRefinement == Run!Spec

=============================================================================
