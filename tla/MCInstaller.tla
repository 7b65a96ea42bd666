------------------------------ MODULE MCInstaller ------------------------------
(***************************************************************************)
(* Small instances of Installer for TLC.  Each run's .cfg picks one of the *)
(* request, fact, backend and cluster sets below.                          *)
(***************************************************************************)
EXTENDS Installer

Req(c, k, d, sz, bad, pin) ==
    [csi |-> c, useK8sRBAC |-> k, dryRun |-> d, sizeValid |-> sz,
     badFile |-> bad, pvcPin |-> pin]

Fact(f, v) == [flavor |-> f, version |-> v]

Backend(l, p, a) == [loads |-> l, pools |-> p, access |-> a]

\* Kubernetes minor versions: below the CHAP floor, between, above CSI's.
MCCSIMin == 10
MCCHAPMin == 7

-----------------------------------------------------------------------------
(* Object states the cluster may hold before a run.                        *)

NoClaim == [exists |-> FALSE, phase |-> "Pending", vol |-> NoPV,
            labeled |-> FALSE]
Claim(ph, v, l) == [exists |-> TRUE, phase |-> ph, vol |-> v, labeled |-> l]

NoVolume == [exists |-> FALSE, phase |-> "Available", claim |-> "None",
             labeled |-> FALSE]
Volume(ph, c, l) == [exists |-> TRUE, phase |-> ph, claim |-> c, labeled |-> l]

\* Claims the pre-checks meet: absent, usable, and each incompatible kind.
ClaimChoices ==
    {NoClaim, Claim("Pending", NoPV, TRUE), Claim("Pending", NoPV, FALSE),
     Claim("Bound", PV, TRUE), Claim("Bound", OtherPV, TRUE),
     Claim("Lost", NoPV, TRUE)}

\* A claim named in a PVC spec before it is bound (spec.volumeName).
PinnedClaim == Claim("Pending", OtherPV, TRUE)

VolumeChoices ==
    {NoVolume, Volume("Available", "Ours", TRUE),
     Volume("Available", "None", TRUE), Volume("Bound", "Ours", TRUE),
     Volume("Bound", "OtherName", TRUE), Volume("Bound", "OtherNS", TRUE),
     Volume("Released", "Ours", TRUE), Volume("Failed", "Ours", TRUE),
     Volume("Available", "Ours", FALSE)}

ForeignChoices ==
    {NoVolume, Volume("Available", "None", TRUE), Volume("Bound", "Ours", TRUE)}

\* A cluster state Kubernetes can be in: bindings are mutual, namespaced
\* objects live in an existing namespace, a pod needs a bound claim.
Consistent(c) ==
    /\ c.pvc.phase = "Bound" =>
         c.pv[c.pvc.vol].phase = "Bound" /\ c.pv[c.pvc.vol].claim = "Ours"
         /\ c.pv[c.pvc.vol].exists
    /\ \A v \in PVNames :
         (c.pv[v].phase = "Bound" /\ c.pv[v].claim = "Ours") =>
           c.pvc.exists /\ c.pvc.phase = "Bound" /\ c.pvc.vol = v
    /\ (c.pvc.exists \/ c.workload # {} \/ c.secret) => c.ns
    /\ c.pod # "None" =>
         c.pvc.phase = "Bound" /\ c.workload \cap {"deployment", "statefulset"} # {}

Cluster(n, cl, p, o, r, w, vl, s, pd) ==
    [ns |-> n, pvc |-> cl, pv |-> [v \in PVNames |-> IF v = PV THEN p ELSE o], rbac |-> r,
     workload |-> w, vol |-> vl, secret |-> s, pod |-> pd]

\* Every consistent pre-existing claim/volume pair, with or without stale
\* RBAC artifacts, and with or without a workload already installed.
PrecheckClusters ==
    {c \in {Cluster(n, cl, p, o, r, w, FALSE, FALSE, "None") :
              n \in BOOLEAN, cl \in ClaimChoices, p \in VolumeChoices,
              o \in ForeignChoices,
              r \in {{}, {"sa", "role", "binding"}},
              w \in {{}, {"deployment"}, {"statefulset"}}} : Consistent(c)}

EmptyCluster == Cluster(FALSE, NoClaim, NoVolume, NoVolume, {}, {}, FALSE,
                        FALSE, "None")

EmptyClusters == {EmptyCluster}

-----------------------------------------------------------------------------
(* Per-run constant sets.                                                  *)

PrecheckRequests ==
    {Req(c, TRUE, FALSE, TRUE, "none", NoPV) : c \in BOOLEAN} \cup
    {Req(FALSE, TRUE, TRUE, TRUE, "none", NoPV),
     Req(FALSE, TRUE, FALSE, FALSE, "none", NoPV)}

PrecheckFacts == {Fact("Kubernetes", 11)}

PrecheckBackends == {Backend(l, TRUE, "NFS") : l \in BOOLEAN}

\* Native RBAC on both flavors, any subset of stale artifacts left behind.
RBACRequests == {Req(FALSE, TRUE, FALSE, TRUE, "none", NoPV)}
RBACFacts == {Fact(f, 11) : f \in {"OpenShift", "Kubernetes"}}
RBACClusters ==
    {Cluster(FALSE, NoClaim, NoVolume, NoVolume, r, {}, FALSE, FALSE, "None") :
       r \in SUBSET {"sa", "role", "binding", "scc"}}

\* UCP authorization: stale UCP artifacts from an earlier attempt.
UCPRequests ==
    {Req(c, FALSE, FALSE, TRUE, "none", NoPV) : c \in BOOLEAN}
UCPClusters ==
    {Cluster(FALSE, NoClaim, NoVolume, NoVolume, r, {}, FALSE, FALSE, "None") :
       r \in {{}, {"ucpGrant"}, {"sa", "ucpRole", "ucpGrant"}}}

\* Every access type the backend may report, on old and new clusters, with
\* a backend volume or CHAP secret left by an earlier attempt.
VolumeRequests == {Req(c, TRUE, FALSE, TRUE, "none", NoPV) : c \in BOOLEAN}
VolumeFacts == {Fact("Kubernetes", v) : v \in {6, 8, 11}}
VolumeBackends ==
    {Backend(TRUE, p, a) : p \in BOOLEAN,
                           a \in {"NFS", "ISCSI", "ISCSICHAP", "Unknown"}}
VolumeClusters ==
    {Cluster(s, NoClaim, NoVolume, NoVolume, {}, {}, vl, s, "None") :
       vl \in BOOLEAN, s \in BOOLEAN}

\* Override files that fail validation, for every validated object, and
\* workload objects left by an earlier partial installation.
WorkloadRequests ==
    {Req(c, TRUE, FALSE, TRUE, b, NoPV) :
       c \in BOOLEAN, b \in Overridable \cup {"none"}}
WorkloadClusters ==
    {Cluster(w # {}, NoClaim, NoVolume, NoVolume, {}, w, FALSE, FALSE, "None") :
       w \in {{}, {"service"}, {"daemonset"}}}

\* The workload cases, together with UCP authorization and its stale
\* artifacts.
WorkloadUCPRequests == WorkloadRequests \cup UCPRequests
WorkloadUCPClusters == WorkloadClusters \cup UCPClusters

\* A first run on an empty cluster, then a second one.
RerunRequests == {Req(FALSE, TRUE, FALSE, TRUE, "none", NoPV)}
NFSBackend == {Backend(TRUE, TRUE, "NFS")}

\* A pending claim that names a foreign, available PV, and an override PVC
\* file that does the same.
PinnedRequests ==
    {Req(FALSE, TRUE, FALSE, TRUE, "none", pin) : pin \in {NoPV, OtherPV}}
PinnedClusters ==
    {Cluster(TRUE, PinnedClaim, NoVolume, Volume("Available", "None", TRUE),
             {}, {}, FALSE, FALSE, "None"),
     Cluster(FALSE, NoClaim, NoVolume, Volume("Available", "None", TRUE),
             {}, {}, FALSE, FALSE, "None")}


\* A backend that loads but offers no storage pool.
NoPoolsBackend == {Backend(TRUE, FALSE, "NFS")}

\* Spec 8, scenario C: a CHAP target on a cluster below the CHAP floor.
CHAPFacts == {Fact("Kubernetes", 6)}
CHAPBackend == {Backend(TRUE, TRUE, "ISCSICHAP")}

\* The CSI topology on an empty cluster.
CSIRequests == {Req(TRUE, TRUE, FALSE, TRUE, "none", NoPV)}

=============================================================================
