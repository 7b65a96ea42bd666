----------------------------- MODULE SuccessProofs -----------------------------
(***************************************************************************)
(* Proofs about success and reruns: a run of installTrident that reports  *)
(* success has left a complete installation (SuccessImpliesInstalled)     *)
(* when no foreign PV can be bound to the Trident claim; a complete       *)
(* installation is never taken apart (InstallationPersists); a rerun      *)
(* after a success is refused before any change                           *)
(* (RerunAfterSuccessRefused).  The last two need no assumption on the    *)
(* cluster.                                                                *)
(*                                                                         *)
(* The invariant follows installTrident's steps: each stage of `pc'       *)
(* carries what the earlier steps established and what neither the later  *)
(* steps nor the PV controller nor the pod scheduler can undo.            *)
(***************************************************************************)
EXTENDS InstallerProofs, TLAPS

USE ConstantsAssumption

-----------------------------------------------------------------------------
(* Stages of installTrident, by the steps that have completed.             *)

BoundPCs == {"CreateDeployment", "CreateService", "CreateStatefulSet",
             "CreateDaemonSet", "WaitPod", "WaitREST"}
PVDonePCs == {"WaitPVCBound"} \cup BoundPCs
PVCDonePCs == {"AddVolume", "CreatePV"} \cup PVDonePCs
RBACDonePCs == {"CreatePVC"} \cup PVCDonePCs
NSDonePCs == {"RemoveRBAC", "CreateRBAC"} \cup RBACDonePCs

\* Steps after CheckPVC that have not yet created the claim.
PVCProbedPCs == {"CheckPV", "LoadDriver", "CreateNamespace", "RemoveRBAC",
                 "CreateRBAC", "CreatePVC"}

\* Steps after CheckPV that have not yet created the PV.
PVProbedPCs == {"LoadDriver", "CreateNamespace", "RemoveRBAC", "CreateRBAC",
                "CreatePVC", "AddVolume"}

-----------------------------------------------------------------------------
(* The cluster states under which success is sound.                        *)

\* The PV controller cannot bind the Trident claim to the foreign volume:
\* a pending claim does not name it and it is not pre-bound to the claim.
NoForeignBinding ==
    /\ pvc.phase = "Pending" => pvc.vol # OtherPV
    /\ pv[OtherPV].phase = "Available" => pv[OtherPV].claim # "Ours"

\* Kubernetes binds a claim and a volume to each other in one step.
MutualBinding ==
    pvc.phase = "Bound" =>
      /\ pvc.vol \in PVNames /\ pv[pvc.vol].exists
      /\ pv[pvc.vol].phase = "Bound" /\ pv[pvc.vol].claim = "Ours"

\* The hypothesis of the theorem: no request's PVC override names the
\* foreign volume, and every starting cluster satisfies the two above.
ForeignFree ==
    /\ \A r \in Requests : r.pvcPin # OtherPV
    /\ \A c \in Clusters :
         /\ c.pvc.phase = "Pending" => c.pvc.vol # OtherPV
         /\ c.pv[OtherPV].phase = "Available" => c.pv[OtherPV].claim # "Ours"
         /\ c.pvc.phase = "Bound" =>
              /\ c.pvc.vol \in PVNames /\ c.pv[c.pvc.vol].exists
              /\ c.pv[c.pvc.vol].phase = "Bound"
              /\ c.pv[c.pvc.vol].claim = "Ours"

-----------------------------------------------------------------------------
(* The inductive invariant.                                                *)

SuccessInv ==
    /\ pc # "Done" => result.kind = "None"
    /\ probe.ns => ns
    /\ NoForeignBinding /\ MutualBinding
    /\ pc \in PVCProbedPCs =>
         IF probe.pvc THEN pvc.exists /\ PVCUsable(pvc) ELSE ~pvc.exists
    /\ pc \in PVProbedPCs =>
         IF probe.pv THEN pv[PV].exists /\ pv[PV].labeled ELSE ~pv[PV].exists
    /\ pc = "CreatePV" => ~pv[PV].exists
    /\ pc \in NSDonePCs => ns
    /\ pc \in RBACDonePCs => ModeArtifacts \subseteq rbac
    /\ pc \in PVCDonePCs =>
         pvc.exists /\ pvc.labeled /\ (pvc.phase = "Bound" => pvc.vol = PV)
    /\ pc \in PVDonePCs => pv[PV].labeled
    /\ pc \in BoundPCs => pvc.phase = "Bound"
    /\ pc = "CreateDeployment" => ~req.csi
    /\ pc \in {"CreateService", "CreateStatefulSet", "CreateDaemonSet"} =>
         req.csi
    /\ pc = "CreateStatefulSet" => "service" \in workload
    /\ pc = "CreateDaemonSet" => {"service", "statefulset"} \subseteq workload
    /\ pc \in {"WaitPod", "WaitREST"} => TopologyWorkload \subseteq workload
    /\ SuccessImpliesInstalled

-----------------------------------------------------------------------------
(* Lemmas.                                                                 *)

\* createRBACObjects, once all its calls succeed, has created every RBAC
\* artifact of the mode.
LEMMA CreateOrderCoversMode ==
    ModeArtifacts \subseteq {CreateOrder[i] : i \in 1..Len(CreateOrder)}
<1>1. CASE req.useK8sRBAC /\ facts.flavor = "OpenShift"
  <2>1. /\ CreateOrder = <<"sa", "role", "binding">> \o <<"scc">>
        /\ ModeArtifacts = {"sa", "role", "binding", "scc"}
    BY <1>1 DEF CreateOrder, ModeArtifacts
  <2>2. /\ Len(CreateOrder) = 4
        /\ CreateOrder[1] = "sa" /\ CreateOrder[2] = "role"
        /\ CreateOrder[3] = "binding" /\ CreateOrder[4] = "scc"
    BY <2>1
  <2>3. QED  BY <2>1, <2>2
<1>2. CASE req.useK8sRBAC /\ facts.flavor # "OpenShift"
  <2>1. /\ CreateOrder = <<"sa", "role", "binding">> \o <<>>
        /\ ModeArtifacts = {"sa", "role", "binding"}
    BY <1>2 DEF CreateOrder, ModeArtifacts
  <2>2. /\ Len(CreateOrder) = 3
        /\ CreateOrder[1] = "sa" /\ CreateOrder[2] = "role"
        /\ CreateOrder[3] = "binding"
    BY <2>1
  <2>3. QED  BY <2>1, <2>2
<1>3. CASE ~req.useK8sRBAC
  <2>1. /\ CreateOrder = <<"sa", "ucpRole", "ucpGrant">>
        /\ ModeArtifacts = {"sa", "ucpRole", "ucpGrant"}
    BY <1>3 DEF CreateOrder, ModeArtifacts
  <2>2. QED  BY <2>1
<1>4. QED  BY <1>1, <1>2, <1>3

\* The starting states satisfy the invariant.
LEMMA InitSuccessInv == ForeignFree /\ Init => SuccessInv
<1> SUFFICES ASSUME ForeignFree, Init PROVE SuccessInv
  OBVIOUS
<1>1. PICK c \in Clusters : pvc = c.pvc /\ pv = c.pv
  BY DEF Init
<1>2. NoForeignBinding /\ MutualBinding
  BY <1>1 DEF ForeignFree, NoForeignBinding, MutualBinding
<1>3. pc = "ParseSize" /\ result.kind = "None" /\ ~probe.ns
  BY DEF Init, NoResult, NoProbe
<1>4. QED
  BY <1>2, <1>3 DEF SuccessInv, SuccessImpliesInstalled, Installed,
     PVCProbedPCs, PVProbedPCs, NSDonePCs, RBACDonePCs, PVCDonePCs,
     PVDonePCs, BoundPCs

\* Every step of the installer, of the PV controller, of the pod scheduler
\* and of the operator preserves the invariant.
LEMMA NextSuccessInv ==
    ASSUME ForeignFree, TypeOK, SuccessInv, [Next]_vars
    PROVE  SuccessInv'
<1> USE DEF SuccessInv, NoForeignBinding, MutualBinding,
            SuccessImpliesInstalled, Installed, PVCProbedPCs, PVProbedPCs,
            NSDonePCs, RBACDonePCs, PVCDonePCs, PVDonePCs, BoundPCs,
            ModeArtifacts,
            TopologyWorkload, PVCUsable, Goto, Finish, TransportError,
            UseFault, Touch, clusterVars, configVars, historyVars,
            installerVars
<1>1. CASE ParseSize
  BY <1>1 DEF ParseSize
<1>2. CASE CheckInstalled
  BY <1>2 DEF CheckInstalled
<1>3. CASE CheckNamespace
  <2>1. UNCHANGED <<polls, clusterVars, configVars, historyVars>>
    BY <1>3 DEF CheckNamespace
  <2>2. CASE probe' = [probe EXCEPT !.ns = ns] /\ Goto("CheckPVC")
    <3>1. probe'.ns = ns /\ probe'.pvc = probe.pvc /\ probe'.pv = probe.pv
      BY <2>2 DEF TypeOK
    <3>2. QED  BY <1>3, <2>1, <2>2, <3>1 DEF CheckNamespace
  <2>3. CASE TransportError /\ UNCHANGED probe
    BY SMTT(15), <1>3, <2>1, <2>3 DEF CheckNamespace
  <2>4. QED  BY <1>3, <2>2, <2>3 DEF CheckNamespace
<1>4. CASE CheckPVC
  <2>1. UNCHANGED <<polls, clusterVars, configVars, historyVars>>
    BY <1>4 DEF CheckPVC
  <2>2. CASE /\ \/ ~pvc.exists /\ probe' = [probe EXCEPT !.pvc = FALSE]
                \/ pvc.exists /\ PVCUsable(pvc)
                   /\ probe' = [probe EXCEPT !.pvc = TRUE]
             /\ Goto("CheckPV")
    <3>1. /\ pc = "CheckPVC" /\ pc' = "CheckPV" /\ result' = result
          /\ probe'.ns = probe.ns
      BY <1>4, <2>2 DEF CheckPVC, TypeOK
    <3>2. probe'.pvc <=> pvc.exists
      BY <2>2 DEF TypeOK
    <3>3. QED  BY <2>1, <2>2, <3>1, <3>2
  <2>3. CASE pvc.exists /\ ~PVCUsable(pvc) /\ Finish("Incompatible")
             /\ UNCHANGED probe
    BY <2>1, <2>3
  <2>4. CASE TransportError /\ UNCHANGED probe
    BY SMTT(15), <2>1, <2>4
  <2>5. QED  BY <1>4, <2>2, <2>3, <2>4 DEF CheckPVC
<1>5. CASE CheckPV
  <2>1. UNCHANGED <<polls, clusterVars, configVars, historyVars>>
    BY <1>5 DEF CheckPV
  <2>2. CASE /\ \/ ~pv[PV].exists /\ probe' = [probe EXCEPT !.pv = FALSE]
                \/ pv[PV].exists /\ PVUsable(pv[PV])
                   /\ probe' = [probe EXCEPT !.pv = TRUE]
             /\ Goto("LoadDriver")
    <3>1. /\ pc = "CheckPV" /\ pc' = "LoadDriver" /\ result' = result
          /\ probe'.ns = probe.ns /\ probe'.pvc = probe.pvc
      BY <1>5, <2>2 DEF CheckPV, TypeOK
    <3>2. probe'.pv <=> pv[PV].exists
      BY <2>2 DEF TypeOK
    <3>3. probe'.pv => pv[PV].labeled
      BY <2>2 DEF TypeOK, PVUsable
    <3>4. QED  BY <2>1, <3>1, <3>2, <3>3
  <2>3. CASE pv[PV].exists /\ ~PVUsable(pv[PV]) /\ Finish("Incompatible")
             /\ UNCHANGED probe
    BY <2>1, <2>3
  <2>4. CASE TransportError /\ UNCHANGED probe
    BY <2>1, <2>4
  <2>5. QED  BY <1>5, <2>2, <2>3, <2>4 DEF CheckPV
<1>6. CASE LoadDriver
  BY <1>6 DEF LoadDriver
<1>7. CASE CreateNamespace
  BY <1>7 DEF CreateNamespace
<1>8. CASE RemoveRBAC
  BY <1>8 DEF RemoveRBAC
<1>9. CASE CreateRBAC
  BY SMTT(15), <1>9, CreateOrderCoversMode DEF CreateRBAC
<1>10. CASE CreatePVC
  BY <1>10 DEF CreatePVC, ForeignFree, TypeOK
<1>11. CASE AddVolume
  BY <1>11 DEF AddVolume
<1>12. CASE CreatePV
  <2>1. UNCHANGED <<probe, polls, ns, pvc, rbac, workload, vol, pod,
                    configVars, start, runs, prevResult>>
    BY <1>12 DEF CreatePV
  <2>2. pc = "CreatePV" /\ ~pv[PV].exists
    BY <1>12 DEF CreatePV
  <2>3. \/ pc' = "WaitPVCBound" /\ result' = result
           /\ pv' = [pv EXCEPT ![PV] = NewPV]
        \/ pc' = "Done" /\ result'.kind # "OK" /\ pv' = pv
    BY <1>12 DEF CreatePV, CreatePVObject, CreateCHAPSecret
  <2>4. pv'[OtherPV] = pv[OtherPV] /\ (pc' = "WaitPVCBound" => pv'[PV] = NewPV)
    BY <2>3 DEF TypeOK, PVNames
  <2>5. pvc.phase # "Bound"
    BY <2>2
  <2>6. QED
    BY <2>1, <2>2, <2>3, <2>4, <2>5 DEF NewPV
<1>13. CASE WaitPVCBound
  BY SMTT(15), <1>13 DEF WaitPVCBound, Retry, FirstWorkload
<1>14. CASE CreateDeployment \/ CreateService \/ CreateStatefulSet
            \/ CreateDaemonSet
  BY <1>14 DEF CreateDeployment, CreateService, CreateStatefulSet,
               CreateDaemonSet, CreateWorkload
<1>15. CASE WaitPod
  BY SMTT(15), <1>15 DEF WaitPod, Retry
<1>16. CASE WaitREST
  BY SMTT(15), <1>16 DEF WaitREST, Retry
<1>17. ASSUME NEW v \in PVNames, BindPVC(v) PROVE SuccessInv'
  <2>1. UNCHANGED <<installerVars, ns, rbac, workload, vol, secret, pod,
                    configVars, historyVars>>
    BY <1>17 DEF BindPVC
  <2>2. /\ pvc.exists /\ pvc.phase = "Pending" /\ pvc.vol \in {NoPV, v}
        /\ pv[v].exists /\ pv[v].phase = "Available"
        /\ \/ pv[v].claim = "Ours"
           \/ pv[v].claim = "None" /\ pvc.vol = v
    BY <1>17 DEF BindPVC
  \* The claim cannot be bound to the foreign volume.
  <2>3. v = PV
    BY <2>2 DEF PVNames
  <2>4. /\ pvc'.exists /\ pvc'.labeled = pvc.labeled
        /\ pvc'.phase = "Bound" /\ pvc'.vol = PV
    BY <1>17, <2>3 DEF BindPVC, TypeOK, PVCRecs
  <2>5. /\ pv'[PV].exists /\ pv'[PV].labeled = pv[PV].labeled
        /\ pv'[PV].phase = "Bound" /\ pv'[PV].claim = "Ours"
        /\ pv'[OtherPV] = pv[OtherPV]
    BY <1>17, <2>3 DEF BindPVC, TypeOK, PVRecs, PVNames
  <2>6. QED
    BY SMTT(15), <2>1, <2>2, <2>3, <2>4, <2>5 DEF PVNames
<1>18. CASE PodStarts \/ PodServes
  BY SMTT(15), <1>18 DEF PodStarts, PodServes
<1>19. CASE Rerun
  BY SMTT(15), <1>19 DEF Rerun, NoResult, NoProbe
<1>20. CASE UNCHANGED vars
  BY SMTT(15), <1>20 DEF vars
<1>21. QED
  BY Zenon, <1>1, <1>2, <1>3, <1>4, <1>5, <1>6, <1>7, <1>8, <1>9, <1>10, <1>11,
     <1>12, <1>13, <1>14, <1>15, <1>16, <1>17, <1>18, <1>19, <1>20
  DEF Next, InstallerStep, Environment

-----------------------------------------------------------------------------
(* The theorem.                                                            *)

\* The strengthening holds in every reachable state.
LEMMA SuccessInvInvariant ==
    ASSUME ForeignFree
    PROVE  Spec => [](TypeOK /\ SuccessInv)
<1>1. Init => TypeOK /\ SuccessInv
  BY InitTypeOK, InitSuccessInv
<1>2. TypeOK /\ SuccessInv /\ [Next]_vars => (TypeOK /\ SuccessInv)'
  BY NextTypeOK, NextSuccessInv
<1>3. QED
  BY <1>1, <1>2, PTL DEF Spec

\* A run of installTrident that returns without error has left a complete
\* installation: the namespace, every RBAC artifact of the mode, the PVC
\* bound to the PV named by --pv and that PV bound back to it, both
\* labeled, the workload objects of the topology, and a pod answering
\* `tridentctl version' (SuccessImpliesInstalled, checked by the precheck,
\* rbac, volume and workload runs).  This holds whatever the PV controller
\* and the scheduler do meanwhile, and over any number of reruns, provided
\* no foreign PV can be bound to the claim; the pinned run shows success
\* without the PV when a claim names one.
THEOREM InstallationOnSuccess ==
    ASSUME ForeignFree
    PROVE  Spec => []SuccessImpliesInstalled
<1>1. TypeOK /\ SuccessInv => SuccessImpliesInstalled
  BY DEF SuccessInv
<1>2. QED
  BY <1>1, SuccessInvInvariant, PTL

-----------------------------------------------------------------------------
(* A complete installation is never taken apart.                           *)

\* The steps of a run between isTridentInstalled and the creation of the
\* deployment or statefulset.  They contain every step that deletes or
\* overwrites: removeRBACObjects and the creates of the PVC and the PV.
PreControllerPCs ==
    {"CheckNamespace", "CheckPVC", "CheckPV", "LoadDriver", "CreateNamespace",
     "RemoveRBAC", "CreateRBAC", "CreatePVC", "AddVolume", "CreatePV",
     "WaitPVCBound", "CreateDeployment", "CreateService", "CreateStatefulSet"}

\* A run that got past isTridentInstalled has not yet created the
\* controller.
PersistInv == pc \in PreControllerPCs => Controller \notin workload

\* The controller is part of the topology.
LEMMA ControllerInTopology == Controller \in TopologyWorkload
BY DEF Controller, TopologyWorkload

\* Every step preserves PersistInv.
LEMMA NextPersistInv ==
    ASSUME TypeOK, PersistInv, [Next]_vars
    PROVE  PersistInv'
<1> USE DEF PersistInv, PreControllerPCs, Controller, Goto, Finish,
            TransportError, UseFault, Touch, clusterVars, configVars,
            historyVars, installerVars
<1>1. CASE ParseSize
  BY <1>1 DEF ParseSize
<1>2. CASE CheckInstalled
  BY <1>2 DEF CheckInstalled
<1>3. CASE CheckNamespace
  BY <1>3 DEF CheckNamespace
<1>4. CASE CheckPVC
  BY <1>4 DEF CheckPVC
<1>5. CASE CheckPV
  BY <1>5 DEF CheckPV
<1>6. CASE LoadDriver
  BY <1>6 DEF LoadDriver
<1>7. CASE CreateNamespace
  BY <1>7 DEF CreateNamespace
<1>8. CASE RemoveRBAC
  BY <1>8 DEF RemoveRBAC
<1>9. CASE CreateRBAC
  BY <1>9 DEF CreateRBAC
<1>10. CASE CreatePVC
  BY <1>10 DEF CreatePVC
<1>11. CASE AddVolume
  BY <1>11 DEF AddVolume
<1>12. CASE CreatePV
  BY <1>12 DEF CreatePV, CreatePVObject
<1>13. CASE WaitPVCBound
  BY <1>13 DEF WaitPVCBound, Retry, FirstWorkload
<1>14. CASE WaitPod
  BY <1>14 DEF WaitPod, Retry
<1>15. CASE WaitREST
  BY <1>15 DEF WaitREST, Retry
<1>16. CASE CreateDeployment
  BY <1>16 DEF CreateDeployment, CreateWorkload
<1>17. CASE CreateService
  BY <1>17 DEF CreateService, CreateWorkload
<1>18. CASE CreateStatefulSet
  BY <1>18 DEF CreateStatefulSet, CreateWorkload
<1>19. CASE CreateDaemonSet
  BY <1>19 DEF CreateDaemonSet, CreateWorkload
<1>20. CASE \E v \in PVNames : BindPVC(v)
  BY <1>20 DEF BindPVC
<1>21. CASE PodStarts \/ PodServes
  BY <1>21 DEF PodStarts, PodServes
<1>22. CASE Rerun
  BY <1>22 DEF Rerun
<1>23. CASE UNCHANGED vars
  BY <1>23 DEF vars
<1>24. QED
  BY Zenon, <1>1, <1>2, <1>3, <1>4, <1>5, <1>6, <1>7, <1>8, <1>9, <1>10,
     <1>11, <1>12, <1>13, <1>14, <1>15, <1>16, <1>17, <1>18, <1>19, <1>20,
     <1>21, <1>22, <1>23 DEF Next, InstallerStep, Environment

\* From a state with a complete installation, every step keeps it.
LEMMA InstalledStep ==
    ASSUME TypeOK, PersistInv, Installed, [Next]_vars
    PROVE  Installed'
<1>1. pc \notin PreControllerPCs
  BY ControllerInTopology DEF PersistInv, Installed
\* A step that keeps the objects of an installation and the flags, and
\* only adds workload objects, keeps the installation.
<1>2. ASSUME UNCHANGED <<ns, rbac, pvc, pv, pod, req, facts>>,
             workload \subseteq workload'
      PROVE  Installed'
  BY <1>2 DEF Installed, ModeArtifacts, TopologyWorkload
<1>3. CASE ParseSize \/ CheckInstalled \/ WaitPod \/ WaitREST
  <2>1. UNCHANGED <<clusterVars, configVars>>
    BY <1>3 DEF ParseSize, CheckInstalled, WaitPod, WaitREST
  <2>2. QED  BY <2>1, <1>2 DEF clusterVars, configVars
<1>4. CASE \/ CheckNamespace \/ CheckPVC \/ CheckPV \/ LoadDriver
           \/ CreateNamespace \/ RemoveRBAC \/ CreateRBAC \/ CreatePVC
           \/ AddVolume \/ CreatePV \/ WaitPVCBound
           \/ CreateDeployment \/ CreateService \/ CreateStatefulSet
  <2>1. CASE CheckNamespace \/ CheckPVC \/ CheckPV \/ LoadDriver
    BY <1>1, <2>1 DEF CheckNamespace, CheckPVC, CheckPV, LoadDriver,
                      PreControllerPCs
  <2>2. CASE CreateNamespace \/ RemoveRBAC \/ CreateRBAC \/ CreatePVC
    BY SMTT(15), <1>1, <2>2 DEF CreateNamespace, RemoveRBAC, CreateRBAC, CreatePVC,
                      PreControllerPCs
  <2>3. CASE AddVolume \/ CreatePV \/ WaitPVCBound
    BY SMTT(15), <1>1, <2>3 DEF AddVolume, CreatePV, WaitPVCBound, PreControllerPCs
  <2>4. CASE CreateDeployment \/ CreateService \/ CreateStatefulSet
    BY <1>1, <2>4 DEF CreateDeployment, CreateService, CreateStatefulSet,
                      CreateWorkload, PreControllerPCs
  <2>5. QED  BY <1>4, <2>1, <2>2, <2>3, <2>4
<1>5. CASE CreateDaemonSet
  <2>1. /\ UNCHANGED <<ns, rbac, pvc, pv, pod, configVars>>
        /\ workload \subseteq workload'
    BY <1>5 DEF CreateDaemonSet, CreateWorkload
  <2>2. QED  BY <2>1, <1>2 DEF configVars
\* The PV controller needs a pending claim; the pod only moves to serving.
<1>6. CASE Environment
  <2>1. pvc.phase = "Bound" /\ pod = "Serving"
    BY DEF Installed
  <2>2. ~\E v \in PVNames : BindPVC(v)
    BY <2>1 DEF BindPVC
  <2>3. ~PodStarts /\ ~PodServes
    BY <2>1 DEF PodStarts, PodServes
  <2>4. QED  BY <1>6, <2>2, <2>3 DEF Environment
<1>7. CASE Rerun \/ UNCHANGED vars
  <2>1. UNCHANGED <<clusterVars, configVars>>
    BY <1>7 DEF Rerun, vars
  <2>2. QED  BY <2>1, <1>2 DEF clusterVars, configVars
<1>8. QED
  BY <1>3, <1>4, <1>5, <1>6, <1>7 DEF Next, InstallerStep

\* Once the cluster holds a complete installation (the namespace, the RBAC
\* artifacts of the mode, the claim and the --pv volume bound to each
\* other, the workload of the topology, a serving pod), no step of any
\* later run, of the PV controller or of the scheduler takes any of it
\* apart: every rerun stops at isTridentInstalled before removeRBACObjects
\* (InstallationPersists).  No assumption on the cluster is needed.
THEOREM InstallationStable == Spec => InstallationPersists
<1>1. Init => TypeOK /\ PersistInv
  BY InitTypeOK DEF Init, PersistInv, PreControllerPCs
<1>2. TypeOK /\ PersistInv /\ [Next]_vars => (TypeOK /\ PersistInv)'
  BY NextTypeOK, NextPersistInv
<1>3. TypeOK /\ PersistInv /\ [Next]_vars => [Installed => Installed']_vars
  BY InstalledStep
<1>4. QED
  BY <1>1, <1>2, <1>3, PTL DEF Spec, InstallationPersists

-----------------------------------------------------------------------------
(* A rerun after a success is refused before any change.                   *)

\* The checks of installTrident before isTridentInstalled pass.
PreChecksPass ==
    req.sizeValid /\ (req.csi => facts.version >= CSIMinVersion)

\* The steps after CheckInstalled, up to the end of a run.
PastInstalledCheckPCs == PCs \ {"ParseSize", "CheckInstalled", "Done"}

RerunInv ==
    /\ pc = "CheckInstalled" => req.sizeValid
    /\ pc \in PastInstalledCheckPCs => PreChecksPass
    /\ pc = "CreateDeployment" => ~req.csi
    /\ pc \in {"CreateService", "CreateStatefulSet", "CreateDaemonSet"} =>
         req.csi
    /\ pc = "CreateDaemonSet" => "statefulset" \in workload
    /\ pc \in {"WaitPod", "WaitREST"} => Controller \in workload
    /\ result.kind = "OK" => Controller \in workload /\ PreChecksPass
    /\ prevResult = "OK" =>
         /\ Controller \in workload /\ PreChecksPass
         /\ pc \in {"ParseSize", "CheckInstalled", "Done"}
         /\ RerunAfterSuccessRefused

\* Every step preserves RerunInv.
\* The steps between isTridentInstalled and the first workload.
EarlyPCs ==
    {"CheckNamespace", "CheckPVC", "CheckPV", "LoadDriver", "CreateNamespace",
     "RemoveRBAC", "CreateRBAC", "CreatePVC", "AddVolume", "CreatePV",
     "WaitPVCBound"}

\* A step that starts and ends among them (or exits with an error), and
\* leaves the workloads, the flags and the history alone, keeps RerunInv.
LEMMA EarlyStepRerunInv ==
    ASSUME TypeOK, RerunInv, pc \in EarlyPCs, pc' \in EarlyPCs \cup {"Done"},
           result'.kind = "OK" => result.kind = "OK",
           UNCHANGED <<workload, req, facts, prevResult>>
    PROVE  RerunInv'
<1>1. prevResult # "OK"
  BY DEF RerunInv, EarlyPCs
<1>2. PreChecksPass
  BY DEF RerunInv, PastInstalledCheckPCs, PCs, EarlyPCs
<1>3. pc' \in PastInstalledCheckPCs \cup {"Done"}
  BY DEF PastInstalledCheckPCs, PCs, EarlyPCs
<1>4. pc' \notin {"CreateDeployment", "CreateService", "CreateStatefulSet",
                  "CreateDaemonSet", "WaitPod", "WaitREST"}
  BY DEF EarlyPCs
<1>5. QED
  BY <1>1, <1>2, <1>3, <1>4 DEF RerunInv, PreChecksPass, Controller,
     RerunAfterSuccessRefused

LEMMA NextRerunInv ==
    ASSUME TypeOK, RerunInv, [Next]_vars
    PROVE  RerunInv'
<1> USE DEF RerunInv, PreChecksPass, PastInstalledCheckPCs, PCs,
            RerunAfterSuccessRefused, Controller, Goto, Finish,
            TransportError, UseFault, Touch, clusterVars, configVars,
            historyVars, installerVars
<1>1. CASE ParseSize
  BY SMTT(15), <1>1 DEF ParseSize
\* isTridentInstalled: the only way on is with the controller absent,
\* which a success leaves present.
<1>2. CASE CheckInstalled
  <2>1. /\ pc = "CheckInstalled"
        /\ UNCHANGED <<workload, req, facts, touched, prevResult>>
    BY <1>2 DEF CheckInstalled
  <2>2. CASE req.csi /\ facts.version < CSIMinVersion
             /\ Finish("ConfigError")
    <3>1. facts.version \in Nat  BY DEF TypeOK, FactRecs
    <3>2. QED  BY <2>1, <2>2, <3>1
  <2>3. CASE Controller \in workload /\ Finish("AlreadyInstalled")
    BY <2>1, <2>3
  <2>4. CASE /\ ~req.csi \/ facts.version >= CSIMinVersion
             /\ Controller \notin workload /\ Goto("CheckNamespace")
    BY <2>1, <2>4
  <2>5. CASE TransportError
    BY <2>1, <2>5
  <2>6. QED  BY <1>2, <2>2, <2>3, <2>4, <2>5 DEF CheckInstalled
<1>20. CASE CheckNamespace
  <2>1. pc \in EarlyPCs /\ pc' \in EarlyPCs \cup {"Done"}
    BY <1>20 DEF EarlyPCs, CheckNamespace
  <2>2. result'.kind = "OK" => result.kind = "OK"
    BY <1>20 DEF CheckNamespace
  <2>3. UNCHANGED <<workload, req, facts, prevResult>>
    BY <1>20 DEF CheckNamespace
  <2>4. QED  BY SMTT(15), <2>1, <2>2, <2>3, EarlyStepRerunInv
<1>21. CASE CheckPVC
  <2>1. pc \in EarlyPCs /\ pc' \in EarlyPCs \cup {"Done"}
    BY <1>21 DEF EarlyPCs, CheckPVC
  <2>2. result'.kind = "OK" => result.kind = "OK"
    BY <1>21 DEF CheckPVC
  <2>3. UNCHANGED <<workload, req, facts, prevResult>>
    BY <1>21 DEF CheckPVC
  <2>4. QED  BY <2>1, <2>2, <2>3, EarlyStepRerunInv
<1>22. CASE CheckPV
  <2>1. pc \in EarlyPCs /\ pc' \in EarlyPCs \cup {"Done"}
    BY <1>22 DEF EarlyPCs, CheckPV
  <2>2. result'.kind = "OK" => result.kind = "OK"
    BY <1>22 DEF CheckPV
  <2>3. UNCHANGED <<workload, req, facts, prevResult>>
    BY <1>22 DEF CheckPV
  <2>4. QED  BY <2>1, <2>2, <2>3, EarlyStepRerunInv
<1>23. CASE LoadDriver
  <2>1. pc \in EarlyPCs /\ pc' \in EarlyPCs \cup {"Done"}
    BY SMTT(15), <1>23 DEF EarlyPCs, LoadDriver
  <2>2. result'.kind = "OK" => result.kind = "OK"
    BY <1>23 DEF LoadDriver
  <2>3. UNCHANGED <<workload, req, facts, prevResult>>
    BY <1>23 DEF LoadDriver
  <2>4. QED  BY <2>1, <2>2, <2>3, EarlyStepRerunInv
<1>24. CASE CreateNamespace
  <2>1. pc \in EarlyPCs /\ pc' \in EarlyPCs \cup {"Done"}
    BY SMTT(15), <1>24 DEF EarlyPCs, CreateNamespace
  <2>2. result'.kind = "OK" => result.kind = "OK"
    BY SMTT(15), <1>24 DEF CreateNamespace
  <2>3. UNCHANGED <<workload, req, facts, prevResult>>
    BY <1>24 DEF CreateNamespace
  <2>4. QED  BY SMTT(15), <2>1, <2>2, <2>3, EarlyStepRerunInv
<1>25. CASE RemoveRBAC
  <2>1. pc \in EarlyPCs /\ pc' \in EarlyPCs \cup {"Done"}
    BY SMTT(15), <1>25 DEF EarlyPCs, RemoveRBAC
  <2>2. result'.kind = "OK" => result.kind = "OK"
    BY SMTT(15), <1>25 DEF RemoveRBAC
  <2>3. UNCHANGED <<workload, req, facts, prevResult>>
    BY <1>25 DEF RemoveRBAC
  <2>4. QED  BY <2>1, <2>2, <2>3, EarlyStepRerunInv
<1>26. CASE CreateRBAC
  <2>1. pc \in EarlyPCs /\ pc' \in EarlyPCs \cup {"Done"}
    BY SMTT(15), <1>26 DEF EarlyPCs, CreateRBAC
  <2>2. result'.kind = "OK" => result.kind = "OK"
    BY SMTT(15), <1>26 DEF CreateRBAC
  <2>3. UNCHANGED <<workload, req, facts, prevResult>>
    BY SMTT(15), <1>26 DEF CreateRBAC
  <2>4. QED  BY <2>1, <2>2, <2>3, EarlyStepRerunInv
<1>27. CASE CreatePVC
  <2>1. pc \in EarlyPCs /\ pc' \in EarlyPCs \cup {"Done"}
    BY SMTT(15), <1>27 DEF EarlyPCs, CreatePVC
  <2>2. result'.kind = "OK" => result.kind = "OK"
    BY SMTT(15), <1>27 DEF CreatePVC
  <2>3. UNCHANGED <<workload, req, facts, prevResult>>
    BY <1>27 DEF CreatePVC
  <2>4. QED  BY SMTT(15), <2>1, <2>2, <2>3, EarlyStepRerunInv
<1>28. CASE AddVolume
  <2>1. pc \in EarlyPCs /\ pc' \in EarlyPCs \cup {"Done"}
    BY SMTT(15), <1>28 DEF EarlyPCs, AddVolume
  <2>2. result'.kind = "OK" => result.kind = "OK"
    BY SMTT(15), <1>28 DEF AddVolume
  <2>3. UNCHANGED <<workload, req, facts, prevResult>>
    BY <1>28 DEF AddVolume
  <2>4. QED  BY <2>1, <2>2, <2>3, EarlyStepRerunInv
<1>29. CASE CreatePV
  <2>1. pc \in EarlyPCs /\ pc' \in EarlyPCs \cup {"Done"}
    BY SMTT(15), <1>29 DEF EarlyPCs, CreatePV, CreatePVObject
  <2>2. result'.kind = "OK" => result.kind = "OK"
    BY SMTT(15), <1>29 DEF CreatePV, CreatePVObject
  <2>3. UNCHANGED <<workload, req, facts, prevResult>>
    BY SMTT(15), <1>29 DEF CreatePV, CreatePVObject
  <2>4. QED  BY SMTT(15), <2>1, <2>2, <2>3, EarlyStepRerunInv
<1>5. CASE WaitPVCBound
  BY SMTT(15), <1>5 DEF WaitPVCBound, Retry, FirstWorkload
<1>6. CASE CreateDeployment
  BY SMTT(15), <1>6 DEF CreateDeployment, CreateWorkload
<1>13. CASE CreateService
  BY SMTT(15), SMTT(15), <1>13 DEF CreateService, CreateWorkload
<1>14. CASE CreateStatefulSet
  BY <1>14 DEF CreateStatefulSet, CreateWorkload
<1>15. CASE CreateDaemonSet
  BY SMTT(15), <1>15 DEF CreateDaemonSet, CreateWorkload
<1>7. CASE WaitPod
  BY SMTT(15), <1>7 DEF WaitPod, Retry
<1>16. CASE WaitREST
  BY SMTT(15), <1>16 DEF WaitREST, Retry
<1>8. CASE Environment \/ UNCHANGED vars
  <2>1. CASE \E v \in PVNames : BindPVC(v)
    BY <2>1 DEF BindPVC
  <2>2. CASE PodStarts \/ PodServes
    BY SMTT(15), <2>2 DEF PodStarts, PodServes
  <2>3. CASE UNCHANGED vars
    BY SMTT(15), <2>3 DEF vars
  <2>4. QED  BY Zenon, <1>8, <2>1, <2>2, <2>3 DEF Environment
<1>9. CASE Rerun
  BY SMTT(15), <1>9 DEF Rerun, NoResult
<1>10. QED
  BY Zenon, <1>1, <1>2, <1>5, <1>6, <1>7, <1>8, <1>9, <1>13, <1>14, <1>15,
     <1>16, <1>20, <1>21, <1>22, <1>23, <1>24, <1>25, <1>26, <1>27, <1>28,
     <1>29
  DEF Next, InstallerStep

\* RerunInv, with the type invariant, holds in every reachable state.
LEMMA RerunInvInvariant == Spec => [](TypeOK /\ RerunInv)
<1>1. Init => TypeOK /\ RerunInv
  <2> SUFFICES ASSUME Init PROVE TypeOK /\ RerunInv
    OBVIOUS
  <2>1. TypeOK
    BY InitTypeOK
  <2>2. pc = "ParseSize" /\ result.kind = "None" /\ prevResult = "None"
    BY DEF Init, NoResult
  <2>3. "ParseSize" \notin PastInstalledCheckPCs
    BY DEF PastInstalledCheckPCs
  <2>4. QED
    BY <2>1, <2>2, <2>3 DEF RerunInv
<1>2. TypeOK /\ RerunInv /\ [Next]_vars => (TypeOK /\ RerunInv)'
  BY NextTypeOK, NextRerunInv
<1>3. QED
  BY <1>1, <1>2, PTL DEF Spec

\* A run that follows a successful one changes nothing in the cluster or
\* the backend and reports "already installed" (or a transport error of
\* that check), for every value of the constants and any starting cluster
\* (RerunAfterSuccessRefused).  The success left the deployment or
\* statefulset behind, the flags are the same, so the size and version
\* checks pass again and isTridentInstalled answers yes.  Spec 8's
\* RerunIsNoOp asks for success instead; the rerun_noop run refutes it.
THEOREM RerunRefused == Spec => []RerunAfterSuccessRefused
<1>1. TypeOK /\ RerunInv => RerunAfterSuccessRefused
  BY DEF RerunInv, RerunAfterSuccessRefused
<1>2. QED
  BY <1>1, RerunInvInvariant, PTL

=============================================================================
