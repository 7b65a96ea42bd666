---------------------------- MODULE InstallerProofs ----------------------------
(***************************************************************************)
(* Proofs, for every value of the constants allowed by                     *)
(* ConstantsAssumption, of the type invariant of Installer, of             *)
(* AbortBeforeMutation, the property that installTrident's pre-checks all  *)
(* run before its first create or delete, and, in native RBAC mode, of     *)
(* RBACCleanBeforeCreate.                                                  *)
(***************************************************************************)
EXTENDS Installer, TLAPS

USE ConstantsAssumption

-----------------------------------------------------------------------------
(* Lemmas about the helpers the steps are built from.                      *)

\* Every name createRBACObjects creates is an RBAC artifact.
LEMMA CreateOrderType ==
    \A i \in 1..Len(CreateOrder) : CreateOrder[i] \in Artifacts
<1>1. CASE req.useK8sRBAC /\ facts.flavor = "OpenShift"
  <2>1. CreateOrder = <<"sa", "role", "binding">> \o <<"scc">>
    BY <1>1 DEF CreateOrder
  <2>2. QED  BY <2>1 DEF Artifacts
<1>2. CASE req.useK8sRBAC /\ facts.flavor # "OpenShift"
  <2>1. CreateOrder = <<"sa", "role", "binding">> \o <<>>
    BY <1>2 DEF CreateOrder
  <2>2. QED  BY <2>1 DEF Artifacts
<1>3. CASE ~req.useK8sRBAC
  <2>1. CreateOrder = <<"sa", "ucpRole", "ucpGrant">>
    BY <1>3 DEF CreateOrder
  <2>2. QED  BY <2>1 DEF Artifacts
<1>4. QED  BY <1>1, <1>2, <1>3

\* The timeout values a back-off loop reports are natural numbers.
LEMMA TimeoutSecsNat ==
    K8sTimeout * 1000000000 \in Nat /\ 0 \in Nat
BY DEF ConstantsAssumption

-----------------------------------------------------------------------------
(* Type correctness.                                                       *)

\* The initial states the installer starts in are well typed.
LEMMA InitTypeOK == Init => TypeOK
BY DEF Init, TypeOK, NoResult, NoProbe, ClusterRecs, ResultKinds, PCs

\* The pre-checks of the claim and of the volume only record what they
\* found, end the run, or spend a fault.
LEMMA CheckPVCTypeOK == TypeOK /\ CheckPVC => TypeOK'
<1> SUFFICES ASSUME TypeOK, CheckPVC PROVE TypeOK'
  OBVIOUS
<1>1. UNCHANGED <<polls, clusterVars, configVars, historyVars>>
  BY DEF CheckPVC
<1>2. pc' \in PCs /\ result' \in [kind: ResultKinds, secs: Nat]
  BY DEF CheckPVC, Goto, Finish, TransportError, TypeOK, PCs, ResultKinds
<1>3. probe' \in [ns: BOOLEAN, pvc: BOOLEAN, pv: BOOLEAN]
  BY DEF CheckPVC, Goto, Finish, TransportError, TypeOK
<1>4. faults' \in 0..MaxFaults
  BY DEF CheckPVC, TransportError, UseFault, TypeOK
<1>5. QED
  BY <1>1, <1>2, <1>3, <1>4 DEF TypeOK, clusterVars, configVars, historyVars

LEMMA CheckPVTypeOK == TypeOK /\ CheckPV => TypeOK'
<1> SUFFICES ASSUME TypeOK, CheckPV PROVE TypeOK'
  OBVIOUS
<1>1. UNCHANGED <<polls, clusterVars, configVars, historyVars>>
  BY DEF CheckPV
<1>2. pc' \in PCs /\ result' \in [kind: ResultKinds, secs: Nat]
  BY DEF CheckPV, Goto, Finish, TransportError, TypeOK, PCs, ResultKinds
<1>3. probe' \in [ns: BOOLEAN, pvc: BOOLEAN, pv: BOOLEAN]
  BY DEF CheckPV, Goto, Finish, TransportError, TypeOK
<1>4. faults' \in 0..MaxFaults
  BY DEF CheckPV, TransportError, UseFault, TypeOK
<1>5. QED
  BY <1>1, <1>2, <1>3, <1>4 DEF TypeOK, clusterVars, configVars, historyVars

\* Creating the namespace changes only ns and touched.
LEMMA CreateNamespaceTypeOK == TypeOK /\ CreateNamespace => TypeOK'
<1> SUFFICES ASSUME TypeOK, CreateNamespace PROVE TypeOK'
  OBVIOUS
<1>1. UNCHANGED <<probe, polls, pvc, pv, rbac, workload, vol, secret, pod,
                  configVars, start, runs, prevResult>>
  BY DEF CreateNamespace
<1> USE DEF CreateNamespace, Goto, Finish, TransportError, UseFault, Touch,
            TypeOK
<1>2. pc' \in PCs /\ result' \in [kind: ResultKinds, secs: Nat]
  BY DEF PCs, ResultKinds
<1>3. faults' \in 0..MaxFaults
  OBVIOUS
<1>4. ns' \in BOOLEAN /\ touched' \subseteq Touchable
  BY DEF Touchable
<1>5. QED
  BY <1>1, <1>2, <1>3, <1>4 DEF configVars

\* Creating the claim yields a Pending claim naming the request's volume.
LEMMA CreatePVCTypeOK == TypeOK /\ CreatePVC => TypeOK'
<1> SUFFICES ASSUME TypeOK, CreatePVC PROVE TypeOK'
  OBVIOUS
<1>1. UNCHANGED <<probe, polls, ns, pv, rbac, workload, vol, secret, pod,
                  configVars, start, runs, prevResult>>
  BY DEF CreatePVC
<1> USE DEF CreatePVC, Goto, Finish, TransportError, UseFault, Touch, TypeOK
<1>2. pc' \in PCs /\ result' \in [kind: ResultKinds, secs: Nat]
  BY DEF PCs, ResultKinds
<1>3. faults' \in 0..MaxFaults
  OBVIOUS
<1>4. req.pvcPin \in PVNames \cup {NoPV}
  BY DEF RequestRecs
<1>5. \/ pvc' = pvc
      \/ pvc' = [exists |-> TRUE, phase |-> "Pending", vol |-> req.pvcPin,
                 labeled |-> TRUE]
  OBVIOUS
<1>6. pvc' \in PVCRecs
  <2>1. CASE pvc' = pvc
    BY <2>1
  <2>2. CASE pvc' = [exists |-> TRUE, phase |-> "Pending", vol |-> req.pvcPin,
                     labeled |-> TRUE]
    BY <1>4, <2>2 DEF PVCRecs
  <2>3. QED  BY <1>5, <2>1, <2>2
<1>7. touched' \subseteq Touchable
  BY DEF Touchable
<1>8. QED
  BY <1>1, <1>2, <1>3, <1>6, <1>7 DEF configVars

LEMMA AddVolumeTypeOK == TypeOK /\ AddVolume => TypeOK'
<1> SUFFICES ASSUME TypeOK, AddVolume PROVE TypeOK'
  OBVIOUS
<1>1. UNCHANGED <<probe, polls, ns, pvc, pv, rbac, workload, secret, pod,
                  configVars, start, runs, prevResult>>
  BY DEF AddVolume
<1> USE DEF AddVolume, Goto, Finish, TransportError, UseFault, Touch, TypeOK
<1>2. pc' \in PCs /\ result' \in [kind: ResultKinds, secs: Nat]
  BY DEF PCs, ResultKinds
<1>3. faults' \in 0..MaxFaults
  OBVIOUS
<1>4. vol' \in BOOLEAN /\ touched' \subseteq Touchable
  BY DEF Touchable
<1>5. QED
  BY <1>1, <1>2, <1>3, <1>4 DEF configVars

\* createPV submits a well-formed PV record for the --pv name.
LEMMA CreatePVTypeOK == TypeOK /\ CreatePV => TypeOK'
<1> SUFFICES ASSUME TypeOK, CreatePV PROVE TypeOK'
  OBVIOUS
<1>1. UNCHANGED <<probe, polls, ns, pvc, rbac, workload, vol, pod,
                  configVars, start, runs, prevResult>>
  BY DEF CreatePV
<1> USE DEF CreatePV, Goto, Finish, TransportError, UseFault, Touch,
            CreatePVObject, CreateCHAPSecret, CHAPSecretTouched, TypeOK
<1>2. pc' \in PCs /\ result' \in [kind: ResultKinds, secs: Nat]
  BY DEF PCs, ResultKinds
<1>3. faults' \in 0..MaxFaults
  OBVIOUS
<1>4. NewPV \in PVRecs
  BY DEF NewPV, PVRecs
<1>5. pv' \in [PVNames -> PVRecs]
  BY <1>4
<1>6. secret' \in BOOLEAN /\ touched' \subseteq Touchable
  BY DEF Touchable
<1>7. QED
  BY <1>1, <1>2, <1>3, <1>5, <1>6 DEF configVars

\* Submitting a workload object adds one workload kind.
LEMMA CreateWorkloadTypeOK ==
    ASSUME NEW o \in WorkloadKinds, NEW step, NEW next \in PCs,
           TypeOK, CreateWorkload(o, step, next)
    PROVE  TypeOK'
<1>1. UNCHANGED <<probe, polls, ns, pvc, pv, rbac, vol, secret, pod,
                  configVars, start, runs, prevResult>>
  BY DEF CreateWorkload
<1> USE DEF CreateWorkload, Goto, Finish, TransportError, UseFault, Touch,
            TypeOK
<1>2. pc' \in PCs /\ result' \in [kind: ResultKinds, secs: Nat]
  BY DEF PCs, ResultKinds
<1>3. faults' \in 0..MaxFaults
  OBVIOUS
<1>4. workload' \subseteq WorkloadKinds /\ touched' \subseteq Touchable
  BY DEF Touchable
<1>5. QED
  BY <1>1, <1>2, <1>3, <1>4 DEF configVars

\* The PV controller's binding keeps the claim and the volumes well formed.
LEMMA BindPVCTypeOK ==
    ASSUME NEW v \in PVNames, TypeOK, BindPVC(v)
    PROVE  TypeOK'
<1>1. UNCHANGED <<installerVars, ns, rbac, workload, vol, secret, pod,
                  configVars, historyVars>>
  BY DEF BindPVC
<1>2. pvc' = [exists |-> pvc.exists, phase |-> "Bound", vol |-> v,
              labeled |-> pvc.labeled]
  BY DEF BindPVC, TypeOK, PVCRecs
<1>3. pvc' \in PVCRecs
  BY <1>2 DEF TypeOK, PVCRecs
<1>4. pv' = [pv EXCEPT ![v].phase = "Bound", ![v].claim = "Ours"]
  BY DEF BindPVC
<1>5. pv[v] \in PVRecs
  BY DEF TypeOK
<1>6. [pv[v] EXCEPT !.phase = "Bound", !.claim = "Ours"] \in PVRecs
  BY <1>5 DEF PVRecs
<1>7. pv' = [pv EXCEPT ![v] = [pv[v] EXCEPT !.phase = "Bound", !.claim = "Ours"]]
  BY <1>4
<1>8. pv' \in [PVNames -> PVRecs]
  BY <1>6, <1>7 DEF TypeOK
<1>9. QED
  BY <1>1, <1>3, <1>8 DEF TypeOK, installerVars, configVars, historyVars

\* No step of the installer, of the cluster's controllers or of the
\* operator leaves the types: in particular, the attempt counters of the
\* back-off loops stay within MaxPolls and the fault count within MaxFaults.
LEMMA NextTypeOK == TypeOK /\ [Next]_vars => TypeOK'
<1> SUFFICES ASSUME TypeOK, [Next]_vars PROVE TypeOK'
  OBVIOUS
<1> DEFINE Secs == K8sTimeout * 1000000000
<1>a. Secs \in Nat
  BY TimeoutSecsNat
<1> USE DEF TypeOK, PCs, ResultKinds, Touchable, PVCRecs, PVRecs, PodPhases
<1>1. CASE ParseSize
  BY <1>1 DEF ParseSize, Goto, Finish, configVars, historyVars, clusterVars
<1>2. CASE CheckInstalled
  BY <1>2 DEF CheckInstalled, Goto, Finish, TransportError, UseFault,
              configVars, historyVars, clusterVars
<1>3. CASE CheckNamespace
  BY <1>3 DEF CheckNamespace, Goto, Finish, TransportError, UseFault,
              configVars, historyVars, clusterVars
<1>4. CASE CheckPVC
  BY <1>4, CheckPVCTypeOK
<1>5. CASE CheckPV
  BY <1>5, CheckPVTypeOK
<1>6. CASE LoadDriver
  BY <1>6 DEF LoadDriver, Goto, Finish, configVars, historyVars, clusterVars
<1>7. CASE CreateNamespace
  BY <1>7, CreateNamespaceTypeOK
<1>8. CASE RemoveRBAC
  BY <1>8 DEF RemoveRBAC, Goto, Finish, UseFault, Touch, TeardownTargets,
              configVars
<1>9. CASE CreateRBAC
  BY <1>9, CreateOrderType DEF CreateRBAC, Goto, Finish, TransportError,
                               UseFault, Touch, configVars
<1>10. CASE CreatePVC
  BY <1>10, CreatePVCTypeOK
<1>11. CASE AddVolume
  BY <1>11, AddVolumeTypeOK
<1>12. CASE CreatePV
  BY <1>12, CreatePVTypeOK
<1>13. CASE WaitPVCBound
  BY <1>13, <1>a DEF WaitPVCBound, Goto, Retry, UseFault, FirstWorkload,
                     configVars, historyVars, clusterVars
<1>14. CASE CreateDeployment \/ CreateService \/ CreateStatefulSet
              \/ CreateDaemonSet
  BY <1>14, CreateWorkloadTypeOK
  DEF CreateDeployment, CreateService, CreateStatefulSet, CreateDaemonSet,
      WorkloadKinds
<1>15. CASE WaitPod
  BY <1>15 DEF WaitPod, Goto, Retry, UseFault, configVars, historyVars,
               clusterVars
<1>16. CASE WaitREST
  BY <1>16 DEF WaitREST, Goto, Finish, Retry, UseFault, configVars,
               historyVars, clusterVars
<1>17. ASSUME NEW v \in PVNames, BindPVC(v) PROVE TypeOK'
  BY <1>17, BindPVCTypeOK
<1>18. CASE PodStarts
  BY <1>18 DEF PodStarts, installerVars, configVars, historyVars
<1>19. CASE PodServes
  BY <1>19 DEF PodServes, installerVars, configVars, historyVars
<1>20. CASE Rerun
  BY <1>20 DEF Rerun, NoResult, NoProbe, clusterVars, configVars
<1>21. CASE UNCHANGED vars
  BY <1>21 DEF vars, installerVars, clusterVars, configVars, historyVars
<1>22. QED
  BY <1>1, <1>2, <1>3, <1>4, <1>5, <1>6, <1>7, <1>8, <1>9, <1>10, <1>11,
     <1>12, <1>13, <1>14, <1>15, <1>16, <1>17, <1>18, <1>19, <1>20, <1>21
  DEF Next, InstallerStep, Environment

\* Every state the installer reaches is well typed (TypeOK, checked by the
\* precheck run on a small instance).
THEOREM TypeCorrect == Spec => []TypeOK
BY InitTypeOK, NextTypeOK, PTL DEF Spec

-----------------------------------------------------------------------------
(* The pre-checks run before the first mutation.                           *)

\* AbortBeforeMutation strengthened so that a step preserves it: a run that
\* began against an incompatible claim (volume) is still facing one (the PV
\* controller never repairs an incompatible object), has not gone past
\* CheckPVC (CheckPV), and has changed nothing; an unparsable size never
\* gets past ParseSize.
AbortInv ==
    /\ pc \in ReadOnlyPCs => touched = {}
    /\ ~req.sizeValid => pc \in {"ParseSize", "Done"} /\ touched = {}
    /\ ClaimIncompatible(start.pvc) =>
         /\ ClaimIncompatible(pvc) /\ touched = {}
         /\ pc \in {"ParseSize", "CheckInstalled", "CheckNamespace", "CheckPVC",
                    "Done"}
    /\ VolumeIncompatible(start.pv[PV]) =>
         /\ VolumeIncompatible(pv[PV]) /\ touched = {}
         /\ pc \in {"ParseSize", "CheckInstalled", "CheckNamespace", "CheckPVC",
                    "CheckPV", "Done"}

IInv == TypeOK /\ AbortInv


\* Under the strengthening, a run that got past the read-only steps began
\* against a compatible claim and volume, with a valid size.
LEMMA PastChecks ==
    ASSUME AbortInv, pc \notin ReadOnlyPCs \cup {"Done"}
    PROVE  /\ req.sizeValid
           /\ ~ClaimIncompatible(start.pvc)
           /\ ~VolumeIncompatible(start.pv[PV])
BY DEF AbortInv, ReadOnlyPCs

\* A step from past the read-only steps that never returns to them and
\* leaves the request and the recorded start alone keeps the strengthening.
LEMMA MutationStep ==
    ASSUME AbortInv, pc \notin ReadOnlyPCs \cup {"Done"},
           pc' \notin ReadOnlyPCs, UNCHANGED <<req, start>>
    PROVE  AbortInv'
<1>1. /\ req'.sizeValid
      /\ ~ClaimIncompatible(start'.pvc)
      /\ ~VolumeIncompatible(start'.pv[PV])
  BY PastChecks
<1>2. QED
  BY <1>1 DEF AbortInv

\* The PV controller never repairs an incompatible claim or volume: it only
\* binds a Pending claim to an Available volume, and labels stay as they
\* are.
LEMMA BindKeepsIncompatible ==
    ASSUME TypeOK, NEW v \in PVNames, BindPVC(v)
    PROVE  /\ ClaimIncompatible(pvc) => ClaimIncompatible(pvc')
           /\ VolumeIncompatible(pv[PV]) => VolumeIncompatible(pv'[PV])
<1>1. pvc' = [pvc EXCEPT !.phase = "Bound", !.vol = v]
  BY DEF BindPVC
<1>2. pvc.phase = "Pending" /\ pv[v].phase = "Available"
  BY DEF BindPVC
<1>3. pv' = [pv EXCEPT ![v].phase = "Bound", ![v].claim = "Ours"]
  BY DEF BindPVC
<1>4. pvc \in PVCRecs /\ pv \in [PVNames -> PVRecs]
  BY DEF TypeOK
<1>5. ClaimIncompatible(pvc) => ClaimIncompatible(pvc')
  <2>1. pvc'.exists = pvc.exists /\ pvc'.labeled = pvc.labeled
    BY <1>1, <1>4 DEF PVCRecs
  <2>2. QED
    BY <1>2, <2>1 DEF ClaimIncompatible
<1>6. VolumeIncompatible(pv[PV]) => VolumeIncompatible(pv'[PV])
  <2>1. CASE v = PV
    <3>1. pv'[PV].exists = pv[PV].exists /\ pv'[PV].labeled = pv[PV].labeled
      BY <1>3, <1>4, <2>1 DEF PVRecs
    <3>2. QED
      BY <1>2, <2>1, <3>1 DEF VolumeIncompatible
  <2>2. CASE v # PV
    <3>1. pv'[PV] = pv[PV]
      BY <1>3, <1>4, <2>2 DEF PVNames
    <3>2. QED
      BY <3>1
  <2>3. QED  BY <2>1, <2>2
<1>7. QED  BY <1>5, <1>6

\* An existing claim is incompatible exactly when installTrident's
\* PVCUsable check rejects it, and likewise for the volume.
LEMMA UsableIsCompatible ==
    ASSUME TypeOK
    PROVE  /\ ClaimIncompatible(pvc) => pvc.exists /\ ~PVCUsable(pvc)
           /\ VolumeIncompatible(pv[PV]) => pv[PV].exists /\ ~PVUsable(pv[PV])
BY DEF TypeOK, PVCRecs, PVRecs, PVNames, ClaimIncompatible, PVCUsable,
       VolumeIncompatible, PVUsable


\* No step breaks the strengthening.
LEMMA NextAbortInv == TypeOK /\ AbortInv /\ [Next]_vars => AbortInv'
<1> SUFFICES ASSUME TypeOK, AbortInv, [Next]_vars PROVE AbortInv'
  OBVIOUS
<1>1. CASE ParseSize
  BY <1>1 DEF ParseSize, Goto, Finish, AbortInv, ReadOnlyPCs, clusterVars,
              configVars, historyVars
<1>2. CASE CheckInstalled
  BY <1>2 DEF CheckInstalled, Goto, Finish, TransportError, AbortInv,
              ReadOnlyPCs, clusterVars, configVars, historyVars
<1>3. CASE CheckNamespace
  BY <1>3 DEF CheckNamespace, Goto, Finish, TransportError, AbortInv,
              ReadOnlyPCs, clusterVars, configVars, historyVars
<1>4. CASE CheckPVC
  <2>1. UNCHANGED <<touched, start, req, pvc, pv>>
    BY <1>4 DEF CheckPVC, clusterVars, configVars, historyVars
  <2>2. pc = "CheckPVC" /\ pc' \in {"CheckPV", "Done"}
    BY <1>4 DEF CheckPVC, Goto, Finish, TransportError
  <2>3. ClaimIncompatible(pvc) => pc' = "Done"
    BY <1>4, UsableIsCompatible DEF CheckPVC, Goto, Finish, TransportError
  <2>4. QED
    BY <2>1, <2>2, <2>3 DEF AbortInv, ReadOnlyPCs
<1>5. CASE CheckPV
  <2>1. UNCHANGED <<touched, start, req, pvc, pv>>
    BY <1>5 DEF CheckPV, clusterVars, configVars, historyVars
  <2>2. pc = "CheckPV" /\ pc' \in {"LoadDriver", "Done"}
    BY <1>5 DEF CheckPV, Goto, Finish, TransportError
  <2>3. VolumeIncompatible(pv[PV]) => pc' = "Done"
    BY <1>5, UsableIsCompatible DEF CheckPV, Goto, Finish, TransportError
  <2>4. QED
    BY <2>1, <2>2, <2>3 DEF AbortInv, ReadOnlyPCs
<1>6. CASE LoadDriver
  <2>1. UNCHANGED <<touched, start, req>>
    BY <1>6 DEF LoadDriver, configVars, historyVars
  <2>2. pc = "LoadDriver" /\ pc' \in {"CreateNamespace", "Done"}
    BY <1>6 DEF LoadDriver, Goto, Finish
  <2>3. QED
    BY <2>1, <2>2 DEF AbortInv, ReadOnlyPCs
<1>7. CASE CreateNamespace \/ RemoveRBAC \/ CreateRBAC \/ CreatePVC
           \/ AddVolume \/ CreatePV
  <2>1. UNCHANGED <<req, start>>
    BY <1>7 DEF CreateNamespace, RemoveRBAC, CreateRBAC, CreatePVC, AddVolume,
                CreatePV, configVars
  <2>2. pc \notin ReadOnlyPCs \cup {"Done"} /\ pc' \notin ReadOnlyPCs
    BY <1>7 DEF CreateNamespace, RemoveRBAC, CreateRBAC, CreatePVC, AddVolume,
                CreatePV, CreatePVObject, Goto, Finish, TransportError,
                ReadOnlyPCs
  <2>3. QED
    BY <2>1, <2>2, MutationStep
<1>8. CASE WaitPVCBound \/ WaitPod \/ WaitREST
  <2>1. UNCHANGED <<req, start>>
    BY <1>8 DEF WaitPVCBound, WaitPod, WaitREST, configVars, historyVars
  <2>2. pc \notin ReadOnlyPCs \cup {"Done"} /\ pc' \notin ReadOnlyPCs
    BY <1>8 DEF WaitPVCBound, WaitPod, WaitREST, FirstWorkload, Retry, Goto,
                Finish, ReadOnlyPCs
  <2>3. QED
    BY <2>1, <2>2, MutationStep
<1>9. CASE CreateDeployment \/ CreateService \/ CreateStatefulSet
           \/ CreateDaemonSet
  <2>1. UNCHANGED <<req, start>>
    BY <1>9 DEF CreateDeployment, CreateService, CreateStatefulSet,
                CreateDaemonSet, CreateWorkload, configVars
  <2>2. pc \notin ReadOnlyPCs \cup {"Done"} /\ pc' \notin ReadOnlyPCs
    BY <1>9 DEF CreateDeployment, CreateService, CreateStatefulSet,
                CreateDaemonSet, CreateWorkload, Goto, Finish, TransportError,
                ReadOnlyPCs
  <2>3. QED
    BY <2>1, <2>2, MutationStep
<1>10. ASSUME NEW v \in PVNames, BindPVC(v) PROVE AbortInv'
  <2>1. UNCHANGED <<pc, touched, start, req>>
    BY <1>10 DEF BindPVC, installerVars, configVars, historyVars
  <2>2. QED
    BY <1>10, <2>1, BindKeepsIncompatible DEF AbortInv
<1>11. CASE PodStarts \/ PodServes
  BY <1>11 DEF PodStarts, PodServes, AbortInv, installerVars, configVars,
               historyVars
<1>12. CASE Rerun
  <2>1. /\ pc' = "ParseSize" /\ touched' = {} /\ req' = req
        /\ start' = [pvc |-> pvc, pv |-> pv] /\ pvc' = pvc /\ pv' = pv
    BY <1>12 DEF Rerun, clusterVars, configVars
  <2>2. QED
    BY <2>1 DEF AbortInv, ReadOnlyPCs
<1>13. CASE UNCHANGED vars
  BY <1>13 DEF AbortInv, vars, installerVars, clusterVars, configVars,
               historyVars
<1>14. QED
  BY <1>1, <1>2, <1>3, <1>4, <1>5, <1>6, <1>7, <1>8, <1>9, <1>10, <1>11,
     <1>12, <1>13 DEF Next, InstallerStep, Environment

\* The strengthening is an invariant of the installer.
LEMMA IInvInvariant == Spec => []IInv
<1>1. Init => IInv
  <2>1. Init => AbortInv
    BY DEF Init, AbortInv, ReadOnlyPCs
  <2>2. QED  BY <2>1, InitTypeOK DEF IInv
<1>2. IInv /\ [Next]_vars => IInv'
  BY NextTypeOK, NextAbortInv DEF IInv
<1>3. QED
  BY <1>1, <1>2, PTL DEF Spec

\* installTrident changes nothing in the cluster or the backend in a run
\* that starts against an incompatible claim or volume, or with an
\* unparsable --volume-size, whatever the PV controller does meanwhile and
\* whatever the cluster's size (AbortBeforeMutation, checked by the
\* precheck run).
THEOREM PrechecksBeforeMutation == Spec => []AbortBeforeMutation
<1>1. IInv => AbortBeforeMutation
  BY DEF IInv, AbortInv, AbortBeforeMutation
<1>2. QED
  BY <1>1, IInvInvariant, PTL


-----------------------------------------------------------------------------
(* Teardown before create, in native RBAC mode.                            *)

\* In native mode removeRBACObjects targets exactly the mode's artifacts,
\* and every failed deletion sets anyErrors.
LEMMA NativeTeardown ==
    ASSUME TypeOK, req.useK8sRBAC
    PROVE  /\ Flagged = TeardownTargets
           /\ ModeArtifacts = TeardownTargets
BY DEF Flagged, TeardownTargets, ModeArtifacts

\* A step of RemoveRBAC that goes on to createRBACObjects leaves no
\* artifact of the mode.
LEMMA RemoveRBACClean ==
    ASSUME TypeOK, req.useK8sRBAC, RemoveRBAC, pc' = "CreateRBAC"
    PROVE  rbac' \cap ModeArtifacts' = {}
<1>1. PICK failed \in SUBSET TeardownTargets :
        /\ rbac' = rbac \ (TeardownTargets \ failed)
        /\ IF failed \cap Flagged = {} THEN Goto("CreateRBAC")
                                       ELSE Finish("CleanupError")
  BY DEF RemoveRBAC
<1>2. failed \cap Flagged = {}
  BY <1>1 DEF Finish
<1>3. failed = {}
  BY <1>1, <1>2, NativeTeardown
<1>4. UNCHANGED <<req, facts>>
  BY DEF RemoveRBAC, configVars
<1>5. ModeArtifacts' = TeardownTargets
  BY <1>4, NativeTeardown DEF ModeArtifacts, TeardownTargets
<1>6. QED
  BY <1>1, <1>3, <1>5

\* Every other step either leaves pc away from CreateRBAC or keeps the
\* RBAC artifacts, the request and the facts as they are.
LEMMA NextRBACClean ==
    ASSUME TypeOK, RBACCleanBeforeCreate, [Next]_vars,
           \A r \in Requests : r.useK8sRBAC
    PROVE  RBACCleanBeforeCreate'
<1> USE DEF RBACCleanBeforeCreate
<1>1. req.useK8sRBAC
  BY DEF TypeOK
<1>2. CASE RemoveRBAC
  BY <1>1, <1>2, RemoveRBACClean
<1>3. CASE InstallerStep /\ ~RemoveRBAC
  <2> USE <1>3
<2>1. CASE ParseSize
  BY <2>1 DEF ParseSize, Goto, Finish, TransportError, UseFault
<2>2. CASE CheckInstalled
  BY <2>2 DEF CheckInstalled, Goto, Finish, TransportError, UseFault
<2>3. CASE CheckNamespace
  BY <2>3 DEF CheckNamespace, Goto, Finish, TransportError, UseFault
<2>4. CASE CheckPVC
  BY <2>4 DEF CheckPVC, Goto, Finish, TransportError, UseFault
<2>5. CASE CheckPV
  BY <2>5 DEF CheckPV, Goto, Finish, TransportError, UseFault
<2>6. CASE LoadDriver
  BY <2>6 DEF LoadDriver, Goto, Finish, TransportError, UseFault
<2>7. CASE CreateNamespace
  BY <2>7 DEF CreateNamespace, Goto, Finish, TransportError, UseFault
<2>8. CASE CreateRBAC
  BY <2>8 DEF CreateRBAC, Goto, Finish, TransportError, UseFault
<2>9. CASE CreatePVC
  BY <2>9 DEF CreatePVC, Goto, Finish, TransportError, UseFault
<2>10. CASE AddVolume
  BY <2>10 DEF AddVolume, Goto, Finish, TransportError, UseFault
<2>11. CASE CreatePV
  BY <2>11 DEF CreatePV, Goto, Finish, TransportError, UseFault, CreatePVObject
<2>12. CASE WaitPVCBound
  BY <2>12 DEF WaitPVCBound, Goto, Finish, TransportError, UseFault, Retry, FirstWorkload
<2>13. CASE CreateDeployment \/ CreateService \/ CreateStatefulSet
              \/ CreateDaemonSet
  BY <2>13 DEF CreateDeployment, CreateService, CreateStatefulSet,
               CreateDaemonSet, CreateWorkload, Goto, Finish, TransportError, UseFault
<2>14. CASE WaitPod
  BY <2>14 DEF WaitPod, Goto, Finish, TransportError, UseFault, Retry
<2>15. CASE WaitREST
  BY <2>15 DEF WaitREST, Goto, Finish, TransportError, UseFault, Retry
<2>16. QED
  BY <2>1, <2>2, <2>3, <2>4, <2>5, <2>6, <2>7, <2>8, <2>9, <2>10, <2>11,
     <2>12, <2>13, <2>14, <2>15 DEF InstallerStep
<1>4. CASE Environment
  BY <1>4 DEF Environment, BindPVC, PodStarts, PodServes, installerVars,
              configVars, ModeArtifacts
<1>5. CASE Rerun
  BY <1>5 DEF Rerun
<1>6. CASE UNCHANGED vars
  BY <1>6 DEF vars, installerVars, clusterVars, configVars, ModeArtifacts
<1>7. QED
  BY <1>2, <1>3, <1>4, <1>5, <1>6 DEF Next

\* In native RBAC mode, when createRBACObjects starts no service account,
\* cluster role, binding or SCC grant of an earlier attempt is left:
\* removeRBACObjects deleted them all, or a failed deletion set anyErrors
\* and installTrident returned (RBACCleanBeforeCreate, checked by the rbac
\* run).  UCP mode is excluded: the run ucp_stale shows it fails there.
THEOREM TeardownBeforeCreate ==
    ASSUME \A r \in Requests : r.useK8sRBAC
    PROVE  Spec => []RBACCleanBeforeCreate
<1>1. Init => RBACCleanBeforeCreate
  BY DEF Init, RBACCleanBeforeCreate
<1>2. TypeOK /\ RBACCleanBeforeCreate /\ [Next]_vars
        => RBACCleanBeforeCreate'
  BY NextRBACClean
<1>3. QED
  BY <1>1, <1>2, InitTypeOK, NextTypeOK, PTL DEF Spec

=============================================================================
