------------------------------ MODULE OrphanProofs ------------------------------
(***************************************************************************)
(* Proof that a CSI installation left with the Trident service and without *)
(* the statefulset can never be completed by rerunning the command        *)
(* (OrphanedServiceBlocks), for every value of the constants and any      *)
(* starting cluster.  installTrident creates the service before the       *)
(* statefulset; isCSITridentInstalled looks for the statefulset only, and *)
(* `kubectl create' of the existing service fails.  The argument rests on *)
(* RerunInv of SuccessProofs: a run past the statefulset step, and a      *)
(* success, imply that the controller (the statefulset) exists.          *)
(***************************************************************************)
EXTENDS SuccessProofs, TLAPS

\* What any step may do to the workloads, the flags, pc and the result:
\* workloads are only added, each by its own create step; the statefulset
\* step is entered only from a service create that made the service; and
\* only the REST wait turns the result into a success.
WorkloadStepFacts ==
    /\ workload \subseteq workload'
    /\ req' = req
    /\ "statefulset" \in workload' \ workload => pc = "CreateStatefulSet"
    /\ pc' = "CreateStatefulSet" =>
         \/ pc = "CreateStatefulSet"
         \/ pc = "CreateService" /\ "service" \notin workload
    /\ result'.kind = "OK" => result.kind = "OK" \/ pc = "WaitREST"

\* Every step satisfies WorkloadStepFacts.
LEMMA WorkloadStep ==
    ASSUME TypeOK, [Next]_vars
    PROVE  WorkloadStepFacts
<1> USE DEF WorkloadStepFacts, Goto, Finish, TransportError, UseFault, Touch,
            clusterVars, configVars, historyVars, installerVars
<1>1. CASE ParseSize
  BY <1>1 DEF ParseSize
<1>2. CASE CheckInstalled
  BY <1>2 DEF CheckInstalled
<1>3. CASE CheckNamespace
  BY <1>3 DEF CheckNamespace
<1>4. CASE CheckPVC
  BY <1>4 DEF CheckPVC
<1>5. CASE CheckPV
  BY <1>5 DEF CheckPV
<1>6. CASE LoadDriver
  BY <1>6 DEF LoadDriver
<1>7. CASE CreateNamespace
  BY <1>7 DEF CreateNamespace
<1>8. CASE RemoveRBAC
  BY <1>8 DEF RemoveRBAC
<1>9. CASE CreateRBAC
  BY <1>9 DEF CreateRBAC
<1>10. CASE CreatePVC
  BY <1>10 DEF CreatePVC
<1>11. CASE AddVolume
  BY <1>11 DEF AddVolume
<1>12. CASE CreatePV
  BY <1>12 DEF CreatePV, CreatePVObject
<1>13. CASE WaitPVCBound
  BY <1>13 DEF WaitPVCBound, Retry, FirstWorkload
<1>14. CASE CreateDeployment
  BY <1>14 DEF CreateDeployment, CreateWorkload
<1>15. CASE CreateService
  BY <1>15 DEF CreateService, CreateWorkload
<1>16. CASE CreateStatefulSet
  BY <1>16 DEF CreateStatefulSet, CreateWorkload
<1>17. CASE CreateDaemonSet
  BY <1>17 DEF CreateDaemonSet, CreateWorkload
<1>18. CASE WaitPod
  BY <1>18 DEF WaitPod, Retry
<1>19. CASE WaitREST
  BY <1>19 DEF WaitREST, Retry
<1>20. CASE \E v \in PVNames : BindPVC(v)
  BY <1>20 DEF BindPVC
<1>21. CASE PodStarts \/ PodServes
  BY <1>21 DEF PodStarts, PodServes
<1>22. CASE Rerun
  BY <1>22 DEF Rerun, NoResult
<1>23. CASE UNCHANGED vars
  BY <1>23 DEF vars
<1>24. QED
  BY Zenon, <1>1, <1>2, <1>3, <1>4, <1>5, <1>6, <1>7, <1>8, <1>9, <1>10,
     <1>11, <1>12, <1>13, <1>14, <1>15, <1>16, <1>17, <1>18, <1>19, <1>20,
     <1>21, <1>22, <1>23 DEF Next, InstallerStep, Environment

\* From an orphaned service, every step keeps it orphaned and reports no
\* success.
LEMMA OrphanStep ==
    ASSUME TypeOK, RerunInv, ServiceOrphaned, [Next]_vars
    PROVE  ServiceOrphaned' /\ result'.kind # "OK"
<1>1. WorkloadStepFacts
  BY WorkloadStep
<1>2. "statefulset" = Controller
  BY DEF ServiceOrphaned, Controller
<1>3. result.kind # "OK" /\ pc # "WaitREST"
  BY <1>2 DEF RerunInv, ServiceOrphaned
<1>4. QED
  BY <1>1, <1>3 DEF ServiceOrphaned, WorkloadStepFacts

\* Once a CSI run has created the Trident service and stopped before the
\* statefulset (a transport error, an invalid statefulset file), no later
\* step of any run creates the statefulset or reports success
\* (OrphanedServiceBlocks): every rerun passes isCSITridentInstalled and
\* fails at its service create.
THEOREM OrphanedServicePermanent == Spec => OrphanedServiceBlocks
<1>1. TypeOK /\ RerunInv /\ [Next]_vars
        => [ServiceOrphaned => ServiceOrphaned' /\ result'.kind # "OK"]_vars
  BY OrphanStep
<1>2. QED
  BY <1>1, RerunInvInvariant, PTL DEF Spec, OrphanedServiceBlocks

=============================================================================
