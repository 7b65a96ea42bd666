----------------------------- MODULE ProgressProofs -----------------------------
(***************************************************************************)
(* Proof of InstallerProgress, the safety half of Terminates: every step  *)
(* of installTrident moves forward in the code or spends one attempt of   *)
(* the backoff loop it is in, within the budget MaxPolls.  Whether each   *)
(* run does end (the liveness half, under the weak fairness of the        *)
(* installer) stays with TLC.                                              *)
(***************************************************************************)
EXTENDS InstallerProofs, TLAPS

USE ConstantsAssumption

\* Each step of installTrident decreases the measure (PCRank(pc), attempts
\* left) lexicographically.  The step facts name where each step may go:
\* its successor in the code or Done (an error or a timeout), or, in a
\* backoff loop, the same step with one more attempt.
LEMMA ProgressStep ==
    ASSUME TypeOK, InstallerStep
    PROVE  \/ PCRank(pc') < PCRank(pc)
           \/ pc' = pc /\ polls < polls' /\ polls' <= MaxPolls
<1> USE DEF Goto, Finish, TransportError, UseFault, Touch
<1>1. CASE ParseSize
  <2>1. pc = "ParseSize" /\ pc' \in {"CheckInstalled", "Done"}
    BY <1>1 DEF ParseSize
  <2>2. QED  BY <2>1 DEF PCRank
<1>2. CASE CheckInstalled
  <2>1. pc = "CheckInstalled" /\ pc' \in {"CheckNamespace", "Done"}
    BY <1>2 DEF CheckInstalled
  <2>2. QED  BY <2>1 DEF PCRank
<1>3. CASE CheckNamespace
  <2>1. pc = "CheckNamespace" /\ pc' \in {"CheckPVC", "Done"}
    BY <1>3 DEF CheckNamespace
  <2>2. QED  BY <2>1 DEF PCRank
<1>4. CASE CheckPVC
  <2>1. pc = "CheckPVC" /\ pc' \in {"CheckPV", "Done"}
    BY <1>4 DEF CheckPVC
  <2>2. QED  BY <2>1 DEF PCRank
<1>5. CASE CheckPV
  <2>1. pc = "CheckPV" /\ pc' \in {"LoadDriver", "Done"}
    BY <1>5 DEF CheckPV
  <2>2. QED  BY <2>1 DEF PCRank
<1>6. CASE LoadDriver
  <2>1. pc = "LoadDriver" /\ pc' \in {"CreateNamespace", "Done"}
    BY <1>6 DEF LoadDriver
  <2>2. QED  BY <2>1 DEF PCRank
<1>7. CASE CreateNamespace
  <2>1. pc = "CreateNamespace" /\ pc' \in {"RemoveRBAC", "Done"}
    BY <1>7 DEF CreateNamespace
  <2>2. QED  BY <2>1 DEF PCRank
<1>8. CASE RemoveRBAC
  <2>1. pc = "RemoveRBAC" /\ pc' \in {"CreateRBAC", "Done"}
    BY <1>8 DEF RemoveRBAC
  <2>2. QED  BY <2>1 DEF PCRank
<1>9. CASE CreateRBAC
  <2>1. pc = "CreateRBAC" /\ pc' \in {"CreatePVC", "Done"}
    BY <1>9 DEF CreateRBAC
  <2>2. QED  BY <2>1 DEF PCRank
<1>10. CASE CreatePVC
  <2>1. pc = "CreatePVC" /\ pc' \in {"AddVolume", "Done"}
    BY <1>10 DEF CreatePVC
  <2>2. QED  BY <2>1 DEF PCRank
<1>11. CASE AddVolume
  <2>1. pc = "AddVolume" /\ pc' \in {"WaitPVCBound", "CreatePV", "Done"}
    BY <1>11 DEF AddVolume
  <2>2. QED  BY <2>1 DEF PCRank
<1>12. CASE CreatePV
  <2>1. pc = "CreatePV" /\ pc' \in {"WaitPVCBound", "Done"}
    BY <1>12 DEF CreatePV, CreatePVObject
  <2>2. QED  BY <2>1 DEF PCRank
<1>13. CASE CreateDeployment
  <2>1. pc = "CreateDeployment" /\ pc' \in {"WaitPod", "Done"}
    BY <1>13 DEF CreateDeployment, CreateWorkload
  <2>2. QED  BY <2>1 DEF PCRank
<1>14. CASE CreateService
  <2>1. pc = "CreateService" /\ pc' \in {"CreateStatefulSet", "Done"}
    BY <1>14 DEF CreateService, CreateWorkload
  <2>2. QED  BY <2>1 DEF PCRank
<1>15. CASE CreateStatefulSet
  <2>1. pc = "CreateStatefulSet" /\ pc' \in {"CreateDaemonSet", "Done"}
    BY <1>15 DEF CreateStatefulSet, CreateWorkload
  <2>2. QED  BY <2>1 DEF PCRank
<1>16. CASE CreateDaemonSet
  <2>1. pc = "CreateDaemonSet" /\ pc' \in {"WaitPod", "Done"}
    BY <1>16 DEF CreateDaemonSet, CreateWorkload
  <2>2. QED  BY <2>1 DEF PCRank
<1>17. CASE WaitPVCBound
  <2>1. /\ pc = "WaitPVCBound"
        /\ \/ pc' \in {"CreateDeployment", "CreateService", "Done"}
           \/ pc' = pc /\ polls < MaxPolls /\ polls' = polls + 1
    BY <1>17 DEF WaitPVCBound, Retry, FirstWorkload
  <2>2. QED  BY <2>1 DEF PCRank, TypeOK
<1>18. CASE WaitPod
  <2>1. /\ pc = "WaitPod"
        /\ \/ pc' \in {"WaitREST", "Done"}
           \/ pc' = pc /\ polls < MaxPolls /\ polls' = polls + 1
    BY <1>18 DEF WaitPod, Retry
  <2>2. QED  BY <2>1 DEF PCRank, TypeOK
<1>19. CASE WaitREST
  <2>1. /\ pc = "WaitREST"
        /\ \/ pc' \in {"Done"}
           \/ pc' = pc /\ polls < MaxPolls /\ polls' = polls + 1
    BY <1>19 DEF WaitREST, Retry
  <2>2. QED  BY <2>1 DEF PCRank, TypeOK
<1>20. QED
  BY Zenon, <1>1, <1>2, <1>3, <1>4, <1>5, <1>6, <1>7, <1>8, <1>9, <1>10,
     <1>11, <1>12, <1>13, <1>14, <1>15, <1>16, <1>17, <1>18, <1>19 DEF
     InstallerStep

\* No step of installTrident goes back in the code or retries beyond its
\* budget, for every value of the constants (InstallerProgress): the
\* backoff loops of checkPVCBound, waitForTridentPod and
\* waitForRESTInterface each take at most MaxPolls + 1 attempts.
THEOREM BoundedRun == Spec => InstallerProgress
<1>1. TypeOK /\ [Next]_vars
        => [InstallerStep =>
              \/ PCRank(pc') < PCRank(pc)
              \/ pc' = pc /\ polls < polls' /\ polls' <= MaxPolls]_vars
  BY ProgressStep
<1>2. QED
  BY <1>1, TypeCorrect, PTL DEF Spec, InstallerProgress

=============================================================================
