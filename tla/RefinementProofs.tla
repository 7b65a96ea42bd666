--------------------------- MODULE RefinementProofs ---------------------------
(***************************************************************************)
(* Proof that every behaviour of Installer is, under the mapping Run of   *)
(* Installer.tla, a behaviour of the abstract run InstallRun: its initial *)
(* states map to initial states and each of its steps to a step of        *)
(* InstallRun or to a stutter.  Fairness (the WF conjunct of Run!Spec)    *)
(* stays with TLC (run precheck).                                          *)
(***************************************************************************)
EXTENDS InstallerProofs, TLAPS

USE ConstantsAssumption

\* What a step of installTrident at a read-only step does to the mapped
\* variables: it changes nothing, and it either moves to another check,
\* ends with a check outcome, or (not a dry run) goes on to CreateNamespace.
CheckStep ==
    /\ touched' = touched /\ req' = req
    /\ \/ pc' \in ReadOnlyPCs /\ result' = result
       \/ /\ pc' = "Done" /\ result'.kind \in Run!CheckOutcomes
          /\ result'.kind = "DryRun" => req.dryRun
       \/ pc' = "CreateNamespace" /\ ~req.dryRun /\ result' = result

\* What a step past the checks does: it only adds to what was touched,
\* never returns to a check, and ends, if it ends, with a mutation outcome.
MutStep ==
    /\ touched \subseteq touched' /\ req' = req /\ pc' \notin ReadOnlyPCs
    /\ pc' = "Done" => result'.kind \in Run!MutateOutcomes
    /\ pc' # "Done" => result' = result

-----------------------------------------------------------------------------
(* Simulation of the two phases.                                          *)

\* A check step is a stutter, a Decide or the BeginMutation of InstallRun.
LEMMA CheckSimulation ==
    ASSUME pc \in ReadOnlyPCs, touched = {}, CheckStep
    PROVE  [Run!Next]_Run!avars
<1> USE DEF CheckStep
<1>1. RunPhase = "check"
  BY DEF RunPhase
<1>2. CASE pc' \in ReadOnlyPCs /\ result' = result
  <2>1. RunPhase' = "check"
    BY <1>2 DEF RunPhase
  <2>2. QED
    BY <1>1, <1>2, <2>1 DEF Run!avars
<1>3. CASE /\ pc' = "Done" /\ result'.kind \in Run!CheckOutcomes
           /\ result'.kind = "DryRun" => req.dryRun
  <2>1. RunPhase' = "done"
    BY <1>3 DEF RunPhase, ReadOnlyPCs
  <2>2. Run!Decide(result'.kind)
    BY <1>1, <1>3, <2>1 DEF Run!Decide
  <2>3. QED
    BY <1>3, <2>2 DEF Run!Next, Run!Progress
<1>4. CASE pc' = "CreateNamespace" /\ ~req.dryRun /\ result' = result
  <2>1. RunPhase' = "mutate"
    BY <1>4 DEF RunPhase, ReadOnlyPCs
  <2>2. Run!BeginMutation
    BY <1>1, <1>4, <2>1 DEF Run!BeginMutation
  <2>3. QED
    BY <2>2 DEF Run!Next, Run!Progress
<1>5. QED
  BY <1>2, <1>3, <1>4

\* A mutation step is a stutter, a Mutate or a Conclude of InstallRun.
LEMMA MutationSimulation ==
    ASSUME pc \notin ReadOnlyPCs \cup {"Done"}, MutStep
    PROVE  [Run!Next]_Run!avars
<1> USE DEF MutStep
<1>1. RunPhase = "mutate"
  BY DEF RunPhase
<1>2. CASE pc' = "Done"
  <2>1. RunPhase' = "done"
    BY <1>2 DEF RunPhase, ReadOnlyPCs
  <2>2. (touched' # {}) \in {touched # {}, TRUE}
    OBVIOUS
  <2>3. Run!Conclude(result'.kind)
    BY <1>1, <1>2, <2>1, <2>2 DEF Run!Conclude
  <2>4. QED
    BY <1>2, <2>3 DEF Run!Next, Run!Progress
<1>3. CASE pc' # "Done" /\ touched' = touched
  <2>1. RunPhase' = "mutate"
    BY <1>3 DEF RunPhase
  <2>2. QED
    BY <1>1, <1>3, <2>1 DEF Run!avars
<1>4. CASE pc' # "Done" /\ touched' # touched
  <2>1. RunPhase' = "mutate"
    BY <1>4 DEF RunPhase
  <2>2. touched' # {}
    BY <1>4
  <2>3. Run!Mutate
    BY <1>1, <1>4, <2>1, <2>2 DEF Run!Mutate
  <2>4. QED
    BY <2>3 DEF Run!Next
<1>5. QED
  BY <1>2, <1>3, <1>4

-----------------------------------------------------------------------------
(* Every step of Installer simulates a step of InstallRun.                 *)

LEMMA StepSimulation == IInv /\ [Next]_vars => [Run!Next]_Run!avars
<1> SUFFICES ASSUME IInv, [Next]_vars PROVE [Run!Next]_Run!avars
  OBVIOUS
<1>a. pc \in ReadOnlyPCs => touched = {}
  BY DEF IInv, AbortInv
<1>b. pc \in PCs
  BY DEF IInv, TypeOK
<1>1. CASE ParseSize
  <2>1. pc \in ReadOnlyPCs /\ CheckStep
    BY <1>1 DEF ParseSize, CheckStep, Goto, Finish, ReadOnlyPCs,
      Run!CheckOutcomes, configVars, historyVars
  <2>2. QED
    BY <2>1, <1>a, CheckSimulation
<1>2. CASE CheckInstalled
  <2>1. pc \in ReadOnlyPCs /\ CheckStep
    BY <1>2 DEF CheckInstalled, CheckStep, Goto, Finish, ReadOnlyPCs,
      Run!CheckOutcomes, configVars, historyVars, TransportError, UseFault
  <2>2. QED
    BY <2>1, <1>a, CheckSimulation
<1>3. CASE CheckNamespace
  <2>1. pc \in ReadOnlyPCs /\ CheckStep
    BY <1>3 DEF CheckNamespace, CheckStep, Goto, Finish, ReadOnlyPCs,
      Run!CheckOutcomes, configVars, historyVars, TransportError, UseFault
  <2>2. QED
    BY <2>1, <1>a, CheckSimulation
<1>4. CASE CheckPVC
  <2>1. pc \in ReadOnlyPCs /\ CheckStep
    BY <1>4 DEF CheckPVC, CheckStep, Goto, Finish, ReadOnlyPCs,
      Run!CheckOutcomes, configVars, historyVars, TransportError, UseFault
  <2>2. QED
    BY <2>1, <1>a, CheckSimulation
<1>5. CASE CheckPV
  <2>1. pc \in ReadOnlyPCs /\ CheckStep
    BY <1>5 DEF CheckPV, CheckStep, Goto, Finish, ReadOnlyPCs,
      Run!CheckOutcomes, configVars, historyVars, TransportError, UseFault
  <2>2. QED
    BY <2>1, <1>a, CheckSimulation
<1>6. CASE LoadDriver
  <2>1. pc \in ReadOnlyPCs /\ CheckStep
    BY <1>6 DEF LoadDriver, CheckStep, Goto, Finish, ReadOnlyPCs,
      Run!CheckOutcomes, configVars, historyVars
  <2>2. QED
    BY <2>1, <1>a, CheckSimulation
<1>7. CASE CreateNamespace
  <2>1. MutStep
    BY <1>7, <1>b DEF CreateNamespace, MutStep, Goto, Finish, ReadOnlyPCs,
      Run!MutateOutcomes, TransportError, UseFault, Touch, configVars
  <2>2. QED
    BY <1>7, <2>1, MutationSimulation DEF CreateNamespace, ReadOnlyPCs
<1>8. CASE RemoveRBAC
  <2>1. MutStep
    BY <1>8, <1>b DEF RemoveRBAC, MutStep, Goto, Finish, ReadOnlyPCs,
      Run!MutateOutcomes, TransportError, UseFault, Touch, configVars
  <2>2. QED
    BY <1>8, <2>1, MutationSimulation DEF RemoveRBAC, ReadOnlyPCs
<1>9. CASE CreateRBAC
  <2>1. MutStep
    BY <1>9, <1>b DEF CreateRBAC, MutStep, Goto, Finish, ReadOnlyPCs,
      Run!MutateOutcomes, TransportError, UseFault, Touch, configVars
  <2>2. QED
    BY <1>9, <2>1, MutationSimulation DEF CreateRBAC, ReadOnlyPCs
<1>10. CASE CreatePVC
  <2>1. MutStep
    BY <1>10, <1>b DEF CreatePVC, MutStep, Goto, Finish, ReadOnlyPCs,
      Run!MutateOutcomes, TransportError, UseFault, Touch, configVars
  <2>2. QED
    BY <1>10, <2>1, MutationSimulation DEF CreatePVC, ReadOnlyPCs
<1>11. CASE AddVolume
  <2>1. MutStep
    BY <1>11, <1>b DEF AddVolume, MutStep, Goto, Finish, ReadOnlyPCs,
      Run!MutateOutcomes, TransportError, UseFault, Touch, configVars
  <2>2. QED
    BY <1>11, <2>1, MutationSimulation DEF AddVolume, ReadOnlyPCs
<1>12. CASE CreatePV
  <2>1. MutStep
    BY <1>12, <1>b DEF CreatePV, MutStep, Goto, Finish, ReadOnlyPCs,
      Run!MutateOutcomes, TransportError, UseFault, Touch, configVars,
      CreatePVObject, CreateCHAPSecret
  <2>2. QED
    BY <1>12, <2>1, MutationSimulation DEF CreatePV, ReadOnlyPCs
<1>13. CASE WaitPVCBound
  <2>1. MutStep
    BY <1>13, <1>b DEF WaitPVCBound, MutStep, Goto, Finish, ReadOnlyPCs,
      Run!MutateOutcomes, TransportError, UseFault, Touch, configVars, Retry,
      FirstWorkload, historyVars
  <2>2. QED
    BY <1>13, <2>1, MutationSimulation DEF WaitPVCBound, ReadOnlyPCs
<1>14. ASSUME NEW o, NEW step, NEW next \in PCs \ (ReadOnlyPCs \cup {"Done"}),
             step \notin ReadOnlyPCs \cup {"Done"}, CreateWorkload(o, step, next)
      PROVE  [Run!Next]_Run!avars
  <2>1. MutStep
    BY <1>14 DEF CreateWorkload, MutStep, Goto, Finish, ReadOnlyPCs,
      Run!MutateOutcomes, TransportError, UseFault, Touch, configVars
  <2>2. QED
    BY <1>14, <2>1, MutationSimulation DEF CreateWorkload
<1>15. CASE CreateDeployment \/ CreateService \/ CreateStatefulSet
              \/ CreateDaemonSet
  BY <1>15, <1>14
  DEF CreateDeployment, CreateService, CreateStatefulSet, CreateDaemonSet,
      PCs, ReadOnlyPCs
<1>16. CASE WaitPod
  <2>1. MutStep
    BY <1>16, <1>b DEF WaitPod, MutStep, Goto, Finish, ReadOnlyPCs,
      Run!MutateOutcomes, TransportError, UseFault, Touch, configVars, Retry,
      historyVars
  <2>2. QED
    BY <1>16, <2>1, MutationSimulation DEF WaitPod, ReadOnlyPCs
<1>17. CASE WaitREST
  <2>1. MutStep
    BY <1>17, <1>b DEF WaitREST, MutStep, Goto, Finish, ReadOnlyPCs,
      Run!MutateOutcomes, TransportError, UseFault, Touch, configVars, Retry,
      historyVars
  <2>2. QED
    BY <1>17, <2>1, MutationSimulation DEF WaitREST, ReadOnlyPCs
<1>18. CASE Environment
  <2>1. UNCHANGED <<pc, result, touched, req>>
    BY <1>18 DEF Environment, BindPVC, PodStarts, PodServes, installerVars,
                 configVars, historyVars
  <2>2. QED
    BY <2>1 DEF Run!avars, RunPhase
<1>19. CASE Rerun
  <2>1. Run!Restart
    BY <1>19 DEF Rerun, Run!Restart, RunPhase, ReadOnlyPCs, NoResult,
                 configVars
  <2>2. QED
    BY <2>1 DEF Run!Next
<1>20. CASE UNCHANGED vars
  BY <1>20 DEF vars, installerVars, configVars, historyVars, Run!avars,
               RunPhase
<1>21. QED
  BY <1>1, <1>2, <1>3, <1>4, <1>5, <1>6, <1>7, <1>8, <1>9, <1>10, <1>11,
     <1>12, <1>13, <1>15, <1>16, <1>17, <1>18, <1>19, <1>20
  DEF Next, InstallerStep

\* The installer implements the abstract run (the safety part of
\* RunRefinement, checked with its fairness by the precheck run): its
\* pre-checks change nothing, a dry run never mutates, the
\* check outcomes are never reported after a mutation, and nothing is
\* undone within a run, whatever the constants.
THEOREM Refinement == Spec => Run!Init /\ [][Run!Next]_Run!avars
<1>1. Init => Run!Init
  BY DEF Init, Run!Init, RunPhase, ReadOnlyPCs, NoResult, RequestRecs
<1>2. QED
  BY <1>1, IInvInvariant, StepSimulation, PTL DEF Spec

=============================================================================
