------------------------------ MODULE InstallRun ------------------------------
(***************************************************************************)
(* What one run of `tridentctl install' promises, without the steps: the  *)
(* control flow of spec section 2 and the error taxonomy of section 7.    *)
(*                                                                         *)
(* A run first checks (read-only), then, unless it is a dry run, mutates, *)
(* and ends with an outcome.  The outcomes that only the checks produce   *)
(* are never reported after a mutation, and a dry run never mutates.     *)
(* Nothing is rolled back: `changed' is cleared only when the operator    *)
(* starts a new run.                                                       *)
(***************************************************************************)

VARIABLES
    phase,    \* "check", "mutate" or "done"
    changed,  \* whether this run has changed the cluster or the backend
    outcome,  \* the error kind the run returned, "None" while it runs
    dryRun    \* the --dry-run flag of the run

avars == <<phase, changed, outcome, dryRun>>

Phases == {"check", "mutate", "done"}

\* Outcomes decided by the read-only checks (spec 4.1, 7).
CheckOutcomes ==
    {"DryRun", "ConfigError", "AlreadyInstalled", "Incompatible", "APIError"}

\* Outcomes of a run that has begun to mutate.
MutateOutcomes ==
    {"OK", "APIError", "CleanupError", "InvalidYAML", "NoPools", "CHAPVersion",
     "UnknownVolume", "PVCTimeout", "PodTimeout", "RESTTimeout"}

TypeOK ==
    /\ phase \in Phases /\ changed \in BOOLEAN
    /\ outcome \in CheckOutcomes \cup MutateOutcomes \cup {"None"}
    /\ dryRun \in BOOLEAN

Init ==
    phase = "check" /\ ~changed /\ outcome = "None" /\ dryRun \in BOOLEAN

\* A check ends the run; only a dry run reports "DryRun".
Decide(o) ==
    /\ phase = "check" /\ o \in CheckOutcomes /\ (o = "DryRun" => dryRun)
    /\ phase' = "done" /\ outcome' = o
    /\ UNCHANGED <<changed, dryRun>>

\* The checks passed and this is not a dry run.
BeginMutation ==
    /\ phase = "check" /\ ~dryRun /\ phase' = "mutate"
    /\ UNCHANGED <<changed, outcome, dryRun>>

\* A create or delete call changes the cluster or the backend.
Mutate ==
    /\ phase = "mutate" /\ changed' = TRUE
    /\ UNCHANGED <<phase, outcome, dryRun>>

\* The run ends during mutation; the last call may itself have changed
\* something before failing.
Conclude(o) ==
    /\ phase = "mutate" /\ o \in MutateOutcomes
    /\ phase' = "done" /\ outcome' = o /\ changed' \in {changed, TRUE}
    /\ UNCHANGED dryRun

\* The operator runs the command again with the same flags.
Restart ==
    /\ phase = "done" /\ phase' = "check" /\ changed' = FALSE
    /\ outcome' = "None" /\ UNCHANGED dryRun

Progress ==
    \/ \E o \in CheckOutcomes : Decide(o)
    \/ BeginMutation
    \/ \E o \in MutateOutcomes : Conclude(o)

Next == Progress \/ Mutate \/ Restart

\* Every run ends; nothing forces the operator to start another one.
Spec == Init /\ [][Next]_avars /\ WF_avars(Progress)

\* While a run is checking, it has changed nothing.
ChecksReadOnly == phase = "check" => ~changed

=============================================================================
