---------------------------- MODULE MCPlanReady ----------------------------
(* Small instances of PlanReady for TLC. *)
EXTENDS PlanReady, TLC

CONSTANTS reel, carousel, single, tick, tock

FormatOf == (reel :> "reel") @@ (carousel :> "carousel") @@ (single :> "single")

MCFormat == [p \in Posts |-> FormatOf[p]]

\* How much of each kind of event a run allows.
Once(kinds) == [e \in Events |-> IF e \in kinds THEN 1 ELSE 0]

CalmBudget      == Once({})
RecoveryBudget  == Once({"worker_crash", "app_crash", "refused", "queue_error"})
EventsBudget    == Once(Events)
BrokenBudget    == Once({"early_throw"})
LostMailBudget  == Once({"read_error"})

=============================================================================
