----------------------------- MODULE MCPlanPath -----------------------------
(* Small instances of PlanPath for TLC. *)
EXTENDS PlanPath, TLC

CONSTANTS early, late, tap, again

\* How much of each kind of event a run allows.
AtMost(n, kinds) == [e \in Events |-> IF e \in kinds THEN n ELSE 0]

AllBudget    == AtMost(1, Events)
AutoBudget   == AtMost(2, {"day"})
HiccupBudget == AtMost(1, {"confirm", "plan_error"})

=============================================================================
