--------------------------- MODULE PlanPath_proofs ---------------------------
(***************************************************************************)
(* Safety of the month's path for every set of dates, every number of      *)
(* approval requests, attempts and events: the type invariant, the single  *)
(* announcement and the single plan of a confirmation.                     *)
(***************************************************************************)
EXTENDS PlanPath, TLAPS

USE DEF cycleVars, postVars, plannerVars, queueVars, autoVars, pathVars, envVars

-----------------------------------------------------------------------------
(* The type invariant. *)

\* A move of the status is counted and stays within the statuses.
LEMMA MoveTypes ==
  ASSUME TypeOK, NEW to \in Statuses, MovesTo(to)
  PROVE  status' \in Statuses /\ priorStatus' \in Statuses \cup {"none"} /\ confirmed' \in Nat
  BY DEF TypeOK, MovesTo

\* An event is counted within its bound.
LEMMA SpendTypes ==
  ASSUME TypeOK, NEW e \in Events, Spend(e)
  PROVE  used' \in [Events -> Nat] /\ events' \in 0..MaxEvents
  BY PathAssumption DEF PathAssumption, TypeOK, Spend

LEMMA AddTypes ==
  ASSUME TypeOK, AddPlanning
  PROVE  /\ job' \in {"absent", "waiting", "active", "completed", "failed"}
         /\ attempts' \in 0..(MaxAttempts - 1)
  BY PathAssumption DEF PathAssumption, TypeOK, AddPlanning

\* However an attempt ends, its counter stays below the number of attempts.
LEMMA EndTypes ==
  ASSUME TypeOK, Fails \/ (Finishes /\ UNCHANGED <<status, priorStatus, confirmed>>)
  PROVE  /\ status' \in Statuses /\ priorStatus' \in Statuses \cup {"none"} /\ confirmed' \in Nat
         /\ job' \in {"absent", "waiting", "active", "completed", "failed"}
         /\ attempts' \in 0..(MaxAttempts - 1)
         /\ planner' = "idle" /\ UNCHANGED <<removing, writing>>
<1>1. CASE Fails
  <2>1. MaxAttempts \in Nat \ {0} /\ attempts \in 0..(MaxAttempts - 1)
    BY PathAssumption DEF PathAssumption, TypeOK
  <2>2. attempts + 1 < MaxAttempts => attempts + 1 \in 0..(MaxAttempts - 1)
    BY <2>1
  <2> QED
    BY <1>1, <2>2, MoveTypes DEF Fails, TypeOK, Statuses
<1>2. CASE Finishes /\ UNCHANGED <<status, priorStatus, confirmed>>
  BY <1>2 DEF Finishes, TypeOK
<1> QED
  BY <1>1, <1>2

LEMMA InitTypes == Init => TypeOK
<1> SUFFICES ASSUME Init PROVE TypeOK
  OBVIOUS
<1>1. 0 \in 0..(MaxAttempts - 1) /\ 0 \in 0..MaxEvents
  BY PathAssumption DEF PathAssumption
<1>2. status \in Statuses /\ autoSaw \in Statuses
  BY DEF Init, Statuses, Prestart
<1>3. beat \in [Dates -> BeatStates] /\ row \in [Dates -> RowStates]
  BY DEF Init, BeatStates, RowStates
<1>4. used \in [Events -> Nat] /\ press \in [Presses -> {"idle", "stamp", "done"}]
  BY DEF Init
<1> QED
  BY <1>1, <1>2, <1>3, <1>4 DEF Init, TypeOK

\* The client, the generation and the request email.
LEMMA ClientTypes ==
  ASSUME TypeOK,
         \/ \E k \in Presses : PressCheck(k) \/ PressStamp(k)
         \/ \E d \in Dates : Generated(d) \/ Edited(d)
         \/ RequestSent
  PROVE  TypeOK'
<1>1. ASSUME NEW k \in Presses, PressCheck(k) \/ PressStamp(k) PROVE TypeOK'
  BY <1>1 DEF PressCheck, PressStamp, ApprovalWrites, TypeOK, BeatStates
<1>2. ASSUME NEW d \in Dates, Generated(d) \/ Edited(d) PROVE TypeOK'
  BY <1>2 DEF Generated, Edited, TypeOK, BeatStates, RowStates
<1>3. CASE RequestSent
  BY <1>3, MoveTypes DEF RequestSent, TypeOK, Statuses, Prestart
<1> QED
  BY <1>1, <1>2, <1>3

LEMMA AutoRunTypes ==
  ASSUME TypeOK, AutoRun
  PROVE  TypeOK'
<1>1. CASE AutoStart
  BY <1>1, SpendTypes DEF AutoStart, TypeOK, Events
<1>2. CASE AutoCount \/ AutoApprove \/ AutoStamp
  BY <1>2 DEF AutoCount, AutoApprove, AutoStamp, ApprovalWrites, TypeOK, BeatStates
<1>3. CASE AutoMove("first", "requested", "second")
           \/ AutoMove("second", "intake_confirmed", "enqueue")
  BY <1>3, MoveTypes DEF AutoMove, TypeOK, Statuses, Prestart
<1>4. CASE AutoEnqueue
  BY <1>4, AddTypes DEF AutoEnqueue, TypeOK
<1> QED
  BY <1>1, <1>2, <1>3, <1>4 DEF AutoRun

LEMMA OperatorTypes ==
  ASSUME TypeOK, ConfirmIntake \/ TriggerPlanning \/ ResetCycle \/ AdminCrash \/ OperatorGoesOn
  PROVE  TypeOK'
<1>1. CASE ConfirmIntake \/ ResetCycle \/ AdminCrash
  BY <1>1, SpendTypes DEF ConfirmIntake, ResetCycle, AdminCrash, TypeOK, Statuses, Prestart, Events
<1>2. CASE TriggerPlanning
  BY <1>2, SpendTypes DEF TriggerPlanning, PrepareSlot, TypeOK, Events
<1>3. CASE ConfirmPrepares
  BY <1>3 DEF ConfirmPrepares, PrepareSlot, TypeOK
<1>4. CASE TriggerForces
  BY <1>4 DEF TriggerForces, TypeOK, Statuses
<1>5. CASE AdminAdd
  BY <1>5, AddTypes DEF AdminAdd, TypeOK
<1> QED
  BY <1>1, <1>2, <1>3, <1>4, <1>5 DEF OperatorGoesOn

LEMMA PlannerTypes ==
  ASSUME TypeOK, Planner \/ PlannerThrows \/ PlannerNoLink \/ PlannerRefused
  PROVE  TypeOK'
<1>1. CASE PlannerThrows
  BY <1>1, SpendTypes, EndTypes DEF PlannerThrows, TypeOK, Events
<1>2. CASE PlannerNoLink \/ PlannerRefused
  BY <1>2, SpendTypes, EndTypes DEF PlannerNoLink, PlannerRefused, TypeOK, Events
<1>3. CASE PlannerStart \/ PlannerClaims
  BY <1>3 DEF PlannerStart, PlannerClaims, TypeOK
<1>4. CASE PlannerSends
  BY <1>4 DEF PlannerSends, TypeOK
<1>5. ASSUME NEW plan \in SUBSET Dates, PlannerMerges(plan) PROVE TypeOK'
  BY <1>5 DEF PlannerMerges, Replaced, TypeOK
<1>6. CASE PlannerWrites
  BY <1>6 DEF PlannerWrites, TypeOK, BeatStates, RowStates
<1>7. CASE PlannerLosesClaim
  BY <1>7, EndTypes, MoveTypes DEF PlannerLosesClaim, Finishes, TypeOK, Statuses
<1>8. ASSUME NEW at, NEW to \in Statuses, NEW next \in {"built", "claim", "idle"},
             PlannerMove(at, to, next)
      PROVE  TypeOK'
  <2>1. CASE ~Allowed(to)
    BY <1>8, <2>1, EndTypes DEF PlannerMove, TypeOK
  <2>2. CASE Allowed(to)
    BY <1>8, <2>2, MoveTypes DEF PlannerMove, Finishes, TypeOK
  <2> QED
    BY <2>1, <2>2
<1>9. {"planning", "workbook_built", "delivered"} \subseteq Statuses
  BY DEF Statuses
<1> QED
  BY <1>1, <1>2, <1>3, <1>4, <1>5, <1>6, <1>7, <1>8, <1>9 DEF Planner

LEMMA SettlementTypes ==
  ASSUME TypeOK, Settlement \/ SettleRefused \/ WorkerCrash
  PROVE  TypeOK'
<1>1. CASE SettleClaims \/ SettleReleases
  BY <1>1 DEF SettleClaims, SettleReleases, TypeOK
<1>2. CASE SettleSends
  BY <1>2 DEF SettleSends, TypeOK
<1>3. CASE SettleRefused
  BY <1>3, SpendTypes DEF SettleRefused, TypeOK, Events
<1>4. CASE WorkerCrash
  BY <1>4, SpendTypes DEF WorkerCrash, TypeOK, Events
<1> QED
  BY <1>1, <1>2, <1>3, <1>4 DEF Settlement

\* Every reachable state of the month's path is well typed: the planning job is not
\* counted past its last attempt, every status is one the machine knows.
THEOREM TypeCorrect == Spec => []TypeOK
<1>1. TypeOK /\ [Next]_vars => TypeOK'
  <2>1. ASSUME TypeOK, Next PROVE TypeOK'
    BY <2>1, ClientTypes, AutoRunTypes, OperatorTypes, PlannerTypes, SettlementTypes DEF Next
  <2>2. ASSUME TypeOK, UNCHANGED vars PROVE TypeOK'
    BY <2>2 DEF vars, TypeOK
  <2> QED
    BY <2>1, <2>2
<1> QED
  BY <1>1, InitTypes, PTL DEF Spec

-----------------------------------------------------------------------------
(* The single announcement.  The planning worker and the settlement take the *)
(* same claim; who has it keeps it until its send has been answered.          *)

PlannerHolds == planner = "send"
SettlerHolds == settler \in {"send", "release"}

\* The inductive invariant: a holder has the stamp set and nothing sent yet, there is
\* one holder, and a mail that is out leaves the stamp behind.
ClaimInv ==
  /\ mail <= 1
  /\ PlannerHolds \/ SettlerHolds => planReadySentAt /\ mail = 0
  /\ ~(PlannerHolds /\ SettlerHolds)
  /\ mail > 0 => planReadySentAt

\* The steps that leave the claim alone.
ClaimKept ==
  /\ UNCHANGED <<planReadySentAt, mail>>
  /\ (PlannerHolds' => PlannerHolds) /\ (SettlerHolds' => SettlerHolds)

LEMMA OthersKeepTheClaim ==
  ASSUME Next,
         ~(PlannerClaims \/ PlannerSends \/ SettleClaims \/ SettleSends \/ SettleReleases)
  PROVE  ClaimKept
<1> USE DEF ClaimKept, PlannerHolds, SettlerHolds
<1>1. CASE \/ \E k \in Presses : PressCheck(k) \/ PressStamp(k)
           \/ RequestSent
           \/ \E d \in Dates : Generated(d) \/ Edited(d)
  BY <1>1 DEF PressCheck, PressStamp, RequestSent, Generated, Edited
<1>2. CASE AutoRun
  BY <1>2 DEF AutoRun, AutoStart, AutoCount, AutoApprove, AutoStamp, AutoMove, AutoEnqueue
<1>3. CASE ConfirmIntake \/ TriggerPlanning \/ ResetCycle \/ AdminCrash \/ OperatorGoesOn
  BY <1>3 DEF ConfirmIntake, TriggerPlanning, ResetCycle, AdminCrash, OperatorGoesOn,
     ConfirmPrepares, TriggerForces, AdminAdd
<1>4. CASE PlannerThrows \/ PlannerNoLink \/ PlannerRefused
  BY <1>4 DEF PlannerThrows, PlannerNoLink, PlannerRefused, Fails, Finishes
<1>5. CASE Planner
  <2>1. CASE PlannerStart \/ PlannerWrites \/ PlannerLosesClaim
    BY <2>1 DEF PlannerStart, PlannerWrites, PlannerLosesClaim, Fails, Finishes
  <2>2. CASE \E plan \in (SUBSET Dates) \ {{}} : PlannerMerges(plan)
    BY <2>2 DEF PlannerMerges
  <2>3. CASE \/ PlannerMove("planning", "planning", "built")
             \/ PlannerMove("built", "workbook_built", "claim")
             \/ PlannerMove("deliver", "delivered", "idle")
    BY <2>3 DEF PlannerMove, Fails, Finishes
  <2> QED
    BY <1>5, <2>1, <2>2, <2>3 DEF Planner
<1>6. CASE SettleRefused \/ WorkerCrash
  BY <1>6 DEF SettleRefused, WorkerCrash
<1> QED
  BY <1>1, <1>2, <1>3, <1>4, <1>5, <1>6 DEF Next, Settlement

LEMMA ClaimInvHolds == Spec => []ClaimInv
<1> USE DEF ClaimInv, PlannerHolds, SettlerHolds
<1>1. Init => ClaimInv
  BY DEF Init
<1>2. TypeOK /\ ClaimInv /\ [Next]_vars => ClaimInv'
  <2>1. ASSUME TypeOK, ClaimInv, PlannerClaims \/ SettleClaims PROVE ClaimInv'
    BY <2>1 DEF PlannerClaims, SettleClaims, TypeOK
  <2>2. ASSUME TypeOK, ClaimInv, PlannerSends PROVE ClaimInv'
    BY <2>2 DEF PlannerSends, TypeOK
  <2>3. ASSUME TypeOK, ClaimInv, SettleSends PROVE ClaimInv'
    BY <2>3 DEF SettleSends, TypeOK
  <2>4. ASSUME TypeOK, ClaimInv, SettleReleases PROVE ClaimInv'
    BY <2>4 DEF SettleReleases, TypeOK
  <2>5. ASSUME ClaimInv, ClaimKept PROVE ClaimInv'
    BY <2>5 DEF ClaimKept
  <2>6. ASSUME ClaimInv, UNCHANGED vars PROVE ClaimInv'
    BY <2>6 DEF vars
  <2> QED
    BY <2>1, <2>2, <2>3, <2>4, <2>5, <2>6, OthersKeepTheClaim
<1> QED
  BY <1>1, <1>2, TypeCorrect, PTL DEF Spec

\* However often a month is reset, confirmed and planned again, whichever of the
\* planning worker and the settlement announces it, and whoever dies on the way: the
\* client is told once.
THEOREM AnnouncedOnceHolds == Spec => []AnnouncedOnce
<1>1. ClaimInv => AnnouncedOnce
  BY DEF ClaimInv, AnnouncedOnce
<1> QED
  BY <1>1, ClaimInvHolds, PTL

-----------------------------------------------------------------------------
(* One plan for a confirmation. *)

\* The plan that may still be written: by an attempt that has read the confirmed
\* status, or by the next one to read it.
Due == IF planner \in {"merge", "write"} THEN 1
       ELSE IF status = "intake_confirmed" /\ planner # "planning" THEN 1 ELSE 0

\* The inductive invariant: what is written and what is due never exceed what has been
\* confirmed, and only one attempt runs, the queue's active job.
PlanInv ==
  /\ plans + Due <= confirmed + used["crash"]
  /\ planner # "idle" => job = "active"

\* A step that leaves the attempt where it is, writes nothing and either keeps the
\* status or counts its confirmation.
PlanKept ==
  /\ UNCHANGED <<planner, plans>>
  /\ job = "active" => job' = "active"
  /\ used'["crash"] = used["crash"]
  /\ \/ confirmed' = confirmed /\ (status' = "intake_confirmed" => status = "intake_confirmed")
     \/ confirmed' = confirmed + 1

LEMMA KeptPlan ==
  ASSUME TypeOK, PlanInv, PlanKept
  PROVE  PlanInv'
  BY DEF PlanInv, PlanKept, Due, TypeOK, Events

LEMMA OthersKeepThePlan ==
  ASSUME TypeOK, Next,
         ~(Planner \/ PlannerThrows \/ PlannerNoLink \/ PlannerRefused \/ WorkerCrash)
  PROVE  PlanKept
<1> USE DEF PlanKept, TypeOK
<1>1. CASE \/ \E k \in Presses : PressCheck(k) \/ PressStamp(k)
           \/ \E d \in Dates : Generated(d) \/ Edited(d)
           \/ Settlement
  BY <1>1 DEF PressCheck, PressStamp, Generated, Edited, Settlement, SettleClaims,
     SettleSends, SettleReleases
<1>2. CASE RequestSent
  BY <1>2 DEF RequestSent, MovesTo
<1>3. CASE AutoStart \/ AutoCount \/ AutoApprove \/ AutoStamp \/ AutoEnqueue
  BY <1>3 DEF AutoStart, AutoCount, AutoApprove, AutoStamp, AutoEnqueue, AddPlanning,
     Spend, Events
<1>4. CASE AutoMove("first", "requested", "second")
           \/ AutoMove("second", "intake_confirmed", "enqueue")
  BY <1>4 DEF AutoMove, MovesTo
<1>5. CASE ConfirmIntake \/ TriggerPlanning \/ ResetCycle \/ AdminCrash \/ SettleRefused
  BY <1>5 DEF ConfirmIntake, TriggerPlanning, PrepareSlot, ResetCycle, AdminCrash,
     SettleRefused, Spend, Events
<1>6. CASE OperatorGoesOn
  BY <1>6 DEF OperatorGoesOn, ConfirmPrepares, PrepareSlot, TriggerForces, AdminAdd, AddPlanning
<1> QED
  BY <1>1, <1>2, <1>3, <1>4, <1>5, <1>6 DEF Next, AutoRun

\* An attempt that fails or finishes leaves nothing due that was not due before it
\* moved the status.
LEMMA PlannerKeepsPlanInv ==
  ASSUME TypeOK, PlanInv, Planner \/ PlannerThrows \/ PlannerNoLink \/ PlannerRefused
  PROVE  PlanInv'
<1> USE DEF PlanInv, Due, TypeOK, Events
<1>1. CASE PlannerStart
  BY <1>1 DEF PlannerStart
<1>2. CASE \E plan \in (SUBSET Dates) \ {{}} : PlannerMerges(plan)
  BY <1>2 DEF PlannerMerges
<1>3. CASE PlannerWrites
  BY <1>3 DEF PlannerWrites
<1>4. CASE PlannerThrows
  BY <1>4 DEF PlannerThrows, Fails, MovesTo, Allowed, Edges, Spend, Statuses, Prestart
<1>5. CASE PlannerMove("planning", "planning", "built")
  <2>1. status = "intake_confirmed" => Allowed("planning")
    BY DEF Allowed, Edges
  <2>2. status' # "intake_confirmed"
    BY <1>5, <2>1 DEF PlannerMove, MovesTo, Fails
  <2>3. plans' = plans /\ confirmed' = confirmed /\ used' = used
    BY <1>5 DEF PlannerMove, MovesTo, Fails
  <2>4. planner' \in {"built", "idle"} /\ (planner' = "built" => job' = job)
    BY <1>5 DEF PlannerMove, Fails
  <2> QED
    BY <1>5, <2>2, <2>3, <2>4 DEF PlannerMove
<1>6. CASE PlannerMove("built", "workbook_built", "claim")
  BY <1>6 DEF PlannerMove, MovesTo, Fails
<1>7. CASE PlannerMove("deliver", "delivered", "idle")
  BY <1>7 DEF PlannerMove, MovesTo, Fails, Finishes
<1>8. CASE PlannerLosesClaim
  BY <1>8 DEF PlannerLosesClaim, MovesTo, Fails, Finishes
<1>9. CASE PlannerClaims \/ PlannerSends
  BY <1>9 DEF PlannerClaims, PlannerSends
<1>10. CASE PlannerNoLink \/ PlannerRefused
  BY <1>10 DEF PlannerNoLink, PlannerRefused, Finishes, Spend
<1> QED
  BY <1>1, <1>2, <1>3, <1>4, <1>5, <1>6, <1>7, <1>8, <1>9, <1>10 DEF Planner

\* A retry, a stalled job or a second press does not plan a month again: each plan has
\* its own confirmation, or the worker's death to answer for it.
THEOREM OnePlanPerConfirmationHolds == Spec => []OnePlanPerConfirmation
<1>1. Init => PlanInv
  BY DEF Init, PlanInv, Due, Events
<1>2. TypeOK /\ PlanInv /\ [Next]_vars => PlanInv'
  <2>1. ASSUME TypeOK, PlanInv, Planner \/ PlannerThrows \/ PlannerNoLink \/ PlannerRefused
        PROVE  PlanInv'
    BY <2>1, PlannerKeepsPlanInv
  <2>2. ASSUME TypeOK, PlanInv, WorkerCrash PROVE PlanInv'
    BY <2>2 DEF WorkerCrash, PlanInv, Due, TypeOK, Spend, Events
  <2>3. ASSUME PlanInv, UNCHANGED vars PROVE PlanInv'
    BY <2>3 DEF vars, PlanInv, Due
  <2> QED
    BY <2>1, <2>2, <2>3, OthersKeepThePlan, KeptPlan
<1>3. TypeOK /\ PlanInv => OnePlanPerConfirmation
  BY DEF PlanInv, Due, OnePlanPerConfirmation, TypeOK, Events
<1> QED
  BY <1>1, <1>2, <1>3, TypeCorrect, PTL DEF Spec

=============================================================================
