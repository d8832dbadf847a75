------------------------------ MODULE PlanPath ------------------------------
(***************************************************************************)
(* How one month gets its posts: a draft the client or the cutoff approves, *)
(* or a whole plan the planning worker writes.                              *)
(*                                                                         *)
(* Six actors share the cycle row, its posts and one planning job id: the   *)
(* client's approval requests, the daily auto-run, the operator's buttons,  *)
(* the planning worker, the generation of approved posts and the            *)
(* settlement that announces them.  Each reads, awaits and then writes, so  *)
(* every actor has a step for each await that another actor can fall into.  *)
(***************************************************************************)
EXTENDS Naturals, FiniteSets

CONSTANTS
  Dates,         \* the dates of the month a post can stand on
  Presses,       \* concurrent approval requests of the client
  MaxAttempts,   \* PLANNING_JOB_OPTIONS.attempts (3 in the code)
  Budget,        \* bound on each kind of event of the environment
  MaxEvents      \* bound on all of them together

\* The daily auto-run, the operator's confirm, run-planning and reset buttons, an
\* error of the planner, a refused send, a missing app link, the worker's death and
\* the operator's dying between two awaits.
Events == {"day", "confirm", "rerun", "reset", "plan_error", "refused", "no_link",
           "crash", "admin_crash"}

ASSUME PathAssumption ==
  /\ MaxAttempts \in Nat \ {0}
  /\ Budget \in [Events -> Nat]
  /\ MaxEvents \in Nat

VARIABLES
  status,           \* content_cycles.status
  priorStatus,      \* content_cycles.prior_status, "none" when null
  approvedBy,       \* content_cycles.approved_by, "none" while approved_at is null
  planReadySentAt,  \* content_cycles.plan_ready_sent_at IS NOT NULL
  beat,             \* the draft's row on a date
  row,              \* the planner's row on a date
  job,              \* state of planning_<cycle> in the queue
  attempts,         \* its attemptsMade
  planner,          \* where the planning attempt stands
  removing,         \* the beats and rows its merge has decided to delete
  writing,          \* the dates its merge has decided to insert
  auto,             \* where the auto-run stands
  autoSaw,          \* the status it read
  press,            \* where each approval request stands
  admin,            \* the operator's action between its write and its enqueue
  settler,          \* where the settlement stands
  mail,             \* plan-ready emails that reached the transport
  plans,            \* history: merges written
  confirmed,        \* history: times the status became intake_confirmed
  used, events      \* how much of Budget and MaxEvents is spent

cycleVars   == <<status, priorStatus, approvedBy, planReadySentAt>>
postVars    == <<beat, row>>
plannerVars == <<planner, removing, writing>>
queueVars   == <<job, attempts>>
autoVars    == <<auto, autoSaw>>
pathVars    == <<plans, confirmed>>
envVars     == <<used, events>>
vars == <<cycleVars, postVars, plannerVars, queueVars, autoVars, press, admin,
          settler, mail, pathVars, envVars>>

\* The statuses from creation to delivery, and failed.  What follows delivery is the
\* voice arc, which nothing here writes.
Prestart == {"scheduled", "requested", "reply_received", "awaiting_confirmation"}
Statuses == Prestart \cup {"intake_confirmed", "planning", "workbook_built",
                           "delivered", "failed"}

PrePlanning == Prestart \cup {"intake_confirmed"}

\* machine.ts, ALLOWED, up to delivery.
Edges ==
  {<<"scheduled", "requested">>, <<"requested", "reply_received">>,
   <<"requested", "intake_confirmed">>, <<"reply_received", "awaiting_confirmation">>,
   <<"reply_received", "intake_confirmed">>, <<"awaiting_confirmation", "intake_confirmed">>,
   <<"intake_confirmed", "planning">>, <<"planning", "workbook_built">>,
   <<"workbook_built", "delivered">>}
  \cup {<<s, "failed">> : s \in Statuses \ {"failed"}}

BeatStates == {"none", "draft", "generating", "generation_failed", "new"}
RowStates  == {"none", "planned", "new"}

TypeOK ==
  /\ status \in Statuses /\ priorStatus \in Statuses \cup {"none"}
  /\ approvedBy \in {"none", "client", "auto"} /\ planReadySentAt \in BOOLEAN
  /\ beat \in [Dates -> BeatStates] /\ row \in [Dates -> RowStates]
  /\ job \in {"absent", "waiting", "active", "completed", "failed"}
  /\ attempts \in 0..(MaxAttempts - 1)
  /\ planner \in {"idle", "merge", "write", "planning", "built", "claim", "send", "deliver"}
  /\ removing \subseteq {"beat", "row"} \X Dates /\ writing \subseteq Dates
  /\ auto \in {"idle", "count", "approve", "stamp", "first", "second", "enqueue"}
  /\ autoSaw \in Statuses
  /\ press \in [Presses -> {"idle", "stamp", "done"}]
  /\ admin \in {"idle", "prepare", "force", "add"}
  /\ settler \in {"idle", "send", "release"}
  /\ mail \in Nat /\ plans \in Nat /\ confirmed \in Nat
  /\ used \in [Events -> Nat] /\ events \in 0..MaxEvents

\* A month whose trawl is done, with or without an assembled draft.
Init ==
  /\ status \in {"scheduled", "requested", "reply_received"} /\ priorStatus = "none"
  /\ approvedBy = "none" /\ planReadySentAt = FALSE
  /\ beat \in [Dates -> {"none", "draft"}] /\ row = [d \in Dates |-> "none"]
  /\ job = "absent" /\ attempts = 0
  /\ planner = "idle" /\ removing = {} /\ writing = {}
  /\ auto = "idle" /\ autoSaw = "scheduled"
  /\ press = [k \in Presses |-> "idle"] /\ admin = "idle" /\ settler = "idle"
  /\ mail = 0 /\ plans = 0 /\ confirmed = 0
  /\ used = [e \in Events |-> 0] /\ events = 0

Spend(e) ==
  /\ used[e] < Budget[e] /\ events < MaxEvents
  /\ used' = [used EXCEPT ![e] = @ + 1]
  /\ events' = events + 1

Drafts    == {d \in Dates : beat[d] = "draft"}
Committed == {d \in Dates : beat[d] \notin {"none", "draft"} \/ row[d] # "none"}

-----------------------------------------------------------------------------
(* transitionCycle.  Its read and its write are one step here. *)

Allowed(to) ==
  \/ <<status, to>> \in Edges
  \/ status = "failed" /\ priorStatus # "none" /\ to = priorStatus

MovesTo(to) ==
  /\ status' = to
  /\ priorStatus' = IF to = "failed" THEN status
                    ELSE IF status = "failed" THEN "none" ELSE priorStatus
  /\ confirmed' = IF to = "intake_confirmed" THEN confirmed + 1 ELSE confirmed

\* queue.add with the fixed id, kept for good once the job is done: the planning
\* options remove nothing.
AddPlanning ==
  IF job = "absent" THEN job' = "waiting" /\ attempts' = 0
                    ELSE UNCHANGED queueVars

-----------------------------------------------------------------------------
(* Approval. *)

\* approveDraftCore's reads; only the client is bound by the cutoff.
ApprovalReads(by) ==
  /\ approvedBy = "none"
  /\ by = "auto" \/ status \in PrePlanning
  /\ Drafts # {} /\ Committed = {}

\* Its transaction: the draft status is checked again, the approval is not.
ApprovalWrites(by) ==
  /\ beat' = [d \in Dates |-> IF beat[d] = "draft" THEN "generating" ELSE beat[d]]
  /\ approvedBy' = by

PressCheck(k) ==
  /\ press[k] = "idle"
  /\ press' = [press EXCEPT ![k] = IF ApprovalReads("client") THEN "stamp" ELSE "done"]
  /\ UNCHANGED <<cycleVars, postVars, plannerVars, queueVars, autoVars, admin,
                 settler, mail, pathVars, envVars>>

PressStamp(k) ==
  /\ press[k] = "stamp"
  /\ ApprovalWrites("client")
  /\ press' = [press EXCEPT ![k] = "done"]
  /\ UNCHANGED <<status, priorStatus, planReadySentAt, row, plannerVars, queueVars,
                 autoVars, admin, settler, mail, pathVars, envVars>>

-----------------------------------------------------------------------------
(* The auto-run of the daily tick, from the cutoff day on. *)

AutoStart ==
  /\ auto = "idle" /\ status \in Prestart
  /\ Spend("day")
  /\ auto' = "count" /\ autoSaw' = status
  /\ UNCHANGED <<cycleVars, postVars, plannerVars, queueVars, press, admin, settler,
                 mail, pathVars>>

\* A month with drafts is approved, one without is planned.
AutoCount ==
  /\ auto = "count"
  /\ auto' = IF Drafts # {} THEN "approve"
             ELSE IF autoSaw = "scheduled" THEN "first" ELSE "second"
  /\ UNCHANGED <<cycleVars, postVars, plannerVars, queueVars, autoSaw, press, admin,
                 settler, mail, pathVars, envVars>>

AutoApprove ==
  /\ auto = "approve"
  /\ auto' = IF ApprovalReads("auto") THEN "stamp" ELSE "idle"
  /\ UNCHANGED <<cycleVars, postVars, plannerVars, queueVars, autoSaw, press, admin,
                 settler, mail, pathVars, envVars>>

AutoStamp ==
  /\ auto = "stamp"
  /\ ApprovalWrites("auto")
  /\ auto' = "idle"
  /\ UNCHANGED <<status, priorStatus, planReadySentAt, row, plannerVars, queueVars,
                 autoSaw, press, admin, settler, mail, pathVars, envVars>>

\* The edges planned from the status read at the start; an illegal one ends the run.
AutoMove(at, to, next) ==
  /\ auto = at
  /\ IF Allowed(to) THEN MovesTo(to) /\ auto' = next
                    ELSE UNCHANGED <<status, priorStatus, confirmed>> /\ auto' = "idle"
  /\ UNCHANGED <<approvedBy, planReadySentAt, postVars, plannerVars, queueVars, autoSaw,
                 press, admin, settler, mail, plans, envVars>>

AutoEnqueue ==
  /\ auto = "enqueue"
  /\ AddPlanning
  /\ auto' = "idle"
  /\ UNCHANGED <<cycleVars, postVars, plannerVars, autoSaw, press, admin, settler, mail,
                 pathVars, envVars>>

AutoRun == \/ AutoStart \/ AutoCount \/ AutoApprove \/ AutoStamp
           \/ AutoMove("first", "requested", "second")
           \/ AutoMove("second", "intake_confirmed", "enqueue")
           \/ AutoEnqueue

-----------------------------------------------------------------------------
(* The request email, the reply and the operator. *)

RequestSent ==
  /\ status = "scheduled"
  /\ MovesTo("requested")
  /\ UNCHANGED <<approvedBy, planReadySentAt, postVars, plannerVars, queueVars, autoVars,
                 press, admin, settler, mail, plans, envVars>>

\* confirmIntake: a raw write, then enqueuePlanning.
ConfirmIntake ==
  /\ admin = "idle" /\ status \in Prestart
  /\ Spend("confirm")
  /\ status' = "intake_confirmed" /\ confirmed' = confirmed + 1
  /\ admin' = "prepare"
  /\ UNCHANGED <<priorStatus, approvedBy, planReadySentAt, postVars, plannerVars,
                 queueVars, autoVars, press, settler, mail, plans>>

PrepareSlotKeepsId(next) ==   \* mutant: a finished id is not cleared
  /\ UNCHANGED job
  /\ admin' = IF job = "active" THEN "idle" ELSE next

\* prepareJobSlot: an active job is left alone, a finished id is cleared.
PrepareSlot(next) ==
  /\ job' = IF job \in {"completed", "failed"} THEN "absent" ELSE job
  /\ admin' = IF job = "active" THEN "idle" ELSE next

ConfirmPrepares ==
  /\ admin = "prepare"
  /\ PrepareSlot("add")
  /\ UNCHANGED <<cycleVars, postVars, attempts, plannerVars, autoVars, press, settler,
                 mail, pathVars, envVars>>

\* triggerPlanning: the slot first, then a status that was not intake_confirmed when it
\* was read is forced, then the add.
TriggerPlanning ==
  /\ admin = "idle"
  /\ Spend("rerun")
  /\ PrepareSlot(IF status = "intake_confirmed" THEN "add" ELSE "force")
  /\ UNCHANGED <<cycleVars, postVars, attempts, plannerVars, autoVars, press, settler,
                 mail, pathVars>>

TriggerForces ==
  /\ admin = "force"
  /\ status' = "intake_confirmed"
  /\ confirmed' = IF status = "intake_confirmed" THEN confirmed ELSE confirmed + 1
  /\ admin' = "add"
  /\ UNCHANGED <<priorStatus, approvedBy, planReadySentAt, postVars, queueVars,
                 plannerVars, autoVars, press, settler, mail, plans, envVars>>

AdminAdd ==
  /\ admin = "add"
  /\ AddPlanning
  /\ admin' = "idle"
  /\ UNCHANGED <<cycleVars, postVars, plannerVars, autoVars, press, settler, mail,
                 pathVars, envVars>>

\* The reset button: the status only.
ResetCycle ==
  /\ admin = "idle" /\ status # "scheduled"
  /\ Spend("reset")
  /\ status' = "scheduled"
  /\ UNCHANGED <<priorStatus, approvedBy, planReadySentAt, postVars, plannerVars,
                 queueVars, autoVars, press, admin, settler, mail, pathVars>>

AdminCrash ==
  /\ admin # "idle"
  /\ Spend("admin_crash")
  /\ admin' = "idle"
  /\ UNCHANGED <<cycleVars, postVars, plannerVars, queueVars, autoVars, press, settler,
                 mail, pathVars>>

OperatorGoesOn == ConfirmPrepares \/ TriggerForces \/ AdminAdd

-----------------------------------------------------------------------------
(* runPlanningForCycle, run by the worker. *)

PlannerStartAnyway ==   \* mutant: the status is not looked at
  /\ job = "waiting"
  /\ job' = "active" /\ planner' = "merge"
  /\ UNCHANGED <<cycleVars, postVars, attempts, removing, writing, autoVars, press, admin,
                 settler, mail, pathVars, envVars>>

PlannerStart ==
  /\ job = "waiting"
  /\ IF status = "intake_confirmed" THEN job' = "active" /\ planner' = "merge"
                                    ELSE job' = "completed" /\ UNCHANGED planner
  /\ UNCHANGED <<cycleVars, postVars, attempts, removing, writing, autoVars, press, admin,
                 settler, mail, pathVars, envVars>>

FailsOneMore ==   \* mutant: one attempt too many
  /\ IF Allowed("failed") THEN MovesTo("failed")
                          ELSE UNCHANGED <<status, priorStatus, confirmed>>
  /\ planner' = "idle"
  /\ IF attempts < MaxAttempts THEN job' = "waiting" /\ attempts' = attempts + 1
                               ELSE job' = "failed" /\ UNCHANGED attempts
  /\ UNCHANGED <<removing, writing>>

\* Its catch moves the cycle to failed when it can and lets BullMQ retry.
Fails ==
  /\ IF Allowed("failed") THEN MovesTo("failed")
                          ELSE UNCHANGED <<status, priorStatus, confirmed>>
  /\ planner' = "idle"
  /\ IF attempts + 1 < MaxAttempts THEN job' = "waiting" /\ attempts' = attempts + 1
                                   ELSE job' = "failed" /\ UNCHANGED attempts
  /\ UNCHANGED <<removing, writing>>

Finishes == planner' = "idle" /\ job' = "completed" /\ UNCHANGED <<attempts, removing, writing>>

\* An attempt takes minutes, and 15 seconds pass before its retry: a button press that
\* found the slot free, or an auto-run that was moving the cycle, when the attempt
\* began is over when it ends.
NobodyMidway ==
  admin \notin {"force", "add"} /\ auto \notin {"count", "first", "second", "enqueue"}

\* The brief, the model, the catalogue or the read of the posts throws.
PlannerThrows ==
  /\ planner = "merge" /\ NobodyMidway
  /\ Spend("plan_error")
  /\ Fails
  /\ UNCHANGED <<approvedBy, planReadySentAt, postVars, autoVars, press, admin, settler,
                 mail, plans>>

\* The rows the merge reads: every post that is not a draft.  Client work, a written or
\* edited post, is protected; the rest makes room for the plan.
Protected == {d \in Dates : beat[d] = "new" \/ row[d] = "new"}
Replaced  == {<<"beat", d>> : d \in {e \in Dates : beat[e] \in {"generating", "generation_failed"}}}
             \cup {<<"row", d>> : d \in {e \in Dates : row[e] = "planned"}}

\* mergePlan and dropCollidingInserts over the plan the model has written.  A plan
\* with no date left to write is refused, and the attempt goes on without it.
PlannerMerges(plan) ==
  /\ planner = "merge" /\ NobodyMidway
  /\ removing' = Replaced /\ writing' = plan \ Protected
  /\ planner' = IF plan \subseteq Protected THEN "planning" ELSE "write"
  /\ UNCHANGED <<cycleVars, postVars, queueVars, autoVars, press, admin, settler, mail,
                 pathVars, envVars>>

\* The transaction deletes and inserts what was decided, whatever the rows say now.
PlannerWrites ==
  /\ planner = "write"
  /\ beat' = [d \in Dates |-> IF <<"beat", d>> \in removing THEN "none" ELSE beat[d]]
  /\ row' = [d \in Dates |-> IF d \in writing THEN "planned"
                             ELSE IF <<"row", d>> \in removing THEN "none" ELSE row[d]]
  /\ plans' = plans + 1
  /\ planner' = "planning"
  /\ UNCHANGED <<cycleVars, queueVars, removing, writing, autoVars, press, admin, settler,
                 mail, confirmed, envVars>>

\* planning, workbook_built and, after the email, delivered; an illegal move throws.
PlannerMove(at, to, next) ==
  /\ planner = at
  /\ IF Allowed(to)
       THEN /\ MovesTo(to)
            /\ IF next = "idle" THEN Finishes
                                ELSE planner' = next /\ UNCHANGED <<queueVars, removing, writing>>
       ELSE Fails
  /\ UNCHANGED <<approvedBy, planReadySentAt, postVars, autoVars, press, admin, settler,
                 mail, plans, envVars>>

PlannerNoLink ==
  /\ planner = "claim"
  /\ Spend("no_link")
  /\ Finishes
  /\ UNCHANGED <<cycleVars, postVars, autoVars, press, admin, settler, mail, pathVars>>

PlannerClaimsByReading ==   \* mutant: the send is decided by reading the column
  /\ planner = "claim" /\ ~planReadySentAt
  /\ planner' = "send"
  /\ UNCHANGED <<cycleVars, postVars, queueVars, removing, writing, autoVars, press, admin,
                 settler, mail, pathVars, envVars>>

PlannerClaims ==
  /\ planner = "claim" /\ ~planReadySentAt
  /\ planReadySentAt' = TRUE
  /\ planner' = "send"
  /\ UNCHANGED <<status, priorStatus, approvedBy, postVars, queueVars, removing, writing,
                 autoVars, press, admin, settler, mail, pathVars, envVars>>

\* A lost claim reads as a month already announced, and delivery is recorded again.
PlannerLosesClaim ==
  /\ planner = "claim" /\ planReadySentAt
  /\ IF status = "delivered" THEN Finishes /\ UNCHANGED <<status, priorStatus, confirmed>>
     ELSE IF Allowed("delivered") THEN Finishes /\ MovesTo("delivered")
     ELSE Fails
  /\ UNCHANGED <<approvedBy, planReadySentAt, postVars, autoVars, press, admin, settler,
                 mail, plans, envVars>>

PlannerSends ==
  /\ planner = "send"
  /\ mail' = mail + 1
  /\ planner' = "deliver"
  /\ UNCHANGED <<cycleVars, postVars, queueVars, removing, writing, autoVars, press, admin,
                 settler, pathVars, envVars>>

\* A refused send leaves the month built and its claim taken.
PlannerRefused ==
  /\ planner = "send"
  /\ Spend("refused")
  /\ Finishes
  /\ UNCHANGED <<cycleVars, postVars, autoVars, press, admin, settler, mail, pathVars>>

Planner == \/ PlannerStart \/ \E plan \in (SUBSET Dates) \ {{}} : PlannerMerges(plan)
           \/ PlannerWrites
           \/ PlannerMove("planning", "planning", "built")
           \/ PlannerMove("built", "workbook_built", "claim")
           \/ PlannerMove("deliver", "delivered", "idle")
           \/ PlannerClaims \/ PlannerLosesClaim \/ PlannerSends

-----------------------------------------------------------------------------
(* Approved posts are written, planned ones edited; the settlement announces. *)

Generated(d) ==
  /\ beat[d] = "generating"
  /\ beat' \in {[beat EXCEPT ![d] = s] : s \in {"new", "generation_failed"}}
  /\ UNCHANGED <<cycleVars, row, plannerVars, queueVars, autoVars, press, admin, settler,
                 mail, pathVars, envVars>>

Edited(d) ==
  /\ row[d] = "planned"
  /\ row' = [row EXCEPT ![d] = "new"]
  /\ UNCHANGED <<cycleVars, beat, plannerVars, queueVars, autoVars, press, admin, settler,
                 mail, pathVars, envVars>>

\* settlePlanReady, of which PlanReady follows every await: approved, unsent, nothing
\* generating, and the claim.
SettleClaims ==
  /\ settler = "idle" /\ approvedBy # "none" /\ ~planReadySentAt
  /\ \A d \in Dates : beat[d] # "generating"
  /\ planReadySentAt' = TRUE
  /\ settler' = "send"
  /\ UNCHANGED <<status, priorStatus, approvedBy, postVars, plannerVars, queueVars, autoVars,
                 press, admin, mail, pathVars, envVars>>

SettleSends ==
  /\ settler = "send"
  /\ mail' = mail + 1
  /\ settler' = "idle"
  /\ UNCHANGED <<cycleVars, postVars, plannerVars, queueVars, autoVars, press, admin,
                 pathVars, envVars>>

SettleRefused ==
  /\ settler = "send"
  /\ Spend("refused")
  /\ settler' = "release"
  /\ UNCHANGED <<cycleVars, postVars, plannerVars, queueVars, autoVars, press, admin, mail,
                 pathVars>>

SettleReleases ==
  /\ settler = "release"
  /\ planReadySentAt' = FALSE
  /\ settler' = "idle"
  /\ UNCHANGED <<status, priorStatus, approvedBy, postVars, plannerVars, queueVars, autoVars,
                 press, admin, mail, pathVars, envVars>>

Settlement == SettleClaims \/ SettleSends \/ SettleReleases

\* The worker dies: the planning job stalls and runs again, the auto-run and the
\* settlement are lost where they stand.
WorkerCrash ==
  /\ Spend("crash")
  /\ planner' = "idle" /\ removing' = {} /\ writing' = {}
  /\ job' = IF job = "active" THEN "waiting" ELSE job
  /\ auto' = "idle" /\ settler' = "idle"
  /\ UNCHANGED <<cycleVars, postVars, attempts, autoSaw, press, admin, mail, pathVars>>

-----------------------------------------------------------------------------
Next ==
  \/ \E k \in Presses : PressCheck(k) \/ PressStamp(k)
  \/ AutoRun
  \/ RequestSent
  \/ ConfirmIntake \/ TriggerPlanning \/ ResetCycle \/ AdminCrash
  \/ OperatorGoesOn
  \/ Planner \/ PlannerThrows \/ PlannerNoLink \/ PlannerRefused
  \/ \E d \in Dates : Generated(d) \/ Edited(d)
  \/ Settlement \/ SettleRefused
  \/ WorkerCrash

Spec == Init /\ [][Next]_vars

\* The worker takes its jobs and carries them on, approved posts are generated, the
\* tick's sweeps settle them, an action begun by an operator or by the auto-run goes
\* on.  Nothing is assumed of the environment.
Fairness ==
  /\ WF_vars(AutoCount \/ AutoApprove \/ AutoStamp \/ AutoMove("first", "requested", "second")
             \/ AutoMove("second", "intake_confirmed", "enqueue") \/ AutoEnqueue)
  /\ WF_vars(OperatorGoesOn)
  /\ WF_vars(Planner)
  /\ \A d \in Dates : WF_vars(Generated(d))
  /\ WF_vars(Settlement)

FairSpec == Spec /\ Fairness

-----------------------------------------------------------------------------
(* Properties. *)

\* The planning worker and the settlement share one claim: however often a month is
\* reset, confirmed and planned again, and whichever of them finds it ready first,
\* the client is told once that it is.
AnnouncedOnce == mail <= 1

\* A plan costs a long model call and replaces posts.  A retry, a stalled job or a
\* second button press does not plan again: each merge has its own confirmation,
\* apart from an attempt the worker's death has cut short after its merge.
OnePlanPerConfirmation == plans <= confirmed + used["crash"]

\* The ways a confirmed month can be left without a job: a process dies between the
\* status and the enqueue; an earlier planning of a month that was reset still holds
\* the job id; the run-planning button finds a retry waiting, which then takes its
\* last, empty turn before the status is forced.
Strands == \/ used["crash"] > 0 \/ used["admin_crash"] > 0 \/ used["reset"] > 0
           \/ used["plan_error"] > 0 /\ used["rerun"] > 0

\* Apart from those, a confirmed month does not wait for ever: the planner moves it on
\* or it shows as failed.
ConfirmedMovesOn ==
  status = "intake_confirmed" ~> (status # "intake_confirmed" \/ Strands)

\* What plan-ready.ts and planning.ts say of the two paths: they are mutually
\* exclusive by construction, an approved month is never planned over.
ApprovedMonthIsNotPlanned == [][approvedBy # "none" => plans' = plans]_vars

\* What job-options.ts says of the retry: a hiccup heals itself, so a month whose
\* attempt failed with attempts left is still planned.
HiccupHeals ==
  (status = "failed" /\ job = "waiting" /\ attempts > 0) ~> (plans > 0)

=============================================================================
