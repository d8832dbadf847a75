-------------------------- MODULE PlanReady_proofs --------------------------
(***************************************************************************)
(* Safety of the plan-ready path for every month, every number of ticks    *)
(* and every bound: the type invariant, the single email, what the email   *)
(* announces, the order of settleFor, and that the module implements       *)
(* Announcement.                                                           *)
(***************************************************************************)
EXTENDS PlanReady, TLAPS

USE DEF cycleVars, postVars, appVars, queueVars, tickVars, envVars

-----------------------------------------------------------------------------
(* The type invariant. *)

\* Every post has a caption job; every job and every tick settles.
LEMMA JobFacts ==
  /\ \A p \in Posts : <<"shape", p>> \in Jobs
  /\ \A j \in Jobs : j[1] \in Kinds /\ j[2] \in Posts
  /\ Jobs \subseteq Settlers /\ Sweepers \subseteq Settlers
  BY DEF Jobs, Kinds, Settlers

\* A budgeted event only counts.
LEMMA SpendTypes ==
  ASSUME EnvTypes, NEW e \in Events, Spend(e)
  PROVE  EnvTypes'
  BY DEF EnvTypes, Spend

\* A status update keeps the rows typed.
LEMMA SetStatusTypes ==
  ASSUME PostTypes, NEW p \in Posts,
         NEW to \in {"draft", "generating", "generation_failed", "new"},
         SetStatus(p, to)
  PROVE  /\ status' \in [Posts -> {"draft", "generating", "generation_failed", "new"}]
         /\ aged' \subseteq Posts
  BY DEF PostTypes, SetStatus

\* Whatever is added to the queue, the queue keeps its type.
LEMMA AddTypes ==
  ASSUME QueueTypes, NEW j, Add(j) \/ RemoveAndAdd(j), UNCHANGED isGenerating
  PROVE  QueueTypes'
<1>1. 0 \in 0..(MaxAttempts - 1)
  BY BoundsAssumption DEF BoundsAssumption
<1>2. CASE UNCHANGED <<job, attempts>>
  BY <1>2 DEF QueueTypes
<1>3. CASE /\ job' = [job EXCEPT ![j] = "waiting"]
           /\ attempts' = [attempts EXCEPT ![j] = 0]
  BY <1>1, <1>3 DEF QueueTypes, Pending
<1> QED
  BY <1>2, <1>3 DEF Add, RemoveAndAdd

\* An attempt that throws leaves its job typed: only an attempt with attempts left
\* is counted.
LEMMA ThrowTypes ==
  ASSUME QueueTypes, NEW j \in Jobs, Throw(j), UNCHANGED isGenerating
  PROVE  QueueTypes'
<1>1. MaxAttempts \in Nat \ {0}
  BY BoundsAssumption DEF BoundsAssumption
<1>2. attempts[j] \in 0..(MaxAttempts - 1)
  BY DEF QueueTypes
<1>3. ~FinalAttempt(j) => attempts[j] + 1 \in 0..(MaxAttempts - 1)
  BY <1>1, <1>2 DEF FinalAttempt
<1> QED
  BY <1>3 DEF QueueTypes, Throw, Pending

\* A settler that moves on moves to one of its steps.
LEMMA GotoTypes ==
  ASSUME SettlerTypes, NEW s \in Settlers, NEW l \in SettlerSteps, Goto(s, l),
         UNCHANGED tickVars
  PROVE  SettlerTypes'
  BY DEF SettlerTypes, Goto, tickVars

LEMMA LeaveType == \A s : Leave(s) \in SettlerSteps
  BY DEF Leave, SettlerSteps

LEMMA InitTypes == Init => TypeOK
<1> SUFFICES ASSUME Init PROVE TypeOK
  OBVIOUS
<1>1. CycleTypes /\ AppTypes /\ HistoryTypes
  BY DEF Init, CycleTypes, AppTypes, HistoryTypes
<1>2. PostTypes
  BY BoundsAssumption DEF BoundsAssumption, Init, PostTypes
<1>3. QueueTypes
  BY BoundsAssumption DEF BoundsAssumption, Init, QueueTypes
<1>4. SettlerTypes
  BY DEF Init, SettlerTypes, SettlerSteps
<1>5. EnvTypes
  BY DEF Init, EnvTypes
<1> QED
  BY <1>1, <1>2, <1>3, <1>4, <1>5 DEF TypeOK

\* The state without the histories, which Record keeps on its own.
StateTypes == /\ CycleTypes /\ PostTypes /\ AppTypes /\ QueueTypes
              /\ SettlerTypes /\ EnvTypes

LEMMA RecordTypes ==
  ASSUME HistoryTypes, Record
  PROVE  HistoryTypes'
  BY DEF HistoryTypes, Record

\* The fan-out.
LEMMA FanOutTypes ==
  ASSUME StateTypes, NEW p \in Posts,
         \/ FanOutDecline(p) \/ FanOutShape(p) \/ FanOutShapeError(p)
         \/ FanOutHook(p) \/ FanOutHookError(p)
  PROVE  StateTypes'
<1> USE DEF StateTypes, CycleTypes, PostTypes, AppTypes, QueueTypes, SettlerTypes,
            EnvTypes
<1>1. CASE FanOutDecline(p)
  BY <1>1 DEF FanOutDecline, SetStatus
<1>2. CASE FanOutShape(p)
  BY <1>2, AddTypes DEF FanOutShape, FanOutQueues
<1>3. CASE FanOutShapeError(p)
  BY <1>3 DEF FanOutShapeError, Spend, SetStatus, Events, FanOutQueues
<1>4. CASE FanOutHook(p)
  BY <1>4, AddTypes DEF FanOutHook
<1>5. CASE FanOutHookError(p)
  BY <1>5 DEF FanOutHookError, Spend, SetStatus, Events
<1> QED
  BY <1>1, <1>2, <1>3, <1>4, <1>5

\* The client's requests, and a row that ages.
LEMMA ClientTypes ==
  ASSUME StateTypes, NEW p \in Posts,
         \/ ClientAsk(p) \/ ClientAskBanked(p)
         \/ ClientAskQueued(p) \/ ClientAskRefused(p)
         \/ ClientEdit(p) \/ ClientRemove(p) \/ Age(p)
  PROVE  StateTypes'
<1> USE DEF StateTypes, CycleTypes, PostTypes, AppTypes, QueueTypes, SettlerTypes,
            EnvTypes
<1>1. CASE ClientAsk(p)
  BY <1>1 DEF ClientAsk, Spend, SetStatus, Events
<1>2. CASE ClientAskQueued(p)
  BY <1>2, AddTypes DEF ClientAskQueued
<1>3. CASE ClientAskRefused(p)
  BY <1>3 DEF ClientAskRefused, Spend, SetStatus, Events
<1>4. CASE ClientEdit(p)
  BY <1>4 DEF ClientEdit, Spend, SetStatus, Events
<1>5. CASE ClientRemove(p)
  BY <1>5 DEF ClientRemove, Spend, Events
<1>6. CASE Age(p)
  BY <1>6 DEF Age
<1>7. CASE ClientAskBanked(p)
  BY <1>7 DEF ClientAskBanked, Spend, SetStatus, Events
<1> QED
  BY <1>1, <1>2, <1>3, <1>4, <1>5, <1>6, <1>7

\* The attempts on one post.
LEMMA AttemptTypes ==
  ASSUME StateTypes, NEW p \in Posts,
         \/ ShapeSucceeds(p) \/ ShapeThrows(p) \/ ShapeThrowsEarly(p)
         \/ ScriptSucceeds(p) \/ HookSucceeds(p)
  PROVE  StateTypes'
<1> USE DEF StateTypes, CycleTypes, PostTypes, AppTypes, QueueTypes, SettlerTypes,
            EnvTypes
<1>1. CASE ShapeSucceeds(p)
  BY <1>1, JobFacts DEF ShapeSucceeds, SetStatus, Pending
<1>2. CASE ShapeThrows(p)
  BY <1>2, JobFacts, ThrowTypes DEF ShapeThrows, Spend, SetStatus, Events
<1>3. CASE ShapeThrowsEarly(p)
  BY <1>3, JobFacts, ThrowTypes DEF ShapeThrowsEarly, Spend, Events
<1>4. CASE ScriptSucceeds(p)
  BY <1>4 DEF ScriptSucceeds, Pending
<1>5. CASE HookSucceeds(p)
  BY <1>5 DEF HookSucceeds, Pending
<1> QED
  BY <1>1, <1>2, <1>3, <1>4, <1>5

\* A job's way through the queue, and its handler's script.
LEMMA JobTypes ==
  ASSUME StateTypes, NEW j \in Jobs,
         \/ Start(j) \/ HookOrScriptThrows(j) \/ Complete(j) \/ GiveUp(j)
         \/ Expire(j) \/ SettleScript(j) \/ SettleScriptError(j)
  PROVE  StateTypes'
<1> USE DEF StateTypes, CycleTypes, PostTypes, AppTypes, QueueTypes, SettlerTypes,
            EnvTypes
<1>1. CASE Start(j)
  BY <1>1, JobFacts DEF Start, Pending
<1>2. CASE HookOrScriptThrows(j)
  BY <1>2, ThrowTypes DEF HookOrScriptThrows
<1>3. CASE Complete(j)
  BY <1>3, JobFacts DEF Complete, Settling, SettlerSteps, Terminal
<1>4. CASE GiveUp(j)
  BY <1>4, JobFacts DEF GiveUp, Settling, SettlerSteps, Terminal
<1>5. CASE Expire(j)
  BY <1>5 DEF Expire, Spend, Events
<1>6. CASE SettleScript(j)
  BY <1>6, JobFacts, AddTypes DEF SettleScript, Goto, SettlerSteps
<1>7. CASE SettleScriptError(j)
  BY <1>7, JobFacts DEF SettleScriptError, Goto, SettlerSteps, Spend, Events
<1> QED
  BY <1>1, <1>2, <1>3, <1>4, <1>5, <1>6, <1>7

\* The settlement.
LEMMA SettleTypes ==
  ASSUME StateTypes, NEW s \in Settlers,
         \/ SettlePosts(s) \/ SettleJobs(s) \/ SettleNoLink(s)
         \/ SettleClaim(s) \/ SettleSend(s) \/ SettleRefused(s)
         \/ SettleAmbiguous(s) \/ SettleRelease(s) \/ SettleReadError(s)
  PROVE  StateTypes'
<1> USE DEF StateTypes, CycleTypes, PostTypes, AppTypes, QueueTypes, SettlerTypes,
            EnvTypes
<1>1. CASE SettlePosts(s)
  BY <1>1, JobFacts, LeaveType DEF SettlePosts, Goto, SettlerSteps
<1>2. CASE SettleJobs(s)
  BY <1>2, JobFacts, LeaveType DEF SettleJobs, Goto, SettlerSteps
<1>3. CASE SettleNoLink(s)
  BY <1>3, JobFacts, LeaveType DEF SettleNoLink, Goto, SettlerSteps, Spend, Events
<1>4. CASE SettleClaim(s)
  BY <1>4, JobFacts, LeaveType DEF SettleClaim, Goto, SettlerSteps
<1>5. CASE SettleSend(s)
  BY <1>5, JobFacts, LeaveType DEF SettleSend, Goto, SettlerSteps
<1>6. CASE SettleRefused(s)
  BY <1>6, JobFacts, LeaveType DEF SettleRefused, Goto, SettlerSteps, Spend, Events
<1>7. CASE SettleAmbiguous(s)
  BY <1>7, JobFacts, LeaveType DEF SettleAmbiguous, Goto, SettlerSteps, Spend, Events
<1>8. CASE SettleRelease(s)
  BY <1>8, JobFacts, LeaveType DEF SettleRelease, Goto, SettlerSteps
<1>9. CASE SettleReadError(s)
  BY <1>9, JobFacts, LeaveType DEF SettleReadError, Goto, SettlerSteps, Spend, Events
<1> QED
  BY <1>1, <1>2, <1>3, <1>4, <1>5, <1>6, <1>7, <1>8, <1>9

\* What a tick reads of a recoverable post is a row, and stamping a row keeps the
\* pass counter within its limit.
LEMMA RowTypes ==
  ASSUME PostTypes, NEW p \in Posts, Recoverable(p)
  PROVE  RowOf(p) \in Rows
  BY BoundsAssumption DEF BoundsAssumption, PostTypes, Recoverable, RowOf, Rows

LEMMA RowFacts ==
  \A r \in Rows : r.post \in Posts /\ r.attempts + 1 \in 0..MaxSweepAttempts
  BY BoundsAssumption DEF BoundsAssumption, Rows

\* A tick, and what it does with one row.
LEMMA TickTypes ==
  ASSUME StateTypes, NEW t \in Sweepers,
         \/ TickStart(t) \/ TickSelect(t) \/ TickEnd(t)
  PROVE  StateTypes'
<1> USE DEF StateTypes, CycleTypes, PostTypes, AppTypes, QueueTypes, SettlerTypes,
            EnvTypes
<1>1. CASE TickStart(t)
  BY <1>1, JobFacts DEF TickStart, Goto, SettlerSteps
<1>2. CASE TickSelect(t)
  BY <1>2, JobFacts, RowTypes DEF TickSelect, Goto, SettlerSteps
<1>3. CASE TickEnd(t)
  BY <1>3, JobFacts DEF TickEnd, Goto, SettlerSteps
<1> QED
  BY <1>1, <1>2, <1>3

LEMMA RowStepTypes ==
  ASSUME StateTypes, NEW t \in Sweepers, NEW r \in Rows,
         \/ TickRecover(t, r) \/ TickRecoverError(t, r)
         \/ TickPassesOver(t, r) \/ TickStamp(t, r)
  PROVE  StateTypes'
<1> USE DEF StateTypes, CycleTypes, PostTypes, AppTypes, QueueTypes, SettlerTypes,
            EnvTypes
<1>1. CASE TickRecover(t, r)
  BY <1>1, JobFacts, AddTypes DEF TickRecover, Goto, SettlerSteps
<1>2. CASE TickPassesOver(t, r)
  BY <1>2 DEF TickPassesOver
<1>3. CASE TickStamp(t, r)
  BY <1>3, JobFacts, RowFacts DEF TickStamp, Goto, SettlerSteps, SetStatus
<1>4. CASE TickRecoverError(t, r)
  <2>1. QueueTypes'
    BY <1>4 DEF TickRecoverError
  <2>2. SettlerTypes'
    BY <1>4 DEF TickRecoverError
  <2>3. EnvTypes'
    BY <1>4, SpendTypes DEF TickRecoverError, Events
  <2> QED
    BY <1>4, <2>1, <2>2, <2>3 DEF TickRecoverError
<1> QED
  BY <1>1, <1>2, <1>3, <1>4

LEMMA ApproveTypes ==
  ASSUME StateTypes, \E by \in {"client", "auto"} : Approve(by)
  PROVE  StateTypes'
  BY DEF Approve, StateTypes, CycleTypes, PostTypes, AppTypes, QueueTypes, SettlerTypes,
         EnvTypes

LEMMA CrashTypes ==
  ASSUME StateTypes, AppCrash \/ WorkerCrash
  PROVE  StateTypes'
<1> USE DEF StateTypes, CycleTypes, PostTypes, AppTypes, QueueTypes, SettlerTypes,
            EnvTypes
<1>1. CASE AppCrash
  BY <1>1 DEF AppCrash, Spend, Events
<1>2. CASE WorkerCrash
  BY <1>2 DEF WorkerCrash, Spend, Events, Pending, SettlerSteps
<1> QED
  BY <1>1, <1>2

\* Every step of the month keeps every variable within its type.
THEOREM TypesKept == TypeOK /\ [Next]_vars => TypeOK'
<1>1. ASSUME TypeOK, Next PROVE TypeOK'
  <2>1. StateTypes /\ HistoryTypes /\ Step /\ Record
    BY <1>1 DEF TypeOK, StateTypes, Next
  <2>2. ASSUME \E by \in {"client", "auto"} : Approve(by) PROVE StateTypes'
    BY <2>1, <2>2, ApproveTypes
  <2>3. ASSUME NEW p \in Posts, FanOut(p) \/ Client(p) \/ Age(p) PROVE StateTypes'
    BY <2>1, <2>3, FanOutTypes, ClientTypes DEF FanOut, Client
  <2>4. ASSUME AppCrash \/ WorkerCrash PROVE StateTypes'
    BY <2>1, <2>4, CrashTypes
  <2>5. ASSUME NEW j \in Jobs, Work(j) \/ Expire(j) \/ SettleFor(j) PROVE StateTypes'
    <3>1. CASE Finish(j)
      BY <2>1, <3>1, AttemptTypes, JobTypes DEF Finish
    <3>2. CASE Start(j) \/ Complete(j) \/ GiveUp(j) \/ Expire(j) \/ SettleFor(j)
      BY <2>1, <3>2, JobTypes DEF SettleFor
    <3> QED
      BY <2>5, <3>1, <3>2 DEF Work
  <2>6. ASSUME NEW s \in Settlers, Settle(s) PROVE StateTypes'
    BY <2>1, <2>6, SettleTypes DEF Settle
  <2>7. ASSUME NEW t \in Sweepers, Tick(t) PROVE StateTypes'
    BY <2>1, <2>7, TickTypes, RowStepTypes DEF Tick
  <2>8. StateTypes'
    BY <2>1, <2>2, <2>3, <2>4, <2>5, <2>6, <2>7 DEF Step
  <2>9. HistoryTypes'
    BY <2>1, RecordTypes
  <2> QED
    BY <2>8, <2>9 DEF TypeOK, StateTypes
<1>2. ASSUME TypeOK, UNCHANGED vars PROVE TypeOK'
  BY <1>2 DEF TypeOK, CycleTypes, PostTypes, AppTypes, QueueTypes, SettlerTypes,
              EnvTypes, HistoryTypes, vars
<1> QED
  BY <1>1, <1>2

\* Every reachable state of the month is well typed: no attempt is counted past the
\* last, no pass past MAX_SWEEP_ATTEMPTS, no settler leaves its steps.
THEOREM TypeCorrect == Spec => []TypeOK
  BY InitTypes, TypesKept, PTL DEF Spec

-----------------------------------------------------------------------------
(* The single email.  A settler that has won the claim holds it until the     *)
(* transport has answered and a refused send has been released.               *)

Holding == {"send", "release"}

\* The inductive invariant: one holder, a holder keeps the stamp set, and once the
\* mail is out the stamp stays and nobody holds the claim.  AtMostOneMail alone is
\* not inductive: a second holder, or a cleared stamp after the mail, would break it.
ClaimInv ==
  /\ mail <= 1
  /\ \A s \in Settlers : pc[s] \in Holding => planReadySentAt /\ mail = 0
  /\ \A s, u \in Settlers : pc[s] \in Holding /\ pc[u] \in Holding => s = u
  /\ mail > 0 => planReadySentAt

\* The steps that leave the claim alone: stamp and mail stay, nobody starts to hold.
ClaimKept ==
  /\ UNCHANGED <<planReadySentAt, mail>>
  /\ \A s \in Settlers : pc'[s] \in Holding => pc[s] \in Holding

LEMMA KeptClaim ==
  ASSUME ClaimInv, ClaimKept
  PROVE  ClaimInv'
  BY DEF ClaimInv, ClaimKept

\* Only the five steps around the send touch the claim.
LEMMA OthersKeepTheClaim ==
  ASSUME TypeOK, Step,
         \A s \in Settlers : ~(SettleClaim(s) \/ SettleSend(s) \/ SettleRefused(s)
                               \/ SettleAmbiguous(s) \/ SettleRelease(s))
  PROVE  ClaimKept
<1> USE DEF ClaimKept, Holding, TypeOK, SettlerTypes
<1>1. ASSUME \E by \in {"client", "auto"} : Approve(by) PROVE ClaimKept
  BY <1>1 DEF Approve
<1>2. ASSUME NEW p \in Posts, FanOut(p) \/ Client(p) \/ Age(p) PROVE ClaimKept
  BY <1>2 DEF FanOut, Client, FanOutDecline, FanOutShape, FanOutShapeError, FanOutHook,
     FanOutHookError, ClientAsk, ClientAskBanked, ClientAskQueued, ClientAskRefused, ClientEdit,
     ClientRemove, Age
<1>3. ASSUME AppCrash \/ WorkerCrash PROVE ClaimKept
  BY <1>3 DEF AppCrash, WorkerCrash
<1>4. ASSUME NEW j \in Jobs, Start(j) \/ Finish(j) \/ Expire(j) PROVE ClaimKept
  BY <1>4 DEF Start, Finish, Expire, ShapeSucceeds, ShapeThrows, ShapeThrowsEarly,
     ScriptSucceeds, HookSucceeds, HookOrScriptThrows
<1>5. ASSUME NEW j \in Jobs, Complete(j) \/ GiveUp(j) \/ SettleFor(j) PROVE ClaimKept
  BY <1>5, JobFacts DEF Complete, GiveUp, Settling, SettleFor, SettleScript,
     SettleScriptError, Goto
<1>6. ASSUME NEW s \in Settlers, Settle(s) PROVE ClaimKept
  BY <1>6 DEF Settle, SettlePosts, SettleJobs, SettleNoLink, SettleReadError, Goto, Leave
<1>7. ASSUME NEW t \in Sweepers, Tick(t) PROVE ClaimKept
  BY <1>7, JobFacts DEF Tick, TickStart, TickSelect, TickRecover, TickRecoverError, TickPassesOver,
     TickStamp, TickEnd, Goto
<1> QED
  BY <1>1, <1>2, <1>3, <1>4, <1>5, <1>6, <1>7 DEF Step, Work

\* The five steps around the send, when the transport's answer is the truth.
LEMMA SendingKeepsClaimInv ==
  ASSUME TypeOK, ClaimInv, Budget["ambiguous"] = 0, NEW s \in Settlers,
         SettleClaim(s) \/ SettleSend(s) \/ SettleRefused(s)
         \/ SettleAmbiguous(s) \/ SettleRelease(s)
  PROVE  ClaimInv'
<1> USE DEF ClaimInv, Holding, TypeOK, SettlerTypes, CycleTypes
<1>1. CASE SettleClaim(s)
  BY <1>1, LeaveType DEF SettleClaim, Goto, Leave
<1>2. CASE SettleSend(s)
  BY <1>2 DEF SettleSend, Goto, Leave
<1>3. CASE SettleRefused(s)
  BY <1>3 DEF SettleRefused, Goto
<1>4. CASE SettleAmbiguous(s)
  BY <1>4 DEF SettleAmbiguous, Spend, EnvTypes, Events
<1>5. CASE SettleRelease(s)
  BY <1>5 DEF SettleRelease, Goto, Leave
<1> QED
  BY <1>1, <1>2, <1>3, <1>4, <1>5

LEMMA ClaimInvHolds ==
  ASSUME Budget["ambiguous"] = 0
  PROVE  Spec => []ClaimInv
<1>1. Init => ClaimInv
  BY DEF Init, ClaimInv, Holding
<1>2. TypeOK /\ ClaimInv /\ [Next]_vars => ClaimInv'
  <2>1. ASSUME TypeOK, ClaimInv, Next PROVE ClaimInv'
    BY <2>1, OthersKeepTheClaim, KeptClaim, SendingKeepsClaimInv DEF Next
  <2>2. ASSUME ClaimInv, UNCHANGED vars PROVE ClaimInv'
    BY <2>2 DEF vars, ClaimInv
  <2> QED
    BY <2>1, <2>2
<1> QED
  BY <1>1, <1>2, TypeCorrect, PTL DEF Spec

\* However many handlers and ticks settle the month, and however often a refused
\* send gives its claim back, the client gets one email: as long as the transport
\* does not deliver a mail it reports as refused.
THEOREM AtMostOneMailHolds ==
  ASSUME Budget["ambiguous"] = 0
  PROVE  Spec => []AtMostOneMail
<1>1. ClaimInv => AtMostOneMail
  BY DEF ClaimInv, AtMostOneMail
<1> QED
  BY <1>1, ClaimInvHolds, PTL

-----------------------------------------------------------------------------
(* What the email announces.  A post that has been approved is generating until *)
(* it has come out of it once; nobody can pass the settlement's count of         *)
(* generating posts before all of them have.                                     *)

Passed == {"jobs", "claim", "send", "release"}

\* Until the approval nothing runs and every post is a live draft.
QuietInv ==
  approvedBy = "none" =>
    /\ live = Posts /\ \A p \in Posts : status[p] = "draft"
    /\ todo = {} /\ todoHook = {} /\ asking = {}
    /\ \A j \in Jobs : job[j] = "absent"
    /\ \A s \in Settlers : pc[s] = "idle"

\* After it no post is a draft, and one that is not resolved is still generating.
WrittenInv ==
  approvedBy # "none" =>
    \A p \in Posts : /\ status[p] # "draft"
                     /\ p \in resolved \/ (p \in live /\ status[p] = "generating")

\* Whoever is past the settlement's count, and whoever has mailed, found them done.
PassedInv ==
  /\ mail > 0 => resolved = Posts
  /\ \A s \in Settlers : pc[s] \in Passed => resolved = Posts

AnnounceInv == QuietInv /\ WrittenInv /\ PassedInv

\* A draft month only moves by its approval.
LEMMA OnlyApprovalMoves ==
  ASSUME TypeOK, QuietInv, approvedBy = "none", Step
  PROVE  (\E by \in {"client", "auto"} : Approve(by)) \/ AppCrash \/ WorkerCrash
<1> USE DEF QuietInv
<1>1. ASSUME NEW p \in Posts, FanOut(p) \/ Client(p) \/ Age(p) PROVE FALSE
  BY <1>1 DEF FanOut, Client, FanOutDecline, FanOutShape, FanOutShapeError, FanOutHook,
     FanOutHookError, FanOutQueues, ClientAsk, ClientAskBanked, ClientAskQueued, ClientAskRefused,
     ClientEdit, ClientRemove, Age
<1>2. ASSUME NEW j \in Jobs, Work(j) \/ Expire(j) \/ SettleFor(j) PROVE FALSE
  BY <1>2, JobFacts DEF Work, Start, Finish, Expire, ShapeSucceeds, ShapeThrows,
     ShapeThrowsEarly, ScriptSucceeds, HookSucceeds, HookOrScriptThrows, Complete,
     GiveUp, SettleFor, SettleScript, SettleScriptError, Terminal
<1>3. ASSUME NEW s \in Settlers, Settle(s) PROVE FALSE
  BY <1>3 DEF Settle, SettlePosts, SettleJobs, SettleNoLink, SettleClaim, SettleSend,
     SettleRefused, SettleAmbiguous, SettleRelease, SettleReadError
<1>4. ASSUME NEW t \in Sweepers, Tick(t) PROVE FALSE
  BY <1>4, JobFacts DEF Tick, TickStart, TickSelect, TickRecover, TickRecoverError, TickPassesOver,
     TickStamp, TickEnd, Recoverable
<1> QED
  BY <1>1, <1>2, <1>3, <1>4 DEF Step

\* No step turns a post back into a draft or takes the approval back.
LEMMA NoWayBack ==
  ASSUME TypeOK, Step, approvedBy # "none"
  PROVE  /\ approvedBy' = approvedBy
         /\ \A p \in Posts : status'[p] = "draft" => status[p] = "draft"
<1> USE DEF TypeOK, PostTypes
<1>1. ~\E by \in {"client", "auto"} : Approve(by)
  BY DEF Approve
<1> DEFINE Goal == /\ approvedBy' = approvedBy
                   /\ \A p \in Posts : status'[p] = "draft" => status[p] = "draft"
<1>2. ASSUME NEW p \in Posts, FanOut(p) \/ Client(p) \/ Age(p) PROVE Goal
  BY <1>2 DEF FanOut, Client, FanOutDecline, FanOutShape, FanOutShapeError, FanOutHook,
     FanOutHookError, ClientAsk, ClientAskBanked, ClientAskQueued, ClientAskRefused, ClientEdit,
     ClientRemove, Age, SetStatus
<1>3. ASSUME AppCrash \/ WorkerCrash PROVE Goal
  BY <1>3 DEF AppCrash, WorkerCrash
<1>4. ASSUME NEW j \in Jobs, Finish(j) PROVE Goal
  BY <1>4 DEF Finish, ShapeSucceeds, ShapeThrows, ShapeThrowsEarly, ScriptSucceeds,
     HookSucceeds, HookOrScriptThrows, SetStatus
<1>5. ASSUME NEW j \in Jobs, Start(j) \/ Complete(j) \/ GiveUp(j) \/ Expire(j) \/ SettleFor(j)
      PROVE Goal
  BY <1>5 DEF Start, Complete, GiveUp, Expire, SettleFor, SettleScript, SettleScriptError
<1>6. ASSUME NEW s \in Settlers, Settle(s) PROVE Goal
  BY <1>6 DEF Settle, SettlePosts, SettleJobs, SettleNoLink, SettleClaim, SettleSend,
     SettleRefused, SettleAmbiguous, SettleRelease, SettleReadError
<1>7. ASSUME NEW t \in Sweepers, Tick(t) PROVE Goal
  <2>1. ASSUME NEW r \in Rows, TickStamp(t, r) PROVE Goal
    BY <2>1, RowFacts DEF TickStamp, SetStatus
  <2>2. ASSUME \A r \in Rows : ~TickStamp(t, r) PROVE Goal
    BY <1>7, <2>2 DEF Tick, TickStart, TickSelect, TickRecover, TickRecoverError,
       TickPassesOver, TickEnd
  <2> QED
    BY <2>1, <2>2
<1> QED
  BY <1>1, <1>2, <1>3, <1>4, <1>5, <1>6, <1>7 DEF Step, Work

\* A settler gets past the count only from there, and only the sends mail.
LEMMA GettingPassed ==
  ASSUME TypeOK, Step
  PROVE  /\ mail' = mail \/ \E s \in Settlers : pc[s] = "send"
         /\ \A s \in Settlers : pc'[s] \in Passed => pc[s] \in Passed \/ SettlePosts(s)
<1> USE DEF TypeOK, SettlerTypes, Passed
<1> DEFINE Goal == /\ mail' = mail \/ \E s \in Settlers : pc[s] = "send"
                   /\ \A s \in Settlers : pc'[s] \in Passed => pc[s] \in Passed \/ SettlePosts(s)
<1>1. ASSUME \E by \in {"client", "auto"} : Approve(by) PROVE Goal
  BY <1>1 DEF Approve
<1>2. ASSUME NEW p \in Posts, FanOut(p) \/ Client(p) \/ Age(p) PROVE Goal
  BY <1>2 DEF FanOut, Client, FanOutDecline, FanOutShape, FanOutShapeError, FanOutHook,
     FanOutHookError, ClientAsk, ClientAskBanked, ClientAskQueued, ClientAskRefused, ClientEdit,
     ClientRemove, Age
<1>3. ASSUME AppCrash \/ WorkerCrash PROVE Goal
  BY <1>3 DEF AppCrash, WorkerCrash
<1>4. ASSUME NEW j \in Jobs, Start(j) \/ Finish(j) \/ Expire(j) PROVE Goal
  BY <1>4 DEF Start, Finish, Expire, ShapeSucceeds, ShapeThrows, ShapeThrowsEarly,
     ScriptSucceeds, HookSucceeds, HookOrScriptThrows
<1>5. ASSUME NEW j \in Jobs, Complete(j) \/ GiveUp(j) \/ SettleFor(j) PROVE Goal
  BY <1>5, JobFacts DEF Complete, GiveUp, Settling, SettleFor, SettleScript,
     SettleScriptError, Goto
<1>6. ASSUME NEW s \in Settlers, Settle(s) PROVE Goal
  <2>1. CASE SettlePosts(s)
    BY <2>1 DEF SettlePosts, Goto
  <2>2. CASE ~SettlePosts(s)
    BY <1>6, <2>2 DEF Settle, SettleJobs, SettleNoLink, SettleClaim, SettleSend,
       SettleRefused, SettleAmbiguous, SettleRelease, SettleReadError, Goto, Leave
  <2> QED
    BY <2>1, <2>2
<1>7. ASSUME NEW t \in Sweepers, Tick(t) PROVE Goal
  BY <1>7, JobFacts DEF Tick, TickStart, TickSelect, TickRecover, TickRecoverError, TickPassesOver,
     TickStamp, TickEnd, Goto
<1> QED
  BY <1>1, <1>2, <1>3, <1>4, <1>5, <1>6, <1>7 DEF Step, Work

LEMMA AnnounceInvKept ==
  ASSUME TypeOK, TypeOK', AnnounceInv, Next
  PROVE  AnnounceInv'
<1>1. Step /\ Record /\ QuietInv /\ WrittenInv /\ PassedInv
  BY DEF AnnounceInv, Next
<1>2. resolved \subseteq resolved' /\ resolved' \subseteq Posts
  BY <1>1 DEF Record, TypeOK, HistoryTypes
<1>3. QuietInv'
  <2>1. CASE approvedBy # "none"
    BY <1>1, <2>1, NoWayBack DEF QuietInv
  <2>2. CASE approvedBy = "none" /\ \E by \in {"client", "auto"} : Approve(by)
    BY <2>2 DEF Approve, QuietInv
  <2>3. CASE AppCrash \/ WorkerCrash
    BY <1>1, <2>3 DEF AppCrash, WorkerCrash, QuietInv, TypeOK, SettlerTypes, Pending
  <2> QED
    BY <1>1, <2>1, <2>2, <2>3, OnlyApprovalMoves
<1>4. WrittenInv'
  <2>1. CASE approvedBy # "none"
    <3>1. \A p \in Posts : status'[p] # "draft"
      BY <1>1, <2>1, NoWayBack DEF WrittenInv
    <3>2. \A p \in Posts : p \in resolved' \/ (p \in live' /\ status'[p] = "generating")
      BY <1>1, <3>1 DEF Record, TypeOK, PostTypes
    <3> QED
      BY <3>1, <3>2 DEF WrittenInv
  <2>2. CASE approvedBy = "none"
    <3>1. CASE \E by \in {"client", "auto"} : Approve(by)
      BY <1>1, <2>2, <3>1 DEF Approve, QuietInv, WrittenInv
    <3>2. CASE AppCrash \/ WorkerCrash
      BY <2>2, <3>2 DEF AppCrash, WorkerCrash, WrittenInv
    <3> QED
      BY <1>1, <2>2, <3>1, <3>2, OnlyApprovalMoves
  <2> QED
    BY <2>1, <2>2
<1>5. PassedInv'
  <2>1. ASSUME NEW s \in Settlers, pc'[s] \in Passed PROVE resolved = Posts
    <3>1. CASE pc[s] \in Passed
      BY <1>1, <3>1 DEF PassedInv
    <3>2. CASE SettlePosts(s) /\ pc[s] \notin Passed
      <4>1. approvedBy # "none" /\ ~HasGeneratingPosts
        BY <2>1, <3>2 DEF SettlePosts, Goto, Leave, Passed, TypeOK, SettlerTypes
      <4> QED
        BY <1>1, <4>1 DEF WrittenInv, HasGeneratingPosts, TypeOK, HistoryTypes
    <3> QED
      BY <1>1, <2>1, <3>1, <3>2, GettingPassed
  <2>2. mail' > 0 => resolved = Posts
    BY <1>1, GettingPassed DEF PassedInv, Passed
  <2> QED
    BY <1>2, <2>1, <2>2 DEF PassedInv
<1> QED
  BY <1>3, <1>4, <1>5 DEF AnnounceInv

LEMMA AnnounceInvHolds == Spec => []AnnounceInv
<1>1. Init => AnnounceInv
  BY DEF Init, AnnounceInv, QuietInv, WrittenInv, PassedInv, Passed
<1>2. TypeOK /\ TypeOK' /\ AnnounceInv /\ [Next]_vars => AnnounceInv'
  <2>1. CASE Next
    BY <2>1, AnnounceInvKept
  <2>2. CASE UNCHANGED vars
    BY <2>2 DEF vars, AnnounceInv, QuietInv, WrittenInv, PassedInv
  <2> QED
    BY <2>1, <2>2
<1> QED
  BY <1>1, <1>2, TypeCorrect, PTL DEF Spec

\* The email announces a written month, whatever crashes, retries, ticks and
\* requests lie between the approval and the send.
THEOREM MailedMonthWasResolvedHolds == Spec => []MailedMonthWasResolved
<1>1. AnnounceInv => MailedMonthWasResolved
  BY DEF AnnounceInv, PassedInv, MailedMonthWasResolved
<1> QED
  BY <1>1, AnnounceInvHolds, PTL

-----------------------------------------------------------------------------
(* The order of settleFor.  A reel's caption handler that has come past its   *)
(* script stage left a script behind it: written, queued, or tried before.    *)

Shape(p) == <<"shape", p>>
Script(p) == <<"script", p>>

\* Nothing of what the property sets aside has happened.
Undisturbed == used["queue_error"] = 0 /\ used["edit"] = 0

\* The handler of p's last caption attempt is past its script stage and p has a
\* caption: a caption job queued again will be followed by its own handler.
PastScript(p) ==
  /\ pc[Shape(p)] \in {"posts", "jobs"} /\ job[Shape(p)] \notin Pending
  /\ p \in live \cap caption

\* OwnScriptRunsFirst speaks of one step; between the script stage and that step the
\* script may still be pending, and a finished one must have been recorded.
ScriptInv ==
  \A p \in Posts : Format[p] = "reel" =>
    /\ job[Script(p)] \in Terminal => p \in scriptRan
    /\ PastScript(p) /\ Undisturbed => ScriptTried(p) \/ job[Script(p)] \in Pending

\* What a step leaves of a reel's script: a pending one stays or is done, none is
\* lost, and a handler gets past the script stage only by it.
ScriptGoesOn(p) ==
  /\ job[Script(p)] \in Pending => job'[Script(p)] \in Pending \cup Terminal
  /\ script \subseteq script'
  /\ Undisturbed' => Undisturbed
  /\ PastScript(p)' /\ Undisturbed' =>
       PastScript(p) \/ (SettleScript(Shape(p)) /\ job[Shape(p)] \notin Pending)

LEMMA SpendDisturbs ==
  ASSUME EnvTypes, NEW e \in Events, Spend(e)
  PROVE  /\ Undisturbed' => Undisturbed
         /\ e \in {"queue_error", "edit"} => ~Undisturbed'
<1>1. used \in [Events -> Nat] /\ used' = [used EXCEPT ![e] = used[e] + 1]
  BY DEF EnvTypes, Spend
<1>2. "queue_error" \in Events /\ "edit" \in Events
  BY DEF Events
<1> QED
  BY <1>1, <1>2 DEF Undisturbed

LEMMA ReelJobs ==
  ASSUME NEW p \in Posts, Format[p] = "reel"
  PROVE  /\ Shape(p) \in Jobs /\ Script(p) \in Jobs
         /\ Shape(p) \notin Sweepers /\ Shape(p) # Script(p)
  BY SweepersAssumption DEF Jobs, Kinds, Shape, Script

LEMMA MonthKeepsScript ==
  ASSUME TypeOK, NEW p \in Posts, Format[p] = "reel",
         \/ \E by \in {"client", "auto"} : Approve(by)
         \/ \E q \in Posts : FanOut(q) \/ Client(q) \/ Age(q)
         \/ AppCrash
  PROVE  ScriptGoesOn(p)
<1> USE ReelJobs DEF TypeOK, PostTypes, QueueTypes, ScriptGoesOn, PastScript, Pending, Terminal
<1>1. ASSUME \E by \in {"client", "auto"} : Approve(by) PROVE ScriptGoesOn(p)
  BY <1>1 DEF Approve, Undisturbed
<1>2. ASSUME NEW q \in Posts, FanOutDecline(q) \/ FanOutShape(q) \/ FanOutHook(q) \/ Age(q)
      PROVE  ScriptGoesOn(p)
  BY <1>2 DEF FanOutDecline, FanOutShape, FanOutHook, FanOutQueues, Age, SetStatus, Add, RemoveAndAdd,
     Undisturbed, Script, Shape
<1>3. ASSUME NEW q \in Posts, FanOutShapeError(q) \/ FanOutHookError(q) PROVE ScriptGoesOn(p)
  BY <1>3, SpendDisturbs DEF FanOutShapeError, FanOutHookError, Events
<1>4. ASSUME NEW q \in Posts, ClientAskQueued(q) PROVE ScriptGoesOn(p)
  BY <1>4 DEF ClientAskQueued, RemoveAndAdd, Undisturbed, Script, Shape
<1>5. ASSUME NEW q \in Posts, ClientAsk(q) \/ ClientAskBanked(q) \/ ClientAskRefused(q) \/ ClientEdit(q)
             \/ ClientRemove(q)
      PROVE  ScriptGoesOn(p)
  BY <1>5, SpendDisturbs DEF ClientAsk, ClientAskBanked, ClientAskRefused, ClientEdit, ClientRemove, Events
<1>6. ASSUME AppCrash PROVE ScriptGoesOn(p)
  BY <1>6, SpendDisturbs DEF AppCrash, Events
<1> QED
  BY <1>1, <1>2, <1>3, <1>4, <1>5, <1>6 DEF FanOut, Client

LEMMA WorkerKeepsScript ==
  ASSUME TypeOK, NEW p \in Posts, Format[p] = "reel",
         (\E j \in Jobs : Work(j) \/ Expire(j)) \/ WorkerCrash
  PROVE  ScriptGoesOn(p)
<1> USE ReelJobs DEF TypeOK, PostTypes, QueueTypes, SettlerTypes, ScriptGoesOn, PastScript, Pending, Terminal
<1>1. ASSUME NEW j \in Jobs, Start(j) PROVE ScriptGoesOn(p)
  BY <1>1 DEF Start, Undisturbed
<1>2. ASSUME NEW q \in Posts, ShapeSucceeds(q) PROVE ScriptGoesOn(p)
  BY <1>2, JobFacts DEF ShapeSucceeds, SetStatus, Undisturbed, Script, Shape
<1>3. ASSUME NEW q \in Posts, ShapeThrows(q) \/ ShapeThrowsEarly(q) PROVE ScriptGoesOn(p)
  <2>1. Undisturbed' => Undisturbed
    BY <1>3, SpendDisturbs DEF ShapeThrows, ShapeThrowsEarly, Events, Undisturbed
  <2> QED
    BY <1>3, <2>1, JobFacts DEF ShapeThrows, ShapeThrowsEarly, Throw
<1>4. ASSUME NEW j \in Jobs, HookOrScriptThrows(j) PROVE ScriptGoesOn(p)
  BY <1>4 DEF HookOrScriptThrows, Throw, Undisturbed
<1>5. ASSUME NEW q \in Posts, ScriptSucceeds(q) \/ HookSucceeds(q) PROVE ScriptGoesOn(p)
  BY <1>5 DEF ScriptSucceeds, HookSucceeds, Undisturbed
<1>6. ASSUME NEW j \in Jobs, Complete(j) \/ GiveUp(j) PROVE ScriptGoesOn(p)
  BY <1>6, JobFacts DEF Complete, GiveUp, Settling, Undisturbed, Shape
<1>7. ASSUME NEW j \in Jobs, Expire(j) PROVE ScriptGoesOn(p)
  BY <1>7, SpendDisturbs DEF Expire, Events
<1>8. ASSUME WorkerCrash PROVE ScriptGoesOn(p)
  BY <1>8, SpendDisturbs, JobFacts DEF WorkerCrash, Events
<1> QED
  BY <1>1, <1>2, <1>3, <1>4, <1>5, <1>6, <1>7, <1>8 DEF Work, Finish

LEMMA SettlersKeepScript ==
  ASSUME TypeOK, NEW p \in Posts, Format[p] = "reel",
         \/ \E j \in Jobs : SettleFor(j)
         \/ \E s \in Settlers : Settle(s)
         \/ \E t \in Sweepers : Tick(t)
  PROVE  ScriptGoesOn(p)
<1> USE ReelJobs, JobFacts
    DEF TypeOK, PostTypes, QueueTypes, SettlerTypes, ScriptGoesOn, PastScript, Pending, Terminal
<1>1. ASSUME NEW j \in Jobs, SettleScript(j) PROVE ScriptGoesOn(p)
  <2>1. Undisturbed' = Undisturbed /\ UNCHANGED <<live, caption, script>>
    BY <1>1 DEF SettleScript, Undisturbed
  <2>2. \A k \in Jobs : job'[k] = job[k] \/ (job[k] = "absent" /\ job'[k] = "waiting")
    BY <1>1 DEF SettleScript, Add
  <2>3. j # Shape(p) => pc'[Shape(p)] = pc[Shape(p)]
    BY <1>1 DEF SettleScript, Goto
  <2> QED
    BY <1>1, <2>1, <2>2, <2>3
<1>2. ASSUME NEW j \in Jobs, SettleScriptError(j) PROVE ScriptGoesOn(p)
  BY <1>2, SpendDisturbs DEF SettleScriptError, Events
<1>3. ASSUME NEW s \in Settlers, Settle(s) PROVE ScriptGoesOn(p)
  <2>1. Undisturbed' => Undisturbed
    BY <1>3, SpendDisturbs DEF Settle, SettlePosts, SettleJobs, SettleNoLink, SettleClaim, SettleSend,
       SettleRefused, SettleAmbiguous, SettleRelease, SettleReadError, Events, Undisturbed
  <2>2. UNCHANGED <<job, live, caption, script>>
    BY <1>3 DEF Settle, SettlePosts, SettleJobs, SettleNoLink, SettleClaim, SettleSend,
       SettleRefused, SettleAmbiguous, SettleRelease, SettleReadError
  <2>3. pc'[Shape(p)] \in {"posts", "jobs"} => pc[Shape(p)] \in {"posts", "jobs"}
    BY <1>3 DEF Settle, SettlePosts, SettleJobs, SettleNoLink, SettleClaim, SettleSend,
       SettleRefused, SettleAmbiguous, SettleRelease, SettleReadError, Goto, Leave
  <2> QED
    BY <2>1, <2>2, <2>3
<1>4. ASSUME NEW t \in Sweepers, Tick(t) PROVE ScriptGoesOn(p)
  <2>1. UNCHANGED <<live, caption, script>>
    BY <1>4 DEF Tick, TickStart, TickSelect, TickEnd, TickRecover, TickRecoverError, TickPassesOver,
       TickStamp
  <2>2. Undisturbed' => Undisturbed
    BY <1>4, SpendDisturbs DEF Tick, TickStart, TickSelect, TickEnd, TickRecover, TickRecoverError,
       TickPassesOver, TickStamp, Events, Undisturbed
  <2>3. pc'[Shape(p)] = pc[Shape(p)]
    <3> HIDE DEF TypeOK, PostTypes, QueueTypes, ScriptGoesOn, PastScript, Pending, Terminal
    <3>1. t # Shape(p)
      OBVIOUS
    <3>2. UNCHANGED pc \/ \E l : pc' = [pc EXCEPT ![t] = l]
      <4>1. CASE TickStart(t)
        BY <4>1 DEF TickStart, Goto
      <4>2. CASE TickSelect(t)
        BY <4>2 DEF TickSelect, Goto
      <4>3. CASE TickEnd(t)
        BY <4>3 DEF TickEnd, Goto
      <4>4. ASSUME NEW r \in Rows, \/ TickRecover(t, r) \/ TickRecoverError(t, r)
                                   \/ TickPassesOver(t, r) \/ TickStamp(t, r)
            PROVE  UNCHANGED pc \/ \E l : pc' = [pc EXCEPT ![t] = l]
        BY <4>4 DEF TickRecover, TickRecoverError, TickPassesOver, TickStamp, Goto
      <4> QED
        BY <1>4, <4>1, <4>2, <4>3, <4>4 DEF Tick
    <3> QED
      BY <3>1, <3>2 DEF TypeOK
  <2>4. /\ job'[Script(p)] = job[Script(p)]
        /\ ~Undisturbed' \/ job'[Shape(p)] = job[Shape(p)] \/ job'[Shape(p)] \in Pending
    <3>1. CASE TickStart(t) \/ TickSelect(t) \/ TickEnd(t)
      BY <3>1 DEF TickStart, TickSelect, TickEnd
    <3>2. ASSUME NEW r \in Rows, TickPassesOver(t, r) \/ TickStamp(t, r)
          PROVE  UNCHANGED job
      BY <3>2 DEF TickPassesOver, TickStamp
    <3>3. ASSUME NEW r \in Rows, TickRecover(t, r)
          PROVE  /\ job'[Script(p)] = job[Script(p)]
                 /\ job'[Shape(p)] = job[Shape(p)] \/ job'[Shape(p)] \in Pending
      BY <3>3, RowFacts DEF TickRecover, RemoveAndAdd, Script, Shape
    <3>4. ASSUME NEW r \in Rows, TickRecoverError(t, r)
          PROVE  ~Undisturbed' /\ job'[Script(p)] = job[Script(p)]
      <4>1. ~Undisturbed'
        BY <3>4, SpendDisturbs DEF TickRecoverError, Events
      <4>2. job' = [job EXCEPT ![Shape(r.post)] = "absent"] /\ Shape(r.post) # Script(p)
        BY <3>4 DEF TickRecoverError, Script, Shape
      <4> QED
        BY <4>1, <4>2
    <3> QED
      BY <1>4, <3>1, <3>2, <3>3, <3>4 DEF Tick
  <2> QED
    BY <2>1, <2>2, <2>3, <2>4
<1> QED
  BY <1>1, <1>2, <1>3, <1>4 DEF SettleFor

LEMMA ScriptGoesOnAlways ==
  ASSUME TypeOK, Step, NEW p \in Posts, Format[p] = "reel"
  PROVE  ScriptGoesOn(p)
  BY MonthKeepsScript, WorkerKeepsScript, SettlersKeepScript DEF Step

LEMMA ScriptInvKept ==
  ASSUME TypeOK, TypeOK', ScriptInv, Next
  PROVE  ScriptInv'
<1> SUFFICES ASSUME NEW p \in Posts, Format[p] = "reel"
             PROVE  /\ job'[Script(p)] \in Terminal => p \in scriptRan'
                    /\ PastScript(p)' /\ Undisturbed' => ScriptTried(p)' \/ job'[Script(p)] \in Pending
  BY DEF ScriptInv
<1>1. Step /\ Record /\ ScriptGoesOn(p)
  BY ScriptGoesOnAlways DEF Next
<1>2. job'[Script(p)] \in Terminal => p \in scriptRan'
  BY <1>1, ReelJobs DEF Record, Script
<1>3. ScriptTried(p) => ScriptTried(p)'
  BY <1>1 DEF ScriptTried, ScriptGoesOn, Record
<1>4. ASSUME PastScript(p)', Undisturbed' PROVE ScriptTried(p)' \/ job'[Script(p)] \in Pending
  <2>1. CASE PastScript(p)
    BY <1>1, <1>2, <1>3, <1>4, <2>1 DEF ScriptInv, ScriptGoesOn, ScriptTried
  <2>2. CASE SettleScript(Shape(p)) /\ job[Shape(p)] \notin Pending
    <3>1. UNCHANGED <<live, caption, script>> /\ p \in live \cap caption
      BY <1>4, <2>2 DEF SettleScript, PastScript
    <3>2. CASE p \in script
      BY <3>1, <3>2 DEF ScriptTried
    <3>3. CASE p \notin script
      <4>1. Add(Script(p))
        BY <2>2, <3>1, <3>3 DEF SettleScript, NeedsScript, Shape, Script
      <4>2. job'[Script(p)] \in Pending \cup Terminal
        BY <4>1, ReelJobs DEF Add, TypeOK, QueueTypes, Pending, Terminal
      <4> QED
        BY <1>2, <4>2 DEF ScriptTried
    <3> QED
      BY <3>2, <3>3
  <2> QED
    BY <1>1, <1>4, <2>1, <2>2 DEF ScriptGoesOn
<1> QED
  BY <1>2, <1>4

\* Only the settlement's own check of the queue moves a handler to the claim.
LEMMA OnlySettleJobsClaims ==
  ASSUME TypeOK, Step, NEW s \in Jobs, pc[s] = "jobs", pc'[s] = "claim"
  PROVE  SettleJobs(s)
<1> USE JobFacts DEF TypeOK, SettlerTypes, Goto
<1>1. ASSUME \E by \in {"client", "auto"} : Approve(by) PROVE FALSE
  BY <1>1 DEF Approve
<1>2. ASSUME NEW p \in Posts, FanOut(p) \/ Client(p) \/ Age(p) PROVE FALSE
  BY <1>2 DEF FanOut, Client, FanOutDecline, FanOutShape, FanOutShapeError, FanOutHook,
     FanOutHookError, ClientAsk, ClientAskBanked, ClientAskQueued, ClientAskRefused, ClientEdit,
     ClientRemove, Age
<1>3. ASSUME AppCrash \/ WorkerCrash PROVE FALSE
  BY <1>3 DEF AppCrash, WorkerCrash
<1>4. ASSUME NEW j \in Jobs, Work(j) \/ Expire(j) \/ SettleFor(j) PROVE FALSE
  BY <1>4 DEF Work, Start, Finish, Expire, ShapeSucceeds, ShapeThrows, ShapeThrowsEarly,
     ScriptSucceeds, HookSucceeds, HookOrScriptThrows, Complete, GiveUp, Settling, SettleFor,
     SettleScript, SettleScriptError
<1>5. ASSUME NEW u \in Settlers, Settle(u) PROVE SettleJobs(s)
  BY <1>5 DEF Settle, SettlePosts, SettleJobs, SettleNoLink, SettleClaim, SettleSend,
     SettleRefused, SettleAmbiguous, SettleRelease, SettleReadError, Leave
<1>6. ASSUME NEW t \in Sweepers, Tick(t) PROVE FALSE
  BY <1>6, SweepersAssumption DEF Tick, TickStart, TickSelect, TickRecover, TickRecoverError, TickPassesOver,
     TickStamp, TickEnd
<1> QED
  BY <1>1, <1>2, <1>3, <1>4, <1>5, <1>6 DEF Step

\* A reel's caption handler finds the cycle settled only after the script that the
\* caption made possible has been queued and has run, whatever dies, is retried or is
\* queued again around it.
THEOREM OwnScriptRunsFirstHolds == Spec => OwnScriptRunsFirst
<1>1. Init => ScriptInv
  BY ReelJobs DEF Init, ScriptInv, PastScript, Terminal
<1>2. TypeOK /\ TypeOK' /\ ScriptInv /\ [Next]_vars => ScriptInv'
  <2>1. CASE UNCHANGED vars
    BY <2>1 DEF vars, ScriptInv, PastScript, Undisturbed, ScriptTried
  <2> QED
    BY <2>1, ScriptInvKept
<1>3. TypeOK /\ ScriptInv /\ [Next]_vars =>
        [\A p \in Posts :
           LET s == <<"shape", p>> IN
           /\ pc[s] = "jobs" /\ pc'[s] = "claim"
           /\ Format[p] = "reel" /\ p \in live \cap caption
           /\ job[s] \notin Pending /\ used["queue_error"] = 0 /\ used["edit"] = 0
           => ScriptTried(p)]_vars
  <2> SUFFICES ASSUME TypeOK, ScriptInv, Next, NEW p \in Posts,
                      pc[Shape(p)] = "jobs", pc'[Shape(p)] = "claim",
                      Format[p] = "reel", p \in live \cap caption,
                      job[Shape(p)] \notin Pending, Undisturbed
               PROVE  ScriptTried(p)
    BY DEF Shape, Undisturbed
  <2>1. SettleJobs(Shape(p))
    BY ReelJobs, OnlySettleJobsClaims DEF Next
  <2>2. job[Script(p)] \notin Pending
    BY <2>1, ReelJobs DEF SettleJobs, HasPendingGenerationJobs, Goto, Leave, TypeOK, SettlerTypes, Settlers
  <2> QED
    BY <2>2 DEF ScriptInv, PastScript
<1> QED
  BY <1>1, <1>2, <1>3, TypeCorrect, PTL DEF Spec, OwnScriptRunsFirst

-----------------------------------------------------------------------------
(* The refinement. *)

\* The handlers, ticks and claims announce the month as Announcement promises it:
\* once, and after all of it is done.
THEOREM ImplementsAnnouncementHolds ==
  ASSUME Budget["ambiguous"] = 0
  PROVE  Spec => ImplementsAnnouncement
<1>1. Init => Promise!Init
  BY DEF Init, Promise!Init
<1>2. TypeOK /\ ClaimInv /\ AnnounceInv /\ ClaimInv' /\ [Next]_vars
        => [Promise!Settle \/ Promise!Announce]_<<resolved, mail>>
  <2>1. ASSUME TypeOK, ClaimInv, AnnounceInv, ClaimInv', Next
        PROVE  [Promise!Settle \/ Promise!Announce]_<<resolved, mail>>
    <3>1. resolved \subseteq resolved' /\ resolved' \subseteq Posts
      BY <2>1 DEF Next, Record, TypeOK, HistoryTypes
    <3>2. CASE mail' = mail
      BY <3>1, <3>2 DEF Promise!Settle
    <3>3. CASE mail' # mail
      <4>1. PICK s \in Settlers : pc[s] = "send"
        BY <2>1, <3>3, GettingPassed DEF Next
      <4>2. resolved = Posts /\ mail = 0
        BY <2>1, <4>1 DEF AnnounceInv, PassedInv, Passed, ClaimInv, Holding
      <4>3. mail' = 1
        BY <2>1, <3>3, <4>2, TypesKept DEF ClaimInv, TypeOK, CycleTypes
      <4> QED
        BY <3>1, <4>2, <4>3 DEF Promise!Announce
    <3> QED
      BY <3>2, <3>3
  <2>2. ASSUME UNCHANGED vars
        PROVE  [Promise!Settle \/ Promise!Announce]_<<resolved, mail>>
    BY <2>2 DEF vars
  <2> QED
    BY <2>1, <2>2
<1> QED
  BY <1>1, <1>2, TypeCorrect, ClaimInvHolds, AnnounceInvHolds, PTL
  DEF Spec, ImplementsAnnouncement, Promise!Spec

=============================================================================
