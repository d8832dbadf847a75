----------------------------- MODULE PlanReady -----------------------------
(***************************************************************************)
(* One approved content cycle, from the approval to the plan-ready email.  *)
(*                                                                         *)
(* Approving a draft month turns its posts to 'generating' and fans out    *)
(* one BullMQ job per caption (and one per carousel hook).  Every job that *)
(* finishes for good fires a handler that first queues the reel's script   *)
(* and then asks whether the cycle has settled; a tick every ten minutes   *)
(* asks the same thing and re-enqueues failed or stranded posts.  Whoever  *)
(* finds the cycle settled claims plan_ready_sent_at and sends the email.  *)
(*                                                                         *)
(* Every await between two reads or writes of the database or the queue is *)
(* a step of its own, so handlers, ticks, the worker and the client's      *)
(* requests interleave as they do in the two Node processes.               *)
(***************************************************************************)
EXTENDS Naturals, FiniteSets

CONSTANTS
  Posts,             \* the posts of the approved month
  Format,            \* Posts -> "reel" | "carousel" | "single"
  Ungrounded,        \* posts whose subject the product catalogue does not hold
  Sweepers,          \* concurrent runs of the retry tick
  Concurrency,       \* jobs the worker runs at once (2 in the code)
  MaxAttempts,       \* GENERATION_JOB_OPTIONS.attempts (3 in the code)
  MaxSweepAttempts,  \* MAX_SWEEP_ATTEMPTS (2 in the code)
  Budget,            \* bound on each kind of event of the environment
  MaxEvents          \* bound on all of them together

\* What the environment may do, each at most Budget[e] times: the worker or the
\* app process dies, an assembly read throws, a query of a settlement throws, Redis
\* refuses an add, the mail transport refuses or reports a failure for a mail it
\* accepted, no app link can be built, a finished job id leaves the queue (an hour after it finished), the
\* tick's stamp of a row takes longer than all attempts of the job it has queued
\* (seconds of backoff lie between them), and the client asks for a rewrite, edits
\* or removes a post.
Events == {"worker_crash", "app_crash", "early_throw", "read_error", "queue_error",
           "refused", "ambiguous", "no_link", "expire", "late_stamp",
           "ask", "edit", "remove"}

Kinds == {"shape", "hook", "script"}

ASSUME FormatAssumption == Format \in [Posts -> {"reel", "carousel", "single"}]
ASSUME UngroundedAssumption == Ungrounded \subseteq Posts
ASSUME BoundsAssumption ==
  /\ Concurrency \in Nat \ {0}
  /\ MaxAttempts \in Nat \ {0}
  /\ MaxSweepAttempts \in Nat
  /\ Budget \in [Events -> Nat]
  /\ MaxEvents \in Nat

\* shape_<cycle>_<post>, hook_<cycle>_<post> and script_<cycle>_<post>: the ids
\* that exist for a post's format.
Jobs == {j \in Kinds \X Posts :
           \/ j[1] = "shape"
           \/ j[1] = "hook"   /\ Format[j[2]] = "carousel"
           \/ j[1] = "script" /\ Format[j[2]] = "reel"}

Settlers == Jobs \cup Sweepers

ASSUME SweepersAssumption == Jobs \cap Sweepers = {}

VARIABLES
  approvedBy,       \* content_cycles.approved_by, "none" while approved_at is null
  planReadySentAt,  \* content_cycles.plan_ready_sent_at IS NOT NULL
  status,           \* content_cycle_posts.status ("new" stands for 'new' and 'edited')
  live,             \* posts whose deleted_at is null
  caption,          \* posts with a generated or typed caption
  script,           \* posts with a script
  sweeps,           \* the sweepAttempts counter kept in source_meta
  aged,             \* generating posts whose updated_at is over two hours old
  todo,             \* posts the running fan-out has not queued yet
  todoHook,         \* the carousel whose hook the fan-out queues next
  asking,           \* the post a client request has marked and not yet queued
  job,              \* state of each job id in the queue
  attempts,         \* job.attemptsMade
  isGenerating,     \* posts whose shape attempt read a generating or failed row
  pc,               \* where each settler stands
  batch,            \* rows a tick has read and not visited yet
  stamp,            \* the row a tick has re-enqueued and not stamped yet
  mail,             \* plan-ready emails that reached the transport
  used,             \* how much of each Budget is spent
  events,           \* how much of MaxEvents is spent
  resolved,         \* history: posts that have left 'generating' at least once
  scriptRan         \* history: reels whose script job has finished at least once

cycleVars == <<approvedBy, planReadySentAt>>
postVars  == <<status, live, caption, script, sweeps, aged>>
appVars   == <<todo, todoHook, asking>>
queueVars == <<job, attempts, isGenerating>>
tickVars  == <<batch, stamp>>
envVars   == <<used, events>>
vars == <<cycleVars, postVars, appVars, queueVars, pc, tickVars, mail, envVars,
          resolved, scriptRan>>

Pending  == {"waiting", "active", "returned", "threw"}
Terminal == {"completed", "failed"}

\* A row a tick has read: the pass counter it saw is still below the limit.
Rows == [post : Posts, attempts : 0..(MaxSweepAttempts - 1), stranded : BOOLEAN]

SettlerSteps == {"idle", "script", "posts", "jobs", "claim", "send", "release",
                 "select", "recover", "stamp"}

CycleTypes ==
  /\ approvedBy \in {"none", "client", "auto"}
  /\ planReadySentAt \in BOOLEAN
  /\ mail \in Nat

PostTypes ==
  /\ status \in [Posts -> {"draft", "generating", "generation_failed", "new"}]
  /\ live \subseteq Posts /\ caption \subseteq Posts /\ script \subseteq Posts
  /\ sweeps \in [Posts -> 0..MaxSweepAttempts]
  /\ aged \subseteq Posts

AppTypes == todo \subseteq Posts /\ todoHook \subseteq Posts /\ asking \subseteq Posts

QueueTypes ==
  /\ job \in [Jobs -> {"absent"} \cup Pending \cup Terminal]
  /\ attempts \in [Jobs -> 0..(MaxAttempts - 1)]
  /\ isGenerating \subseteq Posts

SettlerTypes ==
  /\ pc \in [Settlers -> SettlerSteps]
  /\ batch \in [Sweepers -> SUBSET Rows]
  /\ stamp \in [Sweepers -> SUBSET Rows]

EnvTypes == used \in [Events -> Nat] /\ events \in Nat

HistoryTypes == resolved \subseteq Posts /\ scriptRan \subseteq Posts

TypeOK == /\ CycleTypes /\ PostTypes /\ AppTypes /\ QueueTypes
          /\ SettlerTypes /\ EnvTypes /\ HistoryTypes

Init ==
  /\ approvedBy = "none" /\ planReadySentAt = FALSE
  /\ status = [p \in Posts |-> "draft"]
  /\ live = Posts /\ caption = {} /\ script = {}
  /\ sweeps = [p \in Posts |-> 0] /\ aged = {}
  /\ todo = {} /\ todoHook = {} /\ asking = {}
  /\ job = [j \in Jobs |-> "absent"] /\ attempts = [j \in Jobs |-> 0]
  /\ isGenerating = {}
  /\ pc = [s \in Settlers |-> "idle"]
  /\ batch = [t \in Sweepers |-> {}] /\ stamp = [t \in Sweepers |-> {}]
  /\ mail = 0 /\ used = [e \in Events |-> 0] /\ events = 0
  /\ resolved = {} /\ scriptRan = {}

Spend(e) ==
  /\ used[e] < Budget[e] /\ events < MaxEvents
  /\ used' = [used EXCEPT ![e] = @ + 1]
  /\ events' = events + 1

\* A row update also moves updated_at (the row trigger of migration 0050).
SetStatus(p, to) ==
  status' = [status EXCEPT ![p] = to] /\ aged' = aged \ {p}

\* queue.add with a fixed job id: nothing happens while the id exists.
Add(j) ==
  IF job[j] = "absent"
    THEN /\ job' = [job EXCEPT ![j] = "waiting"]
         /\ attempts' = [attempts EXCEPT ![j] = 0]
    ELSE UNCHANGED <<job, attempts>>

\* enqueueShape, enqueueHookJob and the tick's clearOrBusy: a finished job with
\* the id is removed first, a job still in flight makes the call report 'busy'.
RemoveAndAdd(j) ==
  IF job[j] \in Pending
    THEN UNCHANGED <<job, attempts>>
    ELSE /\ job' = [job EXCEPT ![j] = "waiting"]
         /\ attempts' = [attempts EXCEPT ![j] = 0]

-----------------------------------------------------------------------------
(* The approval and its fan-out (app process for "client", tick for "auto"). *)

\* The transaction of approveDraftCore, as the approver's fan-out begins.
Approve(by) ==
  /\ approvedBy = "none"
  /\ approvedBy' = by
  /\ status' = [p \in Posts |-> IF p \in live THEN "generating" ELSE status[p]]
  /\ todo' = live
  /\ UNCHANGED <<planReadySentAt, live, caption, script, sweeps, aged, todoHook,
                 asking, queueVars, pc, tickVars, mail, envVars>>

\* startPhase2 declines a launch the catalogue does not hold: no job, the post is
\* 'new' and waits for its subject.  The auto path has no such check.
FanOutDecline(p) ==
  /\ p \in todo /\ todoHook = {}
  /\ approvedBy = "client" /\ p \in Ungrounded
  /\ SetStatus(p, "new")
  /\ todo' = todo \ {p}
  /\ UNCHANGED <<cycleVars, live, caption, script, sweeps, todoHook, asking,
                 queueVars, pc, tickVars, mail, envVars>>

FanOutQueues(p) ==
  /\ p \in todo /\ todoHook = {}
  /\ ~(approvedBy = "client" /\ p \in Ungrounded)
  /\ todo' = todo \ {p}

\* The caption job is added; a carousel's hook is added next.
FanOutShape(p) ==
  /\ FanOutQueues(p)
  /\ IF approvedBy = "client" THEN RemoveAndAdd(<<"shape", p>>) ELSE Add(<<"shape", p>>)
  /\ todoHook' = IF Format[p] = "carousel" THEN {p} ELSE {}
  /\ UNCHANGED <<cycleVars, postVars, asking, isGenerating, pc, tickVars, mail, envVars>>

\* Redis refuses the caption job: the post is marked failed, the fan-out goes on.
FanOutShapeError(p) ==
  /\ FanOutQueues(p)
  /\ Spend("queue_error")
  /\ SetStatus(p, "generation_failed")
  /\ UNCHANGED <<cycleVars, live, caption, script, sweeps, todoHook, asking,
                 queueVars, pc, tickVars, mail>>

FanOutHook(p) ==
  /\ p \in todoHook
  /\ IF approvedBy = "client" THEN RemoveAndAdd(<<"hook", p>>) ELSE Add(<<"hook", p>>)
  /\ todoHook' = {}
  /\ UNCHANGED <<cycleVars, postVars, todo, asking, isGenerating, pc, tickVars,
                 mail, envVars>>

\* The client's fan-out lets a refused hook go; the auto fan-out's catch marks the
\* whole post failed although its caption job is queued.
FanOutHookError(p) ==
  /\ p \in todoHook
  /\ Spend("queue_error")
  /\ todoHook' = {}
  /\ IF approvedBy = "auto" THEN SetStatus(p, "generation_failed")
                            ELSE UNCHANGED <<status, aged>>
  /\ UNCHANGED <<cycleVars, live, caption, script, sweeps, todo, asking, queueVars,
                 pc, tickVars, mail>>

-----------------------------------------------------------------------------
(* The client's requests on a month that is no longer a draft. *)

\* startPostGeneration, first write: the post is generating before its job exists.
ClientAsk(p) ==
  /\ Spend("ask")
  /\ asking = {} /\ p \in live /\ status[p] # "draft"
  /\ SetStatus(p, "generating")
  /\ asking' = {p}
  /\ UNCHANGED <<cycleVars, live, caption, script, sweeps, todo, todoHook, queueVars,
                 pc, tickVars, mail>>

\* With the month's allowance spent it banks the request instead: markPostBanked
\* leaves the post failed and queues nothing.
ClientAskBanked(p) ==
  /\ Spend("ask")
  /\ asking = {} /\ p \in live /\ status[p] # "draft"
  /\ SetStatus(p, "generation_failed")
  /\ UNCHANGED <<cycleVars, live, caption, script, sweeps, appVars, queueVars, pc,
                 tickVars, mail>>

\* startPostGeneration, the enqueue.  'busy' counts as started.
ClientAskQueued(p) ==
  /\ p \in asking
  /\ RemoveAndAdd(<<"shape", p>>)
  /\ asking' = {}
  /\ UNCHANGED <<cycleVars, postVars, todo, todoHook, isGenerating, pc, tickVars,
                 mail, envVars>>

\* markPostGenerationFailed re-reads the row and skips a deleted one.
ClientAskRefused(p) ==
  /\ p \in asking
  /\ Spend("queue_error")
  /\ asking' = {}
  /\ IF p \in live THEN SetStatus(p, "generation_failed") ELSE UNCHANGED <<status, aged>>
  /\ UNCHANGED <<cycleVars, live, caption, script, sweeps, todo, todoHook, queueVars,
                 pc, tickVars, mail>>

\* patchPost: any patch, a new date included, leaves the row 'new' or 'edited'.
ClientEdit(p) ==
  /\ Spend("edit")
  /\ p \in live /\ status[p] # "draft"
  /\ SetStatus(p, "new")
  /\ caption' \in {caption, caption \cup {p}}
  /\ UNCHANGED <<cycleVars, live, script, sweeps, appVars, queueVars, pc, tickVars, mail>>

ClientRemove(p) ==
  /\ Spend("remove")
  /\ p \in live /\ status[p] # "draft"
  /\ live' = live \ {p} /\ aged' = aged \ {p}
  /\ UNCHANGED <<cycleVars, status, caption, script, sweeps, appVars, queueVars, pc,
                 tickVars, mail>>

\* The app dies between two adds of a client's fan-out, or between mark and enqueue.
AppCrash ==
  /\ Spend("app_crash")
  /\ asking' = {}
  /\ IF approvedBy = "client" THEN todo' = {} /\ todoHook' = {}
                              ELSE UNCHANGED <<todo, todoHook>>
  /\ UNCHANGED <<cycleVars, postVars, queueVars, pc, tickVars, mail>>

-----------------------------------------------------------------------------
(* The worker: at most Concurrency attempts at a time. *)

\* An attempt begins; a shape attempt keeps what the row said when it read it.
Start(j) ==
  /\ job[j] = "waiting"
  /\ Cardinality({k \in Jobs : job[k] \in Pending \ {"waiting"}}) < Concurrency
  /\ job' = [job EXCEPT ![j] = "active"]
  /\ isGenerating' =
       IF j[1] # "shape" THEN isGenerating
       ELSE IF status[j[2]] \in {"generating", "generation_failed"}
              THEN isGenerating \cup {j[2]}
              ELSE isGenerating \ {j[2]}
  /\ UNCHANGED <<cycleVars, postVars, appVars, attempts, pc, tickVars, mail, envVars>>

\* runShapeForCycle writes the caption and the status whatever the row says now.
ShapeSucceeds(p) ==
  /\ job[<<"shape", p>>] = "active"
  /\ SetStatus(p, "new")
  /\ caption' = caption \cup {p}
  /\ job' = [job EXCEPT ![<<"shape", p>>] = "returned"]
  /\ UNCHANGED <<cycleVars, live, script, sweeps, appVars, attempts, isGenerating, pc,
                 tickVars, mail, envVars>>

FinalAttemptOneLate(j) == attempts[j] >= MaxAttempts   \* mutant: off by one

FinalAttempt(j) == attempts[j] + 1 >= MaxAttempts

\* A throw with attempts left sends the job back to wait, and settleFor returns at
\* once; the last throw leaves it about to be moved to the failed set.
Throw(j) ==
  IF FinalAttempt(j)
    THEN job' = [job EXCEPT ![j] = "threw"] /\ UNCHANGED attempts
    ELSE /\ job' = [job EXCEPT ![j] = "waiting"]
         /\ attempts' = [attempts EXCEPT ![j] = @ + 1]

StampDue(p) == \E t \in Sweepers : \E r \in stamp[t] : r.post = p

\* Its catch marks the post failed on the last attempt only, and only when the row
\* was generating or failed at the start of the attempt.
ShapeThrows(p) ==
  /\ job[<<"shape", p>>] = "active"
  /\ IF p \in isGenerating /\ FinalAttempt(<<"shape", p>>)
       THEN SetStatus(p, "generation_failed")
       ELSE UNCHANGED <<status, aged>>
  /\ Throw(<<"shape", p>>)
  /\ IF FinalAttempt(<<"shape", p>>) /\ StampDue(p) THEN Spend("late_stamp") ELSE UNCHANGED envVars
  /\ UNCHANGED <<cycleVars, live, caption, script, sweeps, appVars, isGenerating, pc,
                 tickVars, mail>>

\* The reads before its try block throw: the row is left as it was.
ShapeThrowsEarly(p) ==
  /\ job[<<"shape", p>>] = "active"
  /\ Spend("early_throw")
  /\ Throw(<<"shape", p>>)
  /\ UNCHANGED <<cycleVars, postVars, appVars, isGenerating, pc, tickVars, mail>>

\* runScriptForPost refuses a post without a real caption.
ScriptSucceeds(p) ==
  /\ <<"script", p>> \in Jobs /\ job[<<"script", p>>] = "active"
  /\ p \in caption
  /\ script' = script \cup {p} /\ aged' = aged \ {p}
  /\ job' = [job EXCEPT ![<<"script", p>>] = "returned"]
  /\ UNCHANGED <<cycleVars, status, live, caption, sweeps, appVars, attempts,
                 isGenerating, pc, tickVars, mail, envVars>>

\* The hook text itself is read by nothing in this module.
HookSucceeds(p) ==
  /\ <<"hook", p>> \in Jobs /\ job[<<"hook", p>>] = "active"
  /\ aged' = aged \ {p}
  /\ job' = [job EXCEPT ![<<"hook", p>>] = "returned"]
  /\ UNCHANGED <<cycleVars, status, live, caption, script, sweeps, appVars, attempts,
                 isGenerating, pc, tickVars, mail, envVars>>

HookOrScriptThrows(j) ==
  /\ j[1] # "shape" /\ job[j] = "active"
  /\ Throw(j)
  /\ UNCHANGED <<cycleVars, postVars, appVars, isGenerating, pc, tickVars, mail, envVars>>

\* The queue moves the job to its final set and the worker emits the event whose
\* handler is settleFor.  One handler per job id is followed at a time.
SettlingStraightAway(j) ==   \* mutant: settle first, leave the script for later
  /\ pc[j] = "idle"
  /\ pc' = [pc EXCEPT ![j] = "posts"]

Settling(j) ==
  /\ pc[j] = "idle"
  /\ pc' = [pc EXCEPT ![j] = IF j[1] \in {"shape", "hook"} THEN "script" ELSE "posts"]

Complete(j) ==
  /\ job[j] = "returned"
  /\ job' = [job EXCEPT ![j] = "completed"]
  /\ Settling(j)
  /\ UNCHANGED <<cycleVars, postVars, appVars, attempts, isGenerating, tickVars, mail, envVars>>

GiveUp(j) ==
  /\ job[j] = "threw"
  /\ job' = [job EXCEPT ![j] = "failed"]
  /\ Settling(j)
  /\ UNCHANGED <<cycleVars, postVars, appVars, attempts, isGenerating, tickVars, mail, envVars>>

\* removeOnComplete and removeOnFail: a finished id leaves the queue after an hour.
Expire(j) ==
  /\ job[j] \in Terminal
  /\ Spend("expire")
  /\ job' = [job EXCEPT ![j] = "absent"]
  /\ UNCHANGED <<cycleVars, postVars, appVars, attempts, isGenerating, pc, tickVars, mail>>

\* The worker process dies: attempts in flight stall and run again, every handler
\* and tick is lost where it stands, and so is an auto approval's fan-out.
WorkerCrash ==
  /\ Spend("worker_crash")
  /\ job' = [j \in Jobs |-> IF job[j] \in Pending THEN "waiting" ELSE job[j]]
  /\ pc' = [s \in Settlers |-> "idle"]
  /\ batch' = [t \in Sweepers |-> {}] /\ stamp' = [t \in Sweepers |-> {}]
  /\ IF approvedBy = "auto" THEN todo' = {} /\ todoHook' = {}
                            ELSE UNCHANGED <<todo, todoHook>>
  /\ UNCHANGED <<cycleVars, postVars, asking, attempts, isGenerating, mail>>

-----------------------------------------------------------------------------
(* settleFor and settlePlanReady, one step per await. *)

\* A job's handler ends; a tick goes on to the posts it recovers.
Leave(s) == IF s \in Sweepers THEN "select" ELSE "idle"

Goto(s, l) == pc' = [pc EXCEPT ![s] = l]

\* enqueueScriptIfReady, for a shape or hook job and before its settlement.
NeedsScript(p) ==
  p \in live /\ Format[p] = "reel" /\ p \in caption /\ p \notin script

SettleScript(j) ==
  /\ pc[j] = "script"
  /\ IF NeedsScript(j[2]) THEN Add(<<"script", j[2]>>) ELSE UNCHANGED <<job, attempts>>
  /\ Goto(j, "posts")
  /\ UNCHANGED <<cycleVars, postVars, appVars, isGenerating, tickVars, mail, envVars>>

\* Its catch swallows a refused add: the reel keeps the manual button.
SettleScriptError(j) ==
  /\ pc[j] = "script" /\ NeedsScript(j[2])
  /\ Spend("queue_error")
  /\ Goto(j, "posts")
  /\ UNCHANGED <<cycleVars, postVars, appVars, queueVars, tickVars, mail>>

HasNoPostsToWaitFor == FALSE   \* mutant: ask the queue only

HasGeneratingPosts == \E p \in live : status[p] = "generating"

\* The cycle row (approved, not sent yet) and then the count of generating posts.
\* The two reads are one step: what the first could have read too early, the
\* claim checks again.
SettlePosts(s) ==
  /\ pc[s] = "posts"
  /\ Goto(s, IF approvedBy = "none" \/ planReadySentAt \/ HasGeneratingPosts
                THEN Leave(s) ELSE "jobs")
  /\ UNCHANGED <<cycleVars, postVars, appVars, queueVars, tickVars, mail, envVars>>

\* A handler leaves its own job id out of the count, a tick leaves none out.
HasPendingGenerationJobs(s) == \E j \in Jobs \ {s} : job[j] \in Pending

SettleJobs(s) ==
  /\ pc[s] = "jobs"
  /\ Goto(s, IF HasPendingGenerationJobs(s) THEN Leave(s) ELSE "claim")
  /\ UNCHANGED <<cycleVars, postVars, appVars, queueVars, tickVars, mail, envVars>>

SettleNoLink(s) ==
  /\ pc[s] = "claim"
  /\ Spend("no_link")
  /\ Goto(s, Leave(s))
  /\ UNCHANGED <<cycleVars, postVars, appVars, queueVars, tickVars, mail>>

\* claimPlanReadySend: UPDATE ... WHERE plan_ready_sent_at IS NULL, won or lost.
SettleClaimAnyway(s) ==   \* mutant: UPDATE without the IS NULL
  /\ pc[s] = "claim"
  /\ planReadySentAt' = TRUE
  /\ Goto(s, "send")
  /\ UNCHANGED <<approvedBy, postVars, appVars, queueVars, tickVars, mail, envVars>>

SettleClaim(s) ==
  /\ pc[s] = "claim"
  /\ planReadySentAt' = TRUE
  /\ Goto(s, IF planReadySentAt THEN Leave(s) ELSE "send")
  /\ UNCHANGED <<approvedBy, postVars, appVars, queueVars, tickVars, mail, envVars>>

SettleSendAndRelease(s) ==   \* mutant: the release is not conditional on a refusal
  /\ pc[s] = "send"
  /\ mail' = mail + 1
  /\ Goto(s, "release")
  /\ UNCHANGED <<cycleVars, postVars, appVars, queueVars, tickVars, envVars>>

SettleSend(s) ==
  /\ pc[s] = "send"
  /\ mail' = mail + 1
  /\ Goto(s, Leave(s))
  /\ UNCHANGED <<cycleVars, postVars, appVars, queueVars, tickVars, envVars>>

\* deliverTemplatedEmail reports false: no template, a refused or a broken call.
SettleRefused(s) ==
  /\ pc[s] = "send"
  /\ Spend("refused")
  /\ Goto(s, "release")
  /\ UNCHANGED <<cycleVars, postVars, appVars, queueVars, tickVars, mail>>

\* The transport took the mail and the call still came back as a failure.
SettleAmbiguous(s) ==
  /\ pc[s] = "send"
  /\ Spend("ambiguous")
  /\ mail' = mail + 1
  /\ Goto(s, "release")
  /\ UNCHANGED <<cycleVars, postVars, appVars, queueVars, tickVars>>

\* releasePlanReadySend clears the stamp whoever set it.
SettleKeepsTheClaim(s) ==   \* mutant: a refused send keeps its stamp
  /\ pc[s] = "release"
  /\ Goto(s, Leave(s))
  /\ UNCHANGED <<cycleVars, postVars, appVars, queueVars, tickVars, mail, envVars>>

SettleRelease(s) ==
  /\ pc[s] = "release"
  /\ planReadySentAt' = FALSE
  /\ Goto(s, Leave(s))
  /\ UNCHANGED <<approvedBy, postVars, appVars, queueVars, tickVars, mail, envVars>>

\* A query of the settlement throws: settleFor, or the sweep's loop, catches it and
\* goes on.  After the claim that leaves the stamp behind, with no mail sent.
SettleReadError(s) ==
  /\ pc[s] \in {"posts", "jobs", "claim", "send", "release"}
  /\ Spend("read_error")
  /\ Goto(s, Leave(s))
  /\ UNCHANGED <<cycleVars, postVars, appVars, queueVars, tickVars, mail>>

-----------------------------------------------------------------------------
(* generation-retry-tick: settle what is unsent, then recover posts. *)

Recoverable(p) ==
  /\ p \in live /\ sweeps[p] < MaxSweepAttempts
  /\ status[p] = "generation_failed" \/ (status[p] = "generating" /\ p \in aged)

\* sweepUnsentPlanReady selects the cycle when it is approved and unsent.  A tick
\* that finds nothing at all to do is not a step.
TickStart(t) ==
  /\ pc[t] = "idle"
  /\ \/ approvedBy # "none" /\ ~planReadySentAt /\ Goto(t, "posts")
     \/ ~(approvedBy # "none" /\ ~planReadySentAt) /\ Goto(t, "select")
        /\ \E p \in Posts : Recoverable(p)
  /\ UNCHANGED <<cycleVars, postVars, appVars, queueVars, tickVars, mail, envVars>>

\* Two hours pass over a generating row: longer than its job, its fan-out or the
\* request that marked it can take.
Age(p) ==
  /\ p \in live \ aged /\ status[p] = "generating"
  /\ job[<<"shape", p>>] \notin Pending /\ p \notin todo \cup asking
  /\ aged' = aged \cup {p}
  /\ UNCHANGED <<cycleVars, status, live, caption, script, sweeps, appVars, queueVars,
                 pc, tickVars, mail, envVars>>

\* The SELECT of sweepFailedGenerations: failed rows, stranded rows, passes left.
RowOf(p) ==
  [post |-> p, attempts |-> sweeps[p], stranded |-> status[p] = "generating"]

TickSelect(t) ==
  /\ pc[t] = "select"
  /\ batch' = [batch EXCEPT ![t] = {RowOf(p) : p \in {q \in Posts : Recoverable(q)}}]
  /\ Goto(t, IF \E p \in Posts : Recoverable(p) THEN "recover" ELSE "idle")
  /\ UNCHANGED <<cycleVars, postVars, appVars, queueVars, stamp, mail, envVars>>

\* One row: a job in flight is left alone, otherwise the id is cleared and added.
TickRecover(t, r) ==
  /\ pc[t] = "recover" /\ r \in batch[t]
  /\ batch' = [batch EXCEPT ![t] = @ \ {r}]
  /\ RemoveAndAdd(<<"shape", r.post>>)
  /\ IF job[<<"shape", r.post>>] \in Pending
       THEN UNCHANGED <<stamp, pc>>
       ELSE stamp' = [stamp EXCEPT ![t] = {r}] /\ Goto(t, "stamp")
  /\ UNCHANGED <<cycleVars, postVars, appVars, isGenerating, mail, envVars>>

\* The add is refused: the finished id is gone, the pass is not counted.
TickRecoverError(t, r) ==
  /\ pc[t] = "recover" /\ r \in batch[t]
  /\ job[<<"shape", r.post>>] \notin Pending
  /\ Spend("queue_error")
  /\ batch' = [batch EXCEPT ![t] = @ \ {r}]
  /\ job' = [job EXCEPT ![<<"shape", r.post>>] = "absent"]
  /\ UNCHANGED <<cycleVars, postVars, appVars, attempts, isGenerating, pc, stamp, mail>>

\* A failed row may be passed over: its recorded error is the request's own fault
\* or the month's budget.  A stranded row has no error to classify.
TickPassesOver(t, r) ==
  /\ pc[t] = "recover" /\ r \in batch[t] /\ ~r.stranded
  /\ batch' = [batch EXCEPT ![t] = @ \ {r}]
  /\ UNCHANGED <<cycleVars, postVars, appVars, queueVars, pc, stamp, mail, envVars>>

\* The stamp re-checks the status in its WHERE and writes the counter it read.
TickStamp(t, r) ==
  /\ pc[t] = "stamp" /\ r \in stamp[t]
  /\ stamp' = [stamp EXCEPT ![t] = {}]
  /\ IF status[r.post] \in {"generating", "generation_failed"}
       THEN /\ SetStatus(r.post, "generating")
            /\ sweeps' = [sweeps EXCEPT ![r.post] = r.attempts + 1]
       ELSE UNCHANGED <<status, aged, sweeps>>
  /\ Goto(t, "recover")
  /\ UNCHANGED <<cycleVars, live, caption, script, appVars, queueVars, batch, mail, envVars>>

TickEnd(t) ==
  /\ pc[t] = "recover" /\ batch[t] = {}
  /\ Goto(t, "idle")
  /\ UNCHANGED <<cycleVars, postVars, appVars, queueVars, tickVars, mail, envVars>>

-----------------------------------------------------------------------------
FanOut(p) == \/ FanOutDecline(p) \/ FanOutShape(p) \/ FanOutShapeError(p)
             \/ FanOutHook(p) \/ FanOutHookError(p)

Client(p) == \/ ClientAsk(p) \/ ClientAskBanked(p)
             \/ ClientAskQueued(p) \/ ClientAskRefused(p)
             \/ ClientEdit(p) \/ ClientRemove(p)

Finish(j) ==
  \/ \E p \in Posts :
       \/ j = <<"shape", p>> /\ (ShapeSucceeds(p) \/ ShapeThrows(p) \/ ShapeThrowsEarly(p))
       \/ j = <<"script", p>> /\ ScriptSucceeds(p)
       \/ j = <<"hook", p>> /\ HookSucceeds(p)
  \/ HookOrScriptThrows(j)

Work(j) == Start(j) \/ Finish(j) \/ Complete(j) \/ GiveUp(j)

Settle(s) == \/ SettlePosts(s) \/ SettleJobs(s)
             \/ SettleNoLink(s) \/ SettleClaim(s)
             \/ SettleSend(s) \/ SettleRefused(s) \/ SettleAmbiguous(s)
             \/ SettleRelease(s) \/ SettleReadError(s)

SettleFor(j) == SettleScript(j) \/ SettleScriptError(j)

Tick(t) == \/ TickStart(t) \/ TickSelect(t) \/ TickEnd(t)
           \/ \E r \in Rows : \/ TickRecover(t, r) \/ TickRecoverError(t, r)
                              \/ TickPassesOver(t, r) \/ TickStamp(t, r)

Step ==
  \/ \E by \in {"client", "auto"} : Approve(by)
  \/ \E p \in Posts : FanOut(p) \/ Client(p) \/ Age(p)
  \/ AppCrash
  \/ \E j \in Jobs : Work(j) \/ Expire(j) \/ SettleFor(j)
  \/ WorkerCrash
  \/ \E s \in Settlers : Settle(s)
  \/ \E t \in Sweepers : Tick(t)

\* The two history variables only record what the step has just done.
Record ==
  /\ resolved' = resolved \cup
       {p \in Posts : p \notin live' \/ status'[p] \in {"new", "generation_failed"}}
  /\ scriptRan' = scriptRan \cup
       {p \in Posts : <<"script", p>> \in Jobs /\ job'[<<"script", p>>] \in Terminal}

Next == Step /\ Record

Spec == Init /\ [][Next]_vars

-----------------------------------------------------------------------------
(* Safety. *)

\* The client gets the plan-ready email at most once, however many handlers and
\* ticks settle the cycle and however often a refused send gives its claim back
\* ("never a double email", plan-ready.ts settlePlanReady).
AtMostOneMail == mail <= 1

\* The email announces a written month: by the time it goes, every post approved
\* with the month has come out of 'generating' at least once, by a caption, by a
\* recorded failure or by the client's own hand.
MailedMonthWasResolved == mail > 0 => resolved = Posts

(* Action properties. *)

ScriptTried(p) == p \in script \cup scriptRan

\* The order of settleFor: the handler of a reel's caption job can find the cycle
\* settled only after the script that caption made possible has been queued and
\* has run.  Set aside are a refused add, which the code lets go, a caption the client
\* typed, for which no script is queued, and a caption job that a tick or the client
\* has queued again meanwhile: its own handler follows.
OwnScriptRunsFirst ==
  [][\A p \in Posts :
       LET s == <<"shape", p>> IN
       /\ pc[s] = "jobs" /\ pc'[s] = "claim"
       /\ Format[p] = "reel" /\ p \in live \cap caption
       /\ job[s] \notin Pending /\ used["queue_error"] = 0 /\ used["edit"] = 0
       => ScriptTried(p)]_vars

\* What consumer.ts and plan-ready.ts say of the whole month: the email does not
\* go while a reel's script is still to be generated.
NoMailBeforeScripts ==
  [][mail' > mail => \A p \in live \cap caption : Format[p] = "reel" => ScriptTried(p)]_vars

-----------------------------------------------------------------------------
(* Liveness. *)

\* The worker drains the queue, its handlers run, the tick repeats, rows age, a
\* request in progress is carried on.  Nothing is assumed of the environment.
Fairness ==
  /\ \A p \in Posts : WF_vars((FanOutDecline(p) \/ FanOutShape(p) \/ FanOutHook(p)) /\ Record)
  /\ \A p \in Posts : WF_vars(ClientAskQueued(p) /\ Record)
  /\ \A p \in Posts : WF_vars(Age(p) /\ Record)
  /\ \A j \in Jobs : SF_vars(Start(j) /\ Record)
  /\ \A j \in Jobs : WF_vars((Finish(j) \/ Complete(j) \/ GiveUp(j) \/ SettleScript(j)) /\ Record)
  /\ \A s \in Settlers : WF_vars(Settle(s) /\ Record)
  /\ \A t \in Sweepers : WF_vars(Tick(t) /\ Record)

FairSpec == Spec /\ Fairness

\* Every approved month is announced: lost fan-outs, failed jobs and refused sends
\* are all recovered by the tick.  Only the worker's death may cost the email, when
\* it falls between the claim and the send: the code prefers that to a second mail.
Announced ==
  (approvedBy # "none") ~>
     (mail > 0 \/ (planReadySentAt /\ used["worker_crash"] > 0))

-----------------------------------------------------------------------------
(* What the component promises, and that it keeps the promise. *)

Promise == INSTANCE Announcement WITH done <- resolved, announced <- mail

\* The handlers, ticks and claims implement the one-shot announcement.
ImplementsAnnouncement == Promise!Spec

=============================================================================
