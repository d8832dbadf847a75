# A verification of Sprigly's content cycle

Sprigly prepares a month of social-media posts for a client. A month is a
**content cycle**: it is drafted, approved by the client (or by the system at the
cutoff), written post by post by generation jobs, and announced to the client by
one email. The parts that are hard to get right are the ones where several
processes act on one cycle row and its posts through PostgreSQL and BullMQ with
nothing but conditional updates and fixed job ids between them. This directory
models those parts in TLA+, checks them with TLC and proves their safety with
TLAPS.

Paths below are relative to the repository (`src/` here).

- [The system](#the-system): components, state, operations, hard behaviours
- [The modules](#the-modules): what each module models and how it corresponds to the code
- [The runs](#the-runs): bounds, fairness, what is shown
- [The proofs](#the-proofs): what holds for every value of the constants, and why
- [Findings](#findings)
- [What is left out](#what-is-left-out) and [the plan](#the-plan)

## The system

Three Node processes share one PostgreSQL database and one Redis:

| process | entry | what runs in it |
|---|---|---|
| client app | `packages: app` (Next.js) | the client's plan screen: approve, edit, ask for a rewrite, remove, add |
| admin | `admin` (Next.js) | the operator's buttons: confirm intake, run planning, reset, retry |
| engine | `engine/src/index.ts` | every BullMQ worker, the schedulers and the pollers |

There is no lock across two awaits anywhere: a handler reads a row, awaits, and
writes. What keeps it consistent is (a) `UPDATE ... WHERE <the state I saw>`
claims, (b) job ids derived from the cycle and the post, so that a second
`queue.add` is a no-op, and (c) sweeps that repeat.

### Components

Each row: the state a component keeps, its operations, whom it touches, and what
makes it correct. "Modelled" names the module.

| component | state and operations | interacts through | correct when | modelled |
|---|---|---|---|---|
| **Draft approval** `packages/engine/src/draft-approval-core.ts` | `approved_at/by`, post status. `approveDraftCore`: reads, then one transaction draft -> generating | called by the app and by the auto-run | one approval; only drafts become generating | PlanReady, PlanPath |
| **Generation fan-out** `app/src/lib/phase2.ts`, `engine/.../draft-plan.ts` | adds `shape_`, `hook_` jobs per post; declines ungrounded launches; marks failed what Redis refuses | queue, post rows | every generating post gets a job or a recorded failure | PlanReady |
| **Generation worker** `consumer.ts`, `shape.ts`, `hook.ts`, `script.ts`, `script-ready.ts` | attempts, captions, hooks, scripts; `settleFor` after each finished job | queue events, post rows | a final failure is recorded; a written caption leads to its script | PlanReady |
| **Settlement and plan-ready email** `plan-ready.ts`, `plan-ready-claim.ts`, `generation-status.ts`, `email-send.ts` | `plan_ready_sent_at`: check posts, check queue, claim, send, release | called by every job handler and every tick | at most one email, after the month is written, and eventually | PlanReady, Announcement |
| **Generation retry tick** `generation-sweep.ts`, `generation-recovery.ts` | `sweepAttempts` in `source_meta`; every ten minutes: settle unsent cycles, re-enqueue failed or stranded posts | queue, post rows, settlement | no post is stuck for good; passes are bounded | PlanReady |
| **Client requests on a post** `app/src/lib/post-generation.ts`, `mutations.ts` | ask, retry, bank, patch, remove | post rows, queue | a request is never lost nor overwritten | PlanReady (as they meet a running generation), PostAsks |
| **Cycle status machine** `machine.ts` | `status`, `prior_status`; `transitionCycle` | planner, auto-run, operator | only listed edges; failed returns to its prior | PlanPath |
| **Planning worker and merge** `planning.ts`, `plan-merge.ts` | one job `planning_<cycle>`; reads posts, writes a month, claims and sends | status machine, posts, the same claim | one plan per confirmation; client work survives | PlanPath |
| **Daily scheduler** `scheduler.ts`, `touch-schedule.ts` | at the cutoff: approve the draft or confirm and plan; three reminders before it | approval, status machine, planning queue | a month is handled once, never by both paths | PlanPath (auto-run) |
| **Operator buttons** `intake-actions.ts`, `planning-enqueue.ts`, `actions.ts` | raw status writes, `prepareJobSlot`, enqueue | status, planning queue | a button never strands a month | PlanPath |
| Request email and trawl `request-email.ts`, `ig-trawl.ts`, `ig-producer.ts`, `deep-trawl.ts` | chain of jobs ending in scheduled -> requested and an assembled draft | queue, status | asked once; the draft exists first | only its status move (PlanPath) |
| AI-change cap and banked changes `ai-change-cap.ts`, `banked-changes.ts` | monthly quota, banked posts, release and retirement | usage ledger, sweep, post rows | a change is charged once per ask and never for the plan itself; a banked post is released or retired | PostAsks |
| Weekly session `weekly-session.ts`, `weekly-cron.ts`, `ledger.ts` | one session per client and week, additions to the month | posts, email | one session a week; no lost posts | not modelled |
| **Draft assembly** `draft-assembly.ts`, `draft-skeleton.ts`, `draft-allocator.ts`, `draft-plan.ts` | a month of draft rows from history, series, ideas and the stated floor | post rows, `intake_json` | the stated cadence is kept; series and ideas get their slots and no others | MonthShape, DraftAssembly, DraftMonth |
| **Draft edits** `draft-apply.ts`, `draft-mutations.ts`, `draft-transforms.ts` | draft rows, receipts, notes and ideas; say, save, promote, move, drop, restore, add | draft rows, `intake_json`, approval, reassembly | a sentence does what its kind says and keeps what the client made theirs; nothing is written after the approval | DraftDesk, Transforms, DraftMonth |
| **Client agent** `agent/proposals.ts`, `agent/turn.ts` | `agent_proposals.status`; approve, reject, un-claim | post rows, queues, the screens | a proposed change is made once, and a refused one is not | AgentChanges (the conversation is model calls) |
| **Client app screens** `usePlanData.ts`, `VoiceSheet.tsx` | the pending list, a report per Apply | proposals, jobs | the report is true | AgentChanges (the Apply) |
| **Brief and intake** `api/plan/intake/route.ts`, `brief-extract.ts` | `intake_json`, `structured_brief` | the writers of `intake_json` | no writer loses what another wrote | DraftDesk (the writes) |
| **Voice pipeline** `voice-batch-merge.ts`, `extract.ts`, `apply.ts`, `voice-consumer.ts`, `revert-voice-merge.ts` | snapshots, runs, pending edits; nightly merge, monthly gate, rollback | cycle status after delivery | every edit found is learned; nothing learned is forgotten | VoiceMerge |
| **Incoming events** `gmail-poller.ts`, `poller.ts`, `consumer.ts`, `event-router.ts`, `workflow-runner.ts`, `resolution.ts` | watermark, processed ids, event status, triage log, read mark; poll, route, run, decide | queue, Gmail | every mail is taken in once; one that waits for a person is not marked read | MailIntake |
| **Drive poller and calendar workbook** `drive-poller.ts`, `build-workbook`, `calendar-consumer.ts` | page token, processed versions, self-write ledger | Drive, queues, status | every save of the client is noticed, the engine's own are not | DriveFeed |
| Digest sender | send then mark | email | - | not modelled |
| OAuth tokens `get-tokens.ts` | cached access token, refresh | provider | a refresh never loses the newer token | not modelled |
| Email delivery, model, prompt, audit, weather, search, embedding clients | stateless calls | services | - | not modelled (I/O) |
| Knowledge, PDF rendering, admin screens, schema, one-off scripts | reads, layout, declarations | - | - | not modelled |

`PROJECT.json` lists every component with its files and status.

### What is hard here

- **Handlers interleave.** BullMQ emits `completed` and `failed` events whose
  handlers run concurrently with the next jobs (the worker runs two at a time) and
  with the ten-minute tick. Each handler does up to six awaits.
- **A claim and its effect are two steps.** `plan_ready_sent_at` is stamped
  before the email and cleared when the send is refused.
- **Two paths reach the same email.** The planning worker and the settlement share
  the claim; the code says they exclude each other "by construction".
- **Fixed job ids.** A finished job keeps its id (an hour for generation jobs,
  for good for planning jobs), and an `add` under an id that exists does nothing.
- **Mark first, enqueue second.** A process can die between the write that says
  "generating" and the add of the job; the sweep exists for that.
- **Retries that change what they need.** A failed planning attempt moves the
  status the next one tests.
- **One JSON value, many writers.** `source_meta` of a post and `intake_json` of a
  month are read, changed and written whole, with model calls in between.
- **A check and a write far apart.** A sentence is classified, the cutoff is checked,
  the month is read, and the rows are written seconds later; approval, closing and
  reassembly may come between any two.
- **Timers that do not wait.** `setInterval` starts a poll or a merge while the last
  one is still running; watermark, token and pending edits are read at its start and
  written at its end.
- **Arithmetic on a small month.** Arcs, series, cadences and corrections meet the
  edges of a month, past days and days that are already taken.

Each of these is at its line in `PROJECT.json` under `hazards`, with the properties
that would catch it going wrong, or a note saying why none does yet.

## The modules

| module | what it is |
|---|---|
| `PlanReady` | one approved month, from the approval to the email: fan-out, jobs, handlers, settlement, tick, client requests |
| `Announcement` | what that path promises: posts get done, then one announcement |
| `PlanPath` | the two ways a month gets its posts: approval and generation, or the planning worker; auto-run, operator, status machine |
| `PostAsks` | what a client's asks for one post cost: cap, banking, release, retirement, shape job, sweep |
| `DraftDesk` | the requests with which a client shapes a month, against approval, closing and reassembly |
| `MonthShape` | days, formats and the spreading of shares: what the next two build on |
| `Transforms` | what each kind of sentence does to the posts of a month |
| `DraftAssembly` | how a month is assembled from history, series, ideas and products |
| `DraftMonth` | sentences and assemblies over one month, with the cadence floor between them |
| `AgentChanges` | the changes an agent proposes, from the press on Apply to the report |
| `VoiceMerge` | what a channel's voice learns from edits: nightly merge, monthly gate, rollback |
| `MailIntake` | a client's mails from the inbox to a workflow or a person |
| `DriveFeed` | the Drive folder: CSV to workbook, saves to edits, the ledger of own writes |
| `MCPlanReady`, `MCPlanPath`, `MCPostAsks` | small instances for TLC: formats, budgets of events |
| `MCDraftMonth`, `MCDesk` | example months, sentences and orders; `DraftDesk`, `DraftMonth` and `AgentChanges` side by side |
| `MCEngine` | `VoiceMerge`, `MailIntake` and `DriveFeed` side by side |
| `PlanReady_proofs`, `PlanPath_proofs`, `PostAsks_proofs`, `VoiceMerge_proofs`, `MailIntake_proofs`, `DraftMonth_proofs` (with `Transforms` and `DraftAssembly`), `MCDesk_proofs` (with `DraftDesk` and `AgentChanges`), `MCEngine_proofs` (with `DriveFeed`) | theorems |

`PlanPath` keeps of the settlement only claim, send and release; `PlanReady` is
that settlement await by await. `PlanReady` implements `Announcement` under
`done <- resolved, announced <- mail`.

### PlanReady

State and code:

| variable | code |
|---|---|
| `approvedBy`, `planReadySentAt` | columns of `content_cycles` |
| `status`, `live`, `caption`, `script`, `sweeps`, `aged` | a post's status, `deleted_at`, texts, the `sweepAttempts` of `source_meta`, and whether `updated_at` lies two hours back |
| `todo`, `todoHook` | where the fan-out loop of `startPhase2` or of the auto-approval stands |
| `asking` | `startPostGeneration` between its write and its add |
| `job`, `attempts`, `isGenerating` | BullMQ's state of each job id, `attemptsMade`, and what a caption attempt has read of its row |
| `pc`, `batch`, `stamp` | where each job's handler and each tick stands, the rows a tick has read, the row it has re-enqueued and not stamped |
| `mail` | what reached the transport |
| `resolved`, `scriptRan` | histories, written by `Record` beside every step |

Actions follow the code's awaits: `Approve`; `FanOut*`; `Client*` and `AppCrash`;
`Start`, `ShapeSucceeds`, `ShapeThrows`, `ShapeThrowsEarly`, `Hook*`, `Script*`,
`Complete`, `GiveUp`, `Expire`, `WorkerCrash`; `SettleScript`
(`enqueueScriptIfReady`), `SettlePosts`, `SettleJobs`, `SettleClaim`, `SettleSend`,
`SettleRefused`, `SettleAmbiguous`, `SettleRelease`, `SettleReadError`; `TickStart`,
`TickSelect`, `TickRecover`, `TickRecoverError`, `TickPassesOver`, `TickStamp`,
`TickEnd`; `Age`.

A job is `returned` or `threw` between its last write and BullMQ's move to the final
set. That gap is real: other handlers look at the queue in it and still see the
job as active.

Steps that are coarser than the code, and why that loses nothing:

- the cycle row and the count of generating posts are read in one step: what the
  first read could have seen too early is tested again by the claim;
- `enqueueScriptIfReady` reads and adds in one step: a second add of the id is a
  no-op, so a late add differs only in being late;
- one handler at a time is followed per job id. A second one for the same id needs
  the job to be queued again and finish while the first handler is between two
  awaits;
- a row ages only while nothing that would touch it is under way: two hours are
  longer than a job, a fan-out or a request;
- a tick's stamp that is so late that all attempts of the job it queued have already
  failed is an event (`late_stamp`): seconds of backoff lie between them.

Abstracted: texts; the classification of a stored error (a failed row may or may
not be passed over); the banked flag, its release and the date filter of the sweep
(both only decide whether a row is passed over); 50-row limits; the runaway ceiling
of 120 jobs; posts added after the approval.

### PlanPath

`status`, `priorStatus`, `approvedBy`, `planReadySentAt` are the cycle row. A date of
the month may hold a `beat` (the draft's post) and a `row` (the planner's post).
`job` is `planning_<cycle>`; `planner`, `auto`, `press`, `admin`, `settler` are the
places of the five actors between awaits; `removing` and `writing` are what the
merge has decided from rows read before its transaction.

| actor | actions | code |
|---|---|---|
| client | `PressCheck`, `PressStamp` | `approveDraftCore` reads, then its transaction |
| auto-run | `AutoStart`, `AutoCount`, `AutoApprove`, `AutoStamp`, `AutoMove`, `AutoEnqueue` | `scheduler.ts`, the cutoff branch |
| operator | `ConfirmIntake`, `ConfirmPrepares`, `TriggerPlanning`, `TriggerForces`, `AdminAdd`, `ResetCycle`, `AdminCrash` | `intake-actions.ts`, `actions.ts`, `planning-enqueue.ts` |
| planner | `PlannerStart`, `PlannerMerges`, `PlannerWrites`, `PlannerMove`, `PlannerClaims`, `PlannerLosesClaim`, `PlannerSends`, `PlannerRefused`, `PlannerNoLink`, `PlannerThrows` | `runPlanningForCycle` and its catch |
| generation and edits | `Generated`, `Edited` | the end of a caption job, a client's patch |
| settlement | `SettleClaims`, `SettleSends`, `SettleRefused`, `SettleReleases` | `settlePlanReady` |
| environment | `RequestSent`, `WorkerCrash` | `request-email.ts`; the engine dying |

Abstracted: `transitionCycle`'s read and write are one step (a hazard without a
property yet); an approval's reads are one step; one post per date and kind; the
cutoff day counts as reached and the auto-run as enabled; the spreadsheet surface
(`sheet`, `both`), the voice arc after delivery, sync stamps and operator
notifications are left out. `NobodyMidway` is a timing assumption: a planning
attempt takes minutes and its retry waits fifteen seconds, so a button press or an
auto-run that was between two awaits when the attempt began is over when it ends.
Without it `ConfirmedMovesOn` would meet an operator's request that stays open for
minutes.

### PostAsks

One post at a time may be written (`status = "generating"`), asked again, patched,
removed or moved, while the sweep and the release of banked changes look at the same
row. `row` is the `content_cycle_posts` row with its `source_meta` flags, `job` the
shape job, `charged` the `post_edits` rows by what they were written for, `used` what
the usage query counts this month. A request, the shape job and the ten-minute tick
(sweep, release, retire, in the order of `consumer.ts:277-302`) each run await by await.
Left out: the text, reverts, several clients, and `retry-generation`, a route no
screen calls.

### DraftDesk, Transforms, DraftAssembly, DraftMonth

`DraftDesk` follows the control of a request: classification, cutoff, what is read, what
is written, receipts, notes, floor, ideas, and the structured brief, for seven kinds of
request. What a sentence does to rows is a choice there. `Transforms` is that choice as
a function: `ApplyIntent` of a sentence and a month gives rows to remove, to add and to
change, and `WriteOps` writes them. `DraftAssembly` is the assembly as a function of an
order (the history's figures, the series, the ideas, the products, the floor).
Both are written without recursive operators: sorts are `InOrder`, which lists the members of a set
by a key of numbers, what a loop counts is a cardinality, and the one loop that looks at its own
choices (`ThinnestDays`) a recursive function, so that they can be proved about.
`DraftMonth` composes the two: sentences and assemblies in any order, with the floor a
cadence sentence stored and a later assembly reads. `HearsCadence` is the part of a cadence
that is only recorded: with no draft there is nothing to add to, and a request may break off
between the record and the rows. They share `MonthShape`: days of a
short month, the formats, and the largest-remainder spreading of shares.

`PillarNames` and `FormatNames` are sequences in the order `localeCompare` gives them, since ties
fall by name in the code; `Unsaid` is the word nobody said, `''` or null.

What a sentence files comes after its rows. `saveDeferredInstances` inserts the days a series
defers once the rows are committed and swallows a refusal; `saveToBacklog` files the whole text
of a sentence that changed nothing (`Whole`). `Files` is what may come of it, and `went` says
which: all of it (`"well"`), the insert of the days refused (`"refused"`), or the request broken
off after the rows (`"broken"`), with no receipt. `counted` is the receipt's `deferredCount`.

A post is its day, format, pillar, evidence (the basis, the sample and its engagement) and
the marks of who owns it. An intent whose date nobody said or the code could not read has day 0
and changes nothing. An idea is always the client's, since `draft-plan.ts:273` gives every
candidate that origin. Subjects,
titles and labels are members of small sets; dates are days. The matching of a name to
a post is `Named`, over subjects. A draft id that a purge has freed may be used again in
the model, a fresh uuid in the code.

### AgentChanges

`proposal` is `agent_proposals.status`, `made` a history of how often a change was made,
`subject` and `captioned` the posts it is about. `apply` follows each screen: `send` and
`await` are the loop and the wait of `applyChanges`, `judge`, `land` and `finish` the
handler of `approveProposal` under the claim it won, `answer` what is on its way back to
`decide`. Adds, moves and the hook of an added reel stand for the kinds: a change of
format patches like a move, a rewrite is queued like a hook that waits for nothing. Left
out: the edits' content, deletions (a move without a destination), the hook of a
carousel, the `proposalBusy` guard (a screen sends one request at a time anyway), the
lists a screen refetches, and everything before the proposals exist.

### VoiceMerge

`voice` is the sequence of snapshots, each with its run; `current` the one with
`is_current`; `takenBy` the `ingestion_run_id` of each edit. A snapshot is followed by
how often it has learned each edit. `Commits` is the transaction nightly merge and gate
share: the partial unique index refuses it when another snapshot has become current.
The rollback is `RevertReads` (the script), `RevertLooks` (`rollbackVoice` reads the current
snapshot and its target again), `RevertFlips` (its transaction, which the same index refuses when
another snapshot has become current since the look; the script ends there) and `RevertResets`.

### MailIntake

`watermark`, `processed` and `event` are the columns of `oauth_connections`,
`processed_external_ids` and `incoming_events`; `poll` follows each poll cycle call by
call, `job` the queue's job of each event, `filed` and `decided` the triage log.
Moments are counted in mails: the watermark is the last mail before it. A poll lists from the
watermark it read when it started (`from`). A rule `"passes"` is one whose workflow takes no
input from the mail: it leaves the event `"ignored"` and does not speak against marking the mail as read.

### DriveFeed

`version` counts the writes of each of two files, `changedAt` is the place of the last
one in the changes feed (the feed lists a file once, at its last change); `token`,
`seen` and `ledger` are the poller's memory. A poll reads the token when it starts
(`FeedStarts`: one select for all channels) and lists from it when the channel's turn comes. The Python scripts that write and read a
workbook are not modelled: a build writes a version, a detect job is the fact that a
version was handed over.

## The runs

Environment events (crashes, refusals, client requests, operator buttons) are
bounded by `Budget[e]` per kind and `MaxEvents` altogether; everything else
is unbounded by nature or ends by itself. `CHECK_DEADLOCK FALSE` in every cfg: a
month that has been announced, or planned and delivered, really is quiet.

| run | instance | shows |
|---|---|---|
| `ReadyCalm` | a reel and a single post, 2 attempts, 1 pass, concurrency 2, one tick, no events | type invariant, `OwnScriptRunsFirst`, `ImplementsAnnouncement` over all interleavings of handlers, worker and tick (1.25 million states) |
| `ReadyRecovers` | a reel, 1 attempt, 2 passes, one tick; worker crash, app crash, refused send, refused add, any two | `AtMostOneMail` and, under fairness, `Announced` |
| `ReadyEvents` | a carousel the catalogue does not hold, every event once, any two | `MailedMonthWasResolved` whatever the client and the environment do (2.5 million states) |
| `ReadyEarlyMail` | a reel and a single post, no events | violates `NoMailBeforeScripts` (finding) |
| `ReadyStuck` | a single post, `early_throw` once | violates `Announced` (finding) |
| `ReadyLostMail` | a single post, `read_error` once | violates `Announced` (finding) |
| `PathPlans` | one date, one request, 2 planning attempts, each event once, any four | `TypeOK`, `AnnouncedOnce`, `OnePlanPerConfirmation` and, under fairness, `ConfirmedMovesOn` (560 thousand states) |
| `PathReplans` | two dates, two days of the auto-run | violates `ApprovedMonthIsNotPlanned` (finding) |
| `PathHiccup` | one date, 3 attempts, one confirmation, one error | violates `HiccupHeals` (finding) |
| `AsksPaid` | one post, one request, one tick, limit 1, 2 attempts, 1 sweep, 1 fault | `PaidOnce`, `PlanIsFree`, `SweepIsBounded` and, under fairness, `BankedSettles`, `StrandedRecovers` (340 thousand states) |
| `Desk` | two rows, one input, two requests, one receipt; a month of 9 days, two subjects, two sentences; a turn of three changes, two screens, one fault | the requests: `DoorIsClosed`, `CommittedIsUntouched`, `WritersCarryOthers`, `UsedIdeaWasPlaced`; the functions: ten properties of `Transforms` and `DraftAssembly`; the changes: `ReportIsTrue` (1 million states) |
| `Engine` | two edits, one of the month, two mergers, one approval; two mails, two polls, pages of one; two versions of the workbook, one CSV; one fault in each part | `NightlyKeepsWhatItTakes`, `NothingIsForgotten`, `MailIsFiledOnce`, `WaitsForItsHuman`, `TokenPassesNoSave` and, under fairness, `PendingIsLearned`, `MailIsTakenIn`, `SaveIsDetected` (1 million states) |

`MCDesk` and `MCEngine` put parts side by side that share no state: a variable says
which one is looked at and the others rest in an initial state. It is one run for two
or three models, not a composition.

Why these bounds are enough for the interesting cases:

- Two posts of different formats give two caption jobs, a script job and a tick:
  four settlers race for one claim, which is more than any pair-wise race needs.
  A carousel adds the hook job, the one case of two handlers on a post.
- Two attempts separate "not the last attempt" from "the last one"; one attempt is
  used where the events are what matters. Two passes let a recovery fail and be
  repeated, and let the passes run out.
- Two events out of the list in every order cover a failure during the recovery of
  another one. In `PlanPath` four are needed: reset, confirm, crash and rerun
  together are the ways a month is planned a second time.
- In `AsksPaid` a limit of one makes the second change the one that is banked; two
  attempts and one sweep let a final failure be swept and fail again; a request may
  meet every step of job and tick.
- In `Desk` two overlapping requests are what a lost update needs; with two rows one can
  be taken away while the other stays (the rows are alike, so `MCDesk` starts with `b1` alone); one receipt is the cap that a second one meets. A
  month of nine days has a full week, both of its edges and days that are past; the example
  months hold a post of every tier, a series and a full month. Two sentences are
  enough for one to undo the protection the other needs. A turn that adds a reel, asks for
  its hook and moves a post has a change that is blocked, a dependency and an independent
  one; two screens meet at every step of a claim.
- In `Engine` two workers meet at every step of each other; two edits separate the one
  of the gate's month from the other, two mails the page from what lies beyond it, two
  workbook versions the engine's write from the client's. One fault is a failed call, a
  death or a rollback at any step.
- `MaxEvents` only limits the environment; no guard of the code's own steps is bounded.

**Fairness.** `FairSpec` assumes that the engine keeps going: the worker starts
waiting jobs (strong fairness, because the slot a job waits for is taken and freed
again by others), attempts end, handlers and ticks carry on, rows age, a request or
an operator's action in progress takes its next step. The code justifies it: workers
and repeatable jobs are registered at start (`engine/src/index.ts:233-258`: the daily
tick at 05:00, the retry tick every ten minutes), `uncaughtException` does not stop the
process (`:331-336`), and each await ends or throws. Nothing is assumed of the
environment: no fairness on crashes, refusals, recovering services or the client.
In `AsksPaid` the worker, the tick and a request in progress go on, a day may pass or
not. In `Engine` only one of the two workers is fair (`WF` of the steps of `w1`): the
nightly merge and the pollers are run by timers (`index.ts:284-300`), so one that ends is
followed by another, and the other worker may hang anywhere for good. Its properties say
"again and again", since edits, mails and saves keep coming. `Desk` has no liveness: a
request ends or is abandoned.
In `Announced` a job attempt's outcome is free: it may throw every time.

**What the other properties except** is what the code gives up knowingly or by its
shape, each named in the property's comment: a charge that an engine death repeats
(`PaidOnce`), edits a gate took unread and runs a rollback went back over
(`PendingIsLearned`), mails before the first watermark or beyond the page of fifty
(`MailIsTakenIn`), saves before a poll that found no token, with unreadable metadata, or taken for
the engine's own (`SaveIsDetected`), days outside the month whose insert was refused or whose
request broke off after the rows (`SeriesIsAccounted`), a cadence whose request broke off
before the rows (`CadenceIsReachedThinly`; its floor is recorded and the next assembly keeps it). The observations below say what that means.

**What `Announced` excepts.** The worker dying after the claim and before the email
loses the email; the code accepts that in a comment (`plan-ready.ts:256-261`), so the
property does too. A query that throws in the same place is not excepted: see the
findings.

Every property of a passing run has a mutant in `PROJECT.json`: a change to one
mapped definition that a plausible bug would make (the claim without its
`IS NULL`, a release after a successful send, settling before the script is queued,
a final attempt off by one, a planner that does not look at the status...), under
which TLC finds the property violated.

## The proofs

`tlapm` checks the eight `*_proofs` modules. The theorems hold for any sets of posts,
ticks, dates, requests, editors, changes, screens, edits and mails and any budgets, from the named
assumptions in the modules (formats are total, bounds are naturals, attempts and
concurrency positive, job ids and ticks are distinct, "no ask" and "the plan" are no
requests). For the draft month they are assumed to be what the code's types say:
`IntentAssumption`, a sentence is what `monthScopedIntentSchema` lets through;
`MonthsAssumption`, the first month has rows of the schema, each in a position of its own;
`OrdersAssumption`, an order is what `assembleDraft` takes; `MonthAssumption`, a month has a day
and General is among the pillars. Each is evaluated by TLC on the instance of the run.

**PlanReady**

| theorem | says | beyond the module's assumptions |
|---|---|---|
| `TypeCorrect` | `Spec => []TypeOK` | - |
| `MailedMonthWasResolvedHolds` | the email goes after every approved post has come out of generating | - |
| `AtMostOneMailHolds` | at most one email | `Budget["ambiguous"] = 0` |
| `ImplementsAnnouncementHolds` | `Spec` implements `Announcement` | `Budget["ambiguous"] = 0` |
| `OwnScriptRunsFirstHolds` | a reel's caption handler settles only after the reel's script was queued and tried | - |

The assumption is about the transport: `deliverTemplatedEmail` never reports a
failure for a mail that was accepted. Without it the claim is released after a
delivered mail, and a second one follows; that is a hazard the code cannot close by
itself, and `ReadyCalm`'s refinement has no ambiguous send either.

The invariants. `AtMostOneMail` is not inductive: nothing in it stops two settlers
from standing at `send`. `ClaimInv` adds who holds the claim (`Holding`, the settlers
at `send` or `release`): at most one of them, none of them once a mail is out, and
whenever there is one or a mail is out, the stamp is set. A claim step can then only
be won when nobody holds it, which is the content of the `WHERE ... IS NULL`.

`MailedMonthWasResolved` needs a chain from the settler's place back to the posts,
`AnnounceInv`: before the approval the month is quiet, with no settler past its first
check and no job (`QuietInv`); a live post that is past `draft` and not `generating` has been
resolved (`WrittenInv`); and a settler that has passed its count of generating
posts, like a mail, implies that every post has been resolved (`PassedInv`). The
history only grows, so later requests that set a post generating again do not
disturb it. That is also the reason the property is stated with the history: the
email may legitimately find a post generating again.

The refinement combines both: a step with `mail' = mail + 1` is `Announce` because
`ClaimInv` gives `mail = 0` and `PassedInv` gives `resolved = Posts`; such a step
leaves `resolved` alone, which `Record` could only change if a post was not yet
recorded; every other step is `Settle` or a stutter.

`OwnScriptRunsFirst` speaks of one step, from the count of pending jobs to the claim.
`ScriptInv` carries the order to that step: a handler that is past its script stage,
with its caption job not queued again (`PastScript`), has its script tried or still
pending, and a script that ended was recorded. A pending script keeps the
count from being passed, so it has been tried. The proof showed a case that the property
had to set aside: a caption the client typed after the caption job was counted leaves no
script to queue, so a month in which a post was edited is excepted, like one with a
refused add.

**PlanPath**

| theorem | says |
|---|---|
| `TypeCorrect` | `Spec => []TypeOK` |
| `AnnouncedOnceHolds` | planner and settlement together send at most one email |
| `OnePlanPerConfirmationHolds` | `plans <= confirmed + used["crash"]` |

`AnnouncedOnce` rests on the same claim argument with two holders of different kinds:
the planner at `send` and the settlement at `send` or `release`. `OnePlanPerConfirmation` rests on `PlanInv`: with `Due` the number of plans
an attempt or the status still has open (one when an attempt is before its write, or the
month is `intake_confirmed` and no attempt has just written), `plans + Due <= confirmed + used["crash"]`. The
interesting step is the attempt that has written and still finds
`intake_confirmed`: only the worker's death there leaves both, and it is counted.

**PostAsks**

| theorem | says |
|---|---|
| `TypeCorrect` | `Spec => []TypeOK` |
| `PaysOnce` | a client is charged once per asking, plus once per death of the engine in mid-job |
| `PlanIsFreeHolds` | no caption of the month's own plan is counted against the allowance |
| `SweepStaysBounded` | the sweep queues a post `MaxSweeps` times, plus once per death or request that may lose a stamp |

All of them rest on the same difficulty: metadata is one JSON value that requests, job
and ticks read, hold for a while and write back whole. `TypeInv` gives every store its
shape, and first of all says what each step does to a record, field by field; the
other invariants read it from there.

`NameInv` says whose a post is: one that is not the plan's own was added by one request,
and every copy of its metadata that may still be written, in the row, with a request at its write,
with a job's attempt or in a tick's hands, names it (`CopyNamed`). A job that
bills has the ask of a request that is over.

`PaidInv` balances each ask's account: what was charged, plus one if something
may still write the caption and charge it (`Live`: the request is under way, a job pays
for it, or the post waits for a tick that would queue it), plus one if the caption is
written and its `post_edits` row is not (`Owed`), is at most one for the asking plus the deaths. Sweep,
release and retries only ever move the account between these places, because the job of a post
that is being worked on is not added a second time; a death between
the row and the end of the job turns `Owed` into a charge and `Live` again, and is counted.

`SweepInv` follows the counter through the copies. A copy says as many passes as
there were, up to the stamps that can have been lost (`Strict`), or one fewer while the stamp of the
pass just queued is still to be written (`Held`). What may be lost is counted by `Slack`: deaths, requests that are
done with the post, and the one that may be on it. Two ticks that select one post queue
it once, since a post with a working job is not queued.

**MCDesk, with DraftDesk and AgentChanges**

| theorem | says |
|---|---|
| `CommittedStays` | a committed post is not changed by request or assembly |
| `DoorStaysClosed` | a request that begins after the approval changes no row |
| `UsedIdeasArePlaced` | an idea is used up only for a month that has it |
| `WritersCarry` | a write of `intake_json` on a current reading keeps what the others wrote |
| `DeskTypes` | `DeskSpec => []DeskTypeOK` |
| `ReportIsTrueHolds` | a change is made at most once, and a report is true of the screen's own claims |
| `ChangesTypeOKHolds` | `ChangesSpec => []ChangesTypeOK` |
| `PartsTypes` | the `TypeOK` of the run `Desk` |
| `PartsKeepTheirPromises` | every safety and action property of the run `Desk`, under the run's specification |

`DoorIsClosed` needs `LateStays`: a request that began late is never at a step that leads
to a row, although the requests share their steps with those that began in time.
`UsedIdeaWasPlaced` needs `PromotionPlaces`: a promotion has one item and is past its row's write when it comes
to the receipt. `WritersCarryOthers` rests on `IntakeInv`, that whoever is about to write holds a
whole value, together with the step's own reading being current.

`DeskTypeOK` is stated request by request, since a request's record alone does not keep its
type: what a step may read depends on how it came there. `RequestOK` says so. A request that works on a
segment has one (`cur` is among its own), one at its receipt has none left, and one at a
write has read the value it will write back. `intake_json` is in `Intakes`, whose receipts
are no more than `MAX_RECEIPTS`: the cap is a clause of the type, for the three writers that
carry the receipts over as well as for the one that adds to them.

`ChangesInv` follows a change from its claim to the report: a handler works under its
claim and alone (`HandlersHold`), its place tells whether the change has been made
(`HandlersMake`), the answer says the same (`AnswersAreTrue`), a refusal is final
(`RefusalsStand`), and no screen asks again for what it has counted (`EachOnce`). The
un-claim writes `pending` without a condition; that is harmless because `HandlersHold`
leaves nobody else who could have changed the row, and `HandlersMake` has nothing made.

A step of the run is a step of the part that is looked at and a stutter of the others
(`PartsRun`), which carries these results and those of the draft month to `MCDesk`'s `Spec`.

**DraftMonth, with Transforms and DraftAssembly**

| theorem | says |
|---|---|
| `DraftTypes` | `DraftSpec => []DraftTypeOK` |
| `TheirsStaysHolds` | no sentence removes or unprotects a post that is theirs or of a series |
| `ArcIsAnArcHolds` | a launch with a date leaves its parts in order, wherever in the month it falls |
| `SeriesIsAccountedHolds` | every listed date inside the month gets its post whatever fails after the rows; the others are counted if nothing failed, and are among the ideas where they are counted |
| `CorrectionLandsHolds` | corrected posts keep their order, one lands on the date named |
| `MonthKeepsItsSizeHolds` | the month grows only when nothing replaceable is left |
| `CadenceIsReachedThinlyHolds` | a cadence is reached exactly unless the request broke off, an empty day before a second post |
| `FloorOutlivesAssemblyHolds` | an assembly has different days, as many as the stated cadence |
| `SeriesSitOrAreMissedHolds` | a series sits on its weekday or the month has no slot for it |
| `IdeasDisplaceNothingHolds` | ideas take their share, each once, in slots nobody else has |

These are action properties of what sorts, roundings and spreadings compute for any length of
month, any sentences and any orders. The inductive invariant is `DraftTypeOK`. It
is more than types where the functions need it: `IsMonth` has every row in a position of its own, without
which a sort by position would not be one, and `IsOrder` holds an order to formats and pillars the
month knows. It is kept in two halves. A sentence's outcome `IsResult` (`IntentIsAResult`, one lemma per kind):
what it removes and changes are rows of the month, changed rows keep position and marks,
what it adds are beats; and `WriteOps` makes a month of a result (`WrittenIsMonth`). An assembly is a
month (`AssembledIsAMonth`), through the skeleton (`DatesAreDays`), the claims (`ClaimsAre`) and
the spreading of shares (`SpreadNames`).

Everything sorted goes through one argument. `SortedIsRanked` proves of any finite set
and any strict total order on it that "the member with n - 1 members before it" exists for each n and
gives each member once, in order (`Ranked`); `BeforeIsTotal` proves that keys of numbers
compare totally, the one difference that comes first being a least element of the naturals
(`LeastOfNats`); `InOrderIsRanked` puts them together. A replacement pool (`CandidatesAreFair`), an
emphasis, a correction's choice, a spread, a ranking of ideas are then lists of exactly the set they should
hold, without repetition (`Lists`), and the properties are read off these lists: `MonthKeepsItsSize`
counts the victims of a list as its length (`PlacedTakeTheFair`, `ImageHasAsMany`).

`PickedEvenly` and `MiddlesOfAList` are the roundings: n places of at least n, and n middles of
at most as many slots, are all different, which is what keeps two posts of an assembly, or two
ideas, from one place. `CadenceIsReachedThinly` needs the rounds of `ThinnestDays`, a function
that refers to itself: that it exists and follows its equation (`RoundsExist`), and what k rounds have done
(`RoundsAre`: k posts more, and no day at two while another is at none, unless it was there), is proved by
assuming a least k without it.

**VoiceMerge**

| theorem | says |
|---|---|
| `SnapshotsAddUp` | a new snapshot knows what the one it displaces knew |
| `NightlyKeeps` | what a nightly run took stays in the profile until it is gone back over |
| `VoiceTypes` | the state keeps its type |

The first holds because the commit's index refuses a writer whose base is no longer the
current snapshot, and both kinds of writer add to their base. The second is not inductive: a rollback may
make any older snapshot current. `KnownSince` says that every snapshot from the run on knows the edit,
and `NewerUndone` that whatever lies past the current snapshot has been undone; together
a run that is not undone is at or before the current one. The types add `VoiceRest`: a
merge under way has read something, and the gate reads only edits of its month.

**MailIntake**

| theorem | says |
|---|---|
| `HumanIsWaitedFor` | the engine marks a filed mail as read only when its workflow has answered |
| `FiledOnce` | a mail is filed as often as its rules name triage, unless a worker died in its job |
| `MailTypes` | the state keeps its type |

`WaitsForItsHuman` looks at one rule at a time; `MarkHeld` carries what the job has seen
from rule to rule (a job that would still mark has met only "handled"), `FiledByTriage` and `EngineMarks`
turn it into the property. `MailIsFiledOnce` needs that overlapping polls write one event per mail
(`OneEvent`, from the ledger of processed mails), that the chain goes on from written events, and that an
attempt has filed no more than the triages it has passed (`FiledSoFar`).

The types need more than shapes (`MailRest`): a job has its event and an event its mail among
the processed ones; a poll holds mails that have arrived and, with those it has
counted, no more than there are. That the newest of its mails is one of them needs a
greatest element of a bounded set, which comes from the well-foundedness of the naturals
(`LeastOfNats`).

**MCEngine, with DriveFeed**

| theorem | says |
|---|---|
| `DriveTypes` | no version, job, ledger entry or token is ahead of what was written |
| `NoSaveIsPassed` | `TokenPassesNoSave`: the token stands behind every save nobody has taken account of |
| `EngineTypes` | the `TypeOK` of the run `Engine` |
| `EngineKeepsItsPromises` | the safety properties of voice, mail and Drive under the run's specification |

`TokenPassesNoSave` is the safety half of `SaveIsDetected`. A poll lists at one moment, looks at
the version of another and advances at a third, to the head it listed at. `SaveInv` says
what makes that sound (`Accounts`): as long as the workbook has not changed beyond the
poll's listing, the save is accounted for or among the files still to look at, and the
version the poll holds is the one the workbook stands at; a change beyond the listing
is beyond the token the poll will write. An id among the processed ones has its job or is in
the ledger (`SeenIsKnown`). Overlapping polls and deaths need no case of their own, since
a poll only accounts for itself and nothing known is forgotten (`Remembers`).

The last two theorems carry the results of the parts to `MCEngine`'s own specification: a step of
the engine is a step of the part that is looked at and a stutter of the others.

**With TLC only**: liveness under fairness, which is out of this prover's reach (`Announced`, `ConfirmedMovesOn`,
`BankedSettles`, `StrandedRecovers`, `PendingIsLearned`, `MailIsTakenIn`, `SaveIsDetected`). Every other
property of a passing run is stated by a theorem. What a fold sums (`Total`, in the shares of a spread)
is induction over data and not proved: the theorems need only that a spread
lists known names, and that each name gets its share is left to the source and the runs.

## Findings

Each is a violation run; the trace TLC prints is the scenario.

1. **A caption attempt that throws early strands the month** (`ReadyStuck`).
   `shape.ts` reads the post and its context before its `try` block, so a last attempt
   that throws there records nothing. Once the sweep's passes are spent the row stays
   `generating`, out of the sweep's select and out of the operator's list, and the
   month is never announced.
2. **A query that throws after the claim loses the email** (`ReadyLostMail`). Three
   queries stand between `claimPlanReadySend` and the transport, outside any `try` that
   would release. The comment says the path never throws.
3. **The email can go before a script is queued** (`ReadyEarlyMail`). The order in
   `settleFor` protects a reel from its own handler, not from that of another job.
4. **An auto-approved month is planned over** (`PathReplans`). Auto-approval leaves the
   status before `intake_confirmed`, and the next day's select does not look at
   `approved_at`; the draft count is zero then, so the month is confirmed and
   planned, and the merge deletes the approved posts that are not written yet.
5. **A planning hiccup does not heal** (`PathHiccup`). The catch moves the cycle to
   `failed`, and the retry skips every status but `intake_confirmed`.

### Observations

Met while modelling and contained in the models; each is a behaviour of the code that no
run is spent on.

*Asks.* Each tick reads the same remaining allowance while the jobs it released last time
are still running, so more banked posts are released than the allowance covers, against
the header of `banked-changes.ts`. Moving a failed or banked post sets it to `edited`:
neither sweep, release, retirement nor the operator's list sees it again, against
`generation-sweep.ts:4-9`. A client's ask that the sweep completes is free of charge.

*Desk.* The approval's update commits draft rows added since its read, but only the ids it
read get a job; the sweep finds the others later. The intake route writes
`intake_json` whole after two model calls, so receipts, floor or notes written meanwhile
are lost, against `draft-apply.ts:14-16` ("An input NEVER vanishes"). A request between its cutoff
check and its write, or an assembly that only checked the status, leaves a draft row in
an approved month. Two promotions place one idea twice.

*Transforms.* Dates listed twice give two posts although `expandSeries` says
"deduplicated". A follow-up or a correction clamped at the month's end falls on its
neighbours while the note says the spacing is kept. A correction is anchored on the first
match after narrowing, not on "the EARLIEST matched beat". A month assembled anew retires
posts the client had touched. In a month with thin history a sentence may remove the slot of an
idea: `evidenceFor` returns for a template month before it writes `candidateRank`
(`draft-assembly.ts:228-250`), the mark by which `replacementTier` and `removalProtection` know the
client's experiment, although line 192 of the same file says "An experiment slot is hers", a line
that replacementTier is to draw too. Such a slot has `own = FALSE` in `Assembled`, and `TheirsStays`,
which speaks of posts that carry a mark, does not cover it. The days a series defers are filed after
the rows are committed, and `saveDeferredInstances` swallows a refusal ("Best-effort by design"): they are
then neither posts nor ideas although the receipt still carries the note that they "were saved to
your ideas" (`draft-transforms.ts:759-765`), and `draft-transforms.ts:132-135` says that they "must not be silently
dropped"; a request that breaks off between the two writes loses them with the receipt. `Files`
contains both, and `SeriesIsAccounted` says what holds all the same.

*Voice.* The "claim" of a batch is a select: two merges, or a merge and the gate, can
learn an edit twice when they load the snapshot one after the other's commit. The gate
marks every edit of the month that is pending when it is applied, read or not. A crash between
its transaction and its status move lets it be applied twice. An extraction that found
nothing leaves a cycle that no approval accepts; one that failed cannot be repeated. A
rollback whose script read before a merge committed, and whose `rollbackVoice` reads after it,
resets the edits of the run read first and marks the other run; when the merge commits between
that second read and the flip, the index refuses the flip and the rollback ends.

*Agent and screens.* `decide` counts every answer as applied that is not blocked, failed or
lost. A proposal that another tab has rejected, or that another handler holds as
`approved`, is reported as in; `ReportIsTrue` therefore speaks of a screen's own claims. A
throw after the change is made answers `failed`, and the client reads that it did not go
through; `RefusedIsOut` excepts it. A handler that dies leaves `approved`, which no
list shows and nothing takes up again. `patchPost` and `softDeletePost` refuse with a null
that nobody looks at. Beside the model: a `refreshPlan` that began for the month viewed
before `switchCycle` writes that month's posts into the screen of the next.

*Mail and Drive.* One page of fifty mails is listed and the watermark advances past the
rest. A workflow that triage named marks the mail as read while the triage item still waits,
against the comment in `gmail-poller.ts:167-170`; that is why `WaitsForItsHuman` excepts
it. A CSV's id is recorded before its job is added, and a crash between loses the build. A
metadata error passes a change over for good. The ledger reads the version after the
write, so a client's save in between counts as the engine's own.

## What is left out

- Pure I/O and stateless services: the Gmail, Drive and model clients, embedding and
  retrieval, weather and search.
- Language understanding: prompts, parsing of free text, caption validation.
- Layout: PDF rendering, the admin's screens, and of the app's all but the Apply.
- Scripts run by hand on a stopped system: cycle reset, onboarding.
- The components that the table above calls not modelled; a further module for each of
  them is in the plan where one is worth writing. What a modelled component leaves out is
  in its note in `PROJECT.json` and under its module above.

## The plan

1. `PlanReady` with `Announcement` - done, safety proved.
2. `PlanPath` - done, safety proved.
3. `PostAsks` (asks, cap, banking, sweep of one post) - done, safety proved.
4. `DraftDesk` - done, proved. `Transforms`, `DraftAssembly`, `DraftMonth` - done, proved.
5. `AgentChanges` - done, proved. `VoiceMerge`, `MailIntake` - done, safety proved. `DriveFeed` - done, safety proved.
6. Proofs: every property of a passing run but the liveness properties is a theorem. Still worth
   stating and proving: a refinement of the desk's rows by an abstract month that approval closes.
7. Modules still to write: the three reminders and the request email with a crash between
   send and stamp; weekly sessions; the refresh of a token; the read and the write of
   `transitionCycle` as two steps.
8. Larger instances: two posts in `PostAsks`, a month of five weeks in `Transforms`.
