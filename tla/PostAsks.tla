------------------------------ MODULE PostAsks ------------------------------
(***************************************************************************)
(* What a client asks for on single posts, and who pays for it.            *)
(*                                                                         *)
(* A request reads the month's allowance, then either marks the post as    *)
(* generating and queues a caption job or, with the allowance spent, banks *)
(* the post.  The job writes the caption and then the post_edits row the   *)
(* allowance counts.  A tick re-queues failed and stranded posts, retires  *)
(* banked posts whose day has passed and releases the others into what is  *)
(* left of the allowance.  source_meta is one JSON value per post, read by *)
(* one statement and written whole by a later one.                         *)
(*                                                                         *)
(* PlanReady follows the same jobs from the approval to the email; here    *)
(* the posts live on after it, and the matter is the metadata, the money   *)
(* and the promises made to the client.                                    *)
(***************************************************************************)
EXTENDS Naturals, FiniteSets

CONSTANTS
  Posts,        \* the posts of a client's months
  Requests,     \* the client's requests
  Ticks,        \* runs of the tick that may overlap
  None,         \* no ask
  Limit,        \* client_channels.ai_change_limit
  MaxAttempts,  \* GENERATION_JOB_OPTIONS.attempts (3 in the code)
  MaxSweeps,    \* MAX_SWEEP_ATTEMPTS (2 in the code)
  MaxFaults     \* bound: deaths of the app or of the engine, and calls Redis refuses

\* What a caption is written for: a request, or the plan's own brief for the slot.
Asks == Requests \cup {"plan"}

ASSUME PostsAssumption == Posts # {}
ASSUME NamesAssumption == None \notin Asks /\ "plan" \notin Requests
ASSUME LimitsAssumption ==
  /\ Limit \in Nat /\ MaxAttempts \in Nat \ {0} /\ MaxSweeps \in Nat
  /\ MaxFaults \in Nat

VARIABLES
  row,      \* content_cycle_posts: one row per post
  job,      \* the caption job of each post, shape_<cycle>_<post>
  req,      \* where each client request stands, and the row it has read
  tick,     \* where each tick stands, and the rows it has read
  used,     \* post_edits of this month that are passed and billable
  charged,  \* history: billable post_edits ever written for each ask
  swept,    \* history: passes of the sweep that queued each post
  crashes,  \* deaths so far
  refusals  \* calls refused so far

vars == <<row, job, req, tick, used, charged, swept, crashes, refusals>>
envVars == <<crashes, refusals>>
Fault == crashes + refusals < MaxFaults

\* The keys of source_meta the protocol uses.
Meta == [pending : Asks \cup {None}, banked : BOOLEAN,
         error : {"none", "transient", "deterministic"},
         sweeps : 0..MaxSweeps, ungrounded : BOOLEAN]

NoMeta == [pending |-> None, banked |-> FALSE, error |-> "none", sweeps |-> 0,
           ungrounded |-> FALSE]

Statuses == {"absent", "planned", "new", "edited", "generating", "generation_failed",
             "generation_expired"}

\* past: scheduled_date < today.  aged: updated_at lies over two hours back.  system:
\* source_meta.systemGenerated, stamped by the approval and carried by every write.
Rows == [status : Statuses, live : BOOLEAN, past : BOOLEAN, aged : BOOLEAN,
         system : BOOLEAN, meta : Meta]

Jobs == [state : {"none", "waiting", "active", "written", "billed", "threw"},
         ask : Asks, billable : BOOLEAN, tries : 0..MaxAttempts,
         isGenerating : BOOLEAN, meta : Meta]

NoJob == [state |-> "none", ask |-> "plan", billable |-> FALSE, tries |-> 0,
          isGenerating |-> FALSE, meta |-> NoMeta]

Kinds == {"generate", "rewrite", "edit", "time"}

Reqs == [pc : {"idle", "check", "bank", "mark", "enqueue", "refused", "patch", "done"},
         kind : Kinds, post : Posts, ask : Asks, status : Statuses, meta : Meta]

Candidates == [post : Posts, status : Statuses, meta : Meta]

IdleTick == [pc |-> "idle", todo |-> {}, at |-> {}, budget |-> 0]

TypeOK ==
  /\ row \in [Posts -> Rows]
  /\ job \in [Posts -> Jobs]
  /\ req \in [Requests -> Reqs]
  /\ \A t \in Ticks : /\ tick[t].pc \in {"idle", "sweep", "stamp", "retire", "release", "unflag"}
                      /\ tick[t].todo \subseteq Candidates /\ tick[t].at \subseteq Candidates
                      /\ tick[t].budget \in 0..Limit
  /\ used \in Nat /\ charged \in [Asks -> Nat] /\ swept \in [Posts -> Nat]
  /\ crashes \in Nat /\ refusals \in Nat /\ crashes + refusals <= MaxFaults

---------------------------------------------------------------------------
(* Rows, the queue and the allowance.                                      *)

\* Every write to a row moves its updated_at.
Written(r) == [r EXCEPT !.aged = FALSE]

Queued(ask, billable) ==
  [state |-> "waiting", ask |-> ask, billable |-> billable, tries |-> MaxAttempts,
   isGenerating |-> FALSE, meta |-> NoMeta]

\* A finished job is removed before the add, or has left the queue by itself; any
\* other state of the id is 'busy'.
Busy(p) == job[p].state # "none"

IsCapReached == used >= Limit
Remaining == IF IsCapReached THEN 0 ELSE Limit - used

BillableAlways(p) == TRUE   \* mutant: the recovered ask is the client's

\* The month's own posts are free, whoever asked.
BillableForPost(p) == ~row[p].system

\* pendingInstruction when there is one, else the plan's own brief for the slot.
InstructionFor(c) == IF c.meta.pending # None THEN c.meta.pending ELSE "plan"

\* classifyGenerationFailure: the flag, never the message; no error is transient.
FailureClass(m) ==
  CASE m.banked -> "quota"
    [] ~m.banked /\ m.error = "deterministic" -> "deterministic"
    [] OTHER -> "transient"

IsEditable(p) == row[p].status # "absent" /\ row[p].live /\ ~row[p].past

Candidate(p) == [post |-> p, status |-> row[p].status, meta |-> row[p].meta]

SweepRowsUncapped ==   \* mutant: no pass limit
  {Candidate(p) : p \in {p \in Posts :
     /\ \/ row[p].status = "generation_failed"
        \/ row[p].status = "generating" /\ row[p].aged
     /\ row[p].live /\ ~row[p].past
     /\ ~row[p].meta.banked}}

SweepRowsFailedOnly ==   \* mutant: the stranded posts are forgotten
  {Candidate(p) : p \in {p \in Posts :
     /\ row[p].status = "generation_failed"
     /\ row[p].live /\ ~row[p].past
     /\ row[p].meta.sweeps < MaxSweeps
     /\ ~row[p].meta.banked}}

SweepRows ==
  {Candidate(p) : p \in {p \in Posts :
     /\ \/ row[p].status = "generation_failed"
        \/ row[p].status = "generating" /\ row[p].aged
     /\ row[p].live /\ ~row[p].past
     /\ row[p].meta.sweeps < MaxSweeps
     /\ ~row[p].meta.banked}}

BankedRowsAhead(past) ==   \* mutant: nothing is retired
  {Candidate(p) : p \in {p \in Posts :
     /\ row[p].status = "generation_failed" /\ row[p].meta.banked
     /\ row[p].live /\ ~row[p].past /\ ~past}}

BankedRows(past) ==
  {Candidate(p) : p \in {p \in Posts :
     /\ row[p].status = "generation_failed" /\ row[p].meta.banked
     /\ row[p].live /\ row[p].past = past}}

\* A post of the approved month is being written, was declined for its subject or is
\* finished; the others are not there yet.  Part of the allowance may be spent.
Init ==
  /\ \E how \in [Posts -> {"absent", "generating", "declined", "finished"}] :
       /\ row = [p \in Posts |->
            [status |-> IF how[p] \in {"absent", "generating"} THEN how[p] ELSE "new",
             live |-> TRUE, past |-> FALSE, aged |-> FALSE, system |-> how[p] # "absent",
             meta |-> [NoMeta EXCEPT !.ungrounded = how[p] = "declined"]]]
       /\ job = [p \in Posts |-> IF how[p] = "generating" THEN Queued("plan", FALSE) ELSE NoJob]
  /\ req = [r \in Requests |-> [pc |-> "idle", kind |-> "generate", post |-> CHOOSE p \in Posts : TRUE,
                                 ask |-> "plan", status |-> "absent", meta |-> NoMeta]]
  /\ tick = [t \in Ticks |-> IdleTick]
  /\ used \in 0..Limit
  /\ charged = [a \in Asks |-> 0] /\ swept = [p \in Posts |-> 0]
  /\ crashes = 0 /\ refusals = 0

---------------------------------------------------------------------------
(* The client's requests, await by await.                                  *)

\* A request begins: it has passed its gates and goes on at step pc.
Begin(r, pc, kind, p, ask) ==
  /\ req[r].pc = "idle"
  /\ req' = [req EXCEPT ![r] = [pc |-> pc, kind |-> kind, post |-> p, ask |-> ask,
                               status |-> row[p].status, meta |-> row[p].meta]]

\* It reads its row and carries what it read to step pc.
Reads(r, pc) ==
  req' = [req EXCEPT ![r].pc = pc, ![r].status = row[req[r].post].status,
                     ![r].meta = row[req[r].post].meta]

Goes(r, pc) == req' = [req EXCEPT ![r].pc = pc]

Ends(r) == req' = [req EXCEPT ![r].pc = "done", ![r].status = "absent", ![r].meta = NoMeta]

\* POST /api/posts and the agent's add: the row takes its slot, its caption to come.
AskForAdd(r, p) ==
  /\ row[p].status = "absent" /\ ~row[p].past
  /\ row' = [row EXCEPT ![p] = [@ EXCEPT !.status = "generating",
                                         !.meta = [NoMeta EXCEPT !.pending = r]]]
  /\ Begin(r, "check", "generate", p, r)
  /\ UNCHANGED <<job, tick, used, charged, swept, envVars>>

\* POST subject: the answer about a declined launch clears the question first.
AskWithSubject(r, p) ==
  /\ IsEditable(p) /\ row[p].meta.ungrounded
  /\ row' = [row EXCEPT ![p] = [Written(@) EXCEPT !.meta.ungrounded = FALSE]]
  /\ Begin(r, "check", "generate", p, r)
  /\ UNCHANGED <<job, tick, used, charged, swept, envVars>>

\* POST shape: a rewrite marks nothing on the row.
AskForRewrite(r, p) ==
  /\ IsEditable(p)
  /\ Begin(r, "check", "rewrite", p, r)
  /\ UNCHANGED <<row, job, tick, used, charged, swept, envVars>>

\* The allowance is read, then the row the next statement will write whole.
Check(r) ==
  LET p == req[r].post IN
  /\ req[r].pc = "check"
  /\ IF req[r].kind = "rewrite"
     THEN IF IsCapReached THEN Ends(r) ELSE Goes(r, "enqueue")
     ELSE IF ~row[p].live \/ (~IsCapReached /\ row[p].past) THEN Ends(r)
     ELSE Reads(r, IF IsCapReached THEN "bank" ELSE "mark")
  /\ UNCHANGED <<row, job, tick, used, charged, swept, envVars>>

\* markPostBanked: instruction, message and flag, over the metadata as it was read.
Bank(r) ==
  /\ req[r].pc = "bank"
  /\ row' = [row EXCEPT ![req[r].post] =
       [Written(@) EXCEPT !.status = "generation_failed",
          !.meta = [req[r].meta EXCEPT !.pending = req[r].ask, !.banked = TRUE,
                                       !.error = "deterministic"]]]
  /\ Ends(r)
  /\ UNCHANGED <<job, tick, used, charged, swept, envVars>>

\* markPostGenerating keeps every key but the instruction and the error.
Mark(r) ==
  /\ req[r].pc = "mark"
  /\ row' = [row EXCEPT ![req[r].post] =
       [Written(@) EXCEPT !.status = "generating",
          !.meta = [req[r].meta EXCEPT !.pending = req[r].ask, !.error = "none"]]]
  /\ Goes(r, "enqueue")
  /\ UNCHANGED <<job, tick, used, charged, swept, envVars>>

\* enqueueShape: a busy id is left alone, and the request counts as started.
Enqueue(r) ==
  LET p == req[r].post IN
  /\ req[r].pc = "enqueue"
  /\ job' = IF Busy(p) THEN job ELSE [job EXCEPT ![p] = Queued(req[r].ask, TRUE)]
  /\ Ends(r)
  /\ UNCHANGED <<row, tick, used, charged, swept, envVars>>

EnqueueError(r) ==
  /\ req[r].pc = "enqueue" /\ Fault
  /\ refusals' = refusals + 1
  /\ IF req[r].kind = "rewrite" THEN Ends(r) ELSE Goes(r, "refused")
  /\ UNCHANGED <<row, job, tick, used, charged, swept, crashes>>

\* markPostGenerationFailed, with whatever Redis said.
Refused(r) ==
  LET p == req[r].post IN
  /\ req[r].pc = "refused"
  /\ \E error \in {"transient", "deterministic"} :
       row' = IF ~row[p].live THEN row
              ELSE [row EXCEPT ![p] = [Written(@) EXCEPT !.status = "generation_failed",
                                                         !.meta.error = error]]
  /\ Ends(r)
  /\ UNCHANGED <<job, tick, used, charged, swept, envVars>>

\* PATCH: the row is read; a later statement writes its status, and the whole of
\* its metadata when the posting time changes.
PatchReads(r, p) ==
  /\ IsEditable(p)
  /\ \E kind \in {"edit", "time"} : Begin(r, "patch", kind, p, "plan")
  /\ UNCHANGED <<row, job, tick, used, charged, swept, envVars>>

PatchWrites(r) ==
  LET p == req[r].post IN
  /\ req[r].pc = "patch"
  /\ row' = [row EXCEPT ![p] = [Written(@) EXCEPT
       !.status = IF req[r].status = "new" THEN "new" ELSE "edited",
       !.meta = IF req[r].kind = "time" THEN req[r].meta ELSE row[p].meta]]
  /\ Ends(r)
  /\ UNCHANGED <<job, tick, used, charged, swept, envVars>>

Remove(p) ==
  /\ IsEditable(p)
  /\ row' = [row EXCEPT ![p] = [Written(@) EXCEPT !.live = FALSE]]
  /\ UNCHANGED <<job, req, tick, used, charged, swept, envVars>>

\* resolveRevert: an added draft goes, a baseline is restored, else the flag is cleared.
Revert(p) ==
  /\ IsEditable(p)
  /\ \/ /\ row[p].status = "new"
        /\ row' = [row EXCEPT ![p] = [Written(@) EXCEPT !.live = FALSE]]
     \/ /\ row[p].status # "new"
        /\ row' = [row EXCEPT ![p] = [Written(@) EXCEPT !.status = "planned"]]
  /\ UNCHANGED <<job, req, tick, used, charged, swept, envVars>>

AppCrash(r) ==
  /\ req[r].pc \notin {"idle", "done"} /\ Fault
  /\ crashes' = crashes + 1
  /\ Ends(r)
  /\ UNCHANGED <<row, job, tick, used, charged, swept, refusals>>

---------------------------------------------------------------------------
(* The caption job.                                                        *)

\* A tick's loop over its rows takes milliseconds each, a paid attempt seconds: an
\* attempt does not end, and the last of several (which waits for its backoff) does
\* not begin, while a tick still has the post's row in hand.
Timely(p) == \A t \in Ticks : \A c \in tick[t].todo \cup tick[t].at : c.post # p

\* The attempt reads the row: what it finds decides whether it is a generation.
JobStarts(p) ==
  /\ job[p].state = "waiting"
  /\ job[p].tries = 1 => Timely(p)
  /\ job' = [job EXCEPT ![p].state = "active", ![p].meta = row[p].meta,
       ![p].isGenerating = row[p].status \in {"generating", "generation_failed"}]
  /\ UNCHANGED <<row, req, tick, used, charged, swept, envVars>>

JobWrites(p) ==
  /\ job[p].state = "active" /\ Timely(p)
  /\ row' = [row EXCEPT ![p] = [Written(@) EXCEPT
       !.status = IF job[p].isGenerating THEN "new" ELSE "edited"]]
  /\ job' = [job EXCEPT ![p].state = "written"]
  /\ UNCHANGED <<req, tick, used, charged, swept, envVars>>

JobBillsThenThrows(p) ==   \* mutant: what follows the post_edits row may fail the attempt
  /\ job[p].state = "written"
  /\ used' = IF job[p].billable THEN used + 1 ELSE used
  /\ charged' = IF job[p].billable THEN [charged EXCEPT ![job[p].ask] = @ + 1] ELSE charged
  /\ job' = IF job[p].tries > 1
            THEN [job EXCEPT ![p].state = "waiting", ![p].tries = @ - 1]
            ELSE [job EXCEPT ![p].state = "billed"]
  /\ UNCHANGED <<row, req, tick, swept, envVars>>

\* The post_edits row; its insert may fail without failing the job.
JobBills(p) ==
  /\ job[p].state = "written"
  /\ \E inserted \in BOOLEAN :
       /\ used' = IF inserted /\ job[p].billable THEN used + 1 ELSE used
       /\ charged' = IF inserted /\ job[p].billable THEN [charged EXCEPT ![job[p].ask] = @ + 1]
                     ELSE charged
  /\ job' = [job EXCEPT ![p].state = "billed"]
  /\ UNCHANGED <<row, req, tick, swept, envVars>>

\* An attempt that throws is tried again; the last one records the failure on a
\* generation, over the metadata the attempt began with.
JobThrows(p) ==
  /\ job[p].state = "active" /\ Timely(p)
  /\ \/ /\ job[p].tries > 1
        /\ job' = [job EXCEPT ![p].state = "waiting", ![p].tries = @ - 1,
                              ![p].meta = NoMeta, ![p].isGenerating = FALSE]
        /\ UNCHANGED row
     \/ /\ job[p].tries = 1
        /\ job' = [job EXCEPT ![p].state = "threw"]
        /\ \E error \in {"transient", "deterministic"} :
             row' = IF ~job[p].isGenerating THEN row
                    ELSE [row EXCEPT ![p] = [Written(@) EXCEPT
                            !.status = "generation_failed",
                            !.meta = [job[p].meta EXCEPT !.error = error]]]
  /\ UNCHANGED <<req, tick, used, charged, swept, envVars>>

\* BullMQ moves the job to its completed or failed set.
JobFinishes(p) ==
  /\ job[p].state \in {"billed", "threw"}
  /\ job' = [job EXCEPT ![p] = NoJob]
  /\ UNCHANGED <<row, req, tick, used, charged, swept, envVars>>

\* The engine dies: running jobs are taken up again from their beginning, ticks end.
WorkerCrash ==
  /\ Fault
  /\ crashes' = crashes + 1
  /\ job' = [p \in Posts |-> IF job[p].state \in {"none", "waiting"} THEN job[p]
               ELSE [job[p] EXCEPT !.state = "waiting", !.meta = NoMeta, !.isGenerating = FALSE]]
  /\ tick' = [t \in Ticks |-> IdleTick]
  /\ UNCHANGED <<row, req, used, charged, swept, refusals>>

---------------------------------------------------------------------------
(* The tick: sweep, retire, release.  Each arm reads its rows in one query *)
(* and then visits them one by one.                                        *)

Settled(t) == tick[t].todo = {} /\ tick[t].at = {}

\* Ticks are minutes apart and requests take less: none is under way at the start.
TickStarts(t) ==
  /\ tick[t].pc = "idle" /\ \A r \in Requests : req[r].pc \in {"idle", "done"}
  /\ tick' = [tick EXCEPT ![t] = [@ EXCEPT !.pc = "sweep", !.todo = SweepRows]]
  /\ UNCHANGED <<row, job, req, used, charged, swept, envVars>>

\* A candidate the sweep leaves alone: held, an operator's item, or in flight.
SweepSkips(t) ==
  /\ tick[t].pc = "sweep"
  /\ \E c \in tick[t].todo :
       /\ \/ c.status = "generation_failed" /\ FailureClass(c.meta) # "transient"
          \/ Busy(c.post)
       /\ tick' = [tick EXCEPT ![t].todo = @ \ {c}]
  /\ UNCHANGED <<row, job, req, used, charged, swept, envVars>>

\* Enqueue first ...
SweepAdds(t) ==
  /\ tick[t].pc = "sweep"
  /\ \E c \in tick[t].todo :
       /\ c.status = "generation_failed" => FailureClass(c.meta) = "transient"
       /\ ~Busy(c.post)
       /\ job' = [job EXCEPT ![c.post] = Queued(InstructionFor(c), BillableForPost(c.post))]
       /\ swept' = [swept EXCEPT ![c.post] = @ + 1]
       /\ tick' = [tick EXCEPT ![t] = [@ EXCEPT !.pc = "stamp", !.todo = tick[t].todo \ {c}, !.at = {c}]]
  /\ UNCHANGED <<row, req, used, charged, envVars>>

SweepStampsUncounted(t) ==   \* mutant: the pass is not counted
  /\ tick[t].pc = "stamp"
  /\ \E c \in tick[t].at :
       /\ row' = IF row[c.post].status \in {"generation_failed", "generating"}
                 THEN [row EXCEPT ![c.post] = [Written(@) EXCEPT !.status = "generating"]]
                 ELSE row
       /\ tick' = [tick EXCEPT ![t] = [@ EXCEPT !.pc = "sweep", !.at = {}]]
  /\ UNCHANGED <<job, req, used, charged, swept, envVars>>

\* ... then stamp, if the row is still failed or generating.
SweepStamps(t) ==
  /\ tick[t].pc = "stamp"
  /\ \E c \in tick[t].at :
       /\ row' = IF row[c.post].status \in {"generation_failed", "generating"}
                 THEN [row EXCEPT ![c.post] = [Written(@) EXCEPT !.status = "generating",
                         !.meta = [c.meta EXCEPT !.sweeps = @ + 1]]]
                 ELSE row
       /\ tick' = [tick EXCEPT ![t] = [@ EXCEPT !.pc = "sweep", !.at = {}]]
  /\ UNCHANGED <<job, req, used, charged, swept, envVars>>

RetireSelects(t) ==
  /\ tick[t].pc = "sweep" /\ Settled(t)
  /\ tick' = [tick EXCEPT ![t] = [@ EXCEPT !.pc = "retire", !.todo = BankedRows(TRUE)]]
  /\ UNCHANGED <<row, job, req, used, charged, swept, envVars>>

\* retireExpiredBanked: the flag goes and the status moves; nothing is queued.
Retires(t) ==
  /\ tick[t].pc = "retire"
  /\ \E c \in tick[t].todo :
       /\ row' = IF row[c.post].status = "generation_failed"
                 THEN [row EXCEPT ![c.post] = [Written(@) EXCEPT !.status = "generation_expired",
                         !.meta = [c.meta EXCEPT !.banked = FALSE, !.error = "deterministic"]]]
                 ELSE row
       /\ tick' = [tick EXCEPT ![t].todo = @ \ {c}]
  /\ UNCHANGED <<job, req, used, charged, swept, envVars>>

\* The budget is read once for the pass.
ReleaseSelects(t) ==
  /\ tick[t].pc = "retire" /\ Settled(t)
  /\ tick' = [tick EXCEPT ![t] = [@ EXCEPT !.pc = "release", !.todo = BankedRows(FALSE),
                                           !.budget = Remaining]]
  /\ UNCHANGED <<row, job, req, used, charged, swept, envVars>>

ReleaseHolds(t) ==
  /\ tick[t].pc = "release"
  /\ \E c \in tick[t].todo : /\ tick[t].budget = 0 \/ Busy(c.post)
                             /\ tick' = [tick EXCEPT ![t].todo = @ \ {c}]
  /\ UNCHANGED <<row, job, req, used, charged, swept, envVars>>

ReleaseAdds(t) ==
  /\ tick[t].pc = "release" /\ tick[t].budget > 0
  /\ \E c \in tick[t].todo :
       /\ ~Busy(c.post)
       /\ job' = [job EXCEPT ![c.post] = Queued(InstructionFor(c), BillableForPost(c.post))]
       /\ tick' = [tick EXCEPT ![t] = [@ EXCEPT !.pc = "unflag", !.todo = tick[t].todo \ {c}, !.at = {c}]]
  /\ UNCHANGED <<row, req, used, charged, swept, envVars>>

ReleaseUnflags(t) ==
  /\ tick[t].pc = "unflag"
  /\ \E c \in tick[t].at :
       /\ row' = IF row[c.post].status = "generation_failed"
                 THEN [row EXCEPT ![c.post] = [Written(@) EXCEPT !.status = "generating",
                         !.meta = [c.meta EXCEPT !.banked = FALSE, !.error = "none"]]]
                 ELSE row
       /\ tick' = [tick EXCEPT ![t] = [@ EXCEPT !.pc = "release", !.at = {},
                                                !.budget = tick[t].budget - 1]]
  /\ UNCHANGED <<job, req, used, charged, swept, envVars>>

TickEnds(t) ==
  /\ tick[t].pc = "release" /\ Settled(t)
  /\ tick' = [tick EXCEPT ![t] = IdleTick]
  /\ UNCHANGED <<row, job, req, used, charged, swept, envVars>>

\* Redis refuses the add: the row stays as it is and the pass goes on.
TickAddError(t) ==
  /\ tick[t].pc \in {"sweep", "release"} /\ Fault
  /\ refusals' = refusals + 1
  /\ \E c \in tick[t].todo : tick' = [tick EXCEPT ![t].todo = @ \ {c}]
  /\ UNCHANGED <<row, job, req, used, charged, swept, crashes>>

---------------------------------------------------------------------------
(* Time.                                                                   *)

Touched(p) == \E r \in Requests : req[r].post = p /\ req[r].pc \notin {"idle", "done"}

\* Two hours without a write: longer than a request, a tick or a job.
Ages(p) ==
  /\ row[p].status = "generating" /\ ~row[p].aged
  /\ ~Touched(p) /\ Timely(p) /\ job[p].state \in {"none", "waiting"}
  /\ row' = [row EXCEPT ![p].aged = TRUE]
  /\ UNCHANGED <<job, req, tick, used, charged, swept, envVars>>

DayPasses(p) ==
  /\ row[p].status # "absent" /\ ~row[p].past
  /\ row' = [row EXCEPT ![p].past = TRUE]
  /\ UNCHANGED <<job, req, tick, used, charged, swept, envVars>>

\* monthWindowUtc: edits of the month before no longer count.
MonthTurns ==
  /\ used > 0
  /\ used' = 0
  /\ UNCHANGED <<row, job, req, tick, charged, swept, envVars>>

RequestBegins(r, p) ==
  \/ AskForAdd(r, p) \/ AskWithSubject(r, p) \/ AskForRewrite(r, p)
  \/ PatchReads(r, p)

RequestStep(r) ==
  \/ Check(r) \/ Bank(r) \/ Mark(r) \/ Enqueue(r) \/ EnqueueError(r) \/ Refused(r)
  \/ PatchWrites(r)

JobStep(p) == JobStarts(p) \/ JobWrites(p) \/ JobBills(p) \/ JobThrows(p) \/ JobFinishes(p)

TickStep(t) ==
  \/ TickStarts(t) \/ SweepSkips(t) \/ SweepAdds(t) \/ SweepStamps(t)
  \/ RetireSelects(t) \/ Retires(t)
  \/ ReleaseSelects(t) \/ ReleaseHolds(t) \/ ReleaseAdds(t) \/ ReleaseUnflags(t)
  \/ TickEnds(t) \/ TickAddError(t)

Next ==
  \/ \E r \in Requests : RequestStep(r) \/ AppCrash(r) \/ \E p \in Posts : RequestBegins(r, p)
  \/ \E p \in Posts : JobStep(p) \/ Remove(p) \/ Revert(p) \/ Ages(p) \/ DayPasses(p)
  \/ \E t \in Ticks : TickStep(t)
  \/ WorkerCrash \/ MonthTurns

Spec == Init /\ [][Next]_vars

\* The worker and the repeatable ticks keep running, and a request that has begun
\* goes on or dies; nothing is assumed of the client, the calendar or the services.  A
\* job's fairness is strong because a tick keeps interrupting it (Timely).
Fairness ==
  /\ \A r \in Requests : WF_vars(RequestStep(r))
  /\ \A p \in Posts : SF_vars(JobStep(p)) /\ SF_vars(Ages(p))
  /\ \A t \in Ticks : WF_vars(TickStep(t))

FairSpec == Spec /\ Fairness

---------------------------------------------------------------------------
(* Properties.                                                             *)

Askers(a) ==
  {r \in Requests : req[r].pc # "idle" /\ req[r].kind \in {"generate", "rewrite"} /\ req[r].ask = a}

\* The sweep, the release and the queue's own retries may all run one ask again, and
\* still the client pays once for each time it was asked; only a death of the engine
\* between the post_edits row and the end of the job charges twice.
PaidOnce ==
  \A a \in Asks : charged[a] <= Cardinality(Askers(a)) + crashes

\* The month's own captions are never counted against the allowance, whichever of the
\* fan-out, the sweep or the release queued the job.
PlanIsFree == charged["plan"] = 0

\* The counter that bounds the sweep lives in metadata that others write whole: each
\* of them can lose one stamp, nothing else buys a post another paid pass.
SweepIsBounded ==
  \A p \in Posts :
    swept[p] <= MaxSweeps + crashes + Cardinality({r \in Requests : req[r].post = p /\ req[r].pc # "idle"})

Banked(p) == row[p].status = "generation_failed" /\ row[p].meta.banked /\ row[p].live

\* Every banked post falls to one of the two passes: it does not stay banked when its
\* day has passed, nor while the month has allowance left.
BankedSettles == \A p \in Posts : []<>~(Banked(p) /\ (row[p].past \/ ~IsCapReached))

\* 'On its way' comes true: a post marked generating is picked up even when the
\* process died before the enqueue.
OnItsWay(p) == /\ row[p].status = "generating" /\ row[p].live /\ ~row[p].past
               /\ ~row[p].meta.banked /\ row[p].meta.sweeps < MaxSweeps

StrandedRecovers == \A p \in Posts : []<>~OnItsWay(p)

=============================================================================
