---------------------------- MODULE AgentChanges ----------------------------
(***************************************************************************)
(* The changes the agent proposes in one turn, from the press on Apply to  *)
(* the report the client reads.  A screen approves them one by one; the    *)
(* server claims the proposal, checks its guards, makes the change and     *)
(* writes the outcome; what a missing caption blocks is tried once more    *)
(* when the caption has had its time.                                      *)
(*                                                                         *)
(* Several screens may apply the same turn, a screen or an amending turn   *)
(* may reject parts of it, and a call may throw, lose its answer or take   *)
(* the process with it; an answer is lost only when its handler is through *)
(* or has died.  A rewrite is enqueued like a hook without a reference,    *)
(* and a change of format patches a post like a move: they are not kinds   *)
(* of their own.                                                           *)
(***************************************************************************)
EXTENDS Integers

CONSTANTS
  Changes,       \* the proposals of one turn
  Rank,          \* their order in it
  Kind,          \* "add", "move", or "hook": the hook of a reel that the turn adds
  RefOf,         \* refProposalId: for a hook, the add it waits for
  Screens,       \* tabs and devices of the client
  ChangeEvents   \* bound: calls that throw, answers lost, processes that die, posts removed

ASSUME ChangeAssumption ==
  /\ Rank \in [Changes -> Nat] /\ RefOf \in [Changes -> Changes]
  /\ Kind \in [Changes -> {"add", "move", "hook"}]
  /\ ChangeEvents \in Nat

VARIABLES
  proposal,      \* agent_proposals.status
  made,          \* history: how often a change has been made
  subject,       \* the post that a move is about or an add creates
  captioned,     \* the adds whose post has a caption
  apply,         \* what each screen is doing, the request it waits for included
  changeEvents

changesVars == <<proposal, made, subject, captioned, apply, changeEvents>>

Handled == {"judge", "land", "finish"}
Statuses == {"pending", "approved", "rejected", "applied", "failed"}

\* listed: the screen's own list of pending proposals.  won: whose last answer came from
\* the screen's own claim; threw: whose handler threw under it.
NotApplying ==
  [pc |-> "idle", pass |-> 1, todo |-> {}, cur |-> "none", answer |-> "none", job |-> FALSE,
   jobs |-> FALSE, blocked |-> {}, applied |-> {}, refused |-> {}, failed |-> {},
   listed |-> Changes, won |-> {}, threw |-> {}]

Applies ==
  [pc : Handled \cup {"idle", "send", "answer", "await", "reported"}, pass : {1, 2},
   todo : SUBSET Changes, cur : Changes \cup {"none"}, answer : Statuses \cup {"none", "blocked", "lost"},
   job : BOOLEAN, jobs : BOOLEAN, blocked : SUBSET Changes, applied : SUBSET Changes,
   refused : SUBSET Changes, failed : SUBSET Changes, listed : SUBSET Changes,
   won : SUBSET Changes, threw : SUBSET Changes]

ChangesTypeOK ==
  /\ proposal \in [Changes -> Statuses]
  /\ made \in [Changes -> Nat]
  /\ subject \in [Changes -> {"none", "live", "removed"}]
  /\ captioned \subseteq Changes
  /\ apply \in [Screens -> Applies]
  /\ \A s \in Screens : apply[s].pc \in Handled \cup {"answer"} => apply[s].cur \in Changes
  /\ changeEvents \in 0..ChangeEvents

ChangesInit ==
  /\ proposal = [c \in Changes |-> "pending"]
  /\ made = [c \in Changes |-> 0]
  /\ subject = [c \in Changes |-> IF Kind[c] = "move" THEN "live" ELSE "none"]
  /\ captioned = {}
  /\ apply = [s \in Screens |-> NotApplying]
  /\ changeEvents = 0

ChangeEvent == changeEvents < ChangeEvents /\ changeEvents' = changeEvents + 1

posts == <<made, subject, captioned>>

-----------------------------------------------------------------------------
(* The server: approveProposal and rejectProposal. *)

\* The claim: only a pending proposal is taken.
ClaimsProposal(s, c) ==
  /\ proposal[c] = "pending"
  /\ proposal' = [proposal EXCEPT ![c] = "approved"]
  /\ apply' = [apply EXCEPT ![s].pc = "judge", ![s].cur = c, ![s].job = FALSE, ![s].won = @ \cup {c},
                            ![s].threw = @ \ {c}]
  /\ UNCHANGED <<posts, changeEvents>>

\* Anything else is answered with the proposal as it stands, whoever made it so.
FindsItResolved(s, c) ==
  /\ proposal[c] # "pending"
  /\ apply' = [apply EXCEPT ![s].pc = "answer", ![s].cur = c, ![s].job = FALSE, ![s].won = @ \ {c},
                            ![s].answer = proposal[c]]
  /\ UNCHANGED <<proposal, posts, changeEvents>>

\* A hook needs the post its add has created, and a reel's hook the caption of that post.
Found(c) == Kind[c] = "hook" => subject[RefOf[c]] = "live"
Worded(c) == Kind[c] = "hook" => RefOf[c] \in captioned

\* Not yet: the claim is given back, without a look at what the row says by now.
Unclaims(s) ==
  LET c == apply[s].cur IN
  /\ apply[s].pc = "judge" /\ ~ (Found(c) /\ Worded(c))
  /\ proposal' = [proposal EXCEPT ![c] = "pending"]
  /\ apply' = [apply EXCEPT ![s].pc = "answer", ![s].answer = "blocked", ![s].won = @ \ {c}]
  /\ UNCHANGED <<posts, changeEvents>>

\* A date in the past, a month that is a draft, a post that is gone, the limit of AI
\* changes; an add asks for the first two once more when it inserts.
Refuses(s) ==
  LET c == apply[s].cur IN
  /\ \/ apply[s].pc = "judge" /\ Found(c)
     \/ apply[s].pc = "land" /\ Kind[c] = "add"
  /\ proposal' = [proposal EXCEPT ![c] = "failed"]
  /\ apply' = [apply EXCEPT ![s].pc = "answer", ![s].answer = "failed"]
  /\ UNCHANGED <<posts, changeEvents>>

PassesGuards(s) ==
  LET c == apply[s].cur IN
  /\ apply[s].pc = "judge" /\ Found(c) /\ Worded(c)
  /\ Kind[c] = "move" => subject[c] = "live"
  /\ apply' = [apply EXCEPT ![s].pc = "land"]
  /\ UNCHANGED <<proposal, posts, changeEvents>>

\* The row is inserted, and its caption is enqueued unless the limit banks it or the
\* queue refuses; either way the approval goes on.
AddsPost(s) ==
  LET c == apply[s].cur IN
  /\ apply[s].pc = "land" /\ Kind[c] = "add"
  /\ subject' = [subject EXCEPT ![c] = "live"]
  /\ made' = [made EXCEPT ![c] = @ + 1]
  /\ \E queued \in BOOLEAN : apply' = [apply EXCEPT ![s].pc = "finish", ![s].job = queued]
  /\ UNCHANGED <<proposal, captioned, changeEvents>>

\* patchPost writes nothing on a post that was removed since the guards, and its
\* answer is not looked at.
MovesPost(s) ==
  LET c == apply[s].cur IN
  /\ apply[s].pc = "land" /\ Kind[c] = "move"
  /\ made' = IF subject[c] = "live" THEN [made EXCEPT ![c] = @ + 1] ELSE made
  /\ apply' = [apply EXCEPT ![s].pc = "finish"]
  /\ UNCHANGED <<proposal, subject, captioned, changeEvents>>

QueuesHook(s) ==
  LET c == apply[s].cur IN
  /\ apply[s].pc = "land" /\ Kind[c] = "hook"
  /\ made' = [made EXCEPT ![c] = @ + 1]
  /\ apply' = [apply EXCEPT ![s].pc = "finish", ![s].job = TRUE]
  /\ UNCHANGED <<proposal, subject, captioned, changeEvents>>

Finishes(s) ==
  /\ apply[s].pc = "finish"
  /\ proposal' = [proposal EXCEPT ![apply[s].cur] = "applied"]
  /\ apply' = [apply EXCEPT ![s].pc = "answer", ![s].answer = "applied"]
  /\ UNCHANGED <<posts, changeEvents>>

\* The catch writes failed, also over a change that has been made.
Throws(s) ==
  /\ apply[s].pc \in Handled /\ ChangeEvent
  /\ proposal' = [proposal EXCEPT ![apply[s].cur] = "failed"]
  /\ apply' = [apply EXCEPT ![s].pc = "answer", ![s].answer = "failed", ![s].threw = @ \cup {apply[s].cur}]
  /\ UNCHANGED posts

\* The process dies under the handler, or the answer is lost on its way: the screen
\* reads a network error, and the row keeps what it says.
AnswerIsLost(s) ==
  /\ apply[s].pc \in Handled \cup {"answer"} /\ apply[s].answer # "lost" /\ ChangeEvent
  /\ apply' = [apply EXCEPT ![s].pc = "answer", ![s].answer = "lost"]
  /\ UNCHANGED <<proposal, posts>>

\* A discard of a screen, or a turn of the agent that amends what is pending.
Rejects(c) ==
  /\ proposal[c] = "pending"
  /\ proposal' = [proposal EXCEPT ![c] = "rejected"]
  /\ UNCHANGED <<posts, apply, changeEvents>>

-----------------------------------------------------------------------------
(* The screen: applyTurn, applyChanges and decide. *)

\* Apply takes what the screen's list still holds, be it the second time.
Presses(s) ==
  /\ apply[s].pc \in {"idle", "reported"} /\ apply[s].listed # {}
  /\ apply' = [apply EXCEPT ![s] = [NotApplying EXCEPT !.pc = "send", !.todo = apply[s].listed, !.listed = apply[s].listed]]
  /\ UNCHANGED <<proposal, posts, changeEvents>>

\* The next request, in the order of the turn.
Foremost(S) == {c \in S : \A d \in S : Rank[c] <= Rank[d]}
Sends(s) ==
  /\ apply[s].pc = "send"
  /\ \E c \in Foremost(apply[s].todo) : ClaimsProposal(s, c) \/ FindsItResolved(s, c)

ReadingTheTransport(view) ==   \* mutant: a refusal that travels as a 200 is a success
  IF view \in {"blocked", "lost"} THEN view ELSE "applied"

\* What decide makes of an answer: all that is not blocked, failed or lost is a success.
Reading(view) ==
  CASE view = "blocked" -> "blocked"
    [] view = "failed" -> "refused"
    [] view = "lost" -> "lost"
    [] OTHER -> "applied"

\* An answer is counted; what is blocked for the first time is put aside.
Counted(a) ==
  LET r == Reading(a.answer)
      later == r = "blocked" /\ a.pass = 1
  IN
  [a EXCEPT !.pc = "send", !.todo = @ \ {a.cur}, !.answer = "none",
            !.applied = IF r = "applied" THEN @ \cup {a.cur} ELSE @,
            !.refused = IF r = "refused" THEN @ \cup {a.cur} ELSE @,
            !.failed = IF r # "applied" /\ ~ later THEN @ \cup {a.cur} ELSE @,
            !.blocked = IF later THEN @ \cup {a.cur} ELSE @,
            !.listed = IF r \in {"applied", "refused"} THEN @ \ {a.cur} ELSE @,
            !.jobs = @ \/ (r = "applied" /\ a.job)]

HearsAnswer(s) ==
  /\ apply[s].pc = "answer"
  /\ apply' = [apply EXCEPT ![s] = Counted(@)]
  /\ UNCHANGED <<proposal, posts, changeEvents>>

AtEnd(s) == apply[s].pc = "send" /\ apply[s].todo = {}
WaitsForWords(s) == apply[s].pass = 1 /\ apply[s].blocked # {} /\ apply[s].jobs

\* What nothing is being written for stays undone, and the report is made.
Reports(s) ==
  LET left == IF apply[s].pass = 1 THEN apply[s].blocked ELSE {} IN
  /\ AtEnd(s) /\ ~ WaitsForWords(s)
  /\ apply' = [apply EXCEPT ![s].pc = "reported", ![s].failed = @ \cup left]
  /\ UNCHANGED <<proposal, posts, changeEvents>>

Waits(s) ==
  /\ AtEnd(s) /\ WaitsForWords(s)
  /\ apply' = [apply EXCEPT ![s].pc = "await"]
  /\ UNCHANGED <<proposal, posts, changeEvents>>

\* The polls of the jobs have ended: done, failed, gone, or out of patience.
TriesAgain(s) ==
  /\ apply[s].pc = "await"
  /\ apply' = [apply EXCEPT ![s].pc = "send", ![s].pass = 2, ![s].todo = apply[s].blocked]
  /\ UNCHANGED <<proposal, posts, changeEvents>>

-----------------------------------------------------------------------------
(* The worker, the sweeps and the other edits of the client. *)

CaptionLands(c) ==
  /\ Kind[c] = "add" /\ subject[c] = "live" /\ c \notin captioned
  /\ captioned' = captioned \cup {c}
  /\ UNCHANGED <<proposal, made, subject, apply, changeEvents>>

PostIsRemoved(c) ==
  /\ subject[c] = "live" /\ ChangeEvent
  /\ subject' = [subject EXCEPT ![c] = "removed"]
  /\ UNCHANGED <<proposal, made, captioned, apply>>

Handles(s) ==
  \/ Unclaims(s) \/ Refuses(s) \/ PassesGuards(s)
  \/ AddsPost(s) \/ MovesPost(s) \/ QueuesHook(s) \/ Finishes(s) \/ Throws(s) \/ AnswerIsLost(s)

ScreenStep(s) == Presses(s) \/ Sends(s) \/ HearsAnswer(s) \/ Reports(s) \/ Waits(s) \/ TriesAgain(s)

ChangesNext ==
  \/ \E s \in Screens : Handles(s) \/ ScreenStep(s)
  \/ \E c \in Changes : Rejects(c) \/ CaptionLands(c) \/ PostIsRemoved(c)

ChangesSpec == ChangesInit /\ [][ChangesNext]_changesVars

-----------------------------------------------------------------------------
\* However often it is approved, blocked and tried again, a change is made once, and what
\* is still offered has not been made: the claim is given back without a condition.
LandsOnce == \A c \in Changes : made[c] <= 1 /\ (proposal[c] = "pending" => made[c] = 0)

\* What a screen counts as applied by its own claim has been made, unless the post it was
\* about went away under it.
ReportedIsIn ==
  \A s \in Screens : \A c \in apply[s].applied \cap apply[s].won :
    made[c] = 1 \/ subject[c] = "removed"

\* What a screen reports as refused by a guard has not been made by its claim.
RefusedIsOut ==
  \A s \in Screens : \A c \in (apply[s].refused \cap apply[s].won) \ apply[s].threw : made[c] = 0

\* The report of an apply is true of the changes the screen's own requests have resolved:
\* a refusal that travels as a plain 200 is not counted among the changes that are in.
ReportIsTrue == LandsOnce /\ ReportedIsIn /\ RefusedIsOut

=============================================================================
