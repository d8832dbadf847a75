----------------------------- MODULE MailIntake -----------------------------
(***************************************************************************)
(* From a client's inbox to the workflows: polls that may overlap, the     *)
(* events they write, the queue, and the jobs that decide whether a mail   *)
(* is marked as read or left for a person.                                 *)
(*                                                                         *)
(* The timer starts a poll however long the last one takes, so two of them *)
(* may read the same mail.  Jobs are tried once; only a job whose worker   *)
(* died is started again.  What a workflow writes is left out, and so is   *)
(* the synthetic event an approved suggestion may start: it has no mail.   *)
(***************************************************************************)
EXTENDS Integers, Sequences, FiniteSets

CONSTANTS
  Mails,         \* mails arrive as 1, 2 .. Mails
  Polls,         \* poll cycles that may run side by side
  PageSize,      \* messages a listing returns
  RuleSets,      \* the workflows that a client's rules may choose for each mail, in order
  MailFaults     \* bound: calls that fail, processes that die, rules switched off

ASSUME MailAssumption ==
  /\ Mails \in Nat /\ PageSize \in Nat \ {0} /\ MailFaults \in Nat
  /\ RuleSets \subseteq [1..Mails -> Seq({"triage", "handled", "deferred", "passes"})]

VARIABLES
  arrived,     \* mails in the inbox
  watermark,   \* oauth_connections.last_polled_at: the last mail before that moment
  processed,   \* processed_external_ids
  event,       \* incoming_events.status, by the mail and the poll that wrote the row
  rulesFor,    \* what the client's rules choose for each mail
  ruled,       \* whether they are enabled
  poll,        \* the poll cycles
  job,         \* the queue's job of an event
  chained,     \* jobs of an event queued for the workflow that triage named
  filed,       \* triage_capture_log: suggestions that wait for a person
  decided,     \* those decided
  marked,      \* who marked the mail as read
  cut,         \* history: mails before the first watermark, or beyond the page of a listing
  answered,    \* history: mails that a workflow named by triage has handled
  stalled,     \* history: mails whose job was started again
  mailFaults

inbox == <<arrived, watermark, processed, event, ruled, poll, cut>>
desk == <<rulesFor, chained, filed, decided, marked, answered, stalled>>
mailVars == <<inbox, job, desk, mailFaults>>

Events == (1..Mails) \X Polls
MailOf(e) == e[1]
NoMark == -1

Resting == [pc |-> "idle", from |-> NoMark, start |-> 0, ruled |-> FALSE, todo |-> {}, adds |-> {}, count |-> 0]
NoMailJob == [state |-> "none", rule |-> 0, mark |-> TRUE]

Matched(p, m) == poll[p].ruled /\ rulesFor[m] # <<>>

Newest(S) == CHOOSE n \in S : \A k \in S : k <= n

MailTypeOK ==
  /\ arrived \in 0..Mails /\ watermark \in NoMark..arrived /\ processed \subseteq 1..arrived
  /\ event \in [Events -> {"none", "received", "running", "completed", "failed", "ignored"}]
  /\ \A p \in Polls : poll[p].todo \subseteq 1..arrived /\ poll[p].adds \subseteq Events /\ poll[p].count \in 0..Mails
  /\ \A e \in Events : job[e].state # "none" => event[e] # "none" /\ MailOf(e) \in processed
  /\ \A m \in 1..Mails : decided[m] <= filed[m] /\ marked[m] \in {"no", "engine", "person"}
  /\ mailFaults \in 0..MailFaults

MailInit ==
  /\ arrived = 0 /\ watermark = NoMark /\ processed = {} /\ cut = {}
  /\ event = [e \in Events |-> "none"] /\ ruled = TRUE /\ rulesFor \in RuleSets
  /\ poll = [p \in Polls |-> Resting] /\ job = [e \in Events |-> NoMailJob]
  /\ chained = [e \in Events |-> 0] /\ answered = {} /\ stalled = {}
  /\ filed = [m \in 1..Mails |-> 0] /\ decided = [m \in 1..Mails |-> 0]
  /\ marked = [m \in 1..Mails |-> "no"] /\ mailFaults = 0

MailFaulty == mailFaults < MailFaults /\ mailFaults' = mailFaults + 1

Arrives ==
  /\ arrived < Mails /\ arrived' = arrived + 1
  /\ UNCHANGED <<watermark, processed, event, ruled, poll, cut, job, desk, mailFaults>>

\* An operator switches the rules off for good.
Unruled ==
  /\ ruled /\ ruled' = FALSE /\ MailFaulty
  /\ UNCHANGED <<arrived, watermark, processed, event, poll, cut, job, desk>>

---------------------------------------------------------------------------
(* GmailPoller.poll and pollAllClients.                                    *)

PollRests(p) == poll' = [poll EXCEPT ![p] = Resting]

\* The very first cycle only sets the watermark.
PollStarts(p) ==
  /\ poll[p].pc = "idle"
  /\ IF watermark = NoMark THEN watermark' = arrived /\ cut' = 1..arrived /\ UNCHANGED poll
     ELSE /\ poll' = [poll EXCEPT ![p] = [Resting EXCEPT !.pc = "list", !.from = watermark, !.start = arrived]]
          /\ UNCHANGED <<watermark, cut>>
  /\ UNCHANGED <<arrived, processed, event, ruled, job, desk, mailFaults>>

\* One page, the newest first, of what lies beyond the watermark read at the start.
PollLists(p) ==
  LET beyond == (poll[p].from + 1)..arrived
      page == {m \in beyond : arrived - m < PageSize} IN
  /\ poll[p].pc = "list"
  /\ poll' = [poll EXCEPT ![p] = [@ EXCEPT !.pc = "mail", !.from = NoMark, !.ruled = ruled, !.todo = page]]
  /\ cut' = cut \cup (beyond \ page)
  /\ UNCHANGED <<arrived, watermark, processed, event, ruled, job, desk, mailFaults>>

PollSees(p) ==
  /\ poll[p].pc = "mail" /\ poll[p].todo # {}
  /\ LET m == Newest(poll[p].todo) IN
     poll' = IF m \in processed THEN [poll EXCEPT ![p].todo = @ \ {m}] ELSE [poll EXCEPT ![p].pc = "persist"]
  /\ UNCHANGED <<arrived, watermark, processed, event, ruled, cut, job, desk, mailFaults>>

PollPersistsTwice(p) ==   \* mutant: no unique index on the external id
  LET m == Newest(poll[p].todo) IN
  /\ poll[p].pc = "persist"
  /\ processed' = processed \cup {m}
  /\ event' = IF Matched(p, m) THEN [event EXCEPT ![<<m, p>>] = "received"] ELSE event
  /\ poll' = [poll EXCEPT ![p].pc = "mail", ![p].todo = @ \ {m}, ![p].count = @ + IF Matched(p, m) THEN 1 ELSE 0]
  /\ UNCHANGED <<arrived, watermark, ruled, cut, job, desk, mailFaults>>

\* Event and id in one transaction; a mail without a rule leaves the id only.  An id that
\* is there by now ends the cycle with an error.
PollPersists(p) ==
  LET m == Newest(poll[p].todo) IN
  /\ poll[p].pc = "persist"
  /\ IF m \in processed THEN PollRests(p) /\ UNCHANGED <<processed, event>>
     ELSE /\ processed' = processed \cup {m}
          /\ event' = IF Matched(p, m) THEN [event EXCEPT ![<<m, p>>] = "received"] ELSE event
          /\ poll' = [poll EXCEPT ![p].pc = "mail", ![p].todo = @ \ {m},
                                  ![p].count = @ + IF Matched(p, m) THEN 1 ELSE 0]
  /\ UNCHANGED <<arrived, watermark, ruled, cut, job, desk, mailFaults>>

PollAdvancesToNow(p) ==   \* mutant: the watermark is the end of the cycle
  /\ poll[p].pc = "mail" /\ poll[p].todo = {}
  /\ watermark' = arrived
  /\ poll' = [poll EXCEPT ![p] = IF @.count = 0 THEN Resting ELSE [@ EXCEPT !.pc = "select"]]
  /\ UNCHANGED <<arrived, processed, event, ruled, cut, job, desk, mailFaults>>

\* The watermark becomes the start of the cycle.
PollAdvances(p) ==
  /\ poll[p].pc = "mail" /\ poll[p].todo = {}
  /\ watermark' = poll[p].start
  /\ poll' = [poll EXCEPT ![p] = IF @.count = 0 THEN Resting ELSE [@ EXCEPT !.pc = "select"]]
  /\ UNCHANGED <<arrived, processed, event, ruled, cut, job, desk, mailFaults>>

PollSelects(p) ==
  /\ poll[p].pc = "select"
  /\ poll' = [poll EXCEPT ![p].pc = "add", ![p].adds = {e \in Events : event[e] = "received"}]
  /\ UNCHANGED <<arrived, watermark, processed, event, ruled, cut, job, desk, mailFaults>>

\* The job's id is the event's: the queue ignores an id it knows, finished or not.
PollAdds(p) ==
  /\ poll[p].pc = "add"
  /\ \/ \E e \in poll[p].adds :
          /\ job' = IF job[e].state = "none" THEN [job EXCEPT ![e] = [NoMailJob EXCEPT !.state = "waiting"]] ELSE job
          /\ poll' = [poll EXCEPT ![p].adds = @ \ {e}]
     \/ poll[p].adds = {} /\ PollRests(p) /\ UNCHANGED job
  /\ UNCHANGED <<arrived, watermark, processed, event, ruled, cut, desk, mailFaults>>

\* A listing, a message or an add fails: the cycle ends where it is.
PollFails(p) ==
  /\ poll[p].pc # "idle" /\ MailFaulty /\ PollRests(p)
  /\ UNCHANGED <<arrived, watermark, processed, event, ruled, cut, job, desk>>

---------------------------------------------------------------------------
(* createConsumer and WorkflowRunner.run.                                  *)

\* The first rule's run is opened; without a rule by now the event is ignored.
JobBegins(e) ==
  /\ job[e].state = "waiting"
  /\ IF ruled THEN /\ job' = [job EXCEPT ![e].state = "active", ![e].rule = 1]
                   /\ event' = [event EXCEPT ![e] = "running"]
     ELSE job' = [job EXCEPT ![e].state = "done"] /\ event' = [event EXCEPT ![e] = "ignored"]
  /\ UNCHANGED <<arrived, watermark, processed, ruled, poll, cut, desk, mailFaults>>

Rules(e) == rulesFor[MailOf(e)]
AtRule(e) == job[e].state = "active" /\ job[e].rule <= Len(Rules(e))

\* A workflow that finds no input in the mail has no outcome.
Harmless == {"handled", "passes"}

LastOutcomeCounts(e) ==   \* mutant: the last rule decides
  job' = [job EXCEPT ![e].rule = @ + 1, ![e].mark = Rules(e)[job[e].rule] \in Harmless]

\* One outcome that wants a person, or that is deferred, keeps the mail unread.
OutcomeCounts(e) ==
  job' = [job EXCEPT ![e].rule = @ + 1, ![e].mark = @ /\ Rules(e)[job[e].rule] \in Harmless]

Ended(kind) == IF kind = "passes" THEN "ignored" ELSE "completed"

\* The next rule's run is opened with the end of this one.  Triage files its suggestion,
\* whatever it suggests, and may name a workflow to run.
RunCompletes(e) ==
  /\ AtRule(e)
  /\ event' = [event EXCEPT ![e] = IF job[e].rule < Len(Rules(e)) THEN "running" ELSE Ended(Rules(e)[job[e].rule])]
  /\ OutcomeCounts(e)
  /\ IF Rules(e)[job[e].rule] = "triage"
     THEN /\ filed' = [filed EXCEPT ![MailOf(e)] = @ + 1]
          /\ \E named \in 0..1 : chained' = [chained EXCEPT ![e] = @ + named]
     ELSE UNCHANGED <<filed, chained>>
  /\ UNCHANGED <<arrived, watermark, processed, ruled, poll, cut, rulesFor, decided, marked, answered, stalled, mailFaults>>

\* The workflow throws, or the add of the named one after the run is complete.
RunFails(e) ==
  /\ job[e].state = "active" /\ MailFaulty
  /\ event' = [event EXCEPT ![e] = IF AtRule(e) THEN "failed" ELSE @]
  /\ job' = [job EXCEPT ![e].state = "failed"]
  /\ UNCHANGED <<arrived, watermark, processed, ruled, poll, cut, desk>>

\* markRead swallows its errors.
Marks(m) ==
  \/ marked' = [marked EXCEPT ![m] = IF @ = "no" THEN "engine" ELSE @] /\ UNCHANGED mailFaults
  \/ UNCHANGED marked /\ MailFaulty

JobEnds(e) ==
  /\ job[e].state = "active" /\ job[e].rule > Len(Rules(e))
  /\ job' = [job EXCEPT ![e].state = "done"]
  /\ IF job[e].mark THEN Marks(MailOf(e)) ELSE UNCHANGED <<marked, mailFaults>>
  /\ UNCHANGED <<inbox, rulesFor, chained, filed, decided, answered, stalled>>

\* The named workflow's job: it is handled, deferred, or fails.
ChainRuns(e) ==
  /\ chained[e] > 0 /\ chained' = [chained EXCEPT ![e] = @ - 1]
  /\ \/ /\ event' = [event EXCEPT ![e] = "completed"]
        /\ \/ answered' = answered \cup {MailOf(e)} /\ Marks(MailOf(e))
           \/ UNCHANGED <<answered, marked, mailFaults>>
     \/ event' = [event EXCEPT ![e] = "failed"] /\ MailFaulty /\ UNCHANGED <<answered, marked>>
  /\ UNCHANGED <<arrived, watermark, processed, ruled, poll, cut, rulesFor, job, filed, decided, stalled>>

\* recordResolution.
Decides(m) ==
  /\ decided[m] < filed[m] /\ decided' = [decided EXCEPT ![m] = @ + 1]
  /\ \/ marked' = [marked EXCEPT ![m] = "person"] /\ UNCHANGED mailFaults
     \/ UNCHANGED marked /\ MailFaulty
  /\ UNCHANGED <<inbox, rulesFor, job, chained, filed, answered, stalled>>

\* The engine dies: its polls are gone, its jobs are found stalled and wait again.
EngineDies ==
  /\ MailFaulty
  /\ poll' = [p \in Polls |-> Resting]
  /\ job' = [e \in Events |-> IF job[e].state = "active" THEN [NoMailJob EXCEPT !.state = "waiting"] ELSE job[e]]
  /\ stalled' = stalled \cup {MailOf(e) : e \in {x \in Events : job[x].state = "active"}}
  /\ UNCHANGED <<arrived, watermark, processed, event, ruled, cut, rulesFor, chained, filed, decided, marked, answered>>

PollStep(p) ==
  \/ PollStarts(p) \/ PollLists(p) \/ PollSees(p) \/ PollPersists(p)
  \/ PollAdvances(p) \/ PollSelects(p) \/ PollAdds(p)

MailNext ==
  \/ Arrives \/ Unruled \/ EngineDies
  \/ \E p \in Polls : PollStep(p) \/ PollFails(p)
  \/ \E e \in Events : \/ JobBegins(e) \/ RunCompletes(e) \/ RunFails(e)
                       \/ JobEnds(e) \/ ChainRuns(e)
  \/ \E m \in 1..Mails : Decides(m)

MailSpec == MailInit /\ [][MailNext]_mailVars

---------------------------------------------------------------------------
(* Properties.                                                             *)

\* Polls that overlap, fail or start over on the same window put a mail before the person
\* once, unless the worker died in the middle of its job.
MailIsFiledOnce ==
  \A m \in 1..Mails : m \notin stalled => filed[m] <= Cardinality({i \in DOMAIN rulesFor[m] : rulesFor[m][i] = "triage"})

\* The engine itself marks a mail that was put before a person as read only when the
\* workflow that triage named has handled it: no rule that ran beside triage, no second
\* event and no job started again does.
WaitsForItsHuman ==
  \A m \in 1..Mails : marked[m] = "engine" /\ filed[m] > 0 => m \in answered

\* Again and again every mail has been taken in, however the polls overlap and fail: the
\* watermark never passes one that only the next listing would have shown.  The mails of
\* before the first cycle and those beyond the page are the code's exceptions.
MailIsTakenIn == []<>(1..arrived \subseteq processed \cup cut)

=============================================================================
