-------------------------- MODULE MailIntake_proofs --------------------------
(***************************************************************************)
(* Safety of the intake for any number of mails, polls and rules and any   *)
(* bound on the failures: a mail that waits for a person is not marked as  *)
(* read by the engine, and is put before the person once, and every part   *)
(* of the state keeps its type.                                            *)
(***************************************************************************)
EXTENDS MailIntake, FiniteSetTheorems, WellFoundedInduction, TLAPS

USE DEF inbox, desk, mailVars

-----------------------------------------------------------------------------
(* Types. *)

States == {"none", "waiting", "active", "done", "failed"}
MailJob == [state : States, rule : Nat, mark : BOOLEAN]
Steps == {"idle", "list", "mail", "persist", "select", "add"}
Cycle == [pc : Steps, from : Int, start : Int, ruled : BOOLEAN, todo : SUBSET Int, adds : SUBSET Events, count : Int]

Shape ==
  /\ arrived \in Int /\ watermark \in Int /\ ruled \in BOOLEAN
  /\ rulesFor \in [1..Mails -> Seq({"triage", "handled", "deferred", "passes"})]
  /\ event \in [Events -> {"none", "received", "running", "completed", "failed", "ignored"}]
  /\ job \in [Events -> MailJob]
  /\ poll \in [Polls -> Cycle]
  /\ chained \in [Events -> Nat]
  /\ filed \in [1..Mails -> Nat] /\ decided \in [1..Mails -> Nat]
  /\ marked \in [1..Mails -> {"no", "engine", "person"}]

LEMMA EventMail == \A e \in Events : MailOf(e) \in 1..Mails
  BY DEF Events, MailOf

\* The rules of a mail are tried in the order 1, 2 ...
LEMMA RuleOrder ==
  ASSUME Shape, NEW m \in 1..Mails
  PROVE  Len(rulesFor[m]) \in Nat /\ DOMAIN rulesFor[m] = 1..Len(rulesFor[m])
<1>1. rulesFor[m] \in Seq({"triage", "handled", "deferred", "passes"})
  BY DEF Shape
<1> QED
  BY <1>1

LEMMA ShapeInit == MailInit => Shape
<1> SUFFICES ASSUME MailInit PROVE Shape
  OBVIOUS
<1>1. rulesFor \in [1..Mails -> Seq({"triage", "handled", "deferred", "passes"})]
  BY MailAssumption DEF MailInit, MailAssumption
<1>2. poll \in [Polls -> Cycle]
  BY DEF MailInit, Resting, Cycle, Steps, NoMark
<1>3. job \in [Events -> MailJob]
  BY DEF MailInit, NoMailJob, States, MailJob
<1> QED
  BY <1>1, <1>2, <1>3 DEF MailInit, Shape, NoMark

\* Whatever a mark does, it stays one of the three.
LEMMA MarkTypes ==
  ASSUME Shape, NEW m \in 1..Mails, Marks(m)
  PROVE  marked' \in [1..Mails -> {"no", "engine", "person"}]
  BY DEF Shape, Marks, MailFaulty


\* A step of a poll leaves records of a cycle.
LEMMA PollShape ==
  ASSUME poll \in [Polls -> Cycle], arrived \in Int, watermark \in Int, NEW p \in Polls
  PROVE  /\ PollStarts(p) => poll' \in [Polls -> Cycle]
         /\ PollLists(p) /\ ruled \in BOOLEAN => poll' \in [Polls -> Cycle]
         /\ PollSees(p) => poll' \in [Polls -> Cycle]
         /\ PollPersists(p) => poll' \in [Polls -> Cycle]
         /\ PollAdvances(p) => poll' \in [Polls -> Cycle]
         /\ PollSelects(p) => poll' \in [Polls -> Cycle]
         /\ PollAdds(p) => poll' \in [Polls -> Cycle]
         /\ PollFails(p) => poll' \in [Polls -> Cycle]
<1> USE DEF PollRests, Resting, Cycle, Steps, NoMark
<1>0. poll[p] \in Cycle
  OBVIOUS
<1>1. ASSUME PollStarts(p) PROVE poll' \in [Polls -> Cycle]
  <2>1. [pc |-> "list", from |-> watermark, start |-> arrived, ruled |-> FALSE, todo |-> {}, adds |-> {}, count |-> 0] \in Cycle
    OBVIOUS
  <2>2. [Resting EXCEPT !.pc = "list", !.from = watermark, !.start = arrived] \in Cycle
    BY <2>1
  <2> HIDE DEF Cycle, Resting
  <2> QED
    BY <1>1, <2>2 DEF PollStarts
<1>2. ASSUME PollLists(p), ruled \in BOOLEAN PROVE poll' \in [Polls -> Cycle]
  <2> DEFINE page == {m \in (poll[p].from + 1)..arrived : arrived - m < PageSize}
  <2>1. page \in SUBSET Int
    OBVIOUS
  <2>2. poll' = [poll EXCEPT ![p] = [poll[p] EXCEPT !.pc = "mail", !.from = NoMark, !.ruled = ruled, !.todo = page]]
    BY <1>2, Zenon DEF PollLists
  <2>3. NoMark \in Int
    OBVIOUS
  <2> HIDE DEF page, NoMark
  <2>4. [poll[p] EXCEPT !.pc = "mail", !.from = NoMark, !.ruled = ruled, !.todo = page] \in Cycle
    BY <1>0, <1>2, <2>1, <2>3
  <2> HIDE DEF Cycle
  <2> QED
    BY <2>2, <2>4
<1>3. PollSees(p) => poll' \in [Polls -> Cycle]
  BY DEF PollSees
<1>4. ASSUME PollPersists(p) PROVE poll' \in [Polls -> Cycle]
  <2>1. CASE PollRests(p)
    BY <2>1
  <2>2. CASE ~PollRests(p)
    <3> DEFINE m == Newest(poll[p].todo)
               n == poll[p].count + IF Matched(p, m) THEN 1 ELSE 0
               S == poll[p].todo \ {m}
    <3>1. poll' = [poll EXCEPT ![p].pc = "mail", ![p].todo = S, ![p].count = n]
      BY <1>4, <2>2 DEF PollPersists
    <3>2. n \in Int /\ S \in SUBSET Int
      OBVIOUS
    <3> HIDE DEF n, S
    <3>3. [poll[p] EXCEPT !.pc = "mail", !.todo = S, !.count = n] \in Cycle
      BY <3>2
    <3>4. poll' = [poll EXCEPT ![p] = [poll[p] EXCEPT !.pc = "mail", !.todo = S, !.count = n]]
      BY <3>1, Zenon
    <3> HIDE DEF Cycle
    <3> QED
      BY <3>3, <3>4
  <2> QED
    BY <2>1, <2>2
<1>5. PollAdvances(p) => poll' \in [Polls -> Cycle]
  BY DEF PollAdvances
<1>6. ASSUME PollSelects(p) PROVE poll' \in [Polls -> Cycle]
  <2> DEFINE S == {e \in Events : event[e] = "received"}
  <2>1. S \in SUBSET Events /\ poll' = [poll EXCEPT ![p].pc = "add", ![p].adds = S]
    BY <1>6 DEF PollSelects
  <2>2. [poll[p] EXCEPT !.pc = "add", !.adds = S] \in Cycle
    BY <2>1
  <2>3. poll' = [poll EXCEPT ![p] = [poll[p] EXCEPT !.pc = "add", !.adds = S]]
    BY <2>1, Zenon
  <2> HIDE DEF S, Cycle
  <2> QED
    BY <2>2, <2>3
<1>7. ASSUME PollAdds(p) PROVE poll' \in [Polls -> Cycle]
  <2>1. CASE PollRests(p)
    BY <2>1
  <2>2. ASSUME NEW e \in poll[p].adds, poll' = [poll EXCEPT ![p].adds = @ \ {e}]
        PROVE  poll' \in [Polls -> Cycle]
    <3>1. poll[p].adds \ {e} \in SUBSET Events
      OBVIOUS
    <3> QED
      BY <2>2, <3>1
  <2> QED
    BY <1>7, <2>1, <2>2 DEF PollAdds
<1>8. PollFails(p) => poll' \in [Polls -> Cycle]
  BY DEF PollFails
<1> QED
  BY <1>1, <1>2, <1>3, <1>4, <1>5, <1>6, <1>7, <1>8

\* So does a step of a job.
LEMMA JobShape ==
  ASSUME job \in [Events -> MailJob], NEW e \in Events
  PROVE  /\ JobBegins(e) => job' \in [Events -> MailJob]
         /\ RunCompletes(e) => job' \in [Events -> MailJob]
         /\ RunFails(e) => job' \in [Events -> MailJob]
         /\ JobEnds(e) => job' \in [Events -> MailJob]
<1> USE DEF MailJob, States
<1>1. JobBegins(e) => job' \in [Events -> MailJob]
  BY DEF JobBegins
<1>2. RunCompletes(e) => job' \in [Events -> MailJob]
  <2> DEFINE ok == job[e].mark /\ Rules(e)[job[e].rule] \in Harmless
             n == job[e].rule + 1
  <2>1. RunCompletes(e) => job' = [job EXCEPT ![e].rule = n, ![e].mark = ok]
    BY DEF RunCompletes, OutcomeCounts
  <2>2. n \in Nat /\ ok \in BOOLEAN
    OBVIOUS
  <2> HIDE DEF n, ok
  <2> QED
    BY <2>1, <2>2
<1>3. RunFails(e) => job' \in [Events -> MailJob]
  BY DEF RunFails
<1>4. JobEnds(e) => job' \in [Events -> MailJob]
  BY DEF JobEnds
<1> QED
  BY <1>1, <1>2, <1>3, <1>4

LEMMA AddShape ==
  ASSUME job \in [Events -> MailJob], poll \in [Polls -> Cycle], NEW p \in Polls, PollAdds(p)
  PROVE  job' \in [Events -> MailJob]
<1>1. [NoMailJob EXCEPT !.state = "waiting"] \in MailJob
  BY DEF NoMailJob, MailJob, States
<1> HIDE DEF MailJob
<1> QED
  BY <1>1 DEF PollAdds

LEMMA ShapeKept == Shape /\ [MailNext]_mailVars => Shape'
<1> SUFFICES ASSUME Shape, [MailNext]_mailVars PROVE Shape'
  OBVIOUS
<1> USE DEF Shape
<1>1. CASE Arrives
  BY <1>1 DEF Arrives
<1>2. CASE Unruled
  BY <1>2 DEF Unruled
<1>3. CASE EngineDies
  <2>1. job' \in [Events -> MailJob]
    BY <1>3 DEF EngineDies, NoMailJob, MailJob, States
  <2>2. Resting \in Cycle
    BY DEF Resting, Cycle, Steps, NoMark
  <2>3. poll' \in [Polls -> Cycle]
    BY <1>3, <2>2 DEF EngineDies
  <2> QED
    BY <1>3, <2>1, <2>3 DEF EngineDies
<1>4. ASSUME NEW p \in Polls, PollStep(p) \/ PollFails(p) PROVE Shape'
  <2>1. poll' \in [Polls -> Cycle]
    BY <1>4, PollShape DEF PollStep
  <2>2. job' \in [Events -> MailJob]
    BY <1>4, AddShape
       DEF PollStep, PollStarts, PollLists, PollSees, PollPersists, PollAdvances, PollSelects, PollFails
  <2>3. watermark' \in Int
    <3>1. poll[p].start \in Int
      BY DEF Cycle
    <3> QED
      BY <1>4, <3>1
         DEF PollStep, PollStarts, PollLists, PollSees, PollPersists, PollAdvances, PollSelects, PollAdds, PollFails
  <2>4. event' \in [Events -> {"none", "received", "running", "completed", "failed", "ignored"}]
    BY <1>4
       DEF PollStep, PollStarts, PollLists, PollSees, PollPersists, PollAdvances, PollSelects, PollAdds, PollFails
  <2>5. UNCHANGED <<arrived, ruled, rulesFor, chained, filed, decided, marked>>
    BY <1>4
       DEF PollStep, PollStarts, PollLists, PollSees, PollPersists, PollAdvances, PollSelects, PollAdds, PollFails
  <2> QED
    BY <2>1, <2>2, <2>3, <2>4, <2>5
<1>5. ASSUME NEW e \in Events, JobBegins(e) \/ RunCompletes(e) \/ RunFails(e) \/ JobEnds(e) \/ ChainRuns(e)
      PROVE Shape'
  <2>0. MailOf(e) \in 1..Mails
    BY EventMail
  <2>1. job' \in [Events -> MailJob]
    BY <1>5, JobShape DEF ChainRuns
  <2>2. event' \in [Events -> {"none", "received", "running", "completed", "failed", "ignored"}]
    BY <1>5 DEF JobBegins, RunCompletes, Ended, RunFails, JobEnds, ChainRuns
  <2>3. marked' \in [1..Mails -> {"no", "engine", "person"}]
    BY <1>5, <2>0, MarkTypes DEF JobBegins, RunCompletes, RunFails, JobEnds, ChainRuns
  <2>4. filed' \in [1..Mails -> Nat]
    BY <1>5 DEF JobBegins, RunCompletes, RunFails, JobEnds, ChainRuns
  <2>5. chained' \in [Events -> Nat]
    <3>1. CASE RunCompletes(e)
      <4>1. CASE UNCHANGED chained
        BY <4>1
      <4>2. ASSUME NEW named \in 0..1, chained' = [chained EXCEPT ![e] = @ + named]
            PROVE  chained' \in [Events -> Nat]
        BY <4>2
      <4> QED
        BY <3>1, <4>1, <4>2 DEF RunCompletes
    <3>2. CASE ChainRuns(e)
      BY <3>2 DEF ChainRuns
    <3> QED
      BY <1>5, <3>1, <3>2 DEF JobBegins, RunFails, JobEnds
  <2>6. UNCHANGED <<arrived, watermark, ruled, rulesFor, poll, decided>>
    BY <1>5 DEF JobBegins, RunCompletes, RunFails, JobEnds, ChainRuns
  <2> QED
    BY <2>1, <2>2, <2>3, <2>4, <2>5, <2>6
<1>6. ASSUME NEW m \in 1..Mails, Decides(m) PROVE Shape'
  <2>1. decided' \in [1..Mails -> Nat]
    <3>1. decided' = [decided EXCEPT ![m] = decided[m] + 1]
      BY <1>6 DEF Decides
    <3> QED
      BY <3>1
  <2>3. marked' \in [1..Mails -> {"no", "engine", "person"}]
    <3>1. marked' = marked \/ marked' = [marked EXCEPT ![m] = "person"]
      BY <1>6 DEF Decides
    <3> QED
      BY <3>1
  <2>2. UNCHANGED <<arrived, watermark, ruled, rulesFor, event, job, poll, chained, filed>>
    BY <1>6 DEF Decides
  <2> QED
    BY <2>1, <2>2, <2>3
<1>7. CASE UNCHANGED mailVars
  BY <1>7
<1> QED
  BY <1>1, <1>2, <1>3, <1>4, <1>5, <1>6, <1>7 DEF MailNext

-----------------------------------------------------------------------------
(* A mail put before a person is not marked as read behind their back.     *)

\* A job that would still mark its mail has seen no outcome that wants a person or time.
MarkHeld ==
  \A e \in Events :
    job[e].state = "active" /\ job[e].mark =>
      \A i \in DOMAIN rulesFor[MailOf(e)] : i < job[e].rule => rulesFor[MailOf(e)][i] \in Harmless

RuleStarted == \A e \in Events : job[e].state = "active" => job[e].rule > 0

\* Only triage puts a mail before a person.
FiledByTriage ==
  \A m \in 1..Mails : filed[m] > 0 => \E i \in DOMAIN rulesFor[m] : rulesFor[m][i] = "triage"

\* The engine marks for one of two reasons.
EngineMarks ==
  \A m \in 1..Mails :
    marked[m] = "engine" => m \in answered \/ \A i \in DOMAIN rulesFor[m] : rulesFor[m][i] \in Harmless

MarkInv == Shape /\ RuleStarted /\ MarkHeld /\ FiledByTriage /\ EngineMarks

LEMMA MarkInvInit == MailInit => MarkInv
  BY ShapeInit DEF MailInit, MarkInv, RuleStarted, MarkHeld, FiledByTriage, EngineMarks, NoMailJob, Shape

\* The steps of the polls and the stores they do not touch.
LEMMA PollLeaves ==
  ASSUME NEW p \in Polls, PollStep(p) \/ PollFails(p)
  PROVE  /\ UNCHANGED desk
         /\ UNCHANGED job \/ PollAdds(p)
  BY DEF PollStep, PollStarts, PollLists, PollSees, PollPersists, PollAdvances, PollSelects, PollAdds, PollFails

\* An add touches a job that is not there yet, and nothing of an active one.
LEMMA AddedJobs ==
  ASSUME Shape, NEW p \in Polls, PollAdds(p), NEW e \in Events
  PROVE  \/ job'[e] = job[e]
         \/ job[e].state = "none" /\ job'[e].state = "waiting" /\ e \in poll[p].adds
  BY DEF PollAdds, Shape, NoMailJob

LEMMA MarkInvKept == MarkInv /\ [MailNext]_mailVars => MarkInv'
<1> SUFFICES ASSUME MarkInv, [MailNext]_mailVars PROVE MarkInv'
  OBVIOUS
<1>0. Shape /\ Shape'
  BY ShapeKept DEF MarkInv
<1> USE DEF RuleStarted, MarkHeld, FiledByTriage, EngineMarks
<1>1. CASE UNCHANGED <<job, desk>>
  BY <1>0, <1>1 DEF MarkInv
<1>2. CASE EngineDies
  <2>1. \A e \in Events : job'[e].state # "active"
    BY <1>0, <1>2 DEF EngineDies, NoMailJob
  <2> QED
    BY <1>0, <1>2, <2>1 DEF EngineDies, MarkInv
<1>3. ASSUME NEW p \in Polls, PollAdds(p) PROVE MarkInv'
  <2>1. \A e \in Events : job'[e].state = "active" => job'[e] = job[e]
    BY <1>0, <1>3, AddedJobs
  <2>2. UNCHANGED desk
    BY <1>3 DEF PollAdds
  <2> QED
    BY <1>0, <2>1, <2>2 DEF MarkInv
<1>4. ASSUME NEW e \in Events, JobBegins(e) \/ RunFails(e) PROVE MarkInv'
  <2>1. \A x \in Events : job'[x].state = "active" => job'[x] = job[x] \/ job'[x].rule = 1
    BY <1>0, <1>4 DEF JobBegins, RunFails, Shape, MailJob
  <2>2. \A m \in 1..Mails : \A i \in DOMAIN rulesFor[m] : ~(i < 1)
    BY <1>0, RuleOrder
  <2>3. UNCHANGED desk
    BY <1>4 DEF JobBegins, RunFails
  <2>4. (RuleStarted /\ MarkHeld)'
    BY <2>1, <2>2, <2>3, EventMail DEF MarkInv
  <2> QED
    BY <1>0, <2>3, <2>4 DEF MarkInv
<1>5. ASSUME NEW e \in Events, RunCompletes(e) PROVE MarkInv'
  <2>1. MailOf(e) \in 1..Mails
    BY EventMail
  <2>2. job[e].rule \in DOMAIN Rules(e) /\ job[e].rule \in Nat
    <3>1. job[e].state = "active" /\ job[e].rule \in Nat /\ job[e].rule <= Len(Rules(e))
      BY <1>0, <1>5 DEF RunCompletes, AtRule, Shape, MailJob
    <3>2. job[e].rule > 0
      BY <1>0, <3>1 DEF MarkInv, RuleStarted
    <3> QED
      BY <1>0, <2>1, <3>1, <3>2, RuleOrder DEF Rules
  <2>3. MarkHeld'
    <3> SUFFICES ASSUME NEW x \in Events, job'[x].state = "active", job'[x].mark,
                        NEW i \in DOMAIN rulesFor[MailOf(x)], i < job'[x].rule
                 PROVE  rulesFor[MailOf(x)][i] \in Harmless
      BY <1>5 DEF RunCompletes
    <3>1. CASE x # e
      BY <1>0, <1>5, <3>1 DEF RunCompletes, OutcomeCounts, Shape, MarkInv
    <3>2. CASE x = e
      <4>1. job'[e].rule = job[e].rule + 1 /\ job'[e].mark = (job[e].mark /\ Rules(e)[job[e].rule] \in Harmless)
        BY <1>0, <1>5 DEF RunCompletes, OutcomeCounts, Shape, MailJob
      <4>2. job[e].state = "active" /\ job[e].mark /\ Rules(e)[job[e].rule] \in Harmless
        BY <1>5, <3>2, <4>1 DEF RunCompletes, AtRule
      <4>3. i \in Nat /\ job[e].rule \in Nat
        <5>1. MailOf(x) \in 1..Mails
          BY EventMail
        <5>2. DOMAIN rulesFor[MailOf(x)] = 1..Len(rulesFor[MailOf(x)]) /\ Len(rulesFor[MailOf(x)]) \in Nat
          BY <1>0, <5>1, RuleOrder
        <5> QED
          BY <2>2, <5>2
      <4>4. i < job[e].rule \/ i = job[e].rule
        BY <3>2, <4>1, <4>3
      <4> QED
        BY <3>2, <4>2, <4>4 DEF MarkInv, Rules
    <3> QED
      BY <3>1, <3>2
  <2>4. FiledByTriage'
    <3>1. CASE Rules(e)[job[e].rule] = "triage"
      <4>1. \A m \in 1..Mails : m # MailOf(e) => filed'[m] = filed[m]
        BY <1>0, <1>5, <3>1 DEF RunCompletes, Shape
      <4>2. rulesFor' = rulesFor
        BY <1>5 DEF RunCompletes
      <4> QED
        BY <2>2, <3>1, <4>1, <4>2 DEF MarkInv, Rules
    <3>2. CASE Rules(e)[job[e].rule] # "triage"
      BY <1>5, <3>2 DEF RunCompletes, MarkInv
    <3> QED
      BY <3>1, <3>2
  <2>5. EngineMarks'
    BY <1>5 DEF RunCompletes, MarkInv
  <2>6. RuleStarted'
    BY <1>0, <1>5 DEF RunCompletes, OutcomeCounts, Shape, MailJob, MarkInv
  <2> QED
    BY <1>0, <2>3, <2>4, <2>5, <2>6 DEF MarkInv
<1>6. ASSUME NEW e \in Events, JobEnds(e) PROVE MarkInv'
  <2>1. MailOf(e) \in 1..Mails
    BY EventMail
  <2>2. \A x \in Events : job'[x].state = "active" => job'[x] = job[x]
    BY <1>0, <1>6 DEF JobEnds, Shape, MailJob
  <2>3. UNCHANGED <<rulesFor, filed, answered>>
    BY <1>6 DEF JobEnds
  <2>4. EngineMarks'
    <3>1. CASE job[e].mark /\ Marks(MailOf(e))
      <4>1. \A i \in DOMAIN Rules(e) : i < job[e].rule
        BY <1>0, <1>6, <2>1 DEF JobEnds, Rules, Shape, MailJob
      <4>2. \A i \in DOMAIN rulesFor[MailOf(e)] : rulesFor[MailOf(e)][i] \in Harmless
        BY <1>6, <3>1, <4>1 DEF JobEnds, MarkInv, Rules
      <4>3. \A m \in 1..Mails : m # MailOf(e) => marked'[m] = marked[m]
        BY <1>0, <3>1 DEF Marks, Shape
      <4> QED
        BY <2>3, <4>2, <4>3 DEF MarkInv
    <3>2. CASE UNCHANGED marked
      BY <2>3, <3>2 DEF MarkInv
    <3> QED
      BY <1>6, <3>1, <3>2 DEF JobEnds
  <2> QED
    BY <1>0, <2>2, <2>3, <2>4 DEF MarkInv
<1>7. ASSUME NEW e \in Events, ChainRuns(e) PROVE MarkInv'
  <2>1. UNCHANGED <<job, rulesFor, filed>> /\ answered \subseteq answered'
    BY <1>7 DEF ChainRuns
  <2>2. \A m \in 1..Mails : m \in answered' \/ marked'[m] = marked[m]
    BY <1>0, <1>7, EventMail DEF ChainRuns, Marks, Shape
  <2> QED
    BY <1>0, <2>1, <2>2 DEF MarkInv
<1>8. ASSUME NEW m \in 1..Mails, Decides(m) PROVE MarkInv'
  <2>1. UNCHANGED <<job, rulesFor, filed, answered>>
    BY <1>8 DEF Decides
  <2>2. \A n \in 1..Mails : marked'[n] = "engine" => marked[n] = "engine"
    BY <1>0, <1>8 DEF Decides, Shape
  <2> QED
    BY <1>0, <2>1, <2>2 DEF MarkInv
<1> QED
  BY <1>1, <1>2, <1>3, <1>4, <1>5, <1>6, <1>7, <1>8, PollLeaves DEF MailNext, Arrives, Unruled

\* The engine itself marks a mail that was put before a person as read only when the
\* workflow that triage named has handled it: for any rules, any overlap of polls and any
\* failures of createConsumer's jobs.
THEOREM HumanIsWaitedFor == MailSpec => []WaitsForItsHuman
<1>1. MarkInv => WaitsForItsHuman
  BY DEF MarkInv, FiledByTriage, EngineMarks, WaitsForItsHuman, Harmless
<1> QED
  BY <1>1, MarkInvInit, MarkInvKept, PTL DEF MailSpec

-----------------------------------------------------------------------------
(* A mail is put before the person once.                                   *)

Written(e) == event[e] # "none"
Triages(m, n) == {i \in DOMAIN rulesFor[m] : i < n /\ rulesFor[m][i] = "triage"}
AllTriages(m) == {i \in DOMAIN rulesFor[m] : rulesFor[m][i] = "triage"}

\* One event per mail, however many polls met it, and nothing without an event.
OneEvent ==
  /\ \A e \in Events : Written(e) => MailOf(e) \in processed
  /\ \A e, x \in Events : Written(e) /\ Written(x) /\ MailOf(e) = MailOf(x) => e = x
  /\ \A p \in Polls : \A e \in poll[p].adds : Written(e)
  /\ \A e \in Events : job[e].state # "none" \/ chained[e] > 0 => Written(e)

\* A job that was never started again has filed what triage told it so far.
FiledSoFar ==
  /\ \A m \in 1..Mails : filed[m] > 0 => m \in processed
  /\ \A e \in Events : Written(e) /\ job[e].state \in {"none", "waiting"} /\ MailOf(e) \notin stalled =>
       filed[MailOf(e)] = 0
  /\ \A e \in Events : job[e].state = "active" /\ MailOf(e) \notin stalled =>
       filed[MailOf(e)] <= Cardinality(Triages(MailOf(e), job[e].rule))

OnceInv == Shape /\ RuleStarted /\ OneEvent /\ FiledSoFar /\ MailIsFiledOnce

LEMMA TriagesFinite ==
  ASSUME Shape, NEW m \in 1..Mails
  PROVE  /\ IsFiniteSet(AllTriages(m)) /\ Cardinality(AllTriages(m)) \in Nat
         /\ \A n \in Nat : /\ IsFiniteSet(Triages(m, n)) /\ Cardinality(Triages(m, n)) \in Nat
                           /\ Cardinality(Triages(m, n)) <= Cardinality(AllTriages(m))
<1>1. IsFiniteSet(DOMAIN rulesFor[m])
  BY RuleOrder, FS_Interval
<1>2. AllTriages(m) \subseteq DOMAIN rulesFor[m] /\ \A n \in Nat : Triages(m, n) \subseteq AllTriages(m)
  BY DEF AllTriages, Triages
<1>3. IsFiniteSet(AllTriages(m))
  BY <1>1, <1>2, FS_Subset
<1>4. \A n \in Nat : IsFiniteSet(Triages(m, n)) /\ Cardinality(Triages(m, n)) <= Cardinality(AllTriages(m))
  BY <1>2, <1>3, FS_Subset
<1> QED
  BY <1>3, <1>4, FS_CardinalityType

LEMMA TriagesGrow ==
  ASSUME Shape, NEW m \in 1..Mails, NEW n \in DOMAIN rulesFor[m]
  PROVE  Cardinality(Triages(m, n + 1))
           = Cardinality(Triages(m, n)) + IF rulesFor[m][n] = "triage" THEN 1 ELSE 0
<1>1. n \in Nat /\ n \notin Triages(m, n) /\ \A i \in DOMAIN rulesFor[m] : i \in Nat
  BY RuleOrder DEF Triages
<1>2. Triages(m, n + 1) = IF rulesFor[m][n] = "triage" THEN Triages(m, n) \cup {n} ELSE Triages(m, n)
  <2>1. \A i \in DOMAIN rulesFor[m] : i < n + 1 <=> i < n \/ i = n
    BY <1>1
  <2> QED
    BY <2>1 DEF Triages
<1> QED
  BY <1>1, <1>2, TriagesFinite, FS_AddElement

LEMMA OnceInvInit == MailInit => OnceInv
<1> SUFFICES ASSUME MailInit PROVE OnceInv
  OBVIOUS
<1>1. Shape
  BY ShapeInit
<1>2. MailIsFiledOnce
  <2> SUFFICES ASSUME NEW m \in 1..Mails PROVE filed[m] <= Cardinality(AllTriages(m))
    BY DEF MailIsFiledOnce, AllTriages
  <2>1. filed[m] = 0
    BY DEF MailInit
  <2> QED
    BY <1>1, <2>1, TriagesFinite
<1> QED
  BY <1>1, <1>2 DEF MailInit, OnceInv, RuleStarted, OneEvent, FiledSoFar, Written, NoMailJob, Resting

\* The polls: at most one of them writes a mail's event, and only written events are added.
LEMMA OnceInvPolls ==
  ASSUME OnceInv, Shape', NEW p \in Polls, PollStep(p) \/ PollFails(p)
  PROVE  OnceInv'
<1> USE DEF OnceInv, OneEvent, FiledSoFar, RuleStarted, Written
<1>1. UNCHANGED desk
  BY PollLeaves
<1>2. MailIsFiledOnce'
  BY <1>1 DEF MailIsFiledOnce
<1>3. CASE PollPersists(p) /\ Newest(poll[p].todo) \notin processed
  <2> DEFINE m == Newest(poll[p].todo)
  <2>1. m \notin processed /\ processed' = processed \cup {m} /\ UNCHANGED job
    BY <1>3 DEF PollPersists
  <2>2. \A e \in Events : event'[e] = event[e] \/ (e = <<m, p>> /\ Written(e)')
    BY <1>3 DEF PollPersists, Shape
  <2>3. \A e \in Events : Written(e) => Written(e)'
    BY <2>2
  <2>4. \A q \in Polls : poll'[q].adds = poll[q].adds
    <3> DEFINE n == poll[p].count + IF Matched(p, m) THEN 1 ELSE 0
               S == poll[p].todo \ {m}
    <3>1. poll' = [poll EXCEPT ![p] = [poll[p] EXCEPT !.pc = "mail", !.todo = S, !.count = n]]
      BY <1>3, Zenon DEF PollPersists
    <3> HIDE DEF n, S
    <3> QED
      BY <3>1 DEF Shape, Cycle
  <2>5. MailOf(<<m, p>>) = m /\ \A e \in Events : Written(e) => MailOf(e) # m
    BY <2>1 DEF MailOf
  <2>6. OneEvent'
    <3>1. \A e \in Events : Written(e)' => MailOf(e) \in processed'
      BY <2>1, <2>2, <2>5
    <3>2. \A e, x \in Events : Written(e)' /\ Written(x)' /\ MailOf(e) = MailOf(x) => e = x
      BY <2>2, <2>5
    <3>3. \A q \in Polls : \A e \in poll'[q].adds : Written(e)'
      BY <2>3, <2>4 DEF Shape, Cycle
    <3> QED
      BY <1>1, <2>1, <2>3, <3>1, <3>2, <3>3
  <2>7. FiledSoFar'
    <3>1. m \in 1..Mails => filed[m] = 0
      BY <2>1 DEF Shape
    <3>2. \A e \in Events : MailOf(e) \in 1..Mails
      BY EventMail
    <3>3. rulesFor' = rulesFor /\ filed' = filed /\ stalled' = stalled
      BY <1>1
    <3> QED
      BY <2>1, <2>2, <2>5, <3>1, <3>2, <3>3 DEF Triages
  <2> QED
    BY <1>1, <1>2, <2>1, <2>6, <2>7
<1>4. CASE PollAdds(p)
  <2>1. \A e \in Events : job'[e] = job[e] \/ (job[e].state = "none" /\ job'[e].state = "waiting" /\ Written(e))
    BY <1>4, AddedJobs
  <2>2. \A q \in Polls : poll'[q].adds \subseteq poll[q].adds
    <3>1. CASE PollRests(p)
      BY <3>1 DEF PollRests, Resting, Shape
    <3>2. ASSUME NEW e \in poll[p].adds, poll' = [poll EXCEPT ![p].adds = @ \ {e}]
          PROVE  \A q \in Polls : poll'[q].adds \subseteq poll[q].adds
      <4>1. \A q \in Polls : poll'[q].adds = IF q = p THEN poll[p].adds \ {e} ELSE poll[q].adds
        BY <3>2 DEF Shape, Cycle
      <4> QED
        BY <4>1
    <3> QED
      BY <1>4, <3>1, <3>2 DEF PollAdds
  <2>3. UNCHANGED <<event, processed>>
    BY <1>4 DEF PollAdds
  <2> QED
    BY <1>1, <1>2, <2>1, <2>2, <2>3 DEF Triages
<1> DEFINE Calm == UNCHANGED <<event, processed, job>> /\ \A q \in Polls : \A e \in poll'[q].adds : Written(e)
<1>5. CASE Calm
  BY <1>1, <1>2, <1>5 DEF Triages
<1>6. ASSUME ~PollAdds(p), ~(PollPersists(p) /\ Newest(poll[p].todo) \notin processed) PROVE Calm
  <2>0. ASSUME NEW c, c.adds = {}, poll' = [poll EXCEPT ![p] = c]
        PROVE  \A q \in Polls : \A e \in poll'[q].adds : Written(e)
    <3>1. \A q \in Polls : poll'[q] = IF q = p THEN c ELSE poll[q]
      BY <2>0 DEF Shape
    <3> QED
      BY <2>0, <3>1
  <2>1. PollFails(p) \/ (PollPersists(p) /\ Newest(poll[p].todo) \in processed) => Calm
    <3> SUFFICES ASSUME PollFails(p) \/ (PollPersists(p) /\ Newest(poll[p].todo) \in processed) PROVE Calm
      OBVIOUS
    <3>1. Resting.adds = {} /\ poll' = [poll EXCEPT ![p] = Resting]
      BY DEF PollFails, PollPersists, PollRests, Resting
    <3>2. UNCHANGED <<event, processed, job>>
      BY DEF PollFails, PollPersists
    <3> HIDE DEF Resting
    <3> QED
      BY <2>0, <3>1, <3>2
  <2>2. PollStarts(p) => Calm
    <3> SUFFICES ASSUME PollStarts(p) PROVE Calm
      OBVIOUS
    <3> DEFINE c == [Resting EXCEPT !.pc = "list", !.from = watermark, !.start = arrived]
    <3>1. c.adds = {}
      BY DEF Resting
    <3>2. UNCHANGED poll \/ poll' = [poll EXCEPT ![p] = c]
      BY DEF PollStarts
    <3>3. UNCHANGED <<event, processed, job>>
      BY DEF PollStarts
    <3> HIDE DEF c
    <3> QED
      BY <2>0, <3>1, <3>2, <3>3
  <2>3. PollLists(p) => Calm
    <3> DEFINE page == {m \in (poll[p].from + 1)..arrived : arrived - m < PageSize}
    <3> SUFFICES ASSUME PollLists(p) PROVE Calm
      OBVIOUS
    <3>1. poll' = [poll EXCEPT ![p] = [poll[p] EXCEPT !.pc = "mail", !.from = NoMark, !.ruled = ruled, !.todo = page]]
      BY Zenon DEF PollLists
    <3> HIDE DEF page
    <3>2. \A q \in Polls : poll'[q].adds = poll[q].adds
      BY <3>1 DEF Shape, Cycle
    <3> QED
      BY <3>2 DEF PollLists
  <2>4. PollSees(p) => Calm
    BY DEF PollSees, Shape, Cycle
  <2>5. PollAdvances(p) => Calm
    BY DEF PollAdvances, Resting, Shape, Cycle
  <2>6. PollSelects(p) => Calm
    <3> DEFINE S == {e \in Events : event[e] = "received"}
    <3> SUFFICES ASSUME PollSelects(p) PROVE Calm
      OBVIOUS
    <3>1. poll' = [poll EXCEPT ![p].pc = "add", ![p].adds = S] /\ \A e \in S : Written(e)
      BY DEF PollSelects
    <3> HIDE DEF S
    <3>2. \A q \in Polls : poll'[q].adds = IF q = p THEN S ELSE poll[q].adds
      BY <3>1 DEF Shape, Cycle
    <3> QED
      BY <3>1, <3>2 DEF PollSelects
  <2> HIDE DEF Calm
  <2> QED
    BY <1>6, <2>1, <2>2, <2>3, <2>4, <2>5, <2>6 DEF PollStep
<1> QED
  BY <1>3, <1>4, <1>5, <1>6

\* The jobs: a completed run of triage files one suggestion, and is not run again.
LEMMA OnceInvRun ==
  ASSUME OnceInv, Shape', NEW e \in Events, RunCompletes(e)
  PROVE  OnceInv'
<1> USE DEF OnceInv
<1> DEFINE m == MailOf(e)
           one == IF Rules(e)[job[e].rule] = "triage" THEN 1 ELSE 0
<1>1. m \in 1..Mails
  BY EventMail
<1>2. job[e].state = "active" /\ job[e].rule \in DOMAIN rulesFor[m] /\ job[e].rule \in Nat
  <2>1. job[e].state = "active" /\ job[e].rule \in Nat /\ job[e].rule <= Len(Rules(e))
    BY DEF RunCompletes, AtRule, Shape, MailJob
  <2>2. job[e].rule > 0
    BY <2>1 DEF RuleStarted
  <2> QED
    BY <1>1, <2>1, <2>2, RuleOrder DEF Rules
<1>3. job'[e].state = "active" /\ job'[e].rule = job[e].rule + 1 /\ \A x \in Events : x # e => job'[x] = job[x]
  BY <1>2 DEF RunCompletes, OutcomeCounts, Shape, MailJob
<1>4. /\ UNCHANGED <<processed, poll, rulesFor, stalled>>
      /\ filed'[m] = filed[m] + one /\ \A n \in 1..Mails : n # m => filed'[n] = filed[n]
  BY <1>1 DEF RunCompletes, Shape
<1>5. \A x \in Events : Written(x)' <=> Written(x)
  <2>1. Written(e)
    BY <1>2 DEF OneEvent
  <2>2. Written(e)' /\ \A x \in Events : x # e => event'[x] = event[x]
    BY DEF RunCompletes, Ended, Written, Shape
  <2> QED
    BY <2>1, <2>2 DEF Written
<1>6. Cardinality(Triages(m, job[e].rule + 1)) = Cardinality(Triages(m, job[e].rule)) + one
  BY <1>1, <1>2, TriagesGrow DEF Rules
<1>7. OneEvent'
  <2>1. \A x \in Events : chained'[x] > 0 => chained[x] > 0 \/ x = e
    <3>1. CASE UNCHANGED chained
      BY <3>1
    <3>2. CASE \E named \in 0..1 : chained' = [chained EXCEPT ![e] = @ + named]
      BY <3>2 DEF Shape
    <3> QED
      BY <3>1, <3>2 DEF RunCompletes
  <2>2. \A p \in Polls : poll[p].adds \subseteq Events
    BY DEF Shape, Cycle
  <2> QED
    BY <1>2, <1>3, <1>4, <1>5, <2>1, <2>2 DEF OneEvent
<1>8. m \notin stalled => filed'[m] <= Cardinality(Triages(m, job'[e].rule))
  <2> DEFINE k == Cardinality(Triages(m, job[e].rule))
  <2>1. k \in Nat /\ filed[m] \in Nat /\ one \in Nat
    BY <1>1, <1>2, TriagesFinite DEF Shape
  <2>2. m \notin stalled => filed[m] <= k
    BY <1>2 DEF FiledSoFar
  <2>3. Cardinality(Triages(m, job'[e].rule)) = k + one
    BY <1>3, <1>6
  <2> HIDE DEF k, one, m
  <2> QED
    BY <1>4, <2>1, <2>2, <2>3
<1>9. FiledSoFar'
  <2>1. \A x \in Events : x # e /\ Written(x) => MailOf(x) \in 1..Mails /\ MailOf(x) # m
    BY <1>2, EventMail DEF OneEvent
  <2>2. \A n \in 1..Mails : filed'[n] > 0 => n \in processed
    BY <1>2, <1>4 DEF OneEvent, FiledSoFar
  <2>3. \A x \in Events : job[x].state # "none" => Written(x)
    BY DEF OneEvent
  <2>4. ASSUME NEW x \in Events, Written(x), job'[x].state \in {"none", "waiting"}, MailOf(x) \notin stalled
        PROVE  filed'[MailOf(x)] = 0
    BY <1>3, <1>4, <2>1, <2>4 DEF FiledSoFar
  <2>5. ASSUME NEW x \in Events, job'[x].state = "active", MailOf(x) \notin stalled
        PROVE  filed'[MailOf(x)] <= Cardinality(Triages(MailOf(x), job'[x].rule))
    <3>1. CASE x = e
      BY <1>8, <2>5, <3>1
    <3>2. CASE x # e
      <4>1. job'[x] = job[x] /\ filed'[MailOf(x)] = filed[MailOf(x)]
        BY <1>3, <1>4, <2>1, <2>3, <2>5, <3>2
      <4> QED
        BY <2>5, <4>1 DEF FiledSoFar
    <3> QED
      BY <3>1, <3>2
  <2> QED
    BY <1>4, <1>5, <2>2, <2>4, <2>5 DEF FiledSoFar, Triages
<1>10. MailIsFiledOnce'
  <2> SUFFICES ASSUME NEW n \in 1..Mails, n \notin stalled PROVE filed'[n] <= Cardinality(AllTriages(n))
    BY <1>4 DEF MailIsFiledOnce, AllTriages
  <2>1. CASE n = m
    <3>1. job[e].rule + 1 \in Nat /\ filed'[m] \in Nat
      BY <1>1, <1>2 DEF Shape
    <3>2. filed'[m] <= Cardinality(Triages(m, job[e].rule + 1))
      BY <1>3, <1>8, <2>1
    <3> HIDE DEF m
    <3> QED
      BY <1>1, <2>1, <3>1, <3>2, TriagesFinite
  <2>2. CASE n # m
    BY <1>4, <2>2 DEF MailIsFiledOnce, AllTriages
  <2> QED
    BY <2>1, <2>2
<1> QED
  BY <1>3, <1>2, <1>7, <1>9, <1>10 DEF RuleStarted

LEMMA OnceInvJobs ==
  ASSUME OnceInv, Shape', NEW e \in Events, JobBegins(e) \/ RunFails(e) \/ JobEnds(e) \/ ChainRuns(e)
  PROVE  OnceInv'
<1> USE DEF OnceInv
<1>1. UNCHANGED <<processed, poll, rulesFor, filed, stalled>>
  BY DEF JobBegins, RunFails, JobEnds, ChainRuns
<1>2. \A x \in Events : \/ job'[x] = job[x]
                        \/ job[x].state # "none" /\ job'[x].state \in {"done", "failed"}
                        \/ job[x].state = "waiting" /\ job'[x].state = "active" /\ job'[x].rule = 1
  <2> DEFINE Moves == \A x \in Events :
                        \/ job'[x] = job[x]
                        \/ job[x].state # "none" /\ job'[x].state \in {"done", "failed"}
                        \/ job[x].state = "waiting" /\ job'[x].state = "active" /\ job'[x].rule = 1
  <2>1. JobBegins(e) => Moves
    BY DEF JobBegins, Shape, MailJob
  <2>2. RunFails(e) => Moves
    BY DEF RunFails, Shape, MailJob
  <2>3. JobEnds(e) => Moves
    BY DEF JobEnds, Shape, MailJob
  <2>4. ChainRuns(e) => Moves
    BY DEF ChainRuns
  <2>5. Moves
    <3> HIDE DEF Moves
    <3> QED
      BY <2>1, <2>2, <2>3, <2>4
  <2> QED
    BY <2>5
<1>3. \A x \in Events : Written(x)' <=> Written(x)
  <2>1. UNCHANGED event \/ Written(e)
    BY DEF JobBegins, RunFails, JobEnds, ChainRuns, OneEvent
  <2>2. \A x \in Events : event'[x] = event[x] \/ (x = e /\ event'[x] # "none")
    BY DEF JobBegins, RunFails, JobEnds, ChainRuns, Shape, Written
  <2> QED
    BY <2>1, <2>2 DEF Written
<1>4. \A x \in Events : chained'[x] > 0 => chained[x] > 0
  BY DEF JobBegins, RunFails, JobEnds, ChainRuns, Shape
<1>5. OneEvent'
  <2>1. \A p \in Polls : poll[p].adds \subseteq Events
    BY DEF Shape, Cycle
  <2> QED
    BY <1>1, <1>2, <1>3, <1>4, <2>1 DEF OneEvent
<1>6. FiledSoFar'
  <2>1. \A x \in Events : MailOf(x) \in 1..Mails
    BY EventMail
  <2>2. \A x \in Events : 0 <= Cardinality(Triages(MailOf(x), 1))
    BY <2>1, TriagesFinite
  <2>3. \A x \in Events : job[x].state # "none" => Written(x)
    BY DEF OneEvent
  <2> QED
    BY <1>1, <1>2, <1>3, <2>1, <2>2, <2>3 DEF FiledSoFar, Triages
<1>7. RuleStarted'
  BY <1>2 DEF RuleStarted
<1> QED
  BY <1>1, <1>5, <1>6, <1>7 DEF MailIsFiledOnce

LEMMA OnceInvKept == OnceInv /\ [MailNext]_mailVars => OnceInv'
<1> SUFFICES ASSUME OnceInv, [MailNext]_mailVars PROVE OnceInv'
  OBVIOUS
<1>0. Shape'
  BY ShapeKept DEF OnceInv
<1> USE DEF OnceInv, OneEvent, FiledSoFar, RuleStarted, MailIsFiledOnce, Written, Triages
<1>1. CASE UNCHANGED <<processed, event, poll, job, rulesFor, chained, filed, stalled>>
  BY <1>0, <1>1
<1>2. CASE EngineDies
  <2>1. \A p \in Polls : poll'[p].adds = {}
    BY <1>2 DEF EngineDies, Resting
  <2>2. \A e \in Events : \/ job'[e] = job[e] /\ job[e].state # "active"
                          \/ job[e].state = "active" /\ job'[e].state = "waiting" /\ MailOf(e) \in stalled'
    <3> DEFINE again == [NoMailJob EXCEPT !.state = "waiting"]
    <3>1. \A e \in Events : job'[e] = IF job[e].state = "active" THEN again ELSE job[e]
      BY <1>2 DEF EngineDies
    <3>2. \A e \in Events : job[e].state = "active" => MailOf(e) \in stalled'
      BY <1>2 DEF EngineDies
    <3>3. again.state = "waiting"
      BY DEF NoMailJob
    <3> HIDE DEF again
    <3> QED
      BY <3>1, <3>2, <3>3
  <2>3. UNCHANGED <<processed, event, rulesFor, chained, filed>> /\ stalled \subseteq stalled'
    BY <1>2 DEF EngineDies
  <2> QED
    BY <1>0, <2>1, <2>2, <2>3
<1>3. ASSUME NEW p \in Polls, PollStep(p) \/ PollFails(p) PROVE OnceInv'
  BY <1>0, <1>3, OnceInvPolls
<1>4. ASSUME NEW e \in Events, RunCompletes(e) PROVE OnceInv'
  BY <1>0, <1>4, OnceInvRun
<1>5. ASSUME NEW e \in Events, JobBegins(e) \/ RunFails(e) \/ JobEnds(e) \/ ChainRuns(e) PROVE OnceInv'
  BY <1>0, <1>5, OnceInvJobs
<1>6. Arrives \/ Unruled \/ (\E m \in 1..Mails : Decides(m)) \/ UNCHANGED mailVars
        => UNCHANGED <<processed, event, poll, job, rulesFor, chained, filed, stalled>>
  BY DEF Arrives, Unruled, Decides
<1> QED
  BY <1>1, <1>2, <1>3, <1>4, <1>5, <1>6 DEF MailNext

\* However the polls overlap, fail or start over, GmailPoller and the queue put a mail before
\* the person as often as its rules name triage, unless a worker died in the middle of its job.
THEOREM FiledOnce == MailSpec => []MailIsFiledOnce
<1>1. OnceInv => MailIsFiledOnce
  BY DEF OnceInv
<1> QED
  BY <1>1, OnceInvInit, OnceInvKept, PTL DEF MailSpec

-----------------------------------------------------------------------------
(* The rest of the types: a mail, its event and its job exist in that      *)
(* order, and a poll holds mails that have arrived.                        *)

\* A set of naturals has a least element, so one that is bounded has a greatest.
LEMMA LeastOfNats ==
  ASSUME NEW S \in SUBSET Nat, S # {}
  PROVE  \E n \in S : \A k \in S : n <= k
<1> DEFINE R == {ss \in Nat \X Nat : ss[1] < ss[2]}
<1>1. IsWellFoundedOn(R, Nat)
  BY NatLessThanWellFounded DEF OpToRel
<1> HIDE DEF R
<1>2. PICK x \in S : \A y \in S : ~(<<y, x>> \in R)
  BY <1>1, WFMin
<1>3. \A k, n \in Nat : n < k => <<n, k>> \in R
  BY DEF R
<1>4. ASSUME NEW y \in S PROVE x <= y
  <2>1. x \in Nat /\ y \in Nat /\ ~(y < x)
    BY <1>2, <1>3
  <2> QED
    BY <2>1
<1> QED
  BY <1>4

LEMMA NewestIsThere ==
  ASSUME NEW n \in Nat, NEW S \in SUBSET (1..n), S # {}
  PROVE  Newest(S) \in S
<1> DEFINE T == {n - m : m \in S}
<1>1. T \in SUBSET Nat /\ T # {}
  OBVIOUS
<1> HIDE DEF T
<1>2. PICK t \in T : \A u \in T : t <= u
  BY <1>1, LeastOfNats
<1>3. PICK m \in S : t = n - m
  BY DEF T
<1>4. ASSUME NEW k \in S PROVE k <= m
  <2>1. t <= n - k
    BY <1>2 DEF T
  <2> QED
    BY <1>3, <2>1
<1> QED
  BY <1>4 DEF Newest

\* What a poll holds: mails that have arrived, no more of them counted than there are,
\* and events that are written.
PollHolds(p) ==
  /\ poll[p].start \in 0..arrived /\ poll[p].todo \subseteq 1..arrived
  /\ poll[p].count \in Nat /\ poll[p].count + Cardinality(poll[p].todo) <= Mails
  /\ poll[p].pc = "list" => poll[p].count = 0 /\ poll[p].from \in Nat
  /\ poll[p].pc = "persist" => poll[p].todo # {}
  /\ poll[p].pc # "idle" => watermark # NoMark
  /\ \A e \in poll[p].adds : event[e] # "none"

InboxRest ==
  /\ arrived \in 0..Mails /\ watermark \in NoMark..arrived /\ processed \subseteq 1..arrived
  /\ mailFaults \in 0..MailFaults

\* The event is written with the mail's id, the job for the event.
EventRest ==
  \A e \in Events : /\ event[e] # "none" => MailOf(e) \in processed
                    /\ job[e].state # "none" \/ chained[e] > 0 => event[e] # "none"

MailRest ==
  /\ InboxRest /\ EventRest
  /\ \A m \in 1..Mails : decided[m] <= filed[m]
  /\ \A p \in Polls : PollHolds(p)

\* What no step takes back.
Forward ==
  /\ arrived <= arrived' /\ arrived' \in Nat /\ (watermark # NoMark => watermark' # NoMark)
  /\ \A e \in Events : event[e] # "none" => event'[e] # "none"

LEMMA HoldsOn ==
  ASSUME Shape, MailRest, Forward, NEW p \in Polls, poll'[p] = poll[p]
  PROVE  PollHolds(p)'
<1>1. PollHolds(p) /\ arrived \in Nat /\ poll[p].adds \subseteq Events
  BY DEF MailRest, InboxRest, Shape, Cycle
<1>2. 0..arrived \subseteq 0..arrived' /\ 1..arrived \subseteq 1..arrived'
  BY <1>1 DEF Forward
<1> QED
  BY <1>1, <1>2 DEF PollHolds, Forward

LEMMA RestingHolds ==
  ASSUME NEW p \in Polls, poll'[p] = Resting, arrived' \in Nat
  PROVE  PollHolds(p)'
<1>1. Cardinality({}) = 0 /\ Mails \in Nat
  BY FS_EmptySet, MailAssumption
<1> QED
  BY <1>1 DEF PollHolds, Resting

LEMMA MailRestInit == MailInit => MailRest
<1> SUFFICES ASSUME MailInit PROVE MailRest
  OBVIOUS
<1>1. \A p \in Polls : PollHolds(p)
  <2>1. Cardinality({}) = 0 /\ Mails \in Nat
    BY FS_EmptySet, MailAssumption
  <2>2. arrived = 0 /\ \A p \in Polls : poll[p] = Resting
    BY DEF MailInit
  <2>3. /\ Resting.start = 0 /\ Resting.todo = {} /\ Resting.count = 0 /\ Resting.pc = "idle"
        /\ Resting.adds = {}
    BY DEF Resting
  <2> SUFFICES ASSUME NEW p \in Polls PROVE PollHolds(p)
    OBVIOUS
  <2>4. /\ poll[p].start = 0 /\ poll[p].todo = {} /\ poll[p].count = 0 /\ poll[p].pc = "idle"
        /\ poll[p].adds = {}
    BY <2>2, <2>3
  <2>5. Cardinality(poll[p].todo) = 0
    BY <2>1, <2>4
  <2> QED
    BY <2>1, <2>2, <2>4, <2>5 DEF PollHolds
<1>2. InboxRest
  BY MailAssumption DEF MailInit, InboxRest, NoMark
<1>3. EventRest
  BY DEF MailInit, EventRest, NoMailJob
<1> QED
  BY <1>1, <1>2, <1>3 DEF MailInit, MailRest

LEMMA MailFaultyCounts ==
  ASSUME InboxRest, MailFaulty
  PROVE  mailFaults' \in 0..MailFaults
  BY MailAssumption DEF InboxRest, MailFaulty

LEMMA TodoCounts ==
  ASSUME NEW n \in Nat, NEW S \in SUBSET (1..n)
  PROVE  IsFiniteSet(S) /\ Cardinality(S) \in Nat /\ Cardinality(S) <= n
<1>1. IsFiniteSet(1..n) /\ Cardinality(1..n) = n
  BY FS_Interval
<1> QED
  BY <1>1, FS_Subset, FS_CardinalityType

\* A poll's step and the poll itself.
LEMMA PollHoldsOn ==
  ASSUME Shape, MailRest, NEW p \in Polls, PollStep(p) \/ PollFails(p)
  PROVE  PollHolds(p)'
<1>0. /\ arrived \in Nat /\ arrived <= Mails /\ Mails \in Nat /\ watermark \in NoMark..arrived
      /\ PollHolds(p) /\ poll[p] \in Cycle /\ DOMAIN poll = Polls /\ UNCHANGED arrived
  BY MailAssumption DEF MailRest, InboxRest, Shape, PollStep, PollStarts, PollLists, PollSees, PollPersists,
     PollAdvances, PollSelects, PollAdds, PollFails
<1>1. CASE PollRests(p)
  BY <1>0, <1>1, RestingHolds DEF PollRests
<1>2. CASE PollStarts(p)
  <2>1. CASE UNCHANGED poll /\ poll[p].pc = "idle"
    BY <1>0, <1>2, <2>1 DEF PollStarts, PollHolds
  <2>2. CASE poll' = [poll EXCEPT ![p] = [Resting EXCEPT !.pc = "list", !.from = watermark, !.start = arrived]]
             /\ watermark # NoMark /\ watermark' = watermark
    <3>1. poll'[p] = [Resting EXCEPT !.pc = "list", !.from = watermark, !.start = arrived]
      BY <1>0, <2>2
    <3>2. /\ poll'[p].start = arrived /\ poll'[p].todo = {} /\ poll'[p].count = 0 /\ poll'[p].pc = "list"
          /\ poll'[p].adds = {} /\ poll'[p].from = watermark
      BY <3>1 DEF Resting
    <3>3. watermark \in Nat
      BY <1>0, <2>2 DEF NoMark
    <3>4. Cardinality(poll'[p].todo) = 0
      BY <3>2, FS_EmptySet
    <3> QED
      BY <1>0, <2>2, <3>2, <3>3, <3>4 DEF PollHolds
  <2> QED
    BY <1>2, <2>1, <2>2 DEF PollStarts
<1>3. CASE PollLists(p)
  <2> DEFINE page == {m \in (poll[p].from + 1)..arrived : arrived - m < PageSize}
  <2>1. poll' = [poll EXCEPT ![p] = [poll[p] EXCEPT !.pc = "mail", !.from = NoMark, !.ruled = ruled, !.todo = page]]
    BY <1>3, Zenon DEF PollLists
  <2>2. watermark # NoMark /\ poll[p].count = 0 /\ poll[p].from \in Nat /\ UNCHANGED <<watermark, event>>
    BY <1>0, <1>3 DEF PollLists, PollHolds
  <2>3. page \in SUBSET (1..arrived)
    BY <1>0, <2>2
  <2> HIDE DEF page
  <2>4. /\ poll'[p].pc = "mail" /\ poll'[p].todo = page /\ poll'[p].start = poll[p].start
        /\ poll'[p].count = poll[p].count /\ poll'[p].adds = poll[p].adds
    BY <1>0, <2>1 DEF Cycle
  <2>5. Cardinality(page) \in Nat /\ Cardinality(page) <= arrived
    BY <1>0, <2>3, TodoCounts
  <2> QED
    BY <1>0, <2>2, <2>3, <2>4, <2>5 DEF PollHolds
<1>4. ASSUME NEW m \in poll[p].todo, NEW n \in 0..1, UNCHANGED watermark,
             \A e \in Events : event[e] # "none" => event'[e] # "none",
             poll'[p].pc = "mail", poll'[p].todo = poll[p].todo \ {m}, poll'[p].count = poll[p].count + n,
             poll'[p].start = poll[p].start, poll'[p].adds = poll[p].adds, poll[p].pc # "idle"
      PROVE  PollHolds(p)'
  <2>1. IsFiniteSet(poll[p].todo) /\ Cardinality(poll[p].todo) \in Nat
    BY <1>0, TodoCounts DEF PollHolds
  <2>2. Cardinality(poll[p].todo \ {m}) = Cardinality(poll[p].todo) - 1
    BY <2>1, FS_RemoveElement
  <2>3. PICK was \in Nat : was = Cardinality(poll[p].todo)
    BY <2>1
  <2>4. poll[p].count + n \in Nat /\ poll[p].count + n + Cardinality(poll[p].todo \ {m}) <= Mails
    BY <1>0, <2>2, <2>3 DEF PollHolds
  <2>5. poll[p].adds \subseteq Events
    BY <1>0 DEF Cycle
  <2> QED
    BY <1>0, <1>4, <2>4, <2>5 DEF PollHolds
<1>5. CASE PollSees(p)
  <2> DEFINE m == Newest(poll[p].todo)
  <2>1. m \in poll[p].todo
    BY <1>0, <1>5, NewestIsThere DEF PollSees, PollHolds
  <2>2. UNCHANGED <<watermark, event>> /\ poll[p].pc # "idle" /\ poll[p].todo # {}
    BY <1>5 DEF PollSees
  <2>3. CASE poll' = [poll EXCEPT ![p].todo = @ \ {m}] /\ poll[p].pc = "mail"
    <3> HIDE DEF m
    <3>1. /\ poll'[p].pc = "mail" /\ poll'[p].todo = poll[p].todo \ {m} /\ poll'[p].count = poll[p].count + 0
          /\ poll'[p].start = poll[p].start /\ poll'[p].adds = poll[p].adds
      BY <1>0, <2>3 DEF Cycle
    <3> QED
      BY <1>4, <2>1, <2>2, <3>1
  <2>4. CASE poll' = [poll EXCEPT ![p].pc = "persist"]
    <3>1. /\ poll'[p].pc = "persist" /\ poll'[p].todo = poll[p].todo /\ poll'[p].count = poll[p].count
          /\ poll'[p].start = poll[p].start /\ poll'[p].adds = poll[p].adds
      BY <1>0, <2>4 DEF Cycle
    <3> QED
      BY <1>0, <2>2, <3>1 DEF PollHolds
  <2> QED
    BY <1>5, <2>3, <2>4 DEF PollSees
<1>6. CASE PollPersists(p) /\ ~PollRests(p)
  <2> DEFINE m == Newest(poll[p].todo)
             n == IF Matched(p, m) THEN 1 ELSE 0
  <2>1. m \in poll[p].todo
    BY <1>0, <1>6, NewestIsThere DEF PollPersists, PollHolds
  <2>2. /\ poll' = [poll EXCEPT ![p].pc = "mail", ![p].todo = @ \ {m}, ![p].count = @ + n]
        /\ poll[p].pc = "persist" /\ UNCHANGED watermark
        /\ event' = IF Matched(p, m) THEN [event EXCEPT ![<<m, p>>] = "received"] ELSE event
    BY <1>6 DEF PollPersists
  <2>3. n \in 0..1
    OBVIOUS
  <2>4. \A e \in Events : event[e] # "none" => event'[e] # "none"
    BY <2>2 DEF Shape
  <2> HIDE DEF m, n
  <2>5. /\ poll'[p].pc = "mail" /\ poll'[p].todo = poll[p].todo \ {m} /\ poll'[p].count = poll[p].count + n
        /\ poll'[p].start = poll[p].start /\ poll'[p].adds = poll[p].adds
    BY <1>0, <2>2 DEF Cycle
  <2> QED
    BY <1>4, <2>1, <2>2, <2>3, <2>4, <2>5
<1>7. CASE PollAdvances(p)
  <2>1. watermark' = poll[p].start /\ UNCHANGED event
    BY <1>7 DEF PollAdvances
  <2>2. CASE poll'[p] = Resting
    BY <1>0, <2>2, RestingHolds
  <2>3. CASE poll'[p] = [poll[p] EXCEPT !.pc = "select"]
    <3>1. /\ poll'[p].pc = "select" /\ poll'[p].todo = poll[p].todo /\ poll'[p].count = poll[p].count
          /\ poll'[p].start = poll[p].start /\ poll'[p].adds = poll[p].adds
      BY <1>0, <2>3 DEF Cycle
    <3> QED
      BY <1>0, <2>1, <3>1 DEF PollHolds, NoMark
  <2> QED
    BY <1>0, <1>7, <2>2, <2>3 DEF PollAdvances
<1>8. CASE PollSelects(p)
  <2> DEFINE S == {e \in Events : event[e] = "received"}
  <2>1. poll' = [poll EXCEPT ![p].pc = "add", ![p].adds = S] /\ UNCHANGED <<watermark, event>> /\ poll[p].pc # "idle"
    BY <1>8 DEF PollSelects
  <2>2. \A e \in S : event[e] # "none"
    OBVIOUS
  <2> HIDE DEF S
  <2>3. /\ poll'[p].pc = "add" /\ poll'[p].todo = poll[p].todo /\ poll'[p].count = poll[p].count
        /\ poll'[p].start = poll[p].start /\ poll'[p].adds = S
    BY <1>0, <2>1 DEF Cycle
  <2> QED
    BY <1>0, <2>1, <2>2, <2>3 DEF PollHolds
<1>9. CASE PollAdds(p) /\ ~PollRests(p)
  <2>1. PICK e \in poll[p].adds : poll' = [poll EXCEPT ![p].adds = @ \ {e}]
    BY <1>9 DEF PollAdds
  <2>2. /\ poll'[p].pc = poll[p].pc /\ poll'[p].todo = poll[p].todo /\ poll'[p].count = poll[p].count
        /\ poll'[p].start = poll[p].start /\ poll'[p].adds = poll[p].adds \ {e}
    BY <1>0, <2>1 DEF Cycle
  <2>3. UNCHANGED <<watermark, event>> /\ poll[p].pc = "add"
    BY <1>9 DEF PollAdds
  <2> QED
    BY <1>0, <2>2, <2>3 DEF PollHolds
<1> QED
  BY <1>1, <1>2, <1>3, <1>5, <1>6, <1>7, <1>8, <1>9 DEF PollStep, PollFails

LEMMA PollRestKept ==
  ASSUME Shape, MailRest, NEW p \in Polls, PollStep(p) \/ PollFails(p)
  PROVE  MailRest'
<1> USE DEF PollStep, PollStarts, PollLists, PollSees, PollPersists, PollAdvances, PollSelects, PollAdds, PollFails
<1>0. /\ arrived \in Nat /\ PollHolds(p) /\ InboxRest /\ EventRest /\ DOMAIN poll = Polls
      /\ UNCHANGED <<arrived, chained, filed, decided>>
  BY DEF MailRest, InboxRest, Shape
<1>1. watermark' = watermark \/ (watermark' \in 0..arrived)
  BY <1>0 DEF PollHolds
<1>2. \A q \in Polls : q # p => poll'[q] = poll[q]
  BY <1>0 DEF PollRests
<1>3. processed \subseteq processed' /\ processed' \subseteq 1..arrived
  <2>1. CASE PollPersists(p) /\ poll[p].pc = "persist"
    <3>1. Newest(poll[p].todo) \in 1..arrived
      BY <1>0, <2>1, NewestIsThere DEF PollHolds
    <3> QED
      BY <1>0, <2>1, <3>1 DEF InboxRest
  <2>2. CASE processed' = processed
    BY <1>0, <2>2 DEF InboxRest
  <2> QED
    BY <2>1, <2>2
<1>4. \A e \in Events : event'[e] = event[e] \/ (event'[e] = "received" /\ MailOf(e) \in processed')
  <2>1. CASE UNCHANGED event
    BY <2>1
  <2>2. ASSUME NEW m \in processed', event' = [event EXCEPT ![<<m, p>>] = "received"]
        PROVE  \A e \in Events : event'[e] = event[e] \/ (event'[e] = "received" /\ MailOf(e) \in processed')
    <3> SUFFICES ASSUME NEW e \in Events, event'[e] # event[e]
                 PROVE  event'[e] = "received" /\ MailOf(e) \in processed'
      OBVIOUS
    <3>1. e = <<m, p>> /\ event'[e] = "received"
      BY <2>2 DEF Shape
    <3> QED
      BY <3>1 DEF MailOf
  <2> QED
    BY <2>1, <2>2
<1>5. \A e \in Events : job'[e] = job[e] \/ event[e] # "none"
  <2>1. CASE PollAdds(p)
    BY <1>0, <2>1 DEF PollHolds, Shape
  <2>2. CASE UNCHANGED job
    BY <2>2
  <2> QED
    BY <2>1, <2>2
<1>6. mailFaults' \in 0..MailFaults
  BY <1>0, MailFaultyCounts DEF InboxRest
<1> HIDE DEF PollStep, PollStarts, PollLists, PollSees, PollPersists, PollAdvances, PollSelects, PollAdds, PollFails
<1>7. Forward
  BY <1>0, <1>1, <1>4 DEF Forward, InboxRest, NoMark
<1>8. \A q \in Polls : PollHolds(q)'
  BY <1>2, <1>7, HoldsOn, PollHoldsOn
<1>9. InboxRest'
  BY <1>0, <1>1, <1>3, <1>6 DEF InboxRest, NoMark
<1>10. EventRest'
  <2> SUFFICES ASSUME NEW e \in Events
               PROVE  /\ event'[e] # "none" => MailOf(e) \in processed'
                      /\ job'[e].state # "none" \/ chained'[e] > 0 => event'[e] # "none"
    BY DEF EventRest
  <2> QED
    BY <1>0, <1>3, <1>4, <1>5 DEF EventRest
<1> QED
  BY <1>0, <1>8, <1>9, <1>10 DEF MailRest

LEMMA MailRestKept == Shape /\ MailRest /\ [MailNext]_mailVars => MailRest'
<1> SUFFICES ASSUME Shape, MailRest, [MailNext]_mailVars PROVE MailRest'
  OBVIOUS
<1>0. /\ arrived \in Nat /\ InboxRest /\ EventRest /\ \A p \in Polls : PollHolds(p)
  BY DEF MailRest, InboxRest
<1>1. CASE Arrives
  <2>1. Forward /\ InboxRest'
    BY <1>0, <1>1, MailAssumption DEF Arrives, Forward, InboxRest, NoMark
  <2>2. UNCHANGED <<poll, event, job, chained, processed, decided, filed>>
    BY <1>1 DEF Arrives
  <2>3. \A p \in Polls : PollHolds(p)'
    BY <2>1, <2>2, HoldsOn
  <2> QED
    BY <1>0, <2>1, <2>2, <2>3 DEF MailRest, EventRest
<1>2. CASE Unruled \/ UNCHANGED mailVars
  <2>1. UNCHANGED <<arrived, watermark, poll, event, job, chained, processed, decided, filed>>
    BY <1>2 DEF Unruled
  <2>2. mailFaults' \in 0..MailFaults
    BY <1>0, <1>2, MailFaultyCounts DEF Unruled, InboxRest
  <2> QED
    BY <1>0, <2>1, <2>2 DEF MailRest, EventRest, InboxRest, PollHolds
<1>3. CASE EngineDies
  <2>1. UNCHANGED <<arrived, watermark, event, chained, processed, decided, filed>>
    BY <1>3 DEF EngineDies
  <2>2. mailFaults' \in 0..MailFaults
    BY <1>0, <1>3, MailFaultyCounts DEF EngineDies
  <2>3. \A p \in Polls : PollHolds(p)'
    BY <1>0, <1>3, <2>1, RestingHolds DEF EngineDies
  <2>4. \A e \in Events : job'[e].state # "none" => job[e].state # "none"
    BY <1>3 DEF EngineDies
  <2>5. InboxRest' /\ EventRest'
    BY <1>0, <2>1, <2>2, <2>4 DEF InboxRest, EventRest
  <2> QED
    BY <2>1, <2>3, <2>5 DEF MailRest
<1>4. ASSUME NEW e \in Events, JobBegins(e) \/ RunCompletes(e) \/ RunFails(e) \/ JobEnds(e) \/ ChainRuns(e)
      PROVE  MailRest'
  <2> USE DEF JobBegins, RunCompletes, RunFails, JobEnds, ChainRuns
  <2>1. UNCHANGED <<arrived, watermark, poll, processed, decided>> /\ MailOf(e) \in 1..Mails
    BY <1>4, EventMail
  <2>2. event[e] # "none"
    BY <1>0, <1>4 DEF EventRest, AtRule
  <2>3. \A x \in Events : x # e => event'[x] = event[x] /\ job'[x].state = job[x].state /\ chained'[x] = chained[x]
    BY <1>4 DEF OutcomeCounts, Shape
  <2>4. event'[e] # "none"
    BY <1>4, <2>2 DEF Ended, Shape
  <2>5. \A m \in 1..Mails : filed'[m] = filed[m] \/ filed'[m] = filed[m] + 1
    <3>1. UNCHANGED filed \/ filed' = [filed EXCEPT ![MailOf(e)] = @ + 1]
      BY <1>4
    <3> QED
      BY <3>1 DEF Shape
  <2>6. mailFaults' \in 0..MailFaults
    BY <1>0, <1>4, MailFaultyCounts DEF Marks, InboxRest
  <2> HIDE DEF JobBegins, RunCompletes, RunFails, JobEnds, ChainRuns
  <2>7. InboxRest'
    BY <1>0, <2>1, <2>6 DEF InboxRest
  <2>8. EventRest'
    BY <1>0, <2>1, <2>2, <2>3, <2>4 DEF EventRest
  <2>9. \A p \in Polls : PollHolds(p)'
    <3>1. Forward
      BY <1>0, <2>1, <2>3, <2>4 DEF Forward
    <3> QED
      BY <2>1, <3>1, HoldsOn
  <2>10. \A m \in 1..Mails : decided'[m] <= filed'[m]
    <3> SUFFICES ASSUME NEW m \in 1..Mails PROVE decided[m] <= filed'[m]
      BY <2>1
    <3>1. PICK i \in Nat, k \in Nat : i = decided[m] /\ k = filed[m] /\ i <= k
      BY DEF MailRest, Shape
    <3>2. filed'[m] = k \/ filed'[m] = k + 1
      BY <2>5, <3>1
    <3> QED
      BY <3>1, <3>2
  <2> QED
    BY <2>7, <2>8, <2>9, <2>10 DEF MailRest
<1>5. ASSUME NEW m \in 1..Mails, Decides(m) PROVE MailRest'
  <2>1. UNCHANGED <<arrived, watermark, poll, event, job, chained, processed, filed>>
    BY <1>5 DEF Decides
  <2>2. mailFaults' \in 0..MailFaults
    BY <1>0, <1>5, MailFaultyCounts DEF Decides, InboxRest
  <2>3. \A k \in 1..Mails : decided'[k] <= filed[k]
    BY <1>5 DEF Decides, MailRest, Shape
  <2> QED
    BY <1>0, <2>1, <2>2, <2>3 DEF MailRest, InboxRest, EventRest, PollHolds
<1> QED
  BY <1>1, <1>2, <1>3, <1>4, <1>5, PollRestKept DEF MailNext

\* Inbox, events, jobs and polls keep their types: no id is kept without its mail, no
\* event without its id, no job without its event, and nothing is decided that was not
\* filed, however the polls overlap and whatever fails.
THEOREM MailTypes == MailSpec => []MailTypeOK
<1>1. MailInit => Shape /\ MailRest
  BY ShapeInit, MailRestInit
<1>2. Shape /\ MailRest /\ [MailNext]_mailVars => Shape' /\ MailRest'
  BY ShapeKept, MailRestKept
<1>3. Shape /\ MailRest => MailTypeOK
  <2> SUFFICES ASSUME Shape, MailRest PROVE MailTypeOK
    OBVIOUS
  <2>1. ASSUME NEW p \in Polls
        PROVE  poll[p].todo \subseteq 1..arrived /\ poll[p].adds \subseteq Events /\ poll[p].count \in 0..Mails
    <3>1. arrived \in Nat /\ PollHolds(p) /\ poll[p] \in Cycle /\ Mails \in Nat
      BY MailAssumption DEF MailRest, InboxRest, Shape
    <3>2. PICK n \in Nat : n = Cardinality(poll[p].todo)
      BY <3>1, TodoCounts DEF PollHolds
    <3> QED
      BY <3>1, <3>2 DEF PollHolds, Cycle
  <2>2. \A e \in Events : job[e].state # "none" => event[e] # "none" /\ MailOf(e) \in processed
    BY DEF MailRest, EventRest
  <2> QED
    BY <2>1, <2>2 DEF MailTypeOK, MailRest, InboxRest, Shape
<1> QED
  BY <1>1, <1>2, <1>3, PTL DEF MailSpec

=============================================================================
