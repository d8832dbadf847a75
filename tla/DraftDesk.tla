----------------------------- MODULE DraftDesk -----------------------------
(***************************************************************************)
(* The desk on which a client shapes a month before it is approved: what   *)
(* they say, paste, save, promote, move, drop, restore and add, await by   *)
(* await, while the month can be approved, closed or assembled anew under  *)
(* them.                                                                   *)
(*                                                                         *)
(* Rows are guarded by the status in the WHERE of each write.  The month's *)
(* intake_json is not: receipts, the cadence floor and the free notes are  *)
(* one JSON value that every writer reads, and later writes whole.         *)
(*                                                                         *)
(* What a sentence means is the classifier's choice and what it does to    *)
(* the month the transforms' (Transforms); here both are any outcome the   *)
(* code has a branch for.                                                  *)
(***************************************************************************)
EXTENDS Naturals, FiniteSets, Sequences

CONSTANTS
  Beats,        \* row ids of content_cycle_posts, those to come included
  Inputs,       \* what the client says, one segment of a pasted brief each
  Editors,      \* the requests made to the app, which may overlap
  None,
  MaxReceipts   \* MAX_RECEIPTS (10 in the code)

ASSUME DeskAssumption == Beats # {} /\ None \notin Inputs /\ MaxReceipts \in Nat \ {0}

VARIABLES
  beat,       \* the rows of the month
  month,      \* the cycle row: is its status pre-planning, is approved_at set
  intake,     \* content_cycles.intake_json
  ideas,      \* plan_inputs: the backlog, by the input it was filed for
  brief,      \* structured_brief: the notes it was extracted from, or None
  edit,       \* the requests under way
  approving,  \* an approval has read the month and found a draft
  assembling, \* an assembly has passed its status check
  placed,     \* history: the inputs some row was written for
  trespass    \* history: a request that began after the approval changed a row

monthVars == <<month, approving, assembling>>
jsonVars == <<intake, ideas, brief>>
rowVars == <<beat, placed, trespass>>
deskVars == <<monthVars, jsonVars, rowVars, edit>>

\* hand: removalProtection is not null (touched or added by the client).  edited: a
\* post_edits row references the row.
Row == [status : {"none", "draft", "generating"}, gone : BOOLEAN, hand : BOOLEAN, edited : BOOLEAN]

NoRow == [status |-> "none", gone |-> FALSE, hand |-> FALSE, edited |-> FALSE]

\* say: a sentence or a pasted brief.  save: the intake form.  promote: an idea.
Kinds == {"say", "save", "promote", "move", "drop", "restore", "add"}

Steps == {"idle", "save", "extract", "route", "file", "cutoff", "floor", "setFloor", "load",
          "write", "notes", "addNote", "clear", "row", "receipt", "addReceipt", "use", "done"}

NoWork == [gone |-> {}, add |-> FALSE]

\* all: the segments of the input.  todo, cur: those to come, the one in hand.  seen: the
\* intake_json last read.  late: it began after the approval.
Idle == [pc |-> "idle", kind |-> "say", all |-> {}, todo |-> {}, cur |-> None, b |-> None,
         ops |-> NoWork, seen |-> None, shapes |-> TRUE, late |-> FALSE]

Over == [Idle EXCEPT !.pc = "done"]

\* content_cycles.intake_json.
Intakes ==
  {r \in [receipts : Seq((SUBSET Inputs) \ {{}}), floor : Inputs \cup {None}, notes : SUBSET Inputs] :
     Len(r.receipts) <= MaxReceipts}

Request == [pc : Steps, kind : Kinds, all : SUBSET Inputs, todo : SUBSET Inputs, cur : Inputs \cup {None},
            b : Beats \cup {None}, ops : [gone : SUBSET Beats, add : BOOLEAN], seen : Intakes \cup {None},
            shapes : BOOLEAN, late : BOOLEAN]

\* A request has said something unless it touches one row, knows its segment while it works
\* on one, has none left when it writes its receipt, and has read what it is about to write.
RequestOK(r) ==
  /\ r \in Request /\ r.todo \subseteq r.all
  /\ r.pc \notin {"idle", "row", "done"} => r.all # {}
  /\ r.pc \in {"file", "cutoff", "floor", "setFloor", "load", "notes", "addNote", "write"} \/ r.kind = "promote" =>
       r.cur \in r.all
  /\ r.pc \in {"receipt", "addReceipt"} => r.todo = {}
  /\ r.pc \in {"save", "setFloor", "addNote", "addReceipt", "extract"} => r.seen \in Intakes

DeskTypeOK ==
  /\ beat \in [Beats -> Row]
  /\ month \in [open : BOOLEAN, approved : BOOLEAN]
  /\ intake \in Intakes
  /\ ideas \in [Inputs -> {"none", "candidate", "used"}]
  /\ brief \in (SUBSET Inputs) \cup {None}
  /\ DOMAIN edit = Editors /\ \A e \in Editors : RequestOK(edit[e])
  /\ approving \in BOOLEAN /\ assembling \in BOOLEAN /\ placed \subseteq Inputs /\ trespass \in BOOLEAN

---------------------------------------------------------------------------
Drafts == {b \in Beats : beat[b].status = "draft" /\ ~beat[b].gone}

\* cycleIsPreCutoff: approval closes the door, whatever the status still says.
PreCutoffByStatus == month.open   \* mutant: the status alone

PreCutoff == month.open /\ ~month.approved

\* A new draft row, when the instance has an id left for it.
Insert(rows, hand) ==
  LET free == {b \in Beats : rows[b].status = "none"} IN
  IF free = {} THEN rows
  ELSE [rows EXCEPT ![CHOOSE b \in free : TRUE] = [NoRow EXCEPT !.status = "draft", !.hand = hand]]

\* retireDraftPosts: purge what nothing references, leave a tombstone of the rest.
RetireAny(rows, ids) ==   \* mutant: not scoped to drafts
  [b \in Beats |-> IF b \notin ids THEN rows[b]
                   ELSE IF rows[b].edited THEN [rows[b] EXCEPT !.gone = TRUE] ELSE NoRow]

Retire(rows, ids) ==
  [b \in Beats |-> IF b \notin ids \/ rows[b].status # "draft" THEN rows[b]
                   ELSE IF rows[b].edited THEN [rows[b] EXCEPT !.gone = TRUE] ELSE NoRow]

PushAll(receipts, r) == <<r>> \o receipts   \* mutant: no cap

Push(receipts, r) ==
  LET all == <<r>> \o receipts IN
  IF Len(all) > MaxReceipts THEN SubSeq(all, 1, MaxReceipts) ELSE all

\* A month whose draft has been assembled; rows may have been captioned already.
DeskInit ==
  /\ \E first \in Beats, edited \in BOOLEAN :
       beat = [b \in Beats |-> IF b = first THEN [NoRow EXCEPT !.status = "draft", !.edited = edited]
                               ELSE NoRow]
  /\ month = [open |-> TRUE, approved |-> FALSE]
  /\ intake = [receipts |-> <<>>, floor |-> None, notes |-> {}]
  /\ ideas = [i \in Inputs |-> "candidate"]
  /\ brief = None
  /\ edit = [e \in Editors |-> Idle]
  /\ approving = FALSE /\ assembling = FALSE
  /\ placed = {} /\ trespass = FALSE

---------------------------------------------------------------------------
(* A request begins or dies.                                               *)

Begins(e, kind, inputs, b, pc) ==
  /\ edit[e].pc = "idle"
  /\ edit' = [edit EXCEPT ![e] = [Idle EXCEPT !.pc = pc, !.kind = kind, !.all = inputs,
                 !.todo = inputs, !.b = b, !.late = month.approved]]
  /\ UNCHANGED <<monthVars, jsonVars, rowVars>>

\* POST draft/apply: a pasted brief is cut into segments, and refused whole after the cutoff.
Say(e) ==
  \E inputs \in (SUBSET Inputs) \ {{}} :
    /\ Cardinality(inputs) > 1 => PreCutoff
    /\ Begins(e, "say", inputs, None, "route")

\* POST intake: gated on the status alone; what it has read it writes two model calls later.
Save(e) ==
  /\ month.open /\ edit[e].pc = "idle"
  /\ \E i \in Inputs :
       edit' = [edit EXCEPT ![e] = [Idle EXCEPT !.pc = "save", !.kind = "save", !.all = {i},
                  !.todo = {i}, !.seen = intake, !.late = month.approved, !.shapes = Drafts # {}]]
  /\ UNCHANGED <<monthVars, jsonVars, rowVars>>

\* op add_to_month: an idea becomes an event of the month, as if just said.
Promote(e) ==
  /\ edit[e].pc = "idle"
  /\ \E i \in {i \in Inputs : ideas[i] # "none"} :
       edit' = [edit EXCEPT ![e] = [Idle EXCEPT !.pc = "cutoff", !.kind = "promote", !.all = {i},
                  !.cur = i, !.late = month.approved]]
  /\ UNCHANGED <<monthVars, jsonVars, rowVars>>

\* moveBeat, swapFormat, dropBeat, restoreBeat, addBeat: row and cutoff are read.
Touch(e) ==
  /\ PreCutoff
  /\ \/ \E b \in Drafts, kind \in {"move", "drop"} : Begins(e, kind, {}, b, "row")
     \/ \E b \in Beats : beat[b].status = "draft" /\ beat[b].gone /\ Begins(e, "restore", {}, b, "row")
     \/ Begins(e, "add", {}, None, "row")

AppDies(e) ==
  /\ edit[e].pc \notin {"idle", "done"}
  /\ edit' = [edit EXCEPT ![e] = Over]
  /\ UNCHANGED <<monthVars, jsonVars, rowVars>>

---------------------------------------------------------------------------
(* The structural edits: the draft status is tested again by each write.   *)

\* The month after e's write, and whether it trespasses.
Writes(e, rows) ==
  /\ beat' = rows
  /\ trespass' = (trespass \/ (edit[e].late /\ rows # beat))

EditRow(e) ==
  LET b == edit[e].b IN
  /\ edit[e].pc = "row"
  /\ CASE edit[e].kind = "move"    -> Writes(e, IF b \in Drafts THEN [beat EXCEPT ![b].hand = TRUE] ELSE beat)
       [] edit[e].kind = "drop"    -> Writes(e, IF b \in Drafts THEN [beat EXCEPT ![b].gone = TRUE] ELSE beat)
       [] edit[e].kind = "restore" -> Writes(e, IF beat[b].status = "draft"
                                                THEN [beat EXCEPT ![b].gone = FALSE] ELSE beat)
       [] OTHER                    -> Writes(e, Insert(beat, TRUE))
  /\ edit' = [edit EXCEPT ![e] = Over]
  /\ UNCHANGED <<monthVars, jsonVars, placed>>

---------------------------------------------------------------------------
(* applyIntakeToDraft, one segment after the other.                        *)

Goes(e, pc) == edit' = [edit EXCEPT ![e].pc = pc]

\* A segment is done: the next one, or the one receipt for all of them.
Done(e) == edit' = [edit EXCEPT ![e].pc = IF edit[e].todo = {} THEN "receipt" ELSE "route",
                                ![e].ops = NoWork, ![e].seen = None]

RefusedGoesOn(e) == Done(e)   \* mutant: a refusal is taken for a result

\* A refusal ends a sentence; in a brief it is one line of the receipt.
Refused(e) == IF Cardinality(edit[e].all) > 1 THEN Done(e) ELSE edit' = [edit EXCEPT ![e] = Over]

\* classifyIntake: a question is answered and writes nothing but its receipt.
Route(e) ==
  /\ edit[e].pc = "route"
  /\ \E i \in edit[e].todo :
       LET taken == [edit EXCEPT ![e].todo = @ \ {i}, ![e].cur = i] IN
       \/ \E pc \in {"file", "cutoff"} : edit' = [taken EXCEPT ![e].pc = pc]
       \/ edit' = [taken EXCEPT ![e].pc = IF edit[e].todo = {i} THEN "receipt" ELSE "route"]
  /\ UNCHANGED <<monthVars, jsonVars, rowVars>>

\* saveToBacklog.
File(e) ==
  /\ edit[e].pc = "file"
  /\ ideas' = [ideas EXCEPT ![edit[e].cur] = "candidate"]
  /\ Done(e)
  /\ UNCHANGED <<monthVars, intake, brief, rowVars>>

Cutoff(e) ==
  /\ edit[e].pc = "cutoff"
  /\ IF ~PreCutoff THEN Refused(e)
     ELSE \/ Goes(e, "load")
          \/ edit[e].kind # "promote" /\ Goes(e, "floor")
  /\ UNCHANGED <<monthVars, jsonVars, rowVars>>

\* persistCadenceFloor; appendMonthContext; persistReceipt: read ...
ReadIntake(e) ==
  /\ \E at \in {<<"floor", "setFloor">>, <<"notes", "addNote">>, <<"receipt", "addReceipt">>} :
       /\ edit[e].pc = at[1]
       /\ edit' = [edit EXCEPT ![e].pc = at[2], ![e].seen = intake]
  /\ UNCHANGED <<monthVars, jsonVars, rowVars>>

\* ... and write the whole value.
SetFloor(e) ==
  /\ edit[e].pc = "setFloor"
  /\ intake' = [edit[e].seen EXCEPT !.floor = edit[e].cur]
  /\ edit' = [edit EXCEPT ![e].pc = "load", ![e].seen = None]
  /\ UNCHANGED <<monthVars, ideas, brief, rowVars>>

AddNoteAlone(e) ==   \* mutant: the rest of intake_json is not spread
  /\ edit[e].pc = "addNote"
  /\ intake' = [receipts |-> <<>>, floor |-> None, notes |-> edit[e].seen.notes \cup {edit[e].cur}]
  /\ edit' = [edit EXCEPT ![e].pc = "clear", ![e].seen = None]
  /\ UNCHANGED <<monthVars, ideas, brief, rowVars>>

AddNote(e) ==
  /\ edit[e].pc = "addNote"
  /\ IF edit[e].cur \in edit[e].seen.notes THEN Done(e) /\ UNCHANGED intake
     ELSE /\ intake' = [edit[e].seen EXCEPT !.notes = @ \cup {edit[e].cur}]
          /\ edit' = [edit EXCEPT ![e].pc = "clear", ![e].seen = None]
  /\ UNCHANGED <<monthVars, ideas, brief, rowVars>>

\* clearStructuredBriefIfPrePlanning, whose errors are swallowed; the form, which still holds
\* what it wrote, extracts anew.
Clear(e) ==
  /\ edit[e].pc = "clear"
  /\ brief' \in {brief, IF month.open THEN None ELSE brief}
  /\ IF edit[e].seen # None THEN Goes(e, "extract") ELSE Done(e)
  /\ UNCHANGED <<monthVars, intake, ideas, rowVars>>

\* The drafts are read and the transform decides: an update, an addition with or without
\* a victim that is not protected, context for the captions, or nothing it can do.
Load(e) ==
  /\ edit[e].pc = "load"
  /\ \/ /\ Drafts = {} /\ edit[e].kind # "promote" /\ Done(e)     \* a cadence is only recorded
     \/ Drafts = {} /\ Refused(e)
     \/ /\ Drafts # {}
        /\ \/ \E gone \in SUBSET {b \in Drafts : ~beat[b].hand}, add \in BOOLEAN :
                /\ Cardinality(gone) <= 1
                /\ edit[e].kind = "promote" => add
                /\ edit' = [edit EXCEPT ![e].pc = "write", ![e].ops = [gone |-> gone, add |-> add]]
           \/ edit[e].kind # "promote" /\ \E pc \in {"notes", "file"} : Goes(e, pc)
           \/ edit[e].kind # "promote" /\ Done(e)
  /\ UNCHANGED <<monthVars, jsonVars, rowVars>>

\* writeOps: one transaction.
Write(e) ==
  LET rest == Retire(beat, edit[e].ops.gone) IN
  /\ edit[e].pc = "write"
  /\ Writes(e, IF edit[e].ops.add THEN Insert(rest, FALSE) ELSE rest)
  /\ placed' = placed \cup {edit[e].cur}
  /\ Done(e)
  /\ UNCHANGED <<monthVars, jsonVars>>

AddReceipt(e) ==
  /\ edit[e].pc = "addReceipt"
  /\ intake' = [edit[e].seen EXCEPT !.receipts = Push(@, edit[e].all)]
  /\ IF edit[e].kind = "promote" THEN edit' = [edit EXCEPT ![e].pc = "use", ![e].seen = None]
     ELSE edit' = [edit EXCEPT ![e] = Over]
  /\ UNCHANGED <<monthVars, ideas, brief, rowVars>>

\* addBacklogItemToMonth, after a placement.
Use(e) ==
  /\ edit[e].pc = "use"
  /\ ideas' = [ideas EXCEPT ![edit[e].cur] = "used"]
  /\ edit' = [edit EXCEPT ![e] = Over]
  /\ UNCHANGED <<monthVars, intake, brief, rowVars>>

---------------------------------------------------------------------------
(* The intake form.                                                        *)

SaveWrites(e) ==
  /\ edit[e].pc = "save"
  /\ intake' = [edit[e].seen EXCEPT !.notes = @ \cup edit[e].all]
  /\ edit' = [edit EXCEPT ![e].pc = "clear", ![e].seen = intake']
  /\ UNCHANGED <<monthVars, ideas, brief, rowVars>>

\* extractAndPersistBrief writes the brief of the notes it was given, or times out; with
\* a draft on the desk the same text then reshapes the month.
Extract(e) ==
  /\ edit[e].pc = "extract"
  /\ brief' \in {brief, edit[e].seen.notes}
  /\ IF edit[e].shapes /\ PreCutoff THEN edit' = [edit EXCEPT ![e].pc = "route", ![e].seen = None]
     ELSE edit' = [edit EXCEPT ![e] = Over]
  /\ UNCHANGED <<monthVars, intake, ideas, rowVars>>

---------------------------------------------------------------------------
(* What happens to the month meanwhile.                                    *)

\* approveDraftCore: the drafts are read; then every row that is a draft by that time is
\* committed, whether or not it was among those read.
ApprovalSees ==
  /\ ~month.approved /\ Drafts # {} /\ ~approving
  /\ approving' = TRUE
  /\ UNCHANGED <<month, assembling, jsonVars, rowVars, edit>>

ApprovalCommits ==
  /\ approving
  /\ beat' = [b \in Beats |-> IF b \in Drafts THEN [beat[b] EXCEPT !.status = "generating"]
                              ELSE beat[b]]
  /\ month' = [month EXCEPT !.approved = TRUE]
  /\ approving' = FALSE
  /\ UNCHANGED <<assembling, jsonVars, placed, trespass, edit>>

\* The cycle moves on to its planning.
Closes ==
  /\ month.open
  /\ month' = [month EXCEPT !.open = FALSE]
  /\ UNCHANGED <<approving, assembling, jsonVars, rowVars, edit>>

\* assembleAndPersistDraft: the status is read, the model called, the month replaced.
AssemblyStarts ==
  /\ month.open /\ ~assembling
  /\ assembling' = TRUE
  /\ UNCHANGED <<month, approving, jsonVars, rowVars, edit>>

AssemblyWrites ==
  /\ assembling
  /\ beat' = Insert(Retire(beat, Beats), FALSE)
  /\ assembling' = FALSE
  /\ UNCHANGED <<month, approving, jsonVars, placed, trespass, edit>>

EditStep(e) ==
  \/ EditRow(e) \/ Route(e) \/ File(e) \/ Cutoff(e) \/ ReadIntake(e) \/ SetFloor(e)
  \/ AddNote(e) \/ Clear(e) \/ Load(e) \/ Write(e) \/ AddReceipt(e) \/ Use(e)
  \/ SaveWrites(e) \/ Extract(e)

DeskNext ==
  \/ \E e \in Editors : Say(e) \/ Save(e) \/ Promote(e) \/ Touch(e) \/ EditStep(e) \/ AppDies(e)
  \/ ApprovalSees \/ ApprovalCommits \/ Closes \/ AssemblyStarts \/ AssemblyWrites

DeskSpec == DeskInit /\ [][DeskNext]_deskVars

---------------------------------------------------------------------------
(* Properties.                                                             *)

\* A committed post is out of the desk's reach, however old the read a write rests on.
CommittedIsUntouched ==
  [][\A b \in Beats : beat[b].status = "generating" => beat'[b] = beat[b]]_deskVars

\* Approval closes the door: a request that begins after it changes no row.
DoorIsClosed == ~trespass

\* Three writers share intake_json.  One whose reading is still current takes away
\* nothing of what the others wrote: notes, floor and all receipts but the oldest stay.
WritersCarryOthers ==
  [][\A e \in Editors :
       edit[e].seen = intake /\ edit'[e] # edit[e] /\ intake' # intake =>
         /\ intake.notes \subseteq intake'.notes
         /\ intake'.floor \in {intake.floor, edit[e].cur}
         /\ \/ intake'.receipts = intake.receipts
            \/ intake'.receipts = Push(intake.receipts, edit[e].all)]_deskVars

\* An idea leaves the backlog only for a month that has it.
UsedIdeaWasPlaced == \A i \in Inputs : ideas[i] = "used" => i \in placed

=============================================================================
