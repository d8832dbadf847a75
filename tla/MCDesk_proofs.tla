---------------------------- MODULE MCDesk_proofs ----------------------------
(***************************************************************************)
(* The desk, for any posts, inputs and overlapping requests: what is       *)
(* committed is out of its reach, approval closes its door, an idea leaves *)
(* the backlog only for a month that has it, no writer of intake_json      *)
(* drops another's part.  The agent's changes, for any turn, any number of *)
(* screens and of failures: a report says what happened.  And that a run   *)
(* of the three parts side by side is a run of each, so that what is       *)
(* proved of a part, the month's (DraftMonth_proofs) included, holds       *)
(* there.                                                                  *)
(***************************************************************************)
EXTENDS MCDesk, DraftMonth_proofs

USE DEF monthVars, jsonVars, rowVars, deskVars

-----------------------------------------------------------------------------
(* A committed post is out of the desk's reach.                            *)

\* Who has a record, and which fields it has.
Fields == {"pc", "kind", "all", "todo", "cur", "b", "ops", "seen", "shapes", "late"}

EditShape == DOMAIN edit = Editors /\ \A e \in Editors : DOMAIN edit[e] = Fields

LEMMA InsertsADraft ==
  ASSUME NEW rows, DOMAIN rows = Beats, NEW hand
  PROVE  /\ DOMAIN Insert(rows, hand) = Beats
         /\ \A b \in Beats : rows[b].status # "none" => Insert(rows, hand)[b] = rows[b]
<1> DEFINE free == {b \in Beats : rows[b].status = "none"}
           at == CHOOSE b \in free : TRUE
<1>1. CASE free = {}
  BY <1>1 DEF Insert
<1>2. CASE free # {}
  <2>1. at \in Beats /\ rows[at].status = "none"
    BY <1>2
  <2>2. Insert(rows, hand) = [rows EXCEPT ![at] = [NoRow EXCEPT !.status = "draft", !.hand = hand]]
    BY <1>2 DEF Insert
  <2> HIDE DEF at
  <2> QED
    BY <2>1, <2>2
<1> QED
  BY <1>1, <1>2

LEMMA RetiresDrafts ==
  ASSUME NEW rows, NEW ids
  PROVE  /\ DOMAIN Retire(rows, ids) = Beats
         /\ \A b \in Beats : rows[b].status # "draft" => Retire(rows, ids)[b] = rows[b]
  BY DEF Retire

LEMMA RowsKept ==
  ASSUME DOMAIN beat = Beats, [DeskNext]_deskVars
  PROVE  /\ DOMAIN beat' = Beats
         /\ \A b \in Beats : beat[b].status = "generating" => beat'[b] = beat[b]
<1>1. CASE UNCHANGED beat
  BY <1>1
<1>2. ASSUME NEW e \in Editors, EditRow(e)
      PROVE  /\ DOMAIN beat' = Beats
             /\ \A b \in Beats : beat[b].status = "generating" => beat'[b] = beat[b]
  <2>1. \/ UNCHANGED beat
        \/ edit[e].b \in Drafts /\ beat' = [beat EXCEPT ![edit[e].b].hand = TRUE]
        \/ edit[e].b \in Drafts /\ beat' = [beat EXCEPT ![edit[e].b].gone = TRUE]
        \/ beat[edit[e].b].status = "draft" /\ beat' = [beat EXCEPT ![edit[e].b].gone = FALSE]
        \/ beat' = Insert(beat, TRUE)
    BY <1>2 DEF EditRow, Writes
  <2>2. CASE beat' = Insert(beat, TRUE)
    BY <2>2, InsertsADraft
  <2>3. CASE beat' # Insert(beat, TRUE)
    BY <2>1, <2>3 DEF Drafts
  <2> QED
    BY <2>2, <2>3
<1>3. ASSUME NEW e \in Editors, Write(e)
      PROVE  /\ DOMAIN beat' = Beats
             /\ \A b \in Beats : beat[b].status = "generating" => beat'[b] = beat[b]
  <2> DEFINE rest == Retire(beat, edit[e].ops.gone)
  <2>1. beat' = rest \/ beat' = Insert(rest, FALSE)
    BY <1>3 DEF Write, Writes
  <2>2. DOMAIN rest = Beats /\ \A b \in Beats : beat[b].status # "draft" => rest[b] = beat[b]
    BY RetiresDrafts
  <2> HIDE DEF rest
  <2>3. CASE beat' = rest
    BY <2>2, <2>3
  <2>4. CASE beat' = Insert(rest, FALSE)
    BY <2>2, <2>4, InsertsADraft
  <2> QED
    BY <2>1, <2>3, <2>4
<1>4. CASE AssemblyWrites
  <2> DEFINE rest == Retire(beat, Beats)
  <2>1. beat' = Insert(rest, FALSE)
    BY <1>4 DEF AssemblyWrites
  <2>2. DOMAIN rest = Beats /\ \A b \in Beats : beat[b].status # "draft" => rest[b] = beat[b]
    BY RetiresDrafts
  <2> HIDE DEF rest
  <2> QED
    BY <2>1, <2>2, InsertsADraft
<1>5. CASE ApprovalCommits
  BY <1>5 DEF ApprovalCommits, Drafts
<1>6. ASSUME NEW e \in Editors,
             \/ Say(e) \/ Save(e) \/ Promote(e) \/ Touch(e) \/ AppDies(e)
             \/ Route(e) \/ File(e) \/ Cutoff(e) \/ ReadIntake(e) \/ SetFloor(e) \/ AddNote(e) \/ Clear(e)
             \/ Load(e) \/ AddReceipt(e) \/ Use(e) \/ SaveWrites(e) \/ Extract(e)
      PROVE  UNCHANGED rowVars
  BY <1>6 DEF Say, Save, Promote, Touch, Begins, AppDies, Route, File, Cutoff, ReadIntake, SetFloor, AddNote,
              Clear, Load, AddReceipt, Use, SaveWrites, Extract
<1>7. ApprovalSees \/ Closes \/ AssemblyStarts \/ UNCHANGED deskVars => UNCHANGED rowVars
  BY DEF ApprovalSees, Closes, AssemblyStarts
<1> QED
  BY <1>1, <1>2, <1>3, <1>4, <1>5, <1>6, <1>7 DEF DeskNext, EditStep

\* A post that approveDraftCore has committed is out of the desk's reach, however old the
\* read is that a request's write, or an assembly's, rests on.
THEOREM CommittedStays == DeskSpec => CommittedIsUntouched
<1>1. DeskInit => DOMAIN beat = Beats
  BY DEF DeskInit
<1>2. DOMAIN beat = Beats /\ [DeskNext]_deskVars => (DOMAIN beat = Beats)'
  BY RowsKept
<1>3. DOMAIN beat = Beats /\ [DeskNext]_deskVars =>
        [\A b \in Beats : beat[b].status = "generating" => beat'[b] = beat[b]]_deskVars
  BY RowsKept
<1> QED
  BY <1>1, <1>2, <1>3, PTL DEF DeskSpec, CommittedIsUntouched

-----------------------------------------------------------------------------
(* Approval closes the door, and an idea is used for a month that has it.  *)

Placing == {"cutoff", "load", "write", "receipt", "addReceipt", "use"}

\* A request that began after the approval never comes to a step that leads to a row.
LateStays(e) ==
  edit[e].late => month.approved /\ edit[e].pc \notin {"floor", "setFloor", "load", "write", "row"}

\* A promotion places its one idea before it writes the receipt.
PromotionPlaces(e) ==
  /\ edit[e].kind = "promote" =>
       /\ edit[e].pc \in Placing /\ edit[e].todo = {} /\ Cardinality(edit[e].all) = 1
       /\ edit[e].pc \in {"receipt", "addReceipt", "use"} => edit[e].cur \in placed
  /\ edit[e].pc = "use" => edit[e].kind = "promote"

DeskInv ==
  /\ EditShape /\ DOMAIN ideas = Inputs /\ month \in [open : BOOLEAN, approved : BOOLEAN]
  /\ trespass = FALSE
  /\ \A e \in Editors : LateStays(e) /\ PromotionPlaces(e)
  /\ UsedIdeaWasPlaced

LEMMA DeskInvInit == DeskInit => DeskInv
<1> SUFFICES ASSUME DeskInit PROVE DeskInv
  OBVIOUS
<1>1. \A e \in Editors : edit[e] = Idle
  BY DEF DeskInit
<1>2. DOMAIN Idle = Fields /\ Idle.late = FALSE /\ Idle.kind = "say" /\ Idle.pc = "idle"
  BY DEF Idle, Fields
<1>3. EditShape
  BY <1>1, <1>2 DEF DeskInit, EditShape
<1>4. \A e \in Editors : LateStays(e) /\ PromotionPlaces(e)
  BY <1>1, <1>2 DEF LateStays, PromotionPlaces
<1> QED
  BY <1>3, <1>4 DEF DeskInit, DeskInv, UsedIdeaWasPlaced

\* One request's step keeps the others' records, and what its own must be.
LEMMA OneMoves ==
  ASSUME DeskInv, NEW e \in Editors, NEW r, edit' = [edit EXCEPT ![e] = r], DOMAIN r = Fields,
         r.late => month.approved /\ r.pc \notin {"floor", "setFloor", "load", "write", "row"},
         r.kind = "promote" =>
           /\ r.pc \in Placing /\ r.todo = {} /\ Cardinality(r.all) = 1
           /\ r.pc \in {"receipt", "addReceipt", "use"} => r.cur \in placed',
         r.pc = "use" => r.kind = "promote",
         UNCHANGED month, placed \subseteq placed'
  PROVE  EditShape' /\ \A z \in Editors : LateStays(z)' /\ PromotionPlaces(z)'
<1>1. \A z \in Editors : edit'[z] = IF z = e THEN r ELSE edit[z]
  BY DEF DeskInv, EditShape
<1>2. EditShape'
  BY <1>1 DEF DeskInv, EditShape
<1> QED
  BY <1>1, <1>2 DEF DeskInv, LateStays, PromotionPlaces

\* A request that is over has nothing to keep.
LEMMA OverIsFree == DOMAIN Over = Fields /\ Over.late = FALSE /\ Over.kind = "say" /\ Over.pc = "done"
  BY DEF Over, Idle, Fields

\* So has one whose segment is done, unless it is late or a promotion.
LEMMA DoneMoves ==
  ASSUME DeskInv, NEW e \in Editors, Done(e), UNCHANGED month, placed \subseteq placed',
         edit[e].kind = "promote" => edit[e].todo = {} /\ edit[e].cur \in placed' /\ Cardinality(edit[e].all) = 1
  PROVE  EditShape' /\ \A z \in Editors : LateStays(z)' /\ PromotionPlaces(z)'
<1> DEFINE next == IF edit[e].todo = {} THEN "receipt" ELSE "route"
           r == [edit[e] EXCEPT !.pc = next, !.ops = NoWork, !.seen = None]
<1>1. edit' = [edit EXCEPT ![e] = r]
  BY Zenon DEF Done
<1>2. DOMAIN edit[e] = Fields
  BY DEF DeskInv, EditShape
<1>3. DOMAIN r = Fields /\ r.late = edit[e].late /\ r.kind = edit[e].kind /\ r.todo = edit[e].todo
      /\ r.all = edit[e].all /\ r.cur = edit[e].cur /\ r.pc = next
  BY <1>2 DEF Fields
<1>4. edit[e].late => month.approved
  BY DEF DeskInv, LateStays
<1>5. next \in {"receipt", "route"} /\ (edit[e].todo = {} => next = "receipt")
  OBVIOUS
<1> HIDE DEF r, next
<1> QED
  BY <1>1, <1>3, <1>4, <1>5, OneMoves DEF Placing

\* The steps that begin or end a request.
LEMMA BeginsMove ==
  ASSUME DeskInv, NEW e \in Editors, Say(e) \/ Save(e) \/ Promote(e) \/ Touch(e) \/ AppDies(e)
  PROVE  EditShape' /\ \A z \in Editors : LateStays(z)' /\ PromotionPlaces(z)'
<1>1. UNCHANGED month /\ placed \subseteq placed'
  BY DEF Say, Save, Promote, Touch, Begins, AppDies
<1>2. ASSUME NEW kind \in Kinds \ {"promote"}, NEW inputs, NEW b, NEW pc \in {"route", "row"},
             Begins(e, kind, inputs, b, pc), pc = "row" => ~month.approved
      PROVE  EditShape' /\ \A z \in Editors : LateStays(z)' /\ PromotionPlaces(z)'
  <2> DEFINE r == [Idle EXCEPT !.pc = pc, !.kind = kind, !.all = inputs, !.todo = inputs, !.b = b, !.late = month.approved]
  <2>1. edit' = [edit EXCEPT ![e] = r]
    BY <1>2 DEF Begins
  <2>2. DOMAIN r = Fields /\ r.pc = pc /\ r.kind = kind /\ r.late = month.approved
    BY DEF Idle, Fields
  <2> HIDE DEF r
  <2> QED
    BY <1>1, <1>2, <2>1, <2>2, OneMoves
<1>3. CASE Say(e)
  <2>1. \E inputs : Begins(e, "say", inputs, None, "route")
    BY <1>3 DEF Say
  <2> QED
    BY <1>2, <2>1 DEF Kinds
<1>4. CASE Save(e)
  <2>1. PICK i \in Inputs :
          edit' = [edit EXCEPT ![e] = [Idle EXCEPT !.pc = "save", !.kind = "save", !.all = {i},
                     !.todo = {i}, !.seen = intake, !.late = month.approved, !.shapes = Drafts # {}]]
    BY <1>4 DEF Save
  <2> DEFINE r == [Idle EXCEPT !.pc = "save", !.kind = "save", !.all = {i},
                     !.todo = {i}, !.seen = intake, !.late = month.approved, !.shapes = Drafts # {}]
  <2>2. DOMAIN r = Fields /\ r.pc = "save" /\ r.kind = "save" /\ r.late = month.approved
    BY DEF Idle, Fields
  <2>3. edit' = [edit EXCEPT ![e] = r]
    BY <2>1
  <2> HIDE DEF r
  <2> QED
    BY <1>1, <2>2, <2>3, OneMoves
<1>5. CASE Promote(e)
  <2>1. PICK i \in Inputs :
          edit' = [edit EXCEPT ![e] = [Idle EXCEPT !.pc = "cutoff", !.kind = "promote", !.all = {i}, !.cur = i,
                     !.late = month.approved]]
    BY <1>5 DEF Promote
  <2> DEFINE r == [Idle EXCEPT !.pc = "cutoff", !.kind = "promote", !.all = {i}, !.cur = i, !.late = month.approved]
  <2>2. DOMAIN r = Fields /\ r.pc = "cutoff" /\ r.kind = "promote" /\ r.late = month.approved /\ r.all = {i} /\ r.todo = {}
    BY DEF Idle, Fields
  <2>3. Cardinality(r.all) = 1
    BY <2>2, FS_Singleton
  <2>4. edit' = [edit EXCEPT ![e] = r]
    BY <2>1
  <2> HIDE DEF r
  <2> QED
    BY <1>1, <2>2, <2>3, <2>4, OneMoves DEF Placing
<1>6. CASE Touch(e)
  <2>1. ~month.approved
    BY <1>6 DEF Touch, PreCutoff
  <2>2. \E kind \in {"move", "drop", "restore", "add"} : \E b : Begins(e, kind, {}, b, "row")
    BY <1>6 DEF Touch
  <2> QED
    BY <1>2, <2>1, <2>2 DEF Kinds
<1>7. CASE AppDies(e)
  BY <1>1, <1>7, OneMoves, OverIsFree DEF AppDies
<1> QED
  BY <1>3, <1>4, <1>5, <1>6, <1>7

\* A step that only moves on to pc, late or not, of what is not a promotion.
LEMMA GoesMove ==
  ASSUME DeskInv, NEW e \in Editors, NEW pc, Goes(e, pc), UNCHANGED <<month, placed>>,
         edit[e].late => pc \notin {"floor", "setFloor", "load", "write", "row"},
         edit[e].kind = "promote" =>
           pc \in Placing /\ (pc \in {"receipt", "addReceipt", "use"} => edit[e].cur \in placed),
         pc = "use" => edit[e].kind = "promote"
  PROVE  EditShape' /\ \A z \in Editors : LateStays(z)' /\ PromotionPlaces(z)'
<1> DEFINE r == [edit[e] EXCEPT !.pc = pc]
<1>1. edit' = [edit EXCEPT ![e] = r]
  BY Zenon DEF Goes
<1>2. DOMAIN edit[e] = Fields
  BY DEF DeskInv, EditShape
<1>3. DOMAIN r = Fields /\ r.late = edit[e].late /\ r.kind = edit[e].kind /\ r.todo = edit[e].todo
      /\ r.all = edit[e].all /\ r.cur = edit[e].cur /\ r.pc = pc
  BY <1>2 DEF Fields
<1>4. LateStays(e) /\ PromotionPlaces(e)
  BY DEF DeskInv
<1> HIDE DEF r
<1> QED
  BY <1>1, <1>3, <1>4, OneMoves DEF LateStays, PromotionPlaces

\* The same with the intake_json that was read, or none.
Holds(e, pc, held) == edit' = [edit EXCEPT ![e].pc = pc, ![e].seen = held]

LEMMA HoldsMove ==
  ASSUME DeskInv, NEW e \in Editors, NEW pc, NEW held, Holds(e, pc, held),
         UNCHANGED <<month, placed>>,
         edit[e].late => pc \notin {"floor", "setFloor", "load", "write", "row"},
         edit[e].kind = "promote" =>
           pc \in Placing /\ (pc \in {"receipt", "addReceipt", "use"} => edit[e].cur \in placed),
         pc = "use" => edit[e].kind = "promote"
  PROVE  EditShape' /\ \A z \in Editors : LateStays(z)' /\ PromotionPlaces(z)'
<1> DEFINE r == [edit[e] EXCEPT !.pc = pc, !.seen = held]
<1>1. edit' = [edit EXCEPT ![e] = r]
  BY Zenon DEF Holds
<1>2. DOMAIN edit[e] = Fields
  BY DEF DeskInv, EditShape
<1>3. DOMAIN r = Fields /\ r.late = edit[e].late /\ r.kind = edit[e].kind /\ r.todo = edit[e].todo
      /\ r.all = edit[e].all /\ r.cur = edit[e].cur /\ r.pc = pc
  BY <1>2 DEF Fields
<1>4. LateStays(e) /\ PromotionPlaces(e)
  BY DEF DeskInv
<1> HIDE DEF r
<1> QED
  BY <1>1, <1>3, <1>4, OneMoves DEF LateStays, PromotionPlaces

LEMMA RefusedMoves ==
  ASSUME DeskInv, NEW e \in Editors, Refused(e), UNCHANGED <<month, placed>>
  PROVE  EditShape' /\ \A z \in Editors : LateStays(z)' /\ PromotionPlaces(z)'
<1>1. CASE Cardinality(edit[e].all) > 1 /\ Done(e)
  <2>1. edit[e].kind # "promote"
    BY <1>1 DEF DeskInv, PromotionPlaces
  <2> QED
    BY <1>1, <2>1, DoneMoves
<1>2. CASE edit' = [edit EXCEPT ![e] = Over]
  BY <1>2, OneMoves, OverIsFree
<1> QED
  BY <1>1, <1>2 DEF Refused

\* The steps of a request that has begun.
LEMMA StepsMove ==
  ASSUME DeskInv, NEW e \in Editors, EditStep(e)
  PROVE  EditShape' /\ \A z \in Editors : LateStays(z)' /\ PromotionPlaces(z)'
<1>0. LateStays(e) /\ PromotionPlaces(e) /\ DOMAIN edit[e] = Fields
  BY DEF DeskInv, EditShape
<1>1. CASE EditRow(e) \/ Use(e)
  BY <1>1, OneMoves, OverIsFree DEF EditRow, Use, Writes
<1>2. CASE Route(e)
  <2>1. edit[e].kind # "promote" /\ UNCHANGED <<month, placed>>
    BY <1>0, <1>2 DEF Route, PromotionPlaces, Placing
  <2>2. PICK i \in edit[e].todo, pc \in {"file", "cutoff", "receipt", "route"} :
          edit' = [edit EXCEPT ![e].todo = @ \ {i}, ![e].cur = i, ![e].pc = pc]
    BY <1>2, Zenon DEF Route
  <2> DEFINE r == [edit[e] EXCEPT !.todo = @ \ {i}, !.cur = i, !.pc = pc]
  <2>3. edit' = [edit EXCEPT ![e] = r]
    BY <2>2, Zenon
  <2>4. DOMAIN r = Fields /\ r.late = edit[e].late /\ r.kind = edit[e].kind /\ r.pc = pc
    BY <1>0 DEF Fields
  <2> HIDE DEF r
  <2>5. r.late => month.approved /\ r.pc \notin {"floor", "setFloor", "load", "write", "row"}
    BY <1>0, <2>2, <2>4 DEF LateStays
  <2>6. r.kind # "promote" /\ r.pc # "use" /\ placed \subseteq placed'
    BY <2>1, <2>2, <2>4
  <2> QED
    BY <2>1, <2>3, <2>4, <2>5, <2>6, OneMoves
<1>3. CASE File(e)
  <2>1. edit[e].kind # "promote"
    BY <1>0, <1>3 DEF File, PromotionPlaces, Placing
  <2> QED
    BY <1>3, <2>1, DoneMoves DEF File
<1>4. CASE Cutoff(e)
  <2>1. UNCHANGED <<month, placed>>
    BY <1>4 DEF Cutoff
  <2>2. CASE Refused(e)
    BY <2>1, <2>2, RefusedMoves
  <2>3. CASE PreCutoff
    <3>1. ~edit[e].late
      BY <1>0, <2>3 DEF LateStays, PreCutoff
    <3>2. Goes(e, "load") \/ (edit[e].kind # "promote" /\ Goes(e, "floor"))
      BY <1>4, <2>3 DEF Cutoff
    <3> QED
      BY <2>1, <3>1, <3>2, GoesMove DEF Placing
  <2> QED
    BY <1>4, <2>2, <2>3 DEF Cutoff
<1>5. CASE ReadIntake(e)
  <2>1. UNCHANGED <<month, placed>>
    BY <1>5 DEF ReadIntake
  <2>2. CASE edit[e].pc = "floor" /\ Holds(e, "setFloor", intake)
    BY <1>0, <2>1, <2>2, HoldsMove DEF LateStays, PromotionPlaces, Placing
  <2>3. CASE edit[e].pc = "notes" /\ Holds(e, "addNote", intake)
    BY <1>0, <2>1, <2>3, HoldsMove DEF LateStays, PromotionPlaces, Placing
  <2>4. CASE edit[e].pc = "receipt" /\ Holds(e, "addReceipt", intake)
    BY <1>0, <2>1, <2>4, HoldsMove DEF LateStays, PromotionPlaces, Placing
  <2>5. \/ edit[e].pc = "floor" /\ Holds(e, "setFloor", intake)
        \/ edit[e].pc = "notes" /\ Holds(e, "addNote", intake)
        \/ edit[e].pc = "receipt" /\ Holds(e, "addReceipt", intake)
    <3>1. PICK at \in {<<"floor", "setFloor">>, <<"notes", "addNote">>, <<"receipt", "addReceipt">>} :
            edit[e].pc = at[1] /\ Holds(e, at[2], intake)
      BY <1>5 DEF ReadIntake, Holds
    <3> QED
      BY <3>1
  <2> QED
    BY <2>2, <2>3, <2>4, <2>5
<1>6. CASE SetFloor(e)
  <2>1. UNCHANGED <<month, placed>> /\ edit[e].pc = "setFloor" /\ Holds(e, "load", None)
    BY <1>6 DEF SetFloor, Holds
  <2> QED
    BY <1>0, <2>1, HoldsMove DEF LateStays, PromotionPlaces, Placing
<1>7. CASE AddNote(e)
  <2>1. UNCHANGED <<month, placed>> /\ edit[e].kind # "promote"
    BY <1>0, <1>7 DEF AddNote, PromotionPlaces, Placing
  <2>2. Done(e) \/ Holds(e, "clear", None)
    BY <1>7 DEF AddNote, Holds
  <2> QED
    BY <2>1, <2>2, DoneMoves, HoldsMove
<1>8. CASE Clear(e)
  <2>1. UNCHANGED <<month, placed>> /\ edit[e].kind # "promote"
    BY <1>0, <1>8 DEF Clear, PromotionPlaces, Placing
  <2>2. Done(e) \/ Goes(e, "extract")
    BY <1>8 DEF Clear
  <2> QED
    BY <2>1, <2>2, DoneMoves, GoesMove
<1>9. CASE Load(e)
  <2>1. UNCHANGED <<month, placed>> /\ ~edit[e].late
    BY <1>0, <1>9 DEF Load, LateStays
  <2>2. CASE Refused(e)
    BY <2>1, <2>2, RefusedMoves
  <2>3. CASE edit[e].kind # "promote" /\ Done(e)
    BY <2>1, <2>3, DoneMoves
  <2>4. CASE edit[e].kind # "promote" /\ \E pc \in {"notes", "file"} : Goes(e, pc)
    BY <2>1, <2>4, GoesMove
  <2>5. ASSUME NEW ops, edit' = [edit EXCEPT ![e].pc = "write", ![e].ops = ops]
        PROVE  EditShape' /\ \A z \in Editors : LateStays(z)' /\ PromotionPlaces(z)'
    <3> DEFINE r == [edit[e] EXCEPT !.pc = "write", !.ops = ops]
    <3>1. edit' = [edit EXCEPT ![e] = r]
      BY <2>5, Zenon
    <3>2. DOMAIN r = Fields /\ r.late = edit[e].late /\ r.kind = edit[e].kind /\ r.todo = edit[e].todo
          /\ r.all = edit[e].all /\ r.pc = "write"
      BY <1>0 DEF Fields
    <3> HIDE DEF r
    <3> QED
      BY <1>0, <2>1, <3>1, <3>2, OneMoves DEF PromotionPlaces, Placing
  <2> QED
    BY <1>9, <2>2, <2>3, <2>4, <2>5 DEF Load
<1>10. CASE Write(e)
  <2>1. UNCHANGED month /\ placed \subseteq placed' /\ edit[e].cur \in placed' /\ Done(e)
    BY <1>10 DEF Write
  <2> QED
    BY <1>0, <2>1, DoneMoves DEF PromotionPlaces
<1>11. CASE AddReceipt(e)
  <2>1. UNCHANGED <<month, placed>> /\ edit[e].pc = "addReceipt"
    BY <1>11 DEF AddReceipt
  <2>2. CASE edit[e].kind = "promote" /\ Holds(e, "use", None)
    BY <1>0, <2>1, <2>2, HoldsMove DEF PromotionPlaces, Placing
  <2>3. CASE edit' = [edit EXCEPT ![e] = Over]
    BY <2>1, <2>3, OneMoves, OverIsFree
  <2> QED
    BY <1>11, <2>2, <2>3 DEF AddReceipt, Holds
<1>12. CASE SaveWrites(e)
  <2>1. UNCHANGED <<month, placed>> /\ edit[e].pc = "save" /\ Holds(e, "clear", intake')
    BY <1>12 DEF SaveWrites, Holds
  <2>2. edit[e].kind # "promote"
    BY <1>0, <2>1 DEF PromotionPlaces, Placing
  <2> QED
    BY <2>1, <2>2, HoldsMove
<1>13. CASE Extract(e)
  <2>1. UNCHANGED <<month, placed>> /\ edit[e].kind # "promote"
    BY <1>0, <1>13 DEF Extract, PromotionPlaces, Placing
  <2>2. Holds(e, "route", None) \/ edit' = [edit EXCEPT ![e] = Over]
    BY <1>13 DEF Extract, Holds
  <2> QED
    BY <2>1, <2>2, HoldsMove, OneMoves, OverIsFree
<1> QED
  BY <1>1, <1>2, <1>3, <1>4, <1>5, <1>6, <1>7, <1>8, <1>9, <1>10, <1>11, <1>12, <1>13 DEF EditStep

LEMMA DeskInvKept == DeskInv /\ [DeskNext]_deskVars => DeskInv'
<1> SUFFICES ASSUME DeskInv, [DeskNext]_deskVars PROVE DeskInv'
  OBVIOUS
<1>1. ASSUME NEW e \in Editors, Say(e) \/ Save(e) \/ Promote(e) \/ Touch(e) \/ AppDies(e) PROVE DeskInv'
  <2>1. UNCHANGED <<ideas, month, trespass, placed>>
    BY <1>1 DEF Say, Save, Promote, Touch, Begins, AppDies
  <2> QED
    BY <1>1, <2>1, BeginsMove DEF DeskInv, UsedIdeaWasPlaced
<1>2. ASSUME NEW e \in Editors, EditStep(e) PROVE DeskInv'
  <2>0. LateStays(e) /\ PromotionPlaces(e)
    BY DEF DeskInv
  <2>1. EditShape' /\ \A z \in Editors : LateStays(z)' /\ PromotionPlaces(z)'
    BY <1>2, StepsMove
  <2>2. UNCHANGED month /\ placed \subseteq placed'
    BY <1>2 DEF EditStep, EditRow, Route, File, Cutoff, ReadIntake, SetFloor, AddNote, Clear, Load, Write, AddReceipt,
                Use, SaveWrites, Extract
  <2>3. trespass' = FALSE
    <3>1. CASE EditRow(e) \/ Write(e)
      <4>1. edit[e].pc \in {"row", "write"} /\ \E rows : Writes(e, rows)
        BY <3>1 DEF EditRow, Write
      <4> QED
        BY <2>0, <4>1 DEF LateStays, Writes, DeskInv
    <3>2. CASE UNCHANGED trespass
      BY <3>2 DEF DeskInv
    <3> QED
      BY <1>2, <3>1, <3>2 DEF EditStep, Route, File, Cutoff, ReadIntake, SetFloor, AddNote, Clear, Load, AddReceipt,
                              Use, SaveWrites, Extract
  <2>4. \/ UNCHANGED ideas
        \/ ideas' = [ideas EXCEPT ![edit[e].cur] = "candidate"]
        \/ edit[e].pc = "use" /\ ideas' = [ideas EXCEPT ![edit[e].cur] = "used"]
    BY <1>2 DEF EditStep, EditRow, Route, File, Cutoff, ReadIntake, SetFloor, AddNote, Clear, Load, Write, AddReceipt,
                Use, SaveWrites, Extract
  <2>5. DOMAIN ideas' = Inputs /\ UsedIdeaWasPlaced'
    BY <2>0, <2>2, <2>4 DEF DeskInv, UsedIdeaWasPlaced, PromotionPlaces
  <2> QED
    BY <2>1, <2>2, <2>3, <2>5 DEF DeskInv
<1>3. ASSUME ApprovalSees \/ ApprovalCommits \/ Closes \/ AssemblyStarts \/ AssemblyWrites \/ UNCHANGED deskVars
      PROVE  DeskInv'
  <2>1. UNCHANGED <<edit, ideas, trespass, placed>>
    BY <1>3 DEF ApprovalSees, ApprovalCommits, Closes, AssemblyStarts, AssemblyWrites
  <2>2. month' \in [open : BOOLEAN, approved : BOOLEAN] /\ (month.approved => month'.approved)
    BY <1>3 DEF ApprovalSees, ApprovalCommits, Closes, AssemblyStarts, AssemblyWrites, DeskInv
  <2>3. EditShape' /\ UsedIdeaWasPlaced' /\ DOMAIN ideas' = Inputs
    BY <2>1 DEF DeskInv, EditShape, UsedIdeaWasPlaced
  <2>4. \A z \in Editors : LateStays(z)' /\ PromotionPlaces(z)'
    BY <2>1, <2>2 DEF DeskInv, LateStays, PromotionPlaces
  <2> QED
    BY <2>1, <2>2, <2>3, <2>4 DEF DeskInv
<1> QED
  BY <1>1, <1>2, <1>3 DEF DeskNext

\* Approval closes the door: no request that begins after approved_at is stamped changes a
\* row of the month, whichever of the desk's routes it takes and however they overlap.
THEOREM DoorStaysClosed == DeskSpec => []DoorIsClosed
<1>1. DeskInv => DoorIsClosed
  BY DEF DeskInv, DoorIsClosed
<1> QED
  BY <1>1, DeskInvInit, DeskInvKept, PTL DEF DeskSpec

\* addBacklogItemToMonth takes an idea out of the backlog only after a row was written for
\* it: no refusal, no answer and no death in between uses one up.
THEOREM UsedIdeasArePlaced == DeskSpec => []UsedIdeaWasPlaced
<1>1. DeskInv => UsedIdeaWasPlaced
  BY DEF DeskInv
<1> QED
  BY <1>1, DeskInvInit, DeskInvKept, PTL DEF DeskSpec

-----------------------------------------------------------------------------
(* Three writers share intake_json.                                        *)

IntakeFields == {"receipts", "floor", "notes"}
Holding == {"save", "setFloor", "addNote", "addReceipt"}

\* Whoever is about to write holds a whole intake_json.
IntakeInv ==
  /\ EditShape /\ DOMAIN intake = IntakeFields
  /\ \A e \in Editors : edit[e].pc \in Holding => DOMAIN edit[e].seen = IntakeFields

LEMMA IntakeInvInit == DeskInit => IntakeInv
<1> SUFFICES ASSUME DeskInit PROVE IntakeInv
  OBVIOUS
<1>1. \A e \in Editors : edit[e].pc = "idle"
  BY DEF DeskInit, Idle
<1>2. EditShape
  BY DeskInvInit DEF DeskInv
<1> QED
  BY <1>1, <1>2 DEF DeskInit, IntakeInv, IntakeFields, Holding

\* A request comes to hold a value of intake_json by reading it.
Comes(e) == edit'[e].pc \notin Holding \/ edit'[e].seen = intake

LEMMA DoneComes ==
  ASSUME EditShape, NEW e \in Editors, Done(e) \/ edit' = [edit EXCEPT ![e] = Over] \/ Refused(e)
  PROVE  Comes(e)
<1>1. Done(e) => Comes(e)
  <2> DEFINE next == IF edit[e].todo = {} THEN "receipt" ELSE "route"
  <2>1. Done(e) => edit' = [edit EXCEPT ![e].pc = next, ![e].ops = NoWork, ![e].seen = None]
    BY DEF Done
  <2>2. next \notin Holding
    BY DEF Holding
  <2> HIDE DEF next
  <2> QED
    BY <2>1, <2>2 DEF Comes, EditShape, Fields
<1>2. edit' = [edit EXCEPT ![e] = Over] => Comes(e)
  BY OverIsFree DEF Comes, Holding, EditShape
<1> QED
  BY <1>1, <1>2 DEF Refused

LEMMA GoesComes ==
  ASSUME EditShape, NEW e \in Editors, NEW pc, Goes(e, pc), pc \notin Holding
  PROVE  Comes(e)
  BY DEF Goes, Comes, EditShape, Fields

LEMMA HoldsComes ==
  ASSUME EditShape, NEW e \in Editors, NEW pc, NEW held, Holds(e, pc, held), pc \notin Holding \/ held = intake
  PROVE  Comes(e)
  BY DEF Holds, Comes, EditShape, Fields

LEMMA AllCome ==
  ASSUME EditShape, NEW e \in Editors,
         Say(e) \/ Save(e) \/ Promote(e) \/ Touch(e) \/ EditStep(e) \/ AppDies(e)
  PROVE  Comes(e) /\ \A z \in Editors : z # e => edit'[z] = edit[z]
<1>1. \E r : edit' = [edit EXCEPT ![e] = r]
  <2>1. CASE Say(e) \/ Save(e) \/ Promote(e) \/ Touch(e) \/ AppDies(e)
    BY <2>1 DEF Say, Save, Promote, Touch, Begins, AppDies
  <2>2. CASE EditRow(e) \/ Use(e)
    BY <2>2 DEF EditRow, Use
  <2>3. Done(e) \/ Refused(e) => \E r : edit' = [edit EXCEPT ![e] = r]
    BY Zenon DEF Done, Refused
  <2>4. \A pc, held : Goes(e, pc) \/ Holds(e, pc, held) => \E r : edit' = [edit EXCEPT ![e] = r]
    BY Zenon DEF Goes, Holds
  <2>5. CASE Route(e)
    <3>1. PICK i \in edit[e].todo, pc \in {"file", "cutoff", "receipt", "route"} :
            edit' = [edit EXCEPT ![e].todo = @ \ {i}, ![e].cur = i, ![e].pc = pc]
      BY <2>5, Zenon DEF Route
    <3> QED
      BY <3>1, Zenon
  <2>6. CASE Load(e)
    <3>1. ASSUME NEW ops, edit' = [edit EXCEPT ![e].pc = "write", ![e].ops = ops]
          PROVE  \E r : edit' = [edit EXCEPT ![e] = r]
      BY <3>1, Zenon
    <3> QED
      BY <2>3, <2>4, <2>6, <3>1 DEF Load
  <2>7. CASE ReadIntake(e)
    <3>1. \E pc : Holds(e, pc, intake)
      BY <2>7, Zenon DEF ReadIntake, Holds
    <3> QED
      BY <2>4, <3>1
  <2>8. CASE SetFloor(e) \/ SaveWrites(e)
    <3>1. \E pc, held : Holds(e, pc, held)
      BY <2>8, Zenon DEF SetFloor, SaveWrites, Holds
    <3> QED
      BY <2>4, <3>1
  <2>9. CASE File(e) \/ Cutoff(e) \/ Clear(e) \/ Write(e)
    BY <2>3, <2>4, <2>9 DEF File, Cutoff, Clear, Write
  <2>10. CASE AddNote(e) \/ AddReceipt(e) \/ Extract(e)
    <3>1. Done(e) \/ edit' = [edit EXCEPT ![e] = Over] \/ \E pc, held : Holds(e, pc, held)
      BY <2>10, Zenon DEF AddNote, AddReceipt, Extract, Holds
    <3> QED
      BY <2>3, <2>4, <3>1
  <2> QED
    BY <2>1, <2>2, <2>5, <2>6, <2>7, <2>8, <2>9, <2>10 DEF EditStep
<1>2. \A z \in Editors : z # e => edit'[z] = edit[z]
  BY <1>1 DEF EditShape
<1>3. Comes(e)
  <2>0. ASSUME Route(e)
        PROVE  \E i, pc : /\ pc \in {"file", "cutoff", "receipt", "route"}
                          /\ edit' = [edit EXCEPT ![e].todo = @ \ {i}, ![e].cur = i, ![e].pc = pc]
    BY <2>0, Zenon DEF Route
  <2> USE DEF EditShape, Comes, Holding
  <2>1. CASE Say(e) \/ Touch(e)
    <3>1. ASSUME NEW kind, NEW inputs, NEW b, NEW pc \in {"route", "row"}, Begins(e, kind, inputs, b, pc)
          PROVE  Comes(e)
      BY <3>1 DEF Begins, Idle
    <3>2. \E kind, inputs, b : \E pc \in {"route", "row"} : Begins(e, kind, inputs, b, pc)
      BY <2>1 DEF Say, Touch
    <3> QED
      BY <3>1, <3>2
  <2>2. CASE Save(e) \/ Promote(e)
    <3>1. PICK i : \/ edit' = [edit EXCEPT ![e] = [Idle EXCEPT !.pc = "save", !.kind = "save",
                       !.all = {i}, !.todo = {i}, !.seen = intake, !.late = month.approved,
                       !.shapes = Drafts # {}]]
                   \/ edit' = [edit EXCEPT ![e] = [Idle EXCEPT !.pc = "cutoff", !.kind = "promote",
                       !.all = {i}, !.cur = i, !.late = month.approved]]
      BY <2>2, Zenon DEF Save, Promote
    <3>2. edit'[e] = [Idle EXCEPT !.pc = "save", !.kind = "save",
                       !.all = {i}, !.todo = {i}, !.seen = intake, !.late = month.approved,
                       !.shapes = Drafts # {}]
          \/ edit'[e] = [Idle EXCEPT !.pc = "cutoff", !.kind = "promote",
                       !.all = {i}, !.cur = i, !.late = month.approved]
      BY <3>1, Zenon DEF EditShape
    <3> QED
      BY <3>2 DEF Idle
  <2>3. CASE AppDies(e) \/ EditRow(e) \/ Use(e)
    BY <2>3, DoneComes DEF AppDies, EditRow, Use
  <2>4. CASE Route(e)
    <3>1. PICK i, pc : /\ pc \in {"file", "cutoff", "receipt", "route"}
                       /\ edit' = [edit EXCEPT ![e].todo = @ \ {i}, ![e].cur = i, ![e].pc = pc]
      BY <2>0, <2>4
    <3> QED
      BY <3>1 DEF Fields
  <2> HIDE DEF EditShape, Comes
  <2>5. CASE Load(e)
    <3>1. ASSUME NEW ops, edit' = [edit EXCEPT ![e].pc = "write", ![e].ops = ops]
          PROVE  Comes(e)
      BY <3>1 DEF Comes, EditShape, Fields
    <3> QED
      BY <2>5, <3>1, DoneComes, GoesComes DEF Load
  <2>6. CASE ReadIntake(e)
    <3>1. \E pc : Holds(e, pc, intake)
      BY <2>6, Zenon DEF ReadIntake, Holds
    <3> QED
      BY <3>1, HoldsComes
  <2>7. CASE SetFloor(e) \/ SaveWrites(e)
    <3>1. \E pc \in {"load", "clear"} : \E held : Holds(e, pc, held)
      BY <2>7 DEF SetFloor, SaveWrites, Holds
    <3> QED
      BY <3>1, HoldsComes
  <2>8. CASE File(e) \/ Cutoff(e) \/ Clear(e) \/ Write(e)
    BY <2>8, DoneComes, GoesComes DEF File, Cutoff, Clear, Write
  <2>9. CASE AddNote(e) \/ AddReceipt(e) \/ Extract(e)
    <3>1. Done(e) \/ edit' = [edit EXCEPT ![e] = Over] \/ \E pc \in {"clear", "use", "route"} : Holds(e, pc, None)
      BY <2>9 DEF AddNote, AddReceipt, Extract, Holds
    <3> QED
      BY <3>1, DoneComes, HoldsComes
  <2> QED
    BY <2>1, <2>2, <2>3, <2>4, <2>5, <2>6, <2>7, <2>8, <2>9 DEF EditStep
<1> QED
  BY <1>2, <1>3

\* What a request's step does to intake_json: it writes what it holds, with one field changed.
LEMMA IntakeWrites ==
  ASSUME NEW e \in Editors, Say(e) \/ Save(e) \/ Promote(e) \/ Touch(e) \/ EditStep(e) \/ AppDies(e)
  PROVE  \/ UNCHANGED intake
         \/ /\ edit[e].pc \in Holding
            /\ \/ intake' = [edit[e].seen EXCEPT !.floor = edit[e].cur]
               \/ \E N : intake' = [edit[e].seen EXCEPT !.notes = edit[e].seen.notes \cup N]
               \/ intake' = [edit[e].seen EXCEPT !.receipts = Push(edit[e].seen.receipts, edit[e].all)]
<1>1. CASE SetFloor(e)
  BY <1>1 DEF SetFloor, Holding
<1>2. CASE AddNote(e)
  BY <1>2 DEF AddNote, Holding
<1>3. CASE AddReceipt(e)
  BY <1>3 DEF AddReceipt, Holding
<1>4. CASE SaveWrites(e)
  BY <1>4 DEF SaveWrites, Holding
<1>5. CASE UNCHANGED intake
  BY <1>5
<1>6. \/ SetFloor(e) \/ AddNote(e) \/ AddReceipt(e) \/ SaveWrites(e) \/ UNCHANGED intake
  BY DEF Say, Save, Promote, Touch, Begins, AppDies, EditStep, EditRow, Route, File, Cutoff, ReadIntake, Clear, Load,
         Write, Use, Extract
<1> QED
  BY <1>1, <1>2, <1>3, <1>4, <1>5, <1>6

LEMMA OthersWrite ==
  ASSUME ApprovalSees \/ ApprovalCommits \/ Closes \/ AssemblyStarts \/ AssemblyWrites \/ UNCHANGED deskVars
  PROVE  UNCHANGED <<intake, edit>>
  BY DEF ApprovalSees, ApprovalCommits, Closes, AssemblyStarts, AssemblyWrites

LEMMA IntakeInvKept == DeskInv /\ IntakeInv /\ [DeskNext]_deskVars => IntakeInv'
<1> SUFFICES ASSUME DeskInv, IntakeInv, [DeskNext]_deskVars PROVE IntakeInv'
  OBVIOUS
<1>0. EditShape'
  BY DeskInvKept DEF DeskInv
<1>1. ASSUME NEW e \in Editors, Say(e) \/ Save(e) \/ Promote(e) \/ Touch(e) \/ EditStep(e) \/ AppDies(e)
      PROVE  IntakeInv'
  <2>1. DOMAIN intake' = IntakeFields
    BY <1>1, IntakeWrites DEF IntakeInv
  <2>2. Comes(e) /\ \A z \in Editors : z # e => edit'[z] = edit[z]
    BY <1>1, AllCome DEF IntakeInv
  <2> QED
    BY <1>0, <2>1, <2>2 DEF IntakeInv, Comes
<1>2. CASE UNCHANGED <<intake, edit>>
  BY <1>0, <1>2 DEF IntakeInv
<1> QED
  BY <1>1, <1>2, OthersWrite DEF DeskNext

\* Receipts, cadence floor and notes are one JSON value.  A request whose reading of it is
\* still current takes away nothing of what the others wrote, but the oldest receipt.
THEOREM WritersCarry == DeskSpec => WritersCarryOthers
<1>1. DeskInv /\ IntakeInv /\ [DeskNext]_deskVars =>
        [\A e \in Editors :
           edit[e].seen = intake /\ edit'[e] # edit[e] /\ intake' # intake =>
             /\ intake.notes \subseteq intake'.notes
             /\ intake'.floor \in {intake.floor, edit[e].cur}
             /\ \/ intake'.receipts = intake.receipts
                \/ intake'.receipts = Push(intake.receipts, edit[e].all)]_deskVars
  <2> SUFFICES ASSUME IntakeInv, [DeskNext]_deskVars, NEW e \in Editors,
                      edit[e].seen = intake, edit'[e] # edit[e], intake' # intake
               PROVE  /\ intake.notes \subseteq intake'.notes
                      /\ intake'.floor \in {intake.floor, edit[e].cur}
                      /\ \/ intake'.receipts = intake.receipts
                         \/ intake'.receipts = Push(intake.receipts, edit[e].all)
    OBVIOUS
  <2>1. PICK x \in Editors : Say(x) \/ Save(x) \/ Promote(x) \/ Touch(x) \/ EditStep(x) \/ AppDies(x)
    BY OthersWrite DEF DeskNext
  <2>2. x = e
    BY <2>1, AllCome DEF IntakeInv
  <2>3. \/ intake' = [intake EXCEPT !.floor = edit[e].cur]
        \/ \E N : intake' = [intake EXCEPT !.notes = intake.notes \cup N]
        \/ intake' = [intake EXCEPT !.receipts = Push(intake.receipts, edit[e].all)]
    BY <2>1, <2>2, IntakeWrites
  <2>4. DOMAIN intake = IntakeFields
    BY DEF IntakeInv
  <2>5. CASE intake' = [intake EXCEPT !.floor = edit[e].cur]
    BY <2>4, <2>5 DEF IntakeFields
  <2>6. CASE \E N : intake' = [intake EXCEPT !.notes = intake.notes \cup N]
    BY <2>4, <2>6 DEF IntakeFields
  <2>7. CASE intake' = [intake EXCEPT !.receipts = Push(intake.receipts, edit[e].all)]
    BY <2>4, <2>7 DEF IntakeFields
  <2> QED
    BY <2>3, <2>5, <2>6, <2>7
<1> QED
  BY <1>1, DeskInvInit, DeskInvKept, IntakeInvInit, IntakeInvKept, PTL DEF DeskSpec, WritersCarryOthers

-----------------------------------------------------------------------------
(* Types.                                                                  *)

LEMMA OneTyped ==
  ASSUME DOMAIN edit = Editors, \A e \in Editors : RequestOK(edit[e]),
         NEW e \in Editors, NEW r, RequestOK(r), edit' = [edit EXCEPT ![e] = r]
  PROVE  DOMAIN edit' = Editors /\ \A z \in Editors : RequestOK(edit'[z])
<1>1. DOMAIN edit' = Editors /\ \A z \in Editors : edit'[z] = IF z = e THEN r ELSE edit[z]
  OBVIOUS
<1> QED
  BY <1>1

\* What a request is when it begins, when it is over, and when it moves on.
LEMMA IdleIsARequest == Idle \in Request /\ RequestOK(Over)
<1>1. Idle \in Request
  BY DeskAssumption DEF Idle, Request, Steps, Kinds, NoWork
<1>2. Over \in Request /\ Over.pc = "done" /\ Over.kind = "say" /\ Over.todo = {} /\ Over.all = {}
  BY <1>1 DEF Over, Idle, Request, Steps
<1> QED
  BY <1>1, <1>2 DEF RequestOK

LEMMA BegunIsARequest ==
  ASSUME NEW kind \in {"say", "move", "drop", "restore", "add"}, NEW inputs \in SUBSET Inputs,
         NEW b \in Beats \cup {None}, NEW pc \in {"route", "row"}, NEW late \in BOOLEAN,
         pc = "route" => inputs # {}
  PROVE  RequestOK([Idle EXCEPT !.pc = pc, !.kind = kind, !.all = inputs, !.todo = inputs, !.b = b, !.late = late])
<1> DEFINE r == [Idle EXCEPT !.pc = pc, !.kind = kind, !.all = inputs, !.todo = inputs, !.b = b, !.late = late]
<1>1. pc \in Steps /\ kind \in Kinds
  BY DEF Steps, Kinds
<1>2. r \in Request
  BY <1>1, IdleIsARequest DEF Request
<1>3. r.pc = pc /\ r.kind = kind /\ r.all = inputs /\ r.todo = inputs
  BY IdleIsARequest DEF Request
<1> HIDE DEF r
<1>4. RequestOK(r)
  BY <1>2, <1>3 DEF RequestOK
<1> QED
  BY <1>4 DEF r

LEMMA DoneIsARequest ==
  ASSUME NEW q, RequestOK(q), q.all # {}
  PROVE  RequestOK([q EXCEPT !.pc = IF q.todo = {} THEN "receipt" ELSE "route", !.ops = NoWork, !.seen = None])
<1> DEFINE pc == IF q.todo = {} THEN "receipt" ELSE "route"
           r == [q EXCEPT !.pc = pc, !.ops = NoWork, !.seen = None]
<1>1. pc \in {"receipt", "route"} /\ (pc = "receipt" => q.todo = {})
  OBVIOUS
<1> HIDE DEF pc
<1>2. r \in Request /\ r.pc = pc /\ r.kind = q.kind /\ r.all = q.all /\ r.todo = q.todo /\ r.cur = q.cur
  BY <1>1 DEF RequestOK, Request, Steps, NoWork
<1> HIDE DEF r
<1>3. RequestOK(r)
  BY <1>1, <1>2 DEF RequestOK
<1> QED
  BY <1>3 DEF r, pc

\* The same with the intake_json it holds, the work it has found, or neither.
LEMMA MovedIsARequest ==
  ASSUME NEW q, RequestOK(q), NEW pc \in Steps, NEW ops \in [gone : SUBSET Beats, add : BOOLEAN],
         NEW held \in Intakes \cup {None}, q.all # {},
         pc \in {"file", "cutoff", "floor", "setFloor", "load", "notes", "addNote", "write"} => q.cur \in q.all,
         pc \in {"receipt", "addReceipt"} => q.todo = {},
         pc \in {"save", "setFloor", "addNote", "addReceipt", "extract"} => held \in Intakes
  PROVE  RequestOK([q EXCEPT !.pc = pc, !.ops = ops, !.seen = held])
<1> DEFINE r == [q EXCEPT !.pc = pc, !.ops = ops, !.seen = held]
<1>1. r \in Request /\ r.pc = pc /\ r.kind = q.kind /\ r.all = q.all /\ r.todo = q.todo /\ r.cur = q.cur /\ r.seen = held
  BY DEF RequestOK, Request
<1> HIDE DEF r
<1>2. RequestOK(r)
  BY <1>1 DEF RequestOK
<1> QED
  BY <1>2 DEF r

\* edit has a request's type after the step, as before it.
Typed == DOMAIN edit = Editors /\ \A e \in Editors : RequestOK(edit[e])

LEMMA MovesTyped ==
  ASSUME Typed, NEW e \in Editors, NEW pc \in Steps, NEW ops \in [gone : SUBSET Beats, add : BOOLEAN],
         NEW held \in Intakes \cup {None}, edit[e].all # {},
         edit' = [edit EXCEPT ![e] = [edit[e] EXCEPT !.pc = pc, !.ops = ops, !.seen = held]],
         pc \in {"file", "cutoff", "floor", "setFloor", "load", "notes", "addNote", "write"} => edit[e].cur \in edit[e].all,
         pc \in {"receipt", "addReceipt"} => edit[e].todo = {},
         pc \in {"save", "setFloor", "addNote", "addReceipt", "extract"} => held \in Intakes
  PROVE  Typed'
<1> DEFINE r == [edit[e] EXCEPT !.pc = pc, !.ops = ops, !.seen = held]
<1>1. RequestOK(r)
  BY MovedIsARequest DEF Typed
<1> HIDE DEF r
<1> QED
  BY <1>1, OneTyped DEF Typed, r

LEMMA HeldIsHeld ==
  ASSUME Typed, NEW e \in Editors
  PROVE  /\ edit[e] \in Request
         /\ \A pc, held : [edit[e] EXCEPT !.pc = pc, !.ops = edit[e].ops, !.seen = held] = [edit[e] EXCEPT !.pc = pc, !.seen = held]
         /\ \A pc, ops : [edit[e] EXCEPT !.pc = pc, !.ops = ops, !.seen = edit[e].seen] = [edit[e] EXCEPT !.pc = pc, !.ops = ops]
         /\ \A pc : [edit[e] EXCEPT !.pc = pc, !.ops = edit[e].ops, !.seen = edit[e].seen] = [edit[e] EXCEPT !.pc = pc]
<1>1. edit[e] \in Request
  BY DEF Typed, RequestOK
<1> QED
  BY <1>1 DEF Request

LEMMA DoneTyped ==
  ASSUME Typed, NEW e \in Editors, edit[e].all # {}, Done(e) \/ Refused(e)
  PROVE  Typed'
<1>1. CASE Done(e)
  <2> DEFINE r == [edit[e] EXCEPT !.pc = IF edit[e].todo = {} THEN "receipt" ELSE "route", !.ops = NoWork, !.seen = None]
  <2>1. edit' = [edit EXCEPT ![e] = r]
    BY <1>1, Zenon DEF Done
  <2>2. RequestOK(r)
    BY DoneIsARequest DEF Typed
  <2> HIDE DEF r
  <2> QED
    BY <2>1, <2>2, OneTyped DEF Typed
<1>2. CASE edit' = [edit EXCEPT ![e] = Over]
  BY <1>2, IdleIsARequest, OneTyped DEF Typed
<1> QED
  BY <1>1, <1>2 DEF Refused

LEMMA HoldsTyped ==
  ASSUME Typed, NEW e \in Editors, NEW pc \in Steps, NEW held \in Intakes \cup {None}, Holds(e, pc, held), edit[e].all # {},
         pc \in {"file", "cutoff", "floor", "setFloor", "load", "notes", "addNote", "write"} => edit[e].cur \in edit[e].all,
         pc \in {"receipt", "addReceipt"} => edit[e].todo = {},
         pc \in {"save", "setFloor", "addNote", "addReceipt", "extract"} => held \in Intakes
  PROVE  Typed'
<1> DEFINE r == [edit[e] EXCEPT !.pc = pc, !.seen = held]
<1>1. edit' = [edit EXCEPT ![e] = r]
  BY Zenon DEF Holds
<1>2. r = [edit[e] EXCEPT !.pc = pc, !.ops = edit[e].ops, !.seen = held] /\ edit[e].ops \in [gone : SUBSET Beats, add : BOOLEAN]
  BY HeldIsHeld DEF Request
<1> HIDE DEF r
<1> QED
  BY <1>1, <1>2, MovesTyped

LEMMA GoesTyped ==
  ASSUME Typed, NEW e \in Editors, NEW pc \in Steps, Goes(e, pc), edit[e].all # {},
         pc \in {"file", "cutoff", "floor", "setFloor", "load", "notes", "addNote", "write"} => edit[e].cur \in edit[e].all,
         pc \in {"receipt", "addReceipt"} => edit[e].todo = {},
         pc \in {"save", "setFloor", "addNote", "addReceipt", "extract"} => edit[e].seen \in Intakes
  PROVE  Typed'
<1> DEFINE r == [edit[e] EXCEPT !.pc = pc]
<1>1. edit' = [edit EXCEPT ![e] = r]
  BY Zenon DEF Goes
<1>2. r = [edit[e] EXCEPT !.pc = pc, !.ops = edit[e].ops, !.seen = edit[e].seen]
      /\ edit[e].ops \in [gone : SUBSET Beats, add : BOOLEAN] /\ edit[e].seen \in Intakes \cup {None}
  BY HeldIsHeld DEF Request
<1> HIDE DEF r
<1> QED
  BY <1>1, <1>2, MovesTyped

\* The request that steps.
LEMMA StepsTyped ==
  ASSUME Typed, intake \in Intakes, month \in [open : BOOLEAN, approved : BOOLEAN], NEW e \in Editors,
         Say(e) \/ Save(e) \/ Promote(e) \/ Touch(e) \/ EditStep(e) \/ AppDies(e), intake' \in Intakes
  PROVE  Typed'
<1>0. RequestOK(edit[e]) /\ edit[e] \in Request
  BY DEF Typed, RequestOK
<1>1. CASE Say(e) \/ Touch(e)
  <2>1. ASSUME NEW kind \in {"say", "move", "drop", "restore", "add"}, NEW inputs \in SUBSET Inputs,
               NEW b \in Beats \cup {None}, NEW pc \in {"route", "row"}, pc = "route" => inputs # {},
               Begins(e, kind, inputs, b, pc)
        PROVE  Typed'
    <3> DEFINE r == [Idle EXCEPT !.pc = pc, !.kind = kind, !.all = inputs, !.todo = inputs, !.b = b, !.late = month.approved]
    <3>1. edit' = [edit EXCEPT ![e] = r]
      BY <2>1 DEF Begins
    <3>2. RequestOK(r)
      BY <2>1, BegunIsARequest
    <3> HIDE DEF r
    <3> QED
      BY <3>1, <3>2, OneTyped DEF Typed
  <2>2. ASSUME Say(e) PROVE Typed'
    <3>1. PICK inputs \in (SUBSET Inputs) \ {{}} : Begins(e, "say", inputs, None, "route")
      BY <2>2 DEF Say
    <3> QED
      BY <2>1, <3>1
  <2>3. Touch(e) => Typed'
    BY <2>1 DEF Touch, Drafts
  <2> QED
    BY <1>1, <2>2, <2>3
<1>2. CASE Save(e)
  <2>1. PICK i \in Inputs :
          edit' = [edit EXCEPT ![e] = [Idle EXCEPT !.pc = "save", !.kind = "save", !.all = {i},
                     !.todo = {i}, !.seen = intake, !.late = month.approved, !.shapes = Drafts # {}]]
    BY <1>2 DEF Save
  <2> DEFINE r == [Idle EXCEPT !.pc = "save", !.kind = "save", !.all = {i},
                     !.todo = {i}, !.seen = intake, !.late = month.approved, !.shapes = Drafts # {}]
  <2>2. r \in Request /\ r.pc = "save" /\ r.kind = "save" /\ r.all = {i} /\ r.todo = {i} /\ r.seen = intake
    BY IdleIsARequest DEF Request, Steps, Kinds
  <2>3. edit' = [edit EXCEPT ![e] = r]
    BY <2>1
  <2> HIDE DEF r
  <2> QED
    BY <2>2, <2>3, OneTyped DEF Typed, RequestOK
<1>3. CASE Promote(e)
  <2>1. PICK i \in Inputs :
          edit' = [edit EXCEPT ![e] = [Idle EXCEPT !.pc = "cutoff", !.kind = "promote", !.all = {i}, !.cur = i,
                     !.late = month.approved]]
    BY <1>3 DEF Promote
  <2> DEFINE r == [Idle EXCEPT !.pc = "cutoff", !.kind = "promote", !.all = {i}, !.cur = i, !.late = month.approved]
  <2>2. r \in Request /\ r.pc = "cutoff" /\ r.kind = "promote" /\ r.all = {i} /\ r.cur = i /\ r.todo = {}
    BY IdleIsARequest DEF Request, Steps, Kinds, Idle
  <2>3. edit' = [edit EXCEPT ![e] = r]
    BY <2>1
  <2> HIDE DEF r
  <2> QED
    BY <2>2, <2>3, OneTyped DEF Typed, RequestOK
<1>4. CASE AppDies(e) \/ EditRow(e) \/ Use(e)
  <2>1. edit' = [edit EXCEPT ![e] = Over]
    BY <1>4 DEF AppDies, EditRow, Use
  <2> QED
    BY <2>1, IdleIsARequest, OneTyped DEF Typed
<1>5. ASSUME EditStep(e), ~EditRow(e)
      PROVE  edit[e].all # {}
  <2>1. edit[e].pc \notin {"idle", "row", "done"}
    <3>1. CASE ReadIntake(e)
      BY <3>1 DEF ReadIntake
    <3> QED
      BY <1>5, <3>1 DEF EditStep, Route, File, Cutoff, SetFloor, AddNote, Clear, Load, Write, AddReceipt, Use, SaveWrites,
           Extract
  <2> QED
    BY <1>0, <2>1 DEF RequestOK
<1>6. CASE Route(e)
  <2>1. PICK i \in edit[e].todo, pc \in {"file", "cutoff", "receipt", "route"} :
          /\ pc = "receipt" => edit[e].todo = {i}
          /\ edit' = [edit EXCEPT ![e].todo = @ \ {i}, ![e].cur = i, ![e].pc = pc]
    BY <1>6, Zenon DEF Route
  <2> DEFINE r == [edit[e] EXCEPT !.todo = @ \ {i}, !.cur = i, !.pc = pc]
  <2>2. edit' = [edit EXCEPT ![e] = r]
    BY <2>1, Zenon
  <2>3. i \in Inputs /\ i \in edit[e].all /\ edit[e].todo \ {i} \subseteq edit[e].all
    BY <1>0 DEF RequestOK, Request
  <2>4. r \in Request /\ r.pc = pc /\ r.kind = edit[e].kind /\ r.all = edit[e].all /\ r.cur = i /\ r.todo = edit[e].todo \ {i}
    BY <1>0, <2>3 DEF Request, Steps
  <2> HIDE DEF r
  <2>5. RequestOK(r)
    BY <2>1, <2>3, <2>4 DEF RequestOK
  <2> QED
    BY <2>2, <2>5, OneTyped DEF Typed
<1>7. CASE File(e) \/ Write(e)
  BY <1>5, <1>7, DoneTyped DEF File, Write, EditStep, EditRow
<1>8. CASE Cutoff(e)
  <2>1. edit[e].all # {} /\ edit[e].cur \in edit[e].all
    BY <1>0, <1>8 DEF Cutoff, RequestOK
  <2>2. Refused(e) \/ Goes(e, "load") \/ Goes(e, "floor")
    BY <1>8 DEF Cutoff
  <2> QED
    BY <2>1, <2>2, DoneTyped, GoesTyped DEF Steps
<1>9. CASE ReadIntake(e)
  <2>1. \/ edit[e].pc = "floor" /\ Holds(e, "setFloor", intake)
        \/ edit[e].pc = "notes" /\ Holds(e, "addNote", intake)
        \/ edit[e].pc = "receipt" /\ Holds(e, "addReceipt", intake)
    <3>1. PICK at \in {<<"floor", "setFloor">>, <<"notes", "addNote">>, <<"receipt", "addReceipt">>} :
            edit[e].pc = at[1] /\ Holds(e, at[2], intake)
      BY <1>9 DEF ReadIntake, Holds
    <3> QED
      BY <3>1
  <2>2. /\ edit[e].all # {}
        /\ edit[e].pc \in {"floor", "notes"} => edit[e].cur \in edit[e].all
        /\ edit[e].pc = "receipt" => edit[e].todo = {}
    BY <1>0, <2>1 DEF RequestOK
  <2> QED
    BY <2>1, <2>2, HoldsTyped DEF Steps
<1>10. CASE SetFloor(e) \/ SaveWrites(e)
  <2>1. edit[e].all # {} /\ (edit[e].pc = "setFloor" => edit[e].cur \in edit[e].all)
    BY <1>0, <1>10 DEF SetFloor, SaveWrites, RequestOK
  <2>2. (edit[e].pc = "setFloor" /\ Holds(e, "load", None)) \/ Holds(e, "clear", intake')
    BY <1>10 DEF SetFloor, SaveWrites, Holds
  <2> QED
    BY <2>1, <2>2, HoldsTyped DEF Steps
<1>11. CASE AddNote(e) \/ AddReceipt(e) \/ Extract(e)
  <2>1. edit[e].all # {}
    BY <1>0, <1>11 DEF AddNote, AddReceipt, Extract, RequestOK
  <2>2. Done(e) \/ edit' = [edit EXCEPT ![e] = Over] \/ \E pc \in {"clear", "use", "route"} : Holds(e, pc, None)
    BY <1>11 DEF AddNote, AddReceipt, Extract, Holds
  <2>3. edit' = [edit EXCEPT ![e] = Over] => Typed'
    BY IdleIsARequest, OneTyped DEF Typed
  <2> QED
    BY <2>1, <2>2, <2>3, DoneTyped, HoldsTyped DEF Steps
<1>12. CASE Clear(e)
  <2>1. edit[e].all # {} /\ edit[e].seen \in Intakes \cup {None}
    BY <1>0, <1>12 DEF Clear, RequestOK, Request
  <2>2. Done(e) \/ (edit[e].seen # None /\ Goes(e, "extract"))
    BY <1>12, Zenon DEF Clear
  <2> QED
    BY <2>1, <2>2, DoneTyped, GoesTyped DEF Steps
<1>13. CASE Load(e)
  <2>1. edit[e].all # {} /\ edit[e].cur \in edit[e].all
    BY <1>0, <1>13 DEF Load, RequestOK
  <2>2. ASSUME NEW ops \in [gone : SUBSET Beats, add : BOOLEAN], edit' = [edit EXCEPT ![e].pc = "write", ![e].ops = ops]
        PROVE  Typed'
    <3> DEFINE r == [edit[e] EXCEPT !.pc = "write", !.ops = ops]
    <3>1. edit' = [edit EXCEPT ![e] = r]
      BY <2>2, Zenon
    <3>2. r = [edit[e] EXCEPT !.pc = "write", !.ops = ops, !.seen = edit[e].seen] /\ edit[e].seen \in Intakes \cup {None}
      BY <1>0, HeldIsHeld DEF Request
    <3> HIDE DEF r
    <3> QED
      BY <2>1, <3>1, <3>2, MovesTyped DEF Steps
  <2>3. \/ Done(e) \/ Refused(e)
        \/ \E ops \in [gone : SUBSET Beats, add : BOOLEAN] : edit' = [edit EXCEPT ![e].pc = "write", ![e].ops = ops]
        \/ \E pc \in {"notes", "file"} : Goes(e, pc)
    <3>1. ASSUME NEW gone \in SUBSET {b \in Drafts : ~beat[b].hand}, NEW add \in BOOLEAN
          PROVE  [gone |-> gone, add |-> add] \in [gone : SUBSET Beats, add : BOOLEAN]
      BY DEF Drafts
    <3> QED
      BY <1>13, <3>1 DEF Load
  <2> QED
    BY <2>1, <2>2, <2>3, DoneTyped, GoesTyped DEF Steps
<1> QED
  BY <1>1, <1>2, <1>3, <1>4, <1>6, <1>7, <1>8, <1>9, <1>10, <1>11, <1>12, <1>13 DEF EditStep

\* intake_json stays one, whoever writes back the value it holds.
LEMMA PushIsCapped ==
  ASSUME NEW receipts \in Seq((SUBSET Inputs) \ {{}}), NEW r \in (SUBSET Inputs) \ {{}}
  PROVE  Push(receipts, r) \in Seq((SUBSET Inputs) \ {{}}) /\ Len(Push(receipts, r)) <= MaxReceipts
<1> DEFINE all == <<r>> \o receipts
<1>1. all \in Seq((SUBSET Inputs) \ {{}}) /\ Len(all) \in Nat
  OBVIOUS
<1> HIDE DEF all
<1>2. Push(receipts, r) = IF Len(all) > MaxReceipts THEN SubSeq(all, 1, MaxReceipts) ELSE all
  BY DEF Push, all
<1>3. CASE Len(all) > MaxReceipts
  <2>1. MaxReceipts \in 1..Len(all)
    BY <1>1, <1>3, DeskAssumption
  <2>2. SubSeq(all, 1, MaxReceipts) \in Seq((SUBSET Inputs) \ {{}}) /\ Len(SubSeq(all, 1, MaxReceipts)) = MaxReceipts
    BY <1>1, <2>1
  <2> QED
    BY <1>2, <1>3, <2>1, <2>2
<1>4. CASE ~(Len(all) > MaxReceipts)
  BY <1>1, <1>2, <1>4, DeskAssumption
<1> QED
  BY <1>3, <1>4

LEMMA IntakeTyped ==
  ASSUME Typed, intake \in Intakes, NEW e \in Editors,
         Say(e) \/ Save(e) \/ Promote(e) \/ Touch(e) \/ EditStep(e) \/ AppDies(e)
  PROVE  intake' \in Intakes
<1> DEFINE seen == edit[e].seen
<1>0. RequestOK(edit[e]) /\ edit[e] \in Request
  BY DEF Typed, RequestOK
<1>1. ASSUME seen \in Intakes, NEW i \in Inputs \cup {None}
      PROVE  [seen EXCEPT !.floor = i] \in Intakes
  BY <1>1 DEF Intakes
<1>2. ASSUME seen \in Intakes, NEW N \in SUBSET Inputs
      PROVE  [seen EXCEPT !.notes = @ \cup N] \in Intakes
  BY <1>2 DEF Intakes
<1>3. ASSUME seen \in Intakes, NEW r \in (SUBSET Inputs) \ {{}}
      PROVE  [seen EXCEPT !.receipts = Push(@, r)] \in Intakes
  <2>1. seen.receipts \in Seq((SUBSET Inputs) \ {{}})
    BY <1>3 DEF Intakes
  <2>2. Push(seen.receipts, r) \in Seq((SUBSET Inputs) \ {{}}) /\ Len(Push(seen.receipts, r)) <= MaxReceipts
    BY <2>1, PushIsCapped
  <2> QED
    BY <1>3, <2>2 DEF Intakes
<1>4. CASE SetFloor(e)
  BY <1>0, <1>1, <1>4 DEF SetFloor, RequestOK, Request
<1>5. CASE AddNote(e)
  <2>1. seen \in Intakes /\ {edit[e].cur} \subseteq Inputs
    BY <1>0, <1>5 DEF AddNote, RequestOK, Request
  <2> QED
    BY <1>2, <1>5, <2>1 DEF AddNote
<1>6. CASE AddReceipt(e)
  <2>1. seen \in Intakes /\ edit[e].all \in (SUBSET Inputs) \ {{}}
    <3>1. edit[e].all \in SUBSET Inputs
      BY <1>0 DEF Request
    <3>2. seen \in Intakes /\ edit[e].all # {}
      BY <1>0, <1>6 DEF AddReceipt, RequestOK
    <3> QED
      BY <3>1, <3>2
  <2> QED
    BY <1>3, <1>6, <2>1 DEF AddReceipt
<1>7. CASE SaveWrites(e)
  <2>1. seen \in Intakes /\ edit[e].all \in SUBSET Inputs
    BY <1>0, <1>7 DEF SaveWrites, RequestOK, Request
  <2> QED
    BY <1>2, <1>7, <2>1 DEF SaveWrites
<1>8. SetFloor(e) \/ AddNote(e) \/ AddReceipt(e) \/ SaveWrites(e) \/ UNCHANGED intake
  BY DEF Say, Save, Promote, Touch, Begins, AppDies, EditStep, EditRow, Route, File, Cutoff, ReadIntake, Clear, Load,
         Write, Use, Extract
<1> QED
  BY <1>4, <1>5, <1>6, <1>7, <1>8

LEMMA RowsTyped ==
  ASSUME beat \in [Beats -> Row], [DeskNext]_deskVars
  PROVE  beat' \in [Beats -> Row]
<1>1. ASSUME NEW rows \in [Beats -> Row], NEW hand \in BOOLEAN
      PROVE  Insert(rows, hand) \in [Beats -> Row]
  <2> DEFINE at == CHOOSE b \in {b \in Beats : rows[b].status = "none"} : TRUE
             row == [NoRow EXCEPT !.status = "draft", !.hand = hand]
  <2>1. Insert(rows, hand) = rows \/ Insert(rows, hand) = [rows EXCEPT ![at] = row]
    BY DEF Insert
  <2>2. row \in Row
    BY DEF NoRow, Row
  <2> HIDE DEF at, row
  <2> QED
    BY <2>1, <2>2
<1>2. ASSUME NEW ids
      PROVE  Retire(beat, ids) \in [Beats -> Row]
  <2>1. NoRow \in Row /\ \A r \in Row : [r EXCEPT !.gone = TRUE] \in Row
    BY DEF NoRow, Row
  <2> QED
    BY <2>1 DEF Retire
<1>3. ASSUME NEW e \in Editors, EditRow(e)
      PROVE  beat' \in [Beats -> Row]
  <2>1. \A r \in Row : [r EXCEPT !.hand = TRUE] \in Row /\ [r EXCEPT !.gone = TRUE] \in Row /\ [r EXCEPT !.gone = FALSE] \in Row
    BY DEF Row
  <2>2. \/ UNCHANGED beat
        \/ beat' = [beat EXCEPT ![edit[e].b].hand = TRUE]
        \/ beat' = [beat EXCEPT ![edit[e].b].gone = TRUE]
        \/ beat' = [beat EXCEPT ![edit[e].b].gone = FALSE]
        \/ beat' = Insert(beat, TRUE)
    BY <1>3 DEF EditRow, Writes
  <2>3. CASE edit[e].b \in Beats
    <3>1. /\ [beat EXCEPT ![edit[e].b].hand = TRUE] \in [Beats -> Row]
          /\ [beat EXCEPT ![edit[e].b].gone = TRUE] \in [Beats -> Row]
          /\ [beat EXCEPT ![edit[e].b].gone = FALSE] \in [Beats -> Row]
      BY <2>1, <2>3
    <3>2. Insert(beat, TRUE) \in [Beats -> Row]
      BY <1>1
    <3> QED
      BY <2>2, <3>1, <3>2
  <2>4. CASE edit[e].b \notin Beats
    <3>1. \A row : [beat EXCEPT ![edit[e].b] = row] = beat
      BY <2>4
    <3>2. beat' = beat \/ beat' = Insert(beat, TRUE)
      BY <2>2, <3>1
    <3> QED
      BY <1>1, <3>2
  <2> QED
    BY <2>3, <2>4
<1>4. ASSUME NEW e \in Editors, Write(e)
      PROVE  beat' \in [Beats -> Row]
  <2>1. \E rest \in [Beats -> Row] : beat' = rest \/ beat' = Insert(rest, FALSE)
    BY <1>2, <1>4 DEF Write, Writes
  <2> QED
    BY <1>1, <2>1
<1>5. CASE AssemblyWrites
  BY <1>1, <1>2, <1>5 DEF AssemblyWrites
<1>6. CASE ApprovalCommits
  <2>1. \A r \in Row : [r EXCEPT !.status = "generating"] \in Row
    BY DEF Row
  <2> QED
    BY <1>6, <2>1 DEF ApprovalCommits
<1>7. ASSUME NEW e \in Editors,
             \/ Say(e) \/ Save(e) \/ Promote(e) \/ Touch(e) \/ AppDies(e)
             \/ Route(e) \/ File(e) \/ Cutoff(e) \/ ReadIntake(e) \/ SetFloor(e) \/ AddNote(e) \/ Clear(e)
             \/ Load(e) \/ AddReceipt(e) \/ Use(e) \/ SaveWrites(e) \/ Extract(e)
      PROVE  UNCHANGED beat
  BY <1>7 DEF Say, Save, Promote, Touch, Begins, AppDies, Route, File, Cutoff, ReadIntake, SetFloor, AddNote,
              Clear, Load, AddReceipt, Use, SaveWrites, Extract
<1>8. ApprovalSees \/ Closes \/ AssemblyStarts \/ UNCHANGED deskVars => UNCHANGED beat
  BY DEF ApprovalSees, Closes, AssemblyStarts
<1> QED
  BY <1>3, <1>4, <1>5, <1>6, <1>7, <1>8 DEF DeskNext, EditStep

LEMMA DeskTypesInit == DeskInit => DeskTypeOK
<1> SUFFICES ASSUME DeskInit PROVE DeskTypeOK
  OBVIOUS
<1>1. beat \in [Beats -> Row]
  <2>1. PICK first \in Beats, edited \in BOOLEAN :
          beat = [b \in Beats |-> IF b = first THEN [NoRow EXCEPT !.status = "draft", !.edited = edited] ELSE NoRow]
    BY DEF DeskInit
  <2>2. NoRow \in Row /\ [NoRow EXCEPT !.status = "draft", !.edited = edited] \in Row
    BY DEF Row, NoRow
  <2> QED
    BY <2>1, <2>2
<1>2. intake \in Intakes
  <2>1. intake = [receipts |-> <<>>, floor |-> None, notes |-> {}]
    BY DEF DeskInit
  <2>2. <<>> \in Seq((SUBSET Inputs) \ {{}}) /\ Len(<<>>) = 0 /\ 0 <= MaxReceipts
    BY DeskAssumption
  <2> QED
    BY <2>1, <2>2 DEF Intakes
<1>3. DOMAIN edit = Editors /\ \A e \in Editors : RequestOK(edit[e])
  <2>1. RequestOK(Idle)
    BY IdleIsARequest DEF RequestOK, Idle
  <2> QED
    BY <2>1 DEF DeskInit
<1>4. ideas \in [Inputs -> {"none", "candidate", "used"}] /\ month \in [open : BOOLEAN, approved : BOOLEAN]
  BY DEF DeskInit
<1>5. approving \in BOOLEAN /\ assembling \in BOOLEAN /\ placed \subseteq Inputs /\ trespass \in BOOLEAN
  BY DEF DeskInit
<1>6. brief \in (SUBSET Inputs) \cup {None}
  BY DEF DeskInit
<1> QED
  BY <1>1, <1>2, <1>3, <1>4, <1>5, <1>6 DEF DeskTypeOK

LEMMA DeskTypesKept == DeskTypeOK /\ [DeskNext]_deskVars => DeskTypeOK'
<1> SUFFICES ASSUME DeskTypeOK, [DeskNext]_deskVars PROVE DeskTypeOK'
  OBVIOUS
<1>0. Typed
  BY DEF DeskTypeOK, Typed
<1>1. beat' \in [Beats -> Row]
  BY RowsTyped DEF DeskTypeOK
<1>2. ASSUME NEW e \in Editors, Say(e) \/ Save(e) \/ Promote(e) \/ Touch(e) \/ EditStep(e) \/ AppDies(e)
      PROVE  DeskTypeOK'
  <2>1. intake' \in Intakes
    BY <1>0, <1>2, IntakeTyped DEF DeskTypeOK
  <2>2. Typed'
    BY <1>0, <1>2, <2>1, StepsTyped DEF DeskTypeOK
  <2>3. RequestOK(edit[e]) /\ edit[e] \in Request
    BY <1>0 DEF Typed, RequestOK
  <2>4. UNCHANGED <<month, approving, assembling>>
    BY <1>2 DEF Say, Save, Promote, Touch, Begins, AppDies, EditStep, EditRow, Route, File, Cutoff, ReadIntake, SetFloor,
                AddNote, Clear, Load, Write, AddReceipt, Use, SaveWrites, Extract
  <2>5. ideas' \in [Inputs -> {"none", "candidate", "used"}]
    <3>1. \/ UNCHANGED ideas \/ \E s \in {"candidate", "used"} : ideas' = [ideas EXCEPT ![edit[e].cur] = s]
      BY <1>2 DEF Say, Save, Promote, Touch, Begins, AppDies, EditStep, EditRow, Route, File, Cutoff, ReadIntake, SetFloor,
                  AddNote, Clear, Load, Write, AddReceipt, Use, SaveWrites, Extract
    <3> QED
      BY <3>1 DEF DeskTypeOK
  <2>6. brief' \in (SUBSET Inputs) \cup {None}
    <3>1. CASE Extract(e)
      <4>1. edit[e].seen.notes \in SUBSET Inputs
        BY <2>3, <3>1 DEF Extract, RequestOK, Intakes
      <4> QED
        BY <3>1, <4>1 DEF Extract, DeskTypeOK
    <3>2. CASE Clear(e)
      <4>1. brief' = brief \/ brief' = None
        BY <3>2, Zenon DEF Clear
      <4>2. brief \in (SUBSET Inputs) \cup {None}
        BY DEF DeskTypeOK
      <4> QED
        BY <4>1, <4>2
    <3>3. CASE UNCHANGED brief
      BY <3>3 DEF DeskTypeOK
    <3> QED
      BY <1>2, <3>1, <3>2, <3>3 DEF Say, Save, Promote, Touch, Begins, AppDies, EditStep, EditRow, Route, File, Cutoff,
           ReadIntake, SetFloor, AddNote, Load, Write, AddReceipt, Use, SaveWrites
  <2>7. placed' \subseteq Inputs
    <3>1. CASE Write(e)
      <4>1. edit[e].cur \in Inputs
        BY <2>3, <3>1 DEF Write, RequestOK, Request
      <4> QED
        BY <3>1, <4>1 DEF Write, DeskTypeOK
    <3>2. CASE UNCHANGED placed
      BY <3>2 DEF DeskTypeOK
    <3> QED
      BY <1>2, <3>1, <3>2 DEF Say, Save, Promote, Touch, Begins, AppDies, EditStep, EditRow, Route, File, Cutoff,
           ReadIntake, SetFloor, AddNote, Clear, Load, AddReceipt, Use, SaveWrites, Extract
  <2>8. trespass' \in BOOLEAN
    <3>1. CASE EditRow(e) \/ Write(e)
      <4>1. PICK rows : trespass' = (trespass \/ (edit[e].late /\ rows # beat))
        BY <3>1 DEF EditRow, Write, Writes
      <4> QED
        BY <4>1
    <3>2. CASE UNCHANGED trespass
      BY <3>2 DEF DeskTypeOK
    <3> QED
      BY <1>2, <3>1, <3>2 DEF Say, Save, Promote, Touch, Begins, AppDies, EditStep, Route, File, Cutoff,
           ReadIntake, SetFloor, AddNote, Clear, Load, AddReceipt, Use, SaveWrites, Extract
  <2> QED
    BY <1>1, <2>1, <2>2, <2>4, <2>5, <2>6, <2>7, <2>8 DEF DeskTypeOK, Typed
<1>3. CASE ApprovalSees \/ ApprovalCommits \/ Closes \/ AssemblyStarts \/ AssemblyWrites \/ UNCHANGED deskVars
  <2>1. UNCHANGED <<intake, edit, ideas, brief, placed, trespass>>
    BY <1>3 DEF ApprovalSees, ApprovalCommits, Closes, AssemblyStarts, AssemblyWrites
  <2>2. month' \in [open : BOOLEAN, approved : BOOLEAN] /\ approving' \in BOOLEAN /\ assembling' \in BOOLEAN
    BY <1>3 DEF ApprovalSees, ApprovalCommits, Closes, AssemblyStarts, AssemblyWrites, DeskTypeOK
  <2> QED
    BY <1>1, <2>1, <2>2 DEF DeskTypeOK
<1> QED
  BY <1>2, <1>3 DEF DeskNext

\* Every request is at a step of the code with what that step needs at hand, intake_json is
\* whole and holds at most MAX_RECEIPTS receipts, whoever writes it back.
THEOREM DeskTypes == DeskSpec => []DeskTypeOK
  BY DeskTypesInit, DeskTypesKept, PTL DEF DeskSpec


-----------------------------------------------------------------------------
(* What a report says of a turn's changes.                                 *)

\* A handler works under its claim, and nobody else does.
HandlersHold ==
  /\ \A s \in Screens : apply[s].pc \in Handled =>
       proposal[apply[s].cur] = "approved" /\ apply[s].cur \in apply[s].won
  /\ \A s, t \in Screens :
       s # t /\ apply[s].pc \in Handled /\ apply[t].pc \in Handled => apply[s].cur # apply[t].cur

\* Where a handler is tells whether its change has been made.
HandlersMake ==
  \A s \in Screens :
    /\ apply[s].pc \in {"judge", "land"} => made[apply[s].cur] = 0
    /\ apply[s].pc = "finish" => made[apply[s].cur] = 1 \/ subject[apply[s].cur] = "removed"

\* An answer to the screen's own claim tells what became of the change.
AnswersAreTrue ==
  \A s \in Screens : apply[s].pc = "answer" =>
    /\ apply[s].answer = "failed" => proposal[apply[s].cur] = "failed"
    /\ apply[s].cur \in apply[s].won =>
         /\ apply[s].answer \in {"applied", "failed", "lost"}
         /\ apply[s].answer = "applied" => made[apply[s].cur] = 1 \/ subject[apply[s].cur] = "removed"
         /\ apply[s].answer = "failed" /\ apply[s].cur \notin apply[s].threw => made[apply[s].cur] = 0

\* A screen asks for a change it has counted no second time.
EachOnce ==
  \A s \in Screens :
    /\ apply[s].applied \cap apply[s].todo = {}
    /\ apply[s].pass = 1 => apply[s].blocked \cap (apply[s].todo \cup apply[s].applied) = {}
    /\ apply[s].pc = "await" => apply[s].pass = 1
    /\ apply[s].pc \in Handled \cup {"answer"} => apply[s].cur \in apply[s].todo

\* A post that a move is about is there from the start, and that of an add with the add.
SubjectsFollow ==
  \A c \in Changes :
    /\ Kind[c] = "move" => subject[c] # "none"
    /\ Kind[c] = "add" /\ subject[c] # "none" => made[c] = 1

\* A refusal is final.
RefusalsStand == \A s \in Screens : \A c \in apply[s].refused : proposal[c] = "failed"

\* What the client reads is true, and why: a handler works under its claim, which tells
\* whether the change is made, its answer says so, and no screen asks twice.
ChangesInv ==
  /\ ChangesTypeOK /\ SubjectsFollow /\ HandlersHold /\ HandlersMake /\ AnswersAreTrue
  /\ EachOnce /\ RefusalsStand /\ LandsOnce /\ ReportedIsIn /\ RefusedIsOut

\* A claim takes a proposal that nobody has made: its change is still to come.
LEMMA ClaimsKeeps ==
  ASSUME NEW s \in Screens, ChangesInv, NEW c \in apply[s].todo, ClaimsProposal(s, c), apply[s].pc = "send"
  PROVE  ChangesInv'
<1>1. ChangesTypeOK'
  <2> DEFINE a == [apply[s] EXCEPT !.pc = "judge", !.cur = c, !.job = FALSE, !.won = @ \cup {c},
                               !.threw = @ \ {c}]
  <2>1. apply[s] \in Applies /\ c \in Changes
    BY DEFS ClaimsProposal, ChangesInv, ChangesTypeOK, Applies, Handled
  <2>2. a \in Applies
    BY <2>1 DEFS Applies, Handled, Statuses
  <2>3. apply' = [apply EXCEPT ![s] = a]
    BY DEFS ClaimsProposal, ChangesInv, ChangesTypeOK
  <2> QED
    BY ChangeAssumption, <2>1, <2>2, <2>3 DEFS ClaimsProposal, ChangesInv, ChangesTypeOK,
      Statuses, posts
<1>2. SubjectsFollow' /\ LandsOnce'
  BY DEFS ClaimsProposal, ChangesInv, ChangesTypeOK, Applies, Handled, posts, SubjectsFollow,
    HandlersHold, HandlersMake, LandsOnce
<1>3. HandlersHold'
  BY DEFS ClaimsProposal, ChangesInv, ChangesTypeOK, Applies, Handled, posts, HandlersHold
<1>4. HandlersMake'
  BY DEFS ClaimsProposal, ChangesInv, ChangesTypeOK, Applies, Handled, posts, HandlersMake,
    SubjectsFollow, HandlersHold, LandsOnce
<1>5. AnswersAreTrue'
  BY DEFS ClaimsProposal, ChangesInv, ChangesTypeOK, Applies, Handled, posts, AnswersAreTrue,
    SubjectsFollow, HandlersHold, HandlersMake, RefusalsStand
<1>6. EachOnce'
  BY DEFS ClaimsProposal, ChangesInv, ChangesTypeOK, Applies, Handled, posts, EachOnce
<1>7. RefusalsStand'
  BY DEFS ClaimsProposal, ChangesInv, ChangesTypeOK, Applies, Handled, posts, RefusalsStand,
    HandlersHold, AnswersAreTrue
<1>8. ReportedIsIn'
  BY DEFS ClaimsProposal, ChangesInv, ChangesTypeOK, Applies, Handled, posts, ReportedIsIn,
    SubjectsFollow, HandlersHold, HandlersMake, AnswersAreTrue, EachOnce
<1>9. RefusedIsOut'
  BY DEFS ClaimsProposal, ChangesInv, ChangesTypeOK, Applies, Handled, posts, RefusedIsOut,
    HandlersHold, AnswersAreTrue, EachOnce, RefusalsStand
<1> QED
  BY <1>1, <1>2, <1>3, <1>4, <1>5, <1>6, <1>7, <1>8, <1>9 DEF ChangesInv

\* An answer about somebody else's work says nothing of a claim.
LEMMA FindsResolvedKeeps ==
  ASSUME NEW s \in Screens, ChangesInv, NEW c \in apply[s].todo, FindsItResolved(s, c), apply[s].pc = "send"
  PROVE  ChangesInv'
<1>1. ChangesTypeOK'
  <2> DEFINE a == [apply[s] EXCEPT !.pc = "answer", !.cur = c, !.job = FALSE, !.won = @ \ {c},
                               !.answer = proposal[c]]
  <2>1. apply[s] \in Applies /\ c \in Changes /\ proposal[c] \in Statuses
    BY DEFS FindsItResolved, ChangesInv, ChangesTypeOK, Applies, Handled
  <2>2. a \in Applies
    BY <2>1 DEFS Applies, Handled, Statuses
  <2>3. apply' = [apply EXCEPT ![s] = a]
    BY DEFS FindsItResolved, ChangesInv, ChangesTypeOK
  <2> QED
    BY ChangeAssumption, <2>1, <2>2, <2>3 DEFS FindsItResolved, ChangesInv, ChangesTypeOK,
      Statuses, posts
<1>2. SubjectsFollow' /\ LandsOnce'
  BY DEFS FindsItResolved, ChangesInv, ChangesTypeOK, Applies, Handled, posts, SubjectsFollow,
    HandlersHold, HandlersMake, LandsOnce
<1>3. HandlersHold'
  BY DEFS FindsItResolved, ChangesInv, ChangesTypeOK, Applies, Handled, posts, HandlersHold
<1>4. HandlersMake'
  BY DEFS FindsItResolved, ChangesInv, ChangesTypeOK, Applies, Handled, posts, HandlersMake,
    SubjectsFollow, HandlersHold, LandsOnce
<1>5. AnswersAreTrue'
  BY DEFS FindsItResolved, ChangesInv, ChangesTypeOK, Applies, Handled, posts, AnswersAreTrue,
    SubjectsFollow, HandlersHold, HandlersMake, RefusalsStand
<1>6. EachOnce'
  BY DEFS FindsItResolved, ChangesInv, ChangesTypeOK, Applies, Handled, posts, EachOnce
<1>7. RefusalsStand'
  BY DEFS FindsItResolved, ChangesInv, ChangesTypeOK, Applies, Handled, posts, RefusalsStand,
    HandlersHold, AnswersAreTrue
<1>8. ReportedIsIn'
  BY DEFS FindsItResolved, ChangesInv, ChangesTypeOK, Applies, Handled, posts, ReportedIsIn,
    SubjectsFollow, HandlersHold, HandlersMake, AnswersAreTrue, EachOnce
<1>9. RefusedIsOut'
  BY DEFS FindsItResolved, ChangesInv, ChangesTypeOK, Applies, Handled, posts, RefusedIsOut,
    HandlersHold, AnswersAreTrue, EachOnce, RefusalsStand
<1> QED
  BY <1>1, <1>2, <1>3, <1>4, <1>5, <1>6, <1>7, <1>8, <1>9 DEF ChangesInv

\* A claim is given back before anything is made.
LEMMA UnclaimsKeeps ==
  ASSUME NEW s \in Screens, ChangesInv, Unclaims(s)
  PROVE  ChangesInv'
<1>1. ChangesTypeOK'
  <2> DEFINE a == [apply[s] EXCEPT !.pc = "answer", !.answer = "blocked", !.won = @ \ {apply[s].cur}]
  <2>1. apply[s] \in Applies /\ apply[s].cur \in Changes
    BY DEFS Unclaims, ChangesInv, ChangesTypeOK, Applies, Handled
  <2>2. a \in Applies
    BY <2>1 DEFS Applies, Handled, Statuses
  <2>3. apply' = [apply EXCEPT ![s] = a]
    BY DEFS Unclaims, ChangesInv, ChangesTypeOK
  <2> QED
    BY ChangeAssumption, <2>1, <2>2, <2>3 DEFS Unclaims, ChangesInv, ChangesTypeOK, Statuses,
      posts
<1>2. SubjectsFollow' /\ LandsOnce'
  BY DEFS Unclaims, ChangesInv, ChangesTypeOK, Applies, Handled, posts, SubjectsFollow,
    HandlersHold, HandlersMake, LandsOnce
<1>3. HandlersHold'
  BY DEFS Unclaims, ChangesInv, ChangesTypeOK, Applies, Handled, posts, HandlersHold
<1>4. HandlersMake'
  BY DEFS Unclaims, ChangesInv, ChangesTypeOK, Applies, Handled, posts, HandlersMake,
    SubjectsFollow, HandlersHold, LandsOnce
<1>5. AnswersAreTrue'
  BY DEFS Unclaims, ChangesInv, ChangesTypeOK, Applies, Handled, posts, AnswersAreTrue,
    SubjectsFollow, HandlersHold, HandlersMake, RefusalsStand
<1>6. EachOnce'
  BY DEFS Unclaims, ChangesInv, ChangesTypeOK, Applies, Handled, posts, EachOnce
<1>7. RefusalsStand'
  BY DEFS Unclaims, ChangesInv, ChangesTypeOK, Applies, Handled, posts, RefusalsStand,
    HandlersHold, AnswersAreTrue
<1>8. ReportedIsIn'
  BY DEFS Unclaims, ChangesInv, ChangesTypeOK, Applies, Handled, posts, ReportedIsIn,
    SubjectsFollow, HandlersHold, HandlersMake, AnswersAreTrue, EachOnce
<1>9. RefusedIsOut'
  BY DEFS Unclaims, ChangesInv, ChangesTypeOK, Applies, Handled, posts, RefusedIsOut,
    HandlersHold, AnswersAreTrue, EachOnce, RefusalsStand
<1> QED
  BY <1>1, <1>2, <1>3, <1>4, <1>5, <1>6, <1>7, <1>8, <1>9 DEF ChangesInv

\* A refusal comes before the change.
LEMMA RefusesKeeps ==
  ASSUME NEW s \in Screens, ChangesInv, Refuses(s)
  PROVE  ChangesInv'
<1>1. ChangesTypeOK'
  <2> DEFINE a == [apply[s] EXCEPT !.pc = "answer", !.answer = "failed"]
  <2>1. apply[s] \in Applies /\ apply[s].cur \in Changes
    BY DEFS Refuses, ChangesInv, ChangesTypeOK, Applies, Handled
  <2>2. a \in Applies
    BY <2>1 DEFS Applies, Handled, Statuses
  <2>3. apply' = [apply EXCEPT ![s] = a]
    BY DEFS Refuses, ChangesInv, ChangesTypeOK
  <2> QED
    BY ChangeAssumption, <2>1, <2>2, <2>3 DEFS Refuses, ChangesInv, ChangesTypeOK, Statuses,
      posts
<1>2. SubjectsFollow' /\ LandsOnce'
  BY DEFS Refuses, ChangesInv, ChangesTypeOK, Applies, Handled, posts, SubjectsFollow,
    HandlersHold, HandlersMake, LandsOnce
<1>3. HandlersHold'
  BY DEFS Refuses, ChangesInv, ChangesTypeOK, Applies, Handled, posts, HandlersHold
<1>4. HandlersMake'
  BY DEFS Refuses, ChangesInv, ChangesTypeOK, Applies, Handled, posts, HandlersMake,
    SubjectsFollow, HandlersHold, LandsOnce
<1>5. AnswersAreTrue'
  BY DEFS Refuses, ChangesInv, ChangesTypeOK, Applies, Handled, posts, AnswersAreTrue,
    SubjectsFollow, HandlersHold, HandlersMake, RefusalsStand
<1>6. EachOnce'
  BY DEFS Refuses, ChangesInv, ChangesTypeOK, Applies, Handled, posts, EachOnce
<1>7. RefusalsStand'
  BY DEFS Refuses, ChangesInv, ChangesTypeOK, Applies, Handled, posts, RefusalsStand,
    HandlersHold, AnswersAreTrue
<1>8. ReportedIsIn'
  BY DEFS Refuses, ChangesInv, ChangesTypeOK, Applies, Handled, posts, ReportedIsIn,
    SubjectsFollow, HandlersHold, HandlersMake, AnswersAreTrue, EachOnce
<1>9. RefusedIsOut'
  BY DEFS Refuses, ChangesInv, ChangesTypeOK, Applies, Handled, posts, RefusedIsOut,
    HandlersHold, AnswersAreTrue, EachOnce, RefusalsStand
<1> QED
  BY <1>1, <1>2, <1>3, <1>4, <1>5, <1>6, <1>7, <1>8, <1>9 DEF ChangesInv

\* The guards change nothing.
LEMMA PassesGuardsKeeps ==
  ASSUME NEW s \in Screens, ChangesInv, PassesGuards(s)
  PROVE  ChangesInv'
<1>1. ChangesTypeOK'
  <2>1. apply[s] \in Applies
    BY DEFS ChangesInv, ChangesTypeOK
  <2>2. apply' \in [Screens -> Applies]
    BY <2>1 DEFS PassesGuards, ChangesInv, ChangesTypeOK, Applies, Statuses, Handled
  <2>3. \A t \in Screens : apply'[t].pc \in Handled \cup {"answer"} => apply'[t].cur \in Changes
    BY <2>1 DEFS PassesGuards, ChangesInv, ChangesTypeOK, Applies, Handled
  <2> QED
    BY ChangeAssumption, <2>2, <2>3 DEFS PassesGuards, ChangesInv, ChangesTypeOK, Statuses,
      posts
<1>2. SubjectsFollow' /\ LandsOnce'
  BY DEFS PassesGuards, ChangesInv, ChangesTypeOK, Applies, Handled, posts, SubjectsFollow,
    HandlersHold, HandlersMake, LandsOnce
<1>3. HandlersHold'
  BY DEFS PassesGuards, ChangesInv, ChangesTypeOK, Applies, Handled, posts, HandlersHold
<1>4. HandlersMake'
  BY DEFS PassesGuards, ChangesInv, ChangesTypeOK, Applies, Handled, posts, HandlersMake,
    SubjectsFollow, HandlersHold, LandsOnce
<1>5. AnswersAreTrue'
  BY DEFS PassesGuards, ChangesInv, ChangesTypeOK, Applies, Handled, posts, AnswersAreTrue,
    SubjectsFollow, HandlersHold, HandlersMake, RefusalsStand
<1>6. EachOnce'
  BY DEFS PassesGuards, ChangesInv, ChangesTypeOK, Applies, Handled, posts, EachOnce
<1>7. RefusalsStand'
  BY DEFS PassesGuards, ChangesInv, ChangesTypeOK, Applies, Handled, posts, RefusalsStand,
    HandlersHold, AnswersAreTrue
<1>8. ReportedIsIn'
  BY DEFS PassesGuards, ChangesInv, ChangesTypeOK, Applies, Handled, posts, ReportedIsIn,
    SubjectsFollow, HandlersHold, HandlersMake, AnswersAreTrue, EachOnce
<1>9. RefusedIsOut'
  BY DEFS PassesGuards, ChangesInv, ChangesTypeOK, Applies, Handled, posts, RefusedIsOut,
    HandlersHold, AnswersAreTrue, EachOnce, RefusalsStand
<1> QED
  BY <1>1, <1>2, <1>3, <1>4, <1>5, <1>6, <1>7, <1>8, <1>9 DEF ChangesInv

\* An add is made under a claim whose change was not.
LEMMA AddsPostKeeps ==
  ASSUME NEW s \in Screens, ChangesInv, AddsPost(s)
  PROVE  ChangesInv'
<1>1. ChangesTypeOK'
  <2>1. apply[s] \in Applies /\ apply[s].cur \in Changes
    BY DEFS AddsPost, ChangesInv, ChangesTypeOK, Handled
  <2>2. PICK queued \in BOOLEAN : apply' = [apply EXCEPT ![s].pc = "finish", ![s].job = queued]
    BY DEF AddsPost
  <2> DEFINE a == [apply[s] EXCEPT !.pc = "finish", !.job = queued]
  <2>3. a \in Applies
    BY <2>1 DEFS Applies, Handled
  <2>4. apply' = [apply EXCEPT ![s] = a]
    BY <2>2 DEFS ChangesInv, ChangesTypeOK
  <2>5. made' \in [Changes -> Nat] /\ subject' \in [Changes -> {"none", "live", "removed"}]
    BY <2>1 DEFS AddsPost, ChangesInv, ChangesTypeOK
  <2>6. /\ apply' \in [Screens -> Applies]
        /\ \A t \in Screens : apply'[t].cur = apply[t].cur /\ (apply'[t].pc = apply[t].pc \/ t = s)
    BY <2>3, <2>4 DEFS ChangesInv, ChangesTypeOK, Applies
  <2> QED
    BY <2>1, <2>5, <2>6 DEFS AddsPost, ChangesInv, ChangesTypeOK
<1>2. SubjectsFollow' /\ LandsOnce'
  BY DEFS AddsPost, ChangesInv, ChangesTypeOK, Applies, Handled, SubjectsFollow, HandlersHold,
    HandlersMake, LandsOnce
<1>3. HandlersHold'
  BY DEFS AddsPost, ChangesInv, ChangesTypeOK, Applies, Handled, HandlersHold
<1>4. HandlersMake'
  BY DEFS AddsPost, ChangesInv, ChangesTypeOK, Applies, Handled, HandlersMake, SubjectsFollow,
    HandlersHold, LandsOnce
<1>5. AnswersAreTrue'
  BY DEFS AddsPost, ChangesInv, ChangesTypeOK, Applies, Handled, AnswersAreTrue,
    SubjectsFollow, HandlersHold, HandlersMake, RefusalsStand
<1>6. EachOnce'
  BY DEFS AddsPost, ChangesInv, ChangesTypeOK, Applies, Handled, EachOnce
<1>7. RefusalsStand'
  BY DEFS AddsPost, ChangesInv, ChangesTypeOK, Applies, Handled, RefusalsStand, HandlersHold,
    AnswersAreTrue
<1>8. ReportedIsIn'
  BY DEFS AddsPost, ChangesInv, ChangesTypeOK, Applies, Handled, ReportedIsIn, SubjectsFollow,
    HandlersHold, HandlersMake, AnswersAreTrue, EachOnce
<1>9. RefusedIsOut'
  BY DEFS AddsPost, ChangesInv, ChangesTypeOK, Applies, Handled, RefusedIsOut, HandlersHold,
    AnswersAreTrue, EachOnce, RefusalsStand
<1> QED
  BY <1>1, <1>2, <1>3, <1>4, <1>5, <1>6, <1>7, <1>8, <1>9 DEF ChangesInv

\* A move is made under a claim whose change was not, or finds its post removed.
LEMMA MovesPostKeeps ==
  ASSUME NEW s \in Screens, ChangesInv, MovesPost(s)
  PROVE  ChangesInv'
<1>1. ChangesTypeOK'
  <2>1. apply[s] \in Applies
    BY DEFS ChangesInv, ChangesTypeOK
  <2>2. apply' \in [Screens -> Applies]
    BY <2>1 DEFS MovesPost, ChangesInv, ChangesTypeOK, Applies, Statuses, Handled
  <2>3. \A t \in Screens : apply'[t].pc \in Handled \cup {"answer"} => apply'[t].cur \in Changes
    BY <2>1 DEFS MovesPost, ChangesInv, ChangesTypeOK, Applies, Handled
  <2>4. made' \in [Changes -> Nat]
    BY DEFS MovesPost, ChangesInv, ChangesTypeOK, Handled
  <2> QED
    BY ChangeAssumption, <2>2, <2>3, <2>4 DEFS MovesPost, ChangesInv, ChangesTypeOK
<1>2. SubjectsFollow' /\ LandsOnce'
  BY DEFS MovesPost, ChangesInv, ChangesTypeOK, Applies, Handled, SubjectsFollow, HandlersHold,
    HandlersMake, LandsOnce
<1>3. HandlersHold'
  BY DEFS MovesPost, ChangesInv, ChangesTypeOK, Applies, Handled, HandlersHold
<1>4. HandlersMake'
  BY DEFS MovesPost, ChangesInv, ChangesTypeOK, Applies, Handled, HandlersMake, SubjectsFollow,
    HandlersHold, LandsOnce
<1>5. AnswersAreTrue'
  BY DEFS MovesPost, ChangesInv, ChangesTypeOK, Applies, Handled, AnswersAreTrue,
    SubjectsFollow, HandlersHold, HandlersMake, RefusalsStand
<1>6. EachOnce'
  BY DEFS MovesPost, ChangesInv, ChangesTypeOK, Applies, Handled, EachOnce
<1>7. RefusalsStand'
  BY DEFS MovesPost, ChangesInv, ChangesTypeOK, Applies, Handled, RefusalsStand, HandlersHold,
    AnswersAreTrue
<1>8. ReportedIsIn'
  BY DEFS MovesPost, ChangesInv, ChangesTypeOK, Applies, Handled, ReportedIsIn, SubjectsFollow,
    HandlersHold, HandlersMake, AnswersAreTrue, EachOnce
<1>9. RefusedIsOut'
  BY DEFS MovesPost, ChangesInv, ChangesTypeOK, Applies, Handled, RefusedIsOut, HandlersHold,
    AnswersAreTrue, EachOnce, RefusalsStand
<1> QED
  BY <1>1, <1>2, <1>3, <1>4, <1>5, <1>6, <1>7, <1>8, <1>9 DEF ChangesInv

\* A hook is queued under a claim whose change was not.
LEMMA QueuesHookKeeps ==
  ASSUME NEW s \in Screens, ChangesInv, QueuesHook(s)
  PROVE  ChangesInv'
<1>1. ChangesTypeOK'
  <2> DEFINE a == [apply[s] EXCEPT !.pc = "finish", !.job = TRUE]
  <2>1. apply[s] \in Applies /\ apply[s].cur \in Changes
    BY DEFS QueuesHook, ChangesInv, ChangesTypeOK, Applies, Handled
  <2>2. a \in Applies
    BY <2>1 DEFS Applies, Handled, Statuses
  <2>3. apply' = [apply EXCEPT ![s] = a]
    BY DEFS QueuesHook, ChangesInv, ChangesTypeOK
  <2> QED
    BY ChangeAssumption, <2>1, <2>2, <2>3 DEFS QueuesHook, ChangesInv, ChangesTypeOK, Statuses,
      Handled
<1>2. SubjectsFollow' /\ LandsOnce'
  BY DEFS QueuesHook, ChangesInv, ChangesTypeOK, Applies, Handled, SubjectsFollow,
    HandlersHold, HandlersMake, LandsOnce
<1>3. HandlersHold'
  BY DEFS QueuesHook, ChangesInv, ChangesTypeOK, Applies, Handled, HandlersHold
<1>4. HandlersMake'
  BY DEFS QueuesHook, ChangesInv, ChangesTypeOK, Applies, Handled, HandlersMake,
    SubjectsFollow, HandlersHold, LandsOnce
<1>5. AnswersAreTrue'
  BY DEFS QueuesHook, ChangesInv, ChangesTypeOK, Applies, Handled, AnswersAreTrue,
    SubjectsFollow, HandlersHold, HandlersMake, RefusalsStand
<1>6. EachOnce'
  BY DEFS QueuesHook, ChangesInv, ChangesTypeOK, Applies, Handled, EachOnce
<1>7. RefusalsStand'
  BY DEFS QueuesHook, ChangesInv, ChangesTypeOK, Applies, Handled, RefusalsStand, HandlersHold,
    AnswersAreTrue
<1>8. ReportedIsIn'
  BY DEFS QueuesHook, ChangesInv, ChangesTypeOK, Applies, Handled, ReportedIsIn,
    SubjectsFollow, HandlersHold, HandlersMake, AnswersAreTrue, EachOnce
<1>9. RefusedIsOut'
  BY DEFS QueuesHook, ChangesInv, ChangesTypeOK, Applies, Handled, RefusedIsOut, HandlersHold,
    AnswersAreTrue, EachOnce, RefusalsStand
<1> QED
  BY <1>1, <1>2, <1>3, <1>4, <1>5, <1>6, <1>7, <1>8, <1>9 DEF ChangesInv

\* An answer of success follows the change.
LEMMA FinishesKeeps ==
  ASSUME NEW s \in Screens, ChangesInv, Finishes(s)
  PROVE  ChangesInv'
<1>1. ChangesTypeOK'
  <2> DEFINE a == [apply[s] EXCEPT !.pc = "answer", !.answer = "applied"]
  <2>1. apply[s] \in Applies /\ apply[s].cur \in Changes
    BY DEFS Finishes, ChangesInv, ChangesTypeOK, Applies, Handled
  <2>2. a \in Applies
    BY <2>1 DEFS Applies, Handled, Statuses
  <2>3. apply' = [apply EXCEPT ![s] = a]
    BY DEFS Finishes, ChangesInv, ChangesTypeOK
  <2> QED
    BY ChangeAssumption, <2>1, <2>2, <2>3 DEFS Finishes, ChangesInv, ChangesTypeOK, Statuses,
      posts
<1>2. SubjectsFollow' /\ LandsOnce'
  BY DEFS Finishes, ChangesInv, ChangesTypeOK, Applies, Handled, posts, SubjectsFollow,
    HandlersHold, HandlersMake, LandsOnce
<1>3. HandlersHold'
  BY DEFS Finishes, ChangesInv, ChangesTypeOK, Applies, Handled, posts, HandlersHold
<1>4. HandlersMake'
  BY DEFS Finishes, ChangesInv, ChangesTypeOK, Applies, Handled, posts, HandlersMake,
    SubjectsFollow, HandlersHold, LandsOnce
<1>5. AnswersAreTrue'
  BY DEFS Finishes, ChangesInv, ChangesTypeOK, Applies, Handled, posts, AnswersAreTrue,
    SubjectsFollow, HandlersHold, HandlersMake, RefusalsStand
<1>6. EachOnce'
  BY DEFS Finishes, ChangesInv, ChangesTypeOK, Applies, Handled, posts, EachOnce
<1>7. RefusalsStand'
  BY DEFS Finishes, ChangesInv, ChangesTypeOK, Applies, Handled, posts, RefusalsStand,
    HandlersHold, AnswersAreTrue
<1>8. ReportedIsIn'
  BY DEFS Finishes, ChangesInv, ChangesTypeOK, Applies, Handled, posts, ReportedIsIn,
    SubjectsFollow, HandlersHold, HandlersMake, AnswersAreTrue, EachOnce
<1>9. RefusedIsOut'
  BY DEFS Finishes, ChangesInv, ChangesTypeOK, Applies, Handled, posts, RefusedIsOut,
    HandlersHold, AnswersAreTrue, EachOnce, RefusalsStand
<1> QED
  BY <1>1, <1>2, <1>3, <1>4, <1>5, <1>6, <1>7, <1>8, <1>9 DEF ChangesInv

\* A throw is remembered: its refusal says nothing of the change.
LEMMA ThrowsKeeps ==
  ASSUME NEW s \in Screens, ChangesInv, Throws(s)
  PROVE  ChangesInv'
<1>1. ChangesTypeOK'
  <2> DEFINE a == [apply[s] EXCEPT !.pc = "answer", !.answer = "failed", !.threw = @ \cup {apply[s].cur}]
  <2>1. apply[s] \in Applies /\ apply[s].cur \in Changes
    BY DEFS Throws, ChangesInv, ChangesTypeOK, Applies, Handled
  <2>2. a \in Applies
    BY <2>1 DEFS Applies, Handled, Statuses
  <2>3. apply' = [apply EXCEPT ![s] = a]
    BY DEFS Throws, ChangesInv, ChangesTypeOK
  <2> QED
    BY ChangeAssumption, <2>1, <2>2, <2>3 DEFS Throws, ChangesInv, ChangesTypeOK, Statuses,
      posts, ChangeEvent
<1>2. SubjectsFollow' /\ LandsOnce'
  BY DEFS Throws, ChangesInv, ChangesTypeOK, Applies, Handled, posts, ChangeEvent,
    SubjectsFollow, HandlersHold, HandlersMake, LandsOnce
<1>3. HandlersHold'
  BY DEFS Throws, ChangesInv, ChangesTypeOK, Applies, Handled, posts, ChangeEvent, HandlersHold
<1>4. HandlersMake'
  BY DEFS Throws, ChangesInv, ChangesTypeOK, Applies, Handled, posts, ChangeEvent,
    HandlersMake, SubjectsFollow, HandlersHold, LandsOnce
<1>5. AnswersAreTrue'
  BY DEFS Throws, ChangesInv, ChangesTypeOK, Applies, Handled, posts, ChangeEvent,
    AnswersAreTrue, SubjectsFollow, HandlersHold, HandlersMake, RefusalsStand
<1>6. EachOnce'
  BY DEFS Throws, ChangesInv, ChangesTypeOK, Applies, Handled, posts, ChangeEvent, EachOnce
<1>7. RefusalsStand'
  BY DEFS Throws, ChangesInv, ChangesTypeOK, Applies, Handled, posts, ChangeEvent,
    RefusalsStand, HandlersHold, AnswersAreTrue
<1>8. ReportedIsIn'
  BY DEFS Throws, ChangesInv, ChangesTypeOK, Applies, Handled, posts, ChangeEvent,
    ReportedIsIn, SubjectsFollow, HandlersHold, HandlersMake, AnswersAreTrue, EachOnce
<1>9. RefusedIsOut'
  BY DEFS Throws, ChangesInv, ChangesTypeOK, Applies, Handled, posts, ChangeEvent,
    RefusedIsOut, HandlersHold, AnswersAreTrue, EachOnce, RefusalsStand
<1> QED
  BY <1>1, <1>2, <1>3, <1>4, <1>5, <1>6, <1>7, <1>8, <1>9 DEF ChangesInv

\* A lost answer tells nothing.
LEMMA AnswerIsLostKeeps ==
  ASSUME NEW s \in Screens, ChangesInv, AnswerIsLost(s)
  PROVE  ChangesInv'
<1>1. ChangesTypeOK'
  <2>1. apply[s] \in Applies
    BY DEFS ChangesInv, ChangesTypeOK
  <2>2. apply' \in [Screens -> Applies]
    BY <2>1 DEFS AnswerIsLost, ChangesInv, ChangesTypeOK, Applies, Statuses, Handled,
      ChangeEvent
  <2>3. \A t \in Screens : apply'[t].pc \in Handled \cup {"answer"} => apply'[t].cur \in Changes
    BY <2>1 DEFS AnswerIsLost, ChangesInv, ChangesTypeOK, Applies, Handled
  <2> QED
    BY ChangeAssumption, <2>2, <2>3 DEFS AnswerIsLost, ChangesInv, ChangesTypeOK, Statuses,
      posts, ChangeEvent
<1>2. SubjectsFollow' /\ LandsOnce'
  BY DEFS AnswerIsLost, ChangesInv, ChangesTypeOK, Applies, Handled, posts, ChangeEvent,
    SubjectsFollow, HandlersHold, HandlersMake, LandsOnce
<1>3. HandlersHold'
  BY DEFS AnswerIsLost, ChangesInv, ChangesTypeOK, Applies, Handled, posts, ChangeEvent,
    HandlersHold
<1>4. HandlersMake'
  BY DEFS AnswerIsLost, ChangesInv, ChangesTypeOK, Applies, Handled, posts, ChangeEvent,
    HandlersMake, SubjectsFollow, HandlersHold, LandsOnce
<1>5. AnswersAreTrue'
  BY DEFS AnswerIsLost, ChangesInv, ChangesTypeOK, Applies, Handled, posts, ChangeEvent,
    AnswersAreTrue, SubjectsFollow, HandlersHold, HandlersMake, RefusalsStand
<1>6. EachOnce'
  BY DEFS AnswerIsLost, ChangesInv, ChangesTypeOK, Applies, Handled, posts, ChangeEvent,
    EachOnce
<1>7. RefusalsStand'
  BY DEFS AnswerIsLost, ChangesInv, ChangesTypeOK, Applies, Handled, posts, ChangeEvent,
    RefusalsStand, HandlersHold, AnswersAreTrue
<1>8. ReportedIsIn'
  BY DEFS AnswerIsLost, ChangesInv, ChangesTypeOK, Applies, Handled, posts, ChangeEvent,
    ReportedIsIn, SubjectsFollow, HandlersHold, HandlersMake, AnswersAreTrue, EachOnce
<1>9. RefusedIsOut'
  BY DEFS AnswerIsLost, ChangesInv, ChangesTypeOK, Applies, Handled, posts, ChangeEvent,
    RefusedIsOut, HandlersHold, AnswersAreTrue, EachOnce, RefusalsStand
<1> QED
  BY <1>1, <1>2, <1>3, <1>4, <1>5, <1>6, <1>7, <1>8, <1>9 DEF ChangesInv

\* A press starts a report anew.
LEMMA PressesKeeps ==
  ASSUME NEW s \in Screens, ChangesInv, Presses(s)
  PROVE  ChangesInv'
<1>1. ChangesTypeOK'
  <2>1. apply[s] \in Applies
    BY DEFS ChangesInv, ChangesTypeOK
  <2>2. apply' \in [Screens -> Applies]
    BY <2>1 DEFS Presses, ChangesInv, ChangesTypeOK, Applies, Statuses, Handled, NotApplying
  <2>3. \A t \in Screens : apply'[t].pc \in Handled \cup {"answer"} => apply'[t].cur \in Changes
    BY <2>1 DEFS Presses, ChangesInv, ChangesTypeOK, Applies, Handled, NotApplying
  <2> QED
    BY ChangeAssumption, <2>2, <2>3 DEFS Presses, ChangesInv, ChangesTypeOK, Statuses, posts
<1>2. SubjectsFollow' /\ LandsOnce'
  BY DEFS Presses, ChangesInv, ChangesTypeOK, Applies, Handled, posts, NotApplying,
    SubjectsFollow, HandlersHold, HandlersMake, LandsOnce
<1>3. HandlersHold'
  BY DEFS Presses, ChangesInv, ChangesTypeOK, Applies, Handled, posts, NotApplying,
    HandlersHold
<1>4. HandlersMake'
  BY DEFS Presses, ChangesInv, ChangesTypeOK, Applies, Handled, posts, NotApplying,
    HandlersMake, SubjectsFollow, HandlersHold, LandsOnce
<1>5. AnswersAreTrue'
  BY DEFS Presses, ChangesInv, ChangesTypeOK, Applies, Handled, posts, NotApplying,
    AnswersAreTrue, SubjectsFollow, HandlersHold, HandlersMake, RefusalsStand
<1>6. EachOnce'
  BY DEFS Presses, ChangesInv, ChangesTypeOK, Applies, Handled, posts, NotApplying, EachOnce
<1>7. RefusalsStand'
  BY DEFS Presses, ChangesInv, ChangesTypeOK, Applies, Handled, posts, NotApplying,
    RefusalsStand, HandlersHold, AnswersAreTrue
<1>8. ReportedIsIn'
  BY DEFS Presses, ChangesInv, ChangesTypeOK, Applies, Handled, posts, NotApplying,
    ReportedIsIn, SubjectsFollow, HandlersHold, HandlersMake, AnswersAreTrue, EachOnce
<1>9. RefusedIsOut'
  BY DEFS Presses, ChangesInv, ChangesTypeOK, Applies, Handled, posts, NotApplying,
    RefusedIsOut, HandlersHold, AnswersAreTrue, EachOnce, RefusalsStand
<1> QED
  BY <1>1, <1>2, <1>3, <1>4, <1>5, <1>6, <1>7, <1>8, <1>9 DEF ChangesInv

\* Counting an answer keeps a screen's record a record.
LEMMA CountedIsApplying ==
  ASSUME NEW a \in Applies, a.cur \in Changes
  PROVE  Counted(a) \in Applies
<1> DEFINE r == Reading(a.answer)
           later == r = "blocked" /\ a.pass = 1
           applied == IF r = "applied" THEN a.applied \cup {a.cur} ELSE a.applied
           refused == IF r = "refused" THEN a.refused \cup {a.cur} ELSE a.refused
           failed == IF r # "applied" /\ ~ later THEN a.failed \cup {a.cur} ELSE a.failed
           blocked == IF later THEN a.blocked \cup {a.cur} ELSE a.blocked
           listed == IF r \in {"applied", "refused"} THEN a.listed \ {a.cur} ELSE a.listed
           jobs == a.jobs \/ (r = "applied" /\ a.job)
<1>1. /\ applied \in SUBSET Changes /\ refused \in SUBSET Changes /\ failed \in SUBSET Changes
      /\ blocked \in SUBSET Changes /\ listed \in SUBSET Changes /\ a.todo \ {a.cur} \in SUBSET Changes
  BY DEF Applies
<1>2. jobs \in BOOLEAN
  BY DEF Applies
<1>3. Counted(a) = [a EXCEPT !.pc = "send", !.todo = @ \ {a.cur}, !.answer = "none", !.applied = applied,
                       !.refused = refused, !.failed = failed, !.blocked = blocked, !.listed = listed,
                       !.jobs = jobs]
  BY Zenon DEFS Counted
<1> DEFINE x == [a EXCEPT !.pc = "send", !.todo = @ \ {a.cur}, !.answer = "none", !.applied = applied]
           y == [x EXCEPT !.refused = refused, !.failed = failed, !.blocked = blocked, !.listed = listed, !.jobs = jobs]
<1> HIDE DEFS r, later, applied, refused, failed, blocked, listed, jobs
<1>4. x \in Applies
  BY <1>1 DEF Applies
<1>5. Counted(a) = y
  BY <1>3
<1> HIDE DEF x
<1>6. y \in Applies
  BY <1>1, <1>2, <1>4 DEF Applies
<1> QED
  BY <1>5, <1>6

\* A screen counts what the answer says.
LEMMA HearsAnswerKeeps ==
  ASSUME NEW s \in Screens, ChangesInv, HearsAnswer(s)
  PROVE  ChangesInv'
<1> DEFINE a == apply[s]
           b == Counted(a)
<1>1. a \in Applies /\ a.cur \in Changes /\ a.pc = "answer"
  BY DEFS HearsAnswer, ChangesInv, ChangesTypeOK
<1>2. b \in Applies
  BY <1>1, CountedIsApplying
<1>3. /\ Reading(a.answer) = "refused" => a.answer = "failed"
      /\ Reading(a.answer) = "applied" => a.answer \notin {"blocked", "failed", "lost"}
  BY DEF Reading
<1>4. /\ b.pc = "send" /\ b.todo = a.todo \ {a.cur} /\ b.pass = a.pass
      /\ b.won = a.won /\ b.threw = a.threw /\ b.cur = a.cur
      /\ Reading(a.answer) # "applied" => b.applied = a.applied
      /\ Reading(a.answer) # "refused" => b.refused = a.refused
      /\ Reading(a.answer) # "blocked" => b.blocked = a.blocked
      /\ b.applied \subseteq a.applied \cup {a.cur}
      /\ b.refused \subseteq a.refused \cup {a.cur}
      /\ b.blocked \subseteq a.blocked \cup {a.cur}
  BY <1>1 DEFS Counted, Applies
<1> HIDE DEF b
<1>5. /\ apply' \in [Screens -> Applies] /\ apply'[s] = b 
      /\ \A t \in Screens \ {s} : apply'[t] = apply[t]
      /\ UNCHANGED <<proposal, posts, changeEvents>>
  BY <1>2 DEFS HearsAnswer, ChangesInv, ChangesTypeOK, b
<1>6. ChangesTypeOK'
  BY <1>1, <1>4, <1>5 DEFS ChangesInv, ChangesTypeOK, posts, Handled
<1>7. SubjectsFollow' /\ LandsOnce'
  BY <1>5 DEFS ChangesInv, SubjectsFollow, LandsOnce, posts
<1>8. HandlersHold' /\ HandlersMake' /\ AnswersAreTrue'
  BY <1>4, <1>5 DEFS ChangesInv, HandlersHold, HandlersMake, AnswersAreTrue, posts, Handled
<1>9. EachOnce'
  BY <1>1, <1>4, <1>5 DEFS ChangesInv, EachOnce, Handled
<1>10. RefusalsStand'
  BY <1>1, <1>3, <1>4, <1>5 DEFS ChangesInv, RefusalsStand, AnswersAreTrue
<1>11. ReportedIsIn' /\ RefusedIsOut'
  BY <1>1, <1>3, <1>4, <1>5 DEFS ChangesInv, ReportedIsIn, RefusedIsOut, AnswersAreTrue, posts
<1> QED
  BY <1>6, <1>7, <1>8, <1>9, <1>10, <1>11 DEF ChangesInv

\* A report adds nothing to what was counted.
LEMMA ReportsKeeps ==
  ASSUME NEW s \in Screens, ChangesInv, Reports(s)
  PROVE  ChangesInv'
<1>1. ChangesTypeOK'
  <2> DEFINE a == [apply[s] EXCEPT !.pc = "reported",
                               !.failed = @ \cup (IF apply[s].pass = 1 THEN apply[s].blocked ELSE {})]
  <2>1. apply[s] \in Applies
    BY DEFS Reports, ChangesInv, ChangesTypeOK, Applies, Handled
  <2>2. a \in Applies
    <3> DEFINE left == IF apply[s].pass = 1 THEN apply[s].blocked ELSE {}
    <3>1. left \in SUBSET Changes
      BY <2>1 DEF Applies
    <3> HIDE DEF left
    <3> QED
      BY <2>1, <3>1 DEFS Applies, Handled
  <2>3. apply' = [apply EXCEPT ![s] = a]
    BY DEFS Reports, ChangesInv, ChangesTypeOK
  <2> QED
    BY ChangeAssumption, <2>1, <2>2, <2>3 DEFS Reports, ChangesInv, ChangesTypeOK, Statuses,
      Handled, posts
<1>2. SubjectsFollow' /\ LandsOnce'
  BY DEFS Reports, ChangesInv, ChangesTypeOK, Applies, Handled, posts, SubjectsFollow,
    HandlersHold, HandlersMake, LandsOnce
<1>3. HandlersHold'
  BY DEFS Reports, ChangesInv, ChangesTypeOK, Applies, Handled, posts, HandlersHold
<1>4. HandlersMake'
  BY DEFS Reports, ChangesInv, ChangesTypeOK, Applies, Handled, posts, HandlersMake,
    SubjectsFollow, HandlersHold, LandsOnce
<1>5. AnswersAreTrue'
  BY DEFS Reports, ChangesInv, ChangesTypeOK, Applies, Handled, posts, AnswersAreTrue,
    SubjectsFollow, HandlersHold, HandlersMake, RefusalsStand
<1>6. EachOnce'
  BY DEFS Reports, ChangesInv, ChangesTypeOK, Applies, Handled, posts, EachOnce
<1>7. RefusalsStand'
  BY DEFS Reports, ChangesInv, ChangesTypeOK, Applies, Handled, posts, RefusalsStand,
    HandlersHold, AnswersAreTrue
<1>8. ReportedIsIn'
  BY DEFS Reports, ChangesInv, ChangesTypeOK, Applies, Handled, posts, ReportedIsIn,
    SubjectsFollow, HandlersHold, HandlersMake, AnswersAreTrue, EachOnce
<1>9. RefusedIsOut'
  BY DEFS Reports, ChangesInv, ChangesTypeOK, Applies, Handled, posts, RefusedIsOut,
    HandlersHold, AnswersAreTrue, EachOnce, RefusalsStand
<1> QED
  BY <1>1, <1>2, <1>3, <1>4, <1>5, <1>6, <1>7, <1>8, <1>9 DEF ChangesInv

\* A wait is for the first pass.
LEMMA WaitsKeeps ==
  ASSUME NEW s \in Screens, ChangesInv, Waits(s)
  PROVE  ChangesInv'
<1>1. ChangesTypeOK'
  <2>1. apply[s] \in Applies
    BY DEFS ChangesInv, ChangesTypeOK
  <2>2. apply' \in [Screens -> Applies]
    BY <2>1 DEFS Waits, ChangesInv, ChangesTypeOK, Applies, Statuses, Handled, AtEnd,
      WaitsForWords
  <2>3. \A t \in Screens : apply'[t].pc \in Handled \cup {"answer"} => apply'[t].cur \in Changes
    BY <2>1 DEFS Waits, ChangesInv, ChangesTypeOK, Applies, Handled, AtEnd
  <2> QED
    BY ChangeAssumption, <2>2, <2>3 DEFS Waits, ChangesInv, ChangesTypeOK, Statuses, posts
<1>2. SubjectsFollow' /\ LandsOnce'
  BY DEFS Waits, ChangesInv, ChangesTypeOK, Applies, Handled, posts, AtEnd, WaitsForWords,
    SubjectsFollow, HandlersHold, HandlersMake, LandsOnce
<1>3. HandlersHold'
  BY DEFS Waits, ChangesInv, ChangesTypeOK, Applies, Handled, posts, AtEnd, WaitsForWords,
    HandlersHold
<1>4. HandlersMake'
  BY DEFS Waits, ChangesInv, ChangesTypeOK, Applies, Handled, posts, AtEnd, WaitsForWords,
    HandlersMake, SubjectsFollow, HandlersHold, LandsOnce
<1>5. AnswersAreTrue'
  BY DEFS Waits, ChangesInv, ChangesTypeOK, Applies, Handled, posts, AtEnd, WaitsForWords,
    AnswersAreTrue, SubjectsFollow, HandlersHold, HandlersMake, RefusalsStand
<1>6. EachOnce'
  BY DEFS Waits, ChangesInv, ChangesTypeOK, Applies, Handled, posts, AtEnd, WaitsForWords,
    EachOnce
<1>7. RefusalsStand'
  BY DEFS Waits, ChangesInv, ChangesTypeOK, Applies, Handled, posts, AtEnd, WaitsForWords,
    RefusalsStand, HandlersHold, AnswersAreTrue
<1>8. ReportedIsIn'
  BY DEFS Waits, ChangesInv, ChangesTypeOK, Applies, Handled, posts, AtEnd, WaitsForWords,
    ReportedIsIn, SubjectsFollow, HandlersHold, HandlersMake, AnswersAreTrue, EachOnce
<1>9. RefusedIsOut'
  BY DEFS Waits, ChangesInv, ChangesTypeOK, Applies, Handled, posts, AtEnd, WaitsForWords,
    RefusedIsOut, HandlersHold, AnswersAreTrue, EachOnce, RefusalsStand
<1> QED
  BY <1>1, <1>2, <1>3, <1>4, <1>5, <1>6, <1>7, <1>8, <1>9 DEF ChangesInv

\* A second pass asks for what the first one left.
LEMMA TriesAgainKeeps ==
  ASSUME NEW s \in Screens, ChangesInv, TriesAgain(s)
  PROVE  ChangesInv'
<1>1. ChangesTypeOK'
  <2> DEFINE a == [apply[s] EXCEPT !.pc = "send", !.pass = 2, !.todo = apply[s].blocked]
  <2>1. apply[s] \in Applies
    BY DEFS TriesAgain, ChangesInv, ChangesTypeOK, Applies, Handled
  <2>2. a \in Applies
    BY <2>1 DEFS Applies, Handled, Statuses
  <2>3. apply' = [apply EXCEPT ![s] = a]
    BY DEFS TriesAgain, ChangesInv, ChangesTypeOK
  <2> QED
    BY ChangeAssumption, <2>1, <2>2, <2>3 DEFS TriesAgain, ChangesInv, ChangesTypeOK, Statuses,
      Handled, posts
<1>2. SubjectsFollow' /\ LandsOnce'
  BY DEFS TriesAgain, ChangesInv, ChangesTypeOK, Applies, Handled, posts, SubjectsFollow,
    HandlersHold, HandlersMake, LandsOnce
<1>3. HandlersHold'
  BY DEFS TriesAgain, ChangesInv, ChangesTypeOK, Applies, Handled, posts, HandlersHold
<1>4. HandlersMake'
  BY DEFS TriesAgain, ChangesInv, ChangesTypeOK, Applies, Handled, posts, HandlersMake,
    SubjectsFollow, HandlersHold, LandsOnce
<1>5. AnswersAreTrue'
  BY DEFS TriesAgain, ChangesInv, ChangesTypeOK, Applies, Handled, posts, AnswersAreTrue,
    SubjectsFollow, HandlersHold, HandlersMake, RefusalsStand
<1>6. EachOnce'
  BY DEFS TriesAgain, ChangesInv, ChangesTypeOK, Applies, Handled, posts, EachOnce
<1>7. RefusalsStand'
  BY DEFS TriesAgain, ChangesInv, ChangesTypeOK, Applies, Handled, posts, RefusalsStand,
    HandlersHold, AnswersAreTrue
<1>8. ReportedIsIn'
  BY DEFS TriesAgain, ChangesInv, ChangesTypeOK, Applies, Handled, posts, ReportedIsIn,
    SubjectsFollow, HandlersHold, HandlersMake, AnswersAreTrue, EachOnce
<1>9. RefusedIsOut'
  BY DEFS TriesAgain, ChangesInv, ChangesTypeOK, Applies, Handled, posts, RefusedIsOut,
    HandlersHold, AnswersAreTrue, EachOnce, RefusalsStand
<1> QED
  BY <1>1, <1>2, <1>3, <1>4, <1>5, <1>6, <1>7, <1>8, <1>9 DEF ChangesInv

\* A rejection takes what nobody has made.
LEMMA RejectsKeeps ==
  ASSUME NEW c \in Changes, ChangesInv, Rejects(c)
  PROVE  ChangesInv'
<1>1. ChangesTypeOK'
  BY ChangeAssumption DEFS Rejects, ChangesInv, ChangesTypeOK, Statuses, posts
<1>2. SubjectsFollow' /\ LandsOnce'
  BY DEFS Rejects, ChangesInv, ChangesTypeOK, posts, SubjectsFollow, HandlersHold,
    HandlersMake, LandsOnce
<1>3. HandlersHold'
  BY DEFS Rejects, ChangesInv, ChangesTypeOK, posts, Handled, HandlersHold
<1>4. HandlersMake'
  BY DEFS Rejects, ChangesInv, ChangesTypeOK, posts, Handled, HandlersMake, SubjectsFollow,
    HandlersHold, LandsOnce
<1>5. AnswersAreTrue'
  BY DEFS Rejects, ChangesInv, ChangesTypeOK, posts, Handled, AnswersAreTrue, SubjectsFollow,
    HandlersHold, HandlersMake, RefusalsStand
<1>6. EachOnce'
  BY DEFS Rejects, ChangesInv, ChangesTypeOK, posts, EachOnce
<1>7. RefusalsStand'
  BY DEFS Rejects, ChangesInv, ChangesTypeOK, posts, RefusalsStand, HandlersHold,
    AnswersAreTrue
<1>8. ReportedIsIn'
  BY DEFS Rejects, ChangesInv, ChangesTypeOK, posts, ReportedIsIn, SubjectsFollow,
    HandlersHold, HandlersMake, AnswersAreTrue, EachOnce
<1>9. RefusedIsOut'
  BY DEFS Rejects, ChangesInv, ChangesTypeOK, posts, RefusedIsOut, HandlersHold,
    AnswersAreTrue, EachOnce, RefusalsStand
<1> QED
  BY <1>1, <1>2, <1>3, <1>4, <1>5, <1>6, <1>7, <1>8, <1>9 DEF ChangesInv

\* A caption makes no change.
LEMMA CaptionLandsKeeps ==
  ASSUME NEW c \in Changes, ChangesInv, CaptionLands(c)
  PROVE  ChangesInv'
<1>1. ChangesTypeOK'
  BY ChangeAssumption DEFS CaptionLands, ChangesInv, ChangesTypeOK, Statuses, posts
<1>2. SubjectsFollow' /\ LandsOnce'
  BY DEFS CaptionLands, ChangesInv, ChangesTypeOK, posts, SubjectsFollow, HandlersHold,
    HandlersMake, LandsOnce
<1>3. HandlersHold'
  BY DEFS CaptionLands, ChangesInv, ChangesTypeOK, posts, Handled, HandlersHold
<1>4. HandlersMake'
  BY DEFS CaptionLands, ChangesInv, ChangesTypeOK, posts, Handled, HandlersMake,
    SubjectsFollow, HandlersHold, LandsOnce
<1>5. AnswersAreTrue'
  BY DEFS CaptionLands, ChangesInv, ChangesTypeOK, posts, Handled, AnswersAreTrue,
    SubjectsFollow, HandlersHold, HandlersMake, RefusalsStand
<1>6. EachOnce'
  BY DEFS CaptionLands, ChangesInv, ChangesTypeOK, posts, EachOnce
<1>7. RefusalsStand'
  BY DEFS CaptionLands, ChangesInv, ChangesTypeOK, posts, RefusalsStand, HandlersHold,
    AnswersAreTrue
<1>8. ReportedIsIn'
  BY DEFS CaptionLands, ChangesInv, ChangesTypeOK, posts, ReportedIsIn, SubjectsFollow,
    HandlersHold, HandlersMake, AnswersAreTrue, EachOnce
<1>9. RefusedIsOut'
  BY DEFS CaptionLands, ChangesInv, ChangesTypeOK, posts, RefusedIsOut, HandlersHold,
    AnswersAreTrue, EachOnce, RefusalsStand
<1> QED
  BY <1>1, <1>2, <1>3, <1>4, <1>5, <1>6, <1>7, <1>8, <1>9 DEF ChangesInv

\* A removal leaves the history alone, and excuses what was made.
LEMMA PostIsRemovedKeeps ==
  ASSUME NEW c \in Changes, ChangesInv, PostIsRemoved(c)
  PROVE  ChangesInv'
<1>1. ChangesTypeOK'
  BY ChangeAssumption DEFS PostIsRemoved, ChangesInv, ChangesTypeOK, Statuses, ChangeEvent
<1>2. SubjectsFollow' /\ LandsOnce'
  BY DEFS PostIsRemoved, ChangesInv, ChangesTypeOK, ChangeEvent, SubjectsFollow, HandlersHold,
    HandlersMake, LandsOnce
<1>3. HandlersHold'
  BY DEFS PostIsRemoved, ChangesInv, ChangesTypeOK, ChangeEvent, Handled, HandlersHold
<1>4. HandlersMake'
  BY DEFS PostIsRemoved, ChangesInv, ChangesTypeOK, ChangeEvent, Handled, HandlersMake,
    SubjectsFollow, HandlersHold, LandsOnce
<1>5. AnswersAreTrue'
  BY DEFS PostIsRemoved, ChangesInv, ChangesTypeOK, ChangeEvent, Handled, AnswersAreTrue,
    SubjectsFollow, HandlersHold, HandlersMake, RefusalsStand
<1>6. EachOnce'
  BY DEFS PostIsRemoved, ChangesInv, ChangesTypeOK, ChangeEvent, EachOnce
<1>7. RefusalsStand'
  BY DEFS PostIsRemoved, ChangesInv, ChangesTypeOK, ChangeEvent, RefusalsStand, HandlersHold,
    AnswersAreTrue
<1>8. ReportedIsIn'
  BY DEFS PostIsRemoved, ChangesInv, ChangesTypeOK, ChangeEvent, ReportedIsIn, SubjectsFollow,
    HandlersHold, HandlersMake, AnswersAreTrue, EachOnce
<1>9. RefusedIsOut'
  BY DEFS PostIsRemoved, ChangesInv, ChangesTypeOK, ChangeEvent, RefusedIsOut, HandlersHold,
    AnswersAreTrue, EachOnce, RefusalsStand
<1> QED
  BY <1>1, <1>2, <1>3, <1>4, <1>5, <1>6, <1>7, <1>8, <1>9 DEF ChangesInv

\* Before the first press nothing is made and nothing is counted.
LEMMA ChangesInvInit == ChangesInit => ChangesInv
<1> SUFFICES ASSUME ChangesInit PROVE ChangesInv
  OBVIOUS
<1>1. NotApplying \in Applies
  BY DEFS NotApplying, Applies, Statuses, Handled
<1>2. ChangesTypeOK
  BY ChangeAssumption, <1>1 DEFS ChangesInit, ChangesTypeOK, NotApplying, Statuses, Handled
<1>3. HandlersHold /\ HandlersMake /\ AnswersAreTrue /\ EachOnce
  BY DEFS ChangesInit, NotApplying, Handled, HandlersHold, HandlersMake, AnswersAreTrue, EachOnce
<1>4. SubjectsFollow /\ LandsOnce
  BY DEFS ChangesInit, SubjectsFollow, LandsOnce
<1>5. RefusalsStand /\ ReportedIsIn /\ RefusedIsOut
  BY DEFS ChangesInit, NotApplying, RefusalsStand, ReportedIsIn, RefusedIsOut
<1> QED
  BY <1>2, <1>3, <1>4, <1>5 DEF ChangesInv

\* Every step of a handler, of a screen, of the worker and of the client keeps the invariant.
LEMMA ChangesInvStep == ChangesInv /\ [ChangesNext]_changesVars => ChangesInv'
<1> SUFFICES ASSUME ChangesInv, [ChangesNext]_changesVars PROVE ChangesInv'
  OBVIOUS
<1>1. CASE UNCHANGED changesVars
  BY <1>1 DEFS changesVars, ChangesInv, ChangesTypeOK, SubjectsFollow, HandlersHold, HandlersMake,
    AnswersAreTrue, EachOnce, RefusalsStand, LandsOnce, ReportedIsIn, RefusedIsOut
<1>2. ASSUME NEW s \in Screens, Handles(s) PROVE ChangesInv'
  BY <1>2, UnclaimsKeeps, RefusesKeeps, PassesGuardsKeeps, AddsPostKeeps, MovesPostKeeps,
    QueuesHookKeeps, FinishesKeeps, ThrowsKeeps, AnswerIsLostKeeps DEF Handles
<1>3. ASSUME NEW s \in Screens, Sends(s) PROVE ChangesInv'
  <2>1. PICK c \in apply[s].todo : ClaimsProposal(s, c) \/ FindsItResolved(s, c)
    BY <1>3 DEFS Sends, Foremost
  <2> QED
    BY <1>3, <2>1, ClaimsKeeps, FindsResolvedKeeps DEF Sends
<1>4. ASSUME NEW s \in Screens, ScreenStep(s) PROVE ChangesInv'
  BY <1>3, <1>4, PressesKeeps, HearsAnswerKeeps, ReportsKeeps, WaitsKeeps, TriesAgainKeeps DEF ScreenStep
<1>5. ASSUME NEW c \in Changes, Rejects(c) \/ CaptionLands(c) \/ PostIsRemoved(c) PROVE ChangesInv'
  BY <1>5, RejectsKeeps, CaptionLandsKeeps, PostIsRemovedKeeps
<1> QED
  BY <1>1, <1>2, <1>4, <1>5 DEF ChangesNext

\* The state keeps its type, for any turn and any number of screens.
THEOREM ChangesTypeOKHolds == ChangesSpec => []ChangesTypeOK
<1>1. ChangesInv => ChangesTypeOK
  BY DEF ChangesInv
<1> QED
  BY <1>1, ChangesInvInit, ChangesInvStep, PTL DEF ChangesSpec

\* For any turn, any number of screens and any number of failures: a change is made at most
\* once (approveProposal's claim), what a screen counts as applied by its own claim is in, and
\* what it reports as refused by a guard is not (decide's reading of the answer).
THEOREM ReportIsTrueHolds == ChangesSpec => []ReportIsTrue
<1>1. ChangesInv => ReportIsTrue
  BY DEFS ChangesInv, ReportIsTrue
<1> QED
  BY <1>1, ChangesInvInit, ChangesInvStep, PTL DEF ChangesSpec

-----------------------------------------------------------------------------
(* The three parts side by side.                                           *)

LEMMA PartsRun == Spec => DeskSpec /\ DraftSpec /\ ChangesSpec
<1>1. Init => DeskInit /\ DraftInit /\ ChangesInit
  BY DEF Init
<1>2. [Next]_partVars => [DeskNext]_deskVars /\ [DraftNext]_draftVars /\ [ChangesNext]_changesVars
  BY DEF Next, partVars
<1> QED
  BY <1>1, <1>2, PTL DEF Spec, DeskSpec, DraftSpec, ChangesSpec

\* Every part has its type, whichever moves.
THEOREM PartsTypes == Spec => []TypeOK
<1>1. Spec => [](DeskTypeOK /\ DraftTypeOK /\ ChangesTypeOK)
  BY PartsRun, DeskTypes, DraftTypes, ChangesTypeOKHolds, PTL
<1> QED
  BY <1>1, PTL DEF TypeOK

\* What is proved of the desk, of the month and of the changes holds of the three together.
THEOREM PartsKeepTheirPromises ==
  Spec => /\ [](DoorIsClosed /\ UsedIdeaWasPlaced /\ ReportIsTrue)
          /\ CommittedIsUntouched /\ WritersCarryOthers
          /\ TheirsStays /\ ArcIsAnArc /\ MonthKeepsItsSize /\ CadenceIsReachedThinly
          /\ CorrectionLandsOnTheDate /\ SeriesIsAccounted
          /\ FloorOutlivesAssembly /\ SeriesSitOrAreMissed /\ IdeasDisplaceNothing
<1>1. Spec => [](DoorIsClosed /\ UsedIdeaWasPlaced /\ ReportIsTrue)
  BY PartsRun, DoorStaysClosed, UsedIdeasArePlaced, ReportIsTrueHolds, PTL
<1>2. Spec => CommittedIsUntouched /\ WritersCarryOthers
  BY PartsRun, CommittedStays, WritersCarry
<1>3. Spec => /\ TheirsStays /\ ArcIsAnArc /\ MonthKeepsItsSize /\ CadenceIsReachedThinly
              /\ CorrectionLandsOnTheDate /\ SeriesIsAccounted
  BY PartsRun, TheirsStaysHolds, ArcIsAnArcHolds, MonthKeepsItsSizeHolds, CadenceIsReachedThinlyHolds,
     CorrectionLandsHolds, SeriesIsAccountedHolds
<1>4. Spec => FloorOutlivesAssembly /\ SeriesSitOrAreMissed /\ IdeasDisplaceNothing
  BY PartsRun, FloorOutlivesAssemblyHolds, SeriesSitOrAreMissedHolds, IdeasDisplaceNothingHolds
<1> QED
  BY <1>1, <1>2, <1>3, <1>4

=============================================================================
