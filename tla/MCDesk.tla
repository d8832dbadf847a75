------------------------------- MODULE MCDesk -------------------------------
(***************************************************************************)
(* A month's draft, seen twice: as rows under the requests of a desk       *)
(* (DraftDesk), and as a month that sentences reshape and assemblies       *)
(* replace (DraftMonth).  Beside it, the changes an agent's turn proposes  *)
(* to a month that is approved (AgentChanges).  The three share no state:  *)
(* part says which of them is looked at, and the others rest.              *)
(***************************************************************************)
EXTENDS DraftDesk, MCDraftMonth, AgentChanges, TLC

CONSTANTS b1, b2, i1, i2, e1, e2, reel, hook, move

VARIABLE part

partVars == <<deskVars, draftVars, changesVars, part>>

Symmetric == Permutations({e1, e2})

\* A turn that adds a reel, asks for its hook and moves a post.
MCRank == (reel :> 1) @@ (hook :> 2) @@ (move :> 3)
MCKind == (reel :> "add") @@ (hook :> "hook") @@ (move :> "move")
MCRefOf == [c \in {reel, hook, move} |-> reel]

\* The rows are alike: b1 is the first.
FirstIsB1 == beat[b1].status = "draft"

DeskAtRest == FirstIsB1 /\ ~beat[b1].edited

Init ==
  /\ DeskInit /\ DraftInit /\ ChangesInit
  /\ \/ part = "desk" /\ FirstIsB1 /\ plan = <<>>
     \/ part = "month" /\ DeskAtRest
     \/ part = "changes" /\ DeskAtRest /\ plan = <<>>

Next ==
  /\ UNCHANGED part
  /\ \/ part = "desk" /\ DeskNext /\ UNCHANGED <<draftVars, changesVars>>
     \/ part = "month" /\ DraftNext /\ UNCHANGED <<deskVars, changesVars>>
     \/ part = "changes" /\ ChangesNext /\ UNCHANGED <<deskVars, draftVars>>

Spec == Init /\ [][Next]_partVars

\* Every part of the state has its type.
TypeOK == DeskTypeOK /\ DraftTypeOK /\ ChangesTypeOK

=============================================================================
