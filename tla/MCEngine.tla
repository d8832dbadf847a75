------------------------------ MODULE MCEngine ------------------------------
(***************************************************************************)
(* Three parts of the engine outside the monthly cycle: what a channel's   *)
(* voice learns (VoiceMerge), what becomes of a client's mails             *)
(* (MailIntake) and how saves in the Drive folder are noticed (DriveFeed). *)
(* They share no state here: part says which of them is looked at, and the *)
(* other two rest in an initial state.                                     *)
(***************************************************************************)
EXTENDS VoiceMerge, MailIntake, DriveFeed

CONSTANTS w1, w2, e1, e2, a1

VARIABLE part

engineVars == <<voiceVars, mailVars, driveVars, part>>

\* A mail that triage and another workflow handle, one whose workflow finds nothing in it,
\* and one no rule matches.
MCRuleSets == {<<<<"triage", "handled">>, <<>>>>, <<<<>>, <<"passes">>>>}

Rests(p, first) == part # p => first

Init ==
  /\ part \in {"voice", "mail", "drive"}
  /\ VoiceInit /\ Rests("voice", voice = <<>>)
  /\ MailInit /\ Rests("mail", rulesFor[1] = <<>>)
  /\ DriveInit

VoiceRests == UNCHANGED voiceVars
MailRests == UNCHANGED mailVars
DriveRests == UNCHANGED driveVars

Next ==
  \/ part = "voice" /\ VoiceNext /\ MailRests /\ DriveRests /\ UNCHANGED part
  \/ part = "mail" /\ MailNext /\ VoiceRests /\ DriveRests /\ UNCHANGED part
  \/ part = "drive" /\ DriveNext /\ VoiceRests /\ MailRests /\ UNCHANGED part

\* A worker is a merge, a mail poll or a Drive poll, by the part that is looked at.
Attempt(w) ==
  \/ part = "voice" /\ MergeStep(w) /\ MailRests /\ DriveRests /\ UNCHANGED part
  \/ part = "mail" /\ PollStep(w) /\ VoiceRests /\ DriveRests /\ UNCHANGED part
  \/ part = "drive" /\ FeedStep(w) /\ VoiceRests /\ MailRests /\ UNCHANGED part

\* The nightly merge and the pollers are run by timers, again and again.  One of them that
\* is not starved is enough: the other may hang where it is for good.
Spec == Init /\ [][Next]_engineVars /\ WF_engineVars(Attempt(w1))

\* Every part of the state has its type.
TypeOK == VoiceTypeOK /\ MailTypeOK /\ DriveTypeOK

=============================================================================
