-------------------------- MODULE VoiceMerge_proofs --------------------------
(***************************************************************************)
(* Safety of the voice profile for any edits, merges and approvals and any *)
(* number of rollbacks and failures: a new snapshot knows what the one it  *)
(* displaces knew, what the nightly merge takes stays in the profile, and  *)
(* every part of the state keeps its type.                                 *)
(***************************************************************************)
EXTENDS VoiceMerge, TLAPS

USE DEF work, voiceVars

-----------------------------------------------------------------------------
(* Types. *)

Snapshot == [kind : {"seed", "nightly", "gate"}, run : {"none", "applied", "rolled_back"}, learned : [Edits -> Nat]]

\* The prior snapshot a rollback has read is one of the channel's.
VoiceShape ==
  /\ voice \in Seq(Snapshot) /\ current \in 0..Len(voice)
  /\ takenBy \in [Edits -> 0..Len(voice)]
  /\ revert \in [pc : {"idle", "look", "flip", "reset"}, target : Nat, run : Nat, base : Nat]
  /\ revert.pc \in {"look", "flip"} => revert.target \in DOMAIN voice

LEMMA LearnedShape ==
  ASSUME VoiceShape, NEW n \in 0..Len(voice)
  PROVE  Learned(n) \in [Edits -> Nat]
<1>1. n # 0 => voice[n] \in Snapshot
  BY DEF VoiceShape
<1> QED
  BY <1>1 DEF Learned, Snapshot

LEMMA VoiceShapeInit == VoiceInit => VoiceShape
<1> SUFFICES ASSUME VoiceInit PROVE VoiceShape
  OBVIOUS
<1>1. [kind |-> "seed", run |-> "none", learned |-> [x \in Edits |-> 0]] \in Snapshot
  BY DEF Snapshot
<1>2. PICK seeded \in BOOLEAN :
        /\ voice = IF seeded THEN <<[kind |-> "seed", run |-> "none", learned |-> [x \in Edits |-> 0]]>> ELSE <<>>
        /\ current = Len(voice)
  BY DEF VoiceInit
<1>3. voice \in Seq(Snapshot) /\ current \in 0..Len(voice)
  <2>1. CASE seeded
    BY <1>1, <1>2, <2>1
  <2>2. CASE ~seeded
    BY <1>2, <2>2
  <2> QED
    BY <2>1, <2>2
<1> QED
  BY <1>3 DEF VoiceInit, VoiceShape

\* What a commit leaves: one snapshot more, made of the one that was current.
LEMMA CommitLeaves ==
  ASSUME VoiceShape, NEW base, NEW deltas, NEW batch, NEW kind \in {"nightly", "gate"},
         Commits(base, deltas, batch, kind)
  PROVE  /\ voice' \in Seq(Snapshot) /\ Len(voice') = Len(voice) + 1 /\ current' = Len(voice')
         /\ \A n \in 1..Len(voice) : voice'[n] = voice[n]
         /\ voice'[Len(voice')].kind = kind
         /\ \A x \in Edits : voice'[Len(voice')].learned[x] = Learned(current)[x] + IF x \in deltas THEN 1 ELSE 0
         /\ takenBy' \in [Edits -> 0..Len(voice')]
<1> DEFINE made == [kind |-> kind, run |-> "applied", learned |-> ApplyVoiceDeltas(base, deltas)]
<1>1. base = current /\ voice' = Append(voice, made) /\ current' = Len(voice')
  BY DEF Commits
<1>2. Learned(current) \in [Edits -> Nat]
  BY LearnedShape DEF VoiceShape
<1>3. made \in Snapshot /\ made.kind = kind
      /\ made.learned = [x \in Edits |-> Learned(current)[x] + IF x \in deltas THEN 1 ELSE 0]
  BY <1>1, <1>2 DEF Snapshot, ApplyVoiceDeltas
<1> HIDE DEF made
<1>4. /\ voice' \in Seq(Snapshot) /\ Len(voice') = Len(voice) + 1 /\ voice'[Len(voice')] = made
      /\ \A n \in 1..Len(voice) : voice'[n] = voice[n]
  BY <1>1, <1>3 DEF VoiceShape
<1>5. takenBy' \in [Edits -> 0..Len(voice')]
  <2>1. takenBy' = [x \in Edits |-> IF x \in batch THEN Len(voice') ELSE takenBy[x]]
    BY DEF Commits
  <2>2. Len(voice) \in Nat /\ Len(voice') = Len(voice) + 1
    BY <1>4 DEF VoiceShape
  <2> QED
    BY <2>1, <2>2 DEF VoiceShape
<1> QED
  BY <1>1, <1>3, <1>4, <1>5

\* A rollback has a snapshot to go back to.
LEMMA PriorExists ==
  ASSUME VoiceShape, RevertReads
  PROVE  revert'.pc = "look" /\ revert'.target \in DOMAIN voice /\ revert'.run \in Nat
         /\ revert' \in [pc : {"idle", "look", "flip", "reset"}, target : Nat, run : Nat, base : Nat]
<1> DEFINE others == DOMAIN voice \ {current}
           prior == CHOOSE n \in others : \A k \in others : k <= n
           ran == IF voice[current].run = "none" THEN 0 ELSE current
<1>1. others # {} /\ revert' = [pc |-> "look", target |-> prior, run |-> ran, base |-> 0]
  BY DEF RevertReads
<1>2. DOMAIN voice = 1..Len(voice) /\ Len(voice) \in Nat /\ current \in Nat
  BY DEF VoiceShape
<1>3. \E n \in others : \A k \in others : k <= n
  <2>0. \A k \in Nat : k \in others <=> k >= 1 /\ k <= Len(voice) /\ k # current
    BY <1>2
  <2>3. others \subseteq Nat
    BY <1>2
  <2>4. Len(voice) \in others <=> Len(voice) >= 1 /\ Len(voice) # current
    BY <1>2
  <2> HIDE DEF others
  <2>1. CASE Len(voice) \in others
    BY <1>2, <2>0, <2>1, <2>3
  <2>2. CASE Len(voice) \notin others
    <3>1. Len(voice) - 1 \in others /\ \A k \in others : k <= Len(voice) - 1
      <4>1. PICK k \in others : TRUE
        BY <1>1
      <4>2. k \in Nat /\ k >= 1 /\ k <= Len(voice) /\ k # current /\ Len(voice) = current
        <5>1. k \in Nat /\ k >= 1 /\ k <= Len(voice) /\ k # current
          BY <2>0, <2>3, <4>1
        <5>2. Len(voice) >= 1
          BY <1>2, <5>1
        <5>3. Len(voice) = current
          BY <2>2, <2>4, <5>2
        <5> QED
          BY <5>1, <5>3
      <4> QED
        BY <1>2, <2>0, <2>2, <4>2
    <3> QED
      BY <3>1
  <2> QED
    BY <2>1, <2>2
<1>4. prior \in others
  BY <1>3
<1>5. ran \in Nat /\ prior \in Nat /\ prior \in DOMAIN voice
  BY <1>2, <1>4
<1> HIDE DEF ran, prior
<1> QED
  BY <1>1, <1>5

\* What a rollback leaves: the same snapshots, whatever the runs are marked as.
LEMMA FlipLeaves ==
  ASSUME VoiceShape, RevertFlips
  PROVE  /\ voice' \in Seq(Snapshot) /\ Len(voice') = Len(voice) /\ current' \in 0..Len(voice)
         /\ \A n \in 1..Len(voice) : voice'[n].kind = voice[n].kind /\ voice'[n].learned = voice[n].learned
         /\ revert' \in [pc : {"idle", "look", "flip", "reset"}, target : Nat, run : Nat, base : Nat]
<1>1. revert.target \in 1..Len(voice)
  BY DEF RevertFlips, VoiceShape
<1>2. revert' \in [pc : {"idle", "look", "flip", "reset"}, target : Nat, run : Nat, base : Nat]
  BY DEF RevertFlips, VoiceShape
<1>3. CASE UNCHANGED <<voice, current>>
  BY <1>2, <1>3 DEF VoiceShape
<1>4. CASE revert.base = current
  <2> DEFINE mark == IF voice[current].run = "none" THEN voice[current].run ELSE "rolled_back"
  <2>1. voice' = [voice EXCEPT ![current] = [voice[current] EXCEPT !.run = mark]] /\ current' = revert.target
    BY <1>4, Zenon DEF RevertFlips
  <2>2. \A n \in 1..Len(voice) : voice[n] \in Snapshot
    BY DEF VoiceShape
  <2>3. current # 0 => mark \in {"none", "applied", "rolled_back"}
    BY <2>2 DEF VoiceShape, Snapshot
  <2> DEFINE marked == [voice[current] EXCEPT !.run = mark]
  <2>4. current # 0 => marked \in Snapshot /\ marked.kind = voice[current].kind /\ marked.learned = voice[current].learned
    <3> SUFFICES ASSUME current # 0
                 PROVE  marked \in Snapshot /\ marked.kind = voice[current].kind /\ marked.learned = voice[current].learned
      OBVIOUS
    <3>1. voice[current] \in Snapshot
      BY <2>2 DEF VoiceShape
    <3> HIDE DEF mark
    <3> QED
      BY <2>3, <3>1 DEF Snapshot
  <2> HIDE DEF marked, mark
  <2>5. voice' \in Seq(Snapshot) /\ Len(voice') = Len(voice)
        /\ \A n \in 1..Len(voice) : voice'[n] = IF n = current THEN marked ELSE voice[n]
    <3>1. voice' = [voice EXCEPT ![current] = marked]
      BY <2>1 DEF marked
    <3>2. Len(voice) \in Nat /\ DOMAIN voice = 1..Len(voice)
      BY DEF VoiceShape
    <3>3. voice' \in [1..Len(voice) -> Snapshot]
      <4>1. voice = [n \in 1..Len(voice) |-> voice[n]]
        BY <3>2 DEF VoiceShape
      <4>2. voice' = [n \in 1..Len(voice) |-> IF n = current THEN marked ELSE voice[n]]
        BY <3>1, <4>1
      <4>3. \A n \in 1..Len(voice) : (IF n = current THEN marked ELSE voice[n]) \in Snapshot
        BY <2>2, <2>4, <3>2
      <4> HIDE DEF Snapshot
      <4> QED
        BY <4>2, <4>3
    <3>4. voice' \in Seq(Snapshot) /\ Len(voice') = Len(voice)
      BY <3>2, <3>3
    <3> QED
      BY <3>1, <3>2, <3>4
  <2> QED
    BY <1>1, <1>2, <2>1, <2>4, <2>5
<1> QED
  BY <1>3, <1>4 DEF RevertFlips

LEMMA VoiceShapeKept == VoiceShape /\ [VoiceNext]_voiceVars => VoiceShape'
<1> SUFFICES ASSUME VoiceShape, [VoiceNext]_voiceVars PROVE VoiceShape'
  OBVIOUS
<1>1. CASE UNCHANGED <<takenBy, voice, current, revert>>
  BY <1>1 DEF VoiceShape
<1>2. ASSUME NEW base, NEW deltas, NEW batch, NEW kind \in {"nightly", "gate"},
             Commits(base, deltas, batch, kind), UNCHANGED revert
      PROVE  VoiceShape'
  <2>1. Len(voice) \in Nat /\ DOMAIN voice = 1..Len(voice) /\ DOMAIN voice' = 1..Len(voice')
    BY <1>2, CommitLeaves DEF VoiceShape
  <2>2. /\ voice' \in Seq(Snapshot) /\ Len(voice') = Len(voice) + 1 /\ current' = Len(voice')
        /\ takenBy' \in [Edits -> 0..Len(voice')]
    BY <1>2, CommitLeaves
  <2> QED
    BY <1>2, <2>1, <2>2 DEF VoiceShape
<1>3. CASE RevertReads
  BY <1>3, PriorExists DEF RevertReads, VoiceShape
<1>4. CASE RevertFlips
  <2>1. revert'.pc \in {"idle", "reset"}
    BY <1>4 DEF RevertFlips, VoiceShape
  <2>2. takenBy' = takenBy
    BY <1>4 DEF RevertFlips
  <2> QED
    BY <1>4, <2>1, <2>2, FlipLeaves DEF VoiceShape
<1>5. CASE RevertResets
  <2>1. revert' \in [pc : {"idle", "look", "flip", "reset"}, target : Nat, run : Nat, base : Nat] /\ revert'.pc = "idle"
    BY <1>5 DEF RevertResets, VoiceShape
  <2>2. takenBy' \in [Edits -> 0..Len(voice)]
    BY <1>5 DEF RevertResets, VoiceShape
  <2> QED
    BY <1>5, <2>1, <2>2 DEF RevertResets, VoiceShape
<1>6. CASE VoiceCrash
  <2>1. UNCHANGED revert \/ (revert' \in [pc : {"idle", "look", "flip", "reset"}, target : Nat, run : Nat, base : Nat] /\ revert'.pc = "idle")
    BY <1>6 DEF VoiceCrash, VoiceShape
  <2> QED
    BY <1>6, <2>1 DEF VoiceCrash, VoiceShape
<1>7. ASSUME NEW m \in Mergers, MergeStep(m) PROVE VoiceShape'
  BY <1>1, <1>2, <1>7 DEF MergeStep, MergeReads, MergeLoads, MergeGivesUp, MergeCommits
<1>8. CASE Detects \/ ExtractStarts \/ ExtractReads \/ ExtractStores \/ ExtractMoves \/ ExtractFails \/ UNCHANGED voiceVars
  BY <1>1, <1>8 DEF Detects, ExtractStarts, ExtractReads, ExtractStores, ExtractMoves, ExtractFails
<1>9. ASSUME NEW a \in Approvals,
             ApplyStarts(a) \/ ApplyLoads(a) \/ ApplyReads(a) \/ ApplyCommits(a) \/ ApplyMoves(a) \/ ApplyFails(a)
      PROVE  VoiceShape'
  BY <1>1, <1>2, <1>9 DEF ApplyStarts, ApplyLoads, ApplyReads, ApplyCommits, ApplyMoves, ApplyFails
<1>10. CASE RevertLooks
  <2>1. current \in Nat
    BY DEF VoiceShape
  <2>2. PICK at \in {"idle", "flip"} : revert' = [revert EXCEPT !.pc = at, !.base = current]
    BY <1>10 DEF RevertLooks
  <2>3. revert' \in [pc : {"idle", "look", "flip", "reset"}, target : Nat, run : Nat, base : Nat]
        /\ revert'.target = revert.target
    BY <2>1, <2>2 DEF VoiceShape
  <2>4. revert.pc = "look" /\ UNCHANGED <<takenBy, voice, current>>
    BY <1>10 DEF RevertLooks
  <2> QED
    BY <2>3, <2>4 DEF VoiceShape
<1> QED
  BY <1>3, <1>4, <1>5, <1>6, <1>7, <1>8, <1>9, <1>10 DEF VoiceNext

\* Only the two commits write a snapshot.
LEMMA WhoWrites ==
  ASSUME VoiceShape, [VoiceNext]_voiceVars
  PROVE  \/ UNCHANGED <<takenBy, voice, current, undone>>
         \/ \E base, deltas, batch : Commits(base, deltas, batch, "gate") /\ UNCHANGED undone
         \/ \E base, batch : Commits(base, batch, batch, "nightly") /\ UNCHANGED undone
         \/ RevertFlips \/ RevertResets
<1>1. ASSUME NEW m \in Mergers, MergeStep(m)
      PROVE  \/ UNCHANGED <<takenBy, voice, current, undone>>
             \/ \E base, batch : Commits(base, batch, batch, "nightly") /\ UNCHANGED undone
  BY <1>1 DEF MergeStep, MergeReads, MergeLoads, MergeGivesUp, MergeCommits
<1>2. ASSUME NEW a \in Approvals,
             ApplyStarts(a) \/ ApplyLoads(a) \/ ApplyReads(a) \/ ApplyCommits(a) \/ ApplyMoves(a) \/ ApplyFails(a)
      PROVE  \/ UNCHANGED <<takenBy, voice, current, undone>>
             \/ \E base, deltas, batch : Commits(base, deltas, batch, "gate") /\ UNCHANGED undone
  BY <1>2 DEF ApplyStarts, ApplyLoads, ApplyReads, ApplyCommits, ApplyMoves, ApplyFails
<1>3. Detects \/ ExtractStarts \/ ExtractReads \/ ExtractStores \/ ExtractMoves \/ ExtractFails
        \/ RevertReads \/ RevertLooks \/ VoiceCrash \/ UNCHANGED voiceVars
        => UNCHANGED <<takenBy, voice, current, undone>>
  BY DEF Detects, ExtractStarts, ExtractReads, ExtractStores, ExtractMoves, ExtractFails, RevertReads, RevertLooks, VoiceCrash
<1> QED
  BY <1>1, <1>2, <1>3 DEF VoiceNext

-----------------------------------------------------------------------------
(* A new snapshot is made of the one it displaces.                         *)

LEMMA CommitForgetsNothing ==
  ASSUME VoiceShape, NEW base, NEW deltas, NEW batch, NEW kind \in {"nightly", "gate"},
         Commits(base, deltas, batch, kind)
  PROVE  \A x \in Edits : /\ Learned(current)[x] \in Nat
                         /\ Learned(current)'[x] = Learned(current)[x] + IF x \in deltas THEN 1 ELSE 0
<1>1. Learned(current) \in [Edits -> Nat]
  BY LearnedShape DEF VoiceShape
<1>2. Len(voice') = Len(voice) + 1 /\ current' = Len(voice')
  BY CommitLeaves
<1>4. \A x \in Edits : voice'[Len(voice')].learned[x] = Learned(current)[x] + IF x \in deltas THEN 1 ELSE 0
  BY CommitLeaves
<1>3. Learned(current)' = voice'[Len(voice')].learned
  BY <1>2 DEF Learned, VoiceShape
<1> QED
  BY <1>1, <1>3, <1>4

\* A new snapshot of a channel's voice knows all that the one it displaces knew, whoever
\* merges, approves or rolls back meanwhile: the index on is_current refuses the writer
\* that read another one.
THEOREM SnapshotsAddUp == VoiceSpec => NothingIsForgotten
<1>1. VoiceShape /\ [VoiceNext]_voiceVars =>
        [Len(voice') > Len(voice) => \A x \in Edits : Learned(current)'[x] >= Learned(current)[x]]_voiceVars
  <2> SUFFICES ASSUME VoiceShape, [VoiceNext]_voiceVars, Len(voice') > Len(voice)
               PROVE  \A x \in Edits : Learned(current)'[x] >= Learned(current)[x]
    OBVIOUS
  <2>1. Len(voice) \in Nat /\ Len(voice') # Len(voice)
    BY DEF VoiceShape
  <2>2. ~RevertFlips /\ ~RevertResets
    BY <2>1, FlipLeaves DEF RevertResets
  <2>3. ASSUME NEW base, NEW deltas, NEW batch, NEW kind \in {"nightly", "gate"}, Commits(base, deltas, batch, kind)
        PROVE  \A x \in Edits : Learned(current)'[x] >= Learned(current)[x]
    <3>1. \A x \in Edits : /\ Learned(current)[x] \in Nat
                          /\ Learned(current)'[x] = Learned(current)[x] + IF x \in deltas THEN 1 ELSE 0
      BY <2>3, CommitForgetsNothing
    <3> QED
      BY <3>1
  <2> QED
    BY <2>1, <2>2, <2>3, WhoWrites
<1> QED
  BY <1>1, VoiceShapeInit, VoiceShapeKept, PTL DEF VoiceSpec, NothingIsForgotten

-----------------------------------------------------------------------------
(* What the nightly merge takes stays in the profile.                      *)

\* Snapshots past the current one have been gone back over.
NewerUndone == \A n \in DOMAIN voice : n > current => n \in undone

\* From the run that took an edit on, every snapshot knows it.
KnownSince ==
  \A x \in Edits :
    takenBy[x] # 0 /\ voice[takenBy[x]].kind = "nightly" /\ takenBy[x] \notin undone =>
      \A k \in DOMAIN voice : k >= takenBy[x] => voice[k].learned[x] > 0

KeepsInv == VoiceShape /\ NewerUndone /\ KnownSince

LEMMA KeepsInvInit == VoiceInit => KeepsInv
<1> SUFFICES ASSUME VoiceInit PROVE KeepsInv
  OBVIOUS
<1>1. VoiceShape
  BY VoiceShapeInit
<1>2. current = Len(voice) /\ \A x \in Edits : takenBy[x] = 0
  BY DEF VoiceInit
<1>3. NewerUndone
  BY <1>1, <1>2 DEF NewerUndone, VoiceShape
<1> QED
  BY <1>1, <1>2, <1>3 DEF KeepsInv, KnownSince

\* A nightly commit writes down as taken what it has learned; a gate commit claims nothing.
LEMMA CommitKeeps ==
  ASSUME KeepsInv, VoiceShape', NEW base, NEW deltas, NEW batch, NEW kind \in {"nightly", "gate"},
         Commits(base, deltas, batch, kind), kind = "nightly" => deltas = batch, UNCHANGED undone
  PROVE  KeepsInv'
<1>1. Len(voice) \in Nat /\ DOMAIN voice = 1..Len(voice) /\ DOMAIN voice' = 1..Len(voice') /\ VoiceShape
  BY DEF KeepsInv, VoiceShape
<1>0. VoiceShape /\ Commits(base, deltas, batch, kind)
  BY DEF KeepsInv
<1>2. Len(voice') = Len(voice) + 1 /\ current' = Len(voice') /\ voice'[Len(voice')].kind = kind
  <2>1. Len(voice') = Len(voice) + 1 /\ current' = Len(voice')
    BY <1>1, CommitLeaves
  <2>2. voice'[Len(voice')].kind = kind
    BY <1>0, CommitLeaves
  <2> QED
    BY <2>1, <2>2
<1>3. /\ \A n \in 1..Len(voice) : voice'[n] = voice[n]
      /\ \A x \in Edits : voice'[Len(voice')].learned[x] = Learned(current)[x] + IF x \in deltas THEN 1 ELSE 0
  <2>1. \A n \in 1..Len(voice) : voice'[n] = voice[n]
    BY <1>1, CommitLeaves
  <2>2. \A x \in Edits : voice'[Len(voice')].learned[x] = Learned(current)[x] + IF x \in deltas THEN 1 ELSE 0
    BY <1>0, CommitLeaves
  <2> QED
    BY <2>1, <2>2
<1>4. \A x \in Edits : takenBy'[x] = IF x \in batch THEN Len(voice') ELSE takenBy[x]
  BY DEF Commits
<1>5. NewerUndone'
  BY <1>1, <1>2 DEF NewerUndone
<1>6. KnownSince'
  <2> SUFFICES ASSUME NEW x \in Edits, takenBy'[x] # 0, voice'[takenBy'[x]].kind = "nightly", takenBy'[x] \notin undone,
                      NEW k \in DOMAIN voice', k >= takenBy'[x]
               PROVE  voice'[k].learned[x] > 0
    BY DEF KnownSince
  <2>0. Learned(current)[x] \in Nat /\ takenBy[x] \in 0..Len(voice) /\ current \in 0..Len(voice)
    BY <1>1, LearnedShape DEF VoiceShape
  <2>1. CASE x \in batch
    <3>1. k = Len(voice') /\ x \in deltas
      BY <1>1, <1>2, <1>4, <2>1
    <3> QED
      BY <1>3, <2>0, <3>1
  <2>2. CASE x \notin batch
    <3>1. takenBy'[x] = takenBy[x] /\ takenBy[x] \in 1..Len(voice) /\ voice[takenBy[x]].kind = "nightly"
      BY <1>1, <1>3, <1>4, <2>0, <2>2
    <3>2. \A n \in 1..Len(voice) : n >= takenBy[x] => voice[n].learned[x] > 0
      BY <1>1, <3>1 DEF KeepsInv, KnownSince
    <3>3. takenBy[x] <= current
      BY <1>1, <2>0, <3>1 DEF KeepsInv, NewerUndone
    <3>4. current # 0 /\ Learned(current)[x] > 0
      BY <2>0, <3>1, <3>2, <3>3 DEF Learned
    <3>5. CASE k = Len(voice')
      BY <1>3, <2>0, <3>4, <3>5
    <3>6. CASE k # Len(voice')
      <4>1. k \in 1..Len(voice) /\ voice'[k] = voice[k]
        BY <1>1, <1>2, <1>3, <3>6
      <4> QED
        BY <3>1, <3>2, <4>1
    <3> QED
      BY <3>5, <3>6
  <2> QED
    BY <2>1, <2>2
<1> QED
  BY <1>5, <1>6 DEF KeepsInv

LEMMA FlipKeeps ==
  ASSUME KeepsInv, VoiceShape', RevertFlips
  PROVE  KeepsInv'
<1>1. VoiceShape /\ DOMAIN voice = 1..Len(voice) /\ DOMAIN voice' = 1..Len(voice')
  BY DEF KeepsInv, VoiceShape
<1>2. /\ Len(voice') = Len(voice)
      /\ \A n \in 1..Len(voice) : voice'[n].kind = voice[n].kind /\ voice'[n].learned = voice[n].learned
  BY <1>1, FlipLeaves
<1>3. takenBy' = takenBy /\ undone \subseteq undone'
  BY DEF RevertFlips
<1>4. NewerUndone'
  <2>1. CASE UNCHANGED <<voice, current, undone>>
    BY <2>1 DEF KeepsInv, NewerUndone
  <2>2. CASE current' = revert.target /\ undone' = undone \cup {n \in DOMAIN voice : n > revert.target}
    BY <1>1, <1>2, <2>2 DEF NewerUndone
  <2> QED
    BY <2>1, <2>2 DEF RevertFlips
<1>5. KnownSince'
  <2> SUFFICES ASSUME NEW x \in Edits, takenBy[x] # 0, voice'[takenBy[x]].kind = "nightly", takenBy[x] \notin undone',
                      NEW k \in DOMAIN voice', k >= takenBy[x]
               PROVE  voice'[k].learned[x] > 0
    BY <1>3 DEF KnownSince
  <2>1. takenBy[x] \in 1..Len(voice) /\ k \in DOMAIN voice
    BY <1>1, <1>2 DEF VoiceShape
  <2>2. voice[takenBy[x]].kind = "nightly" /\ takenBy[x] \notin undone
    BY <1>2, <1>3, <2>1
  <2>3. voice[k].learned[x] > 0
    BY <2>1, <2>2 DEF KeepsInv, KnownSince
  <2> QED
    BY <1>1, <1>2, <2>1, <2>3
<1> QED
  BY <1>4, <1>5 DEF KeepsInv

LEMMA KeepsInvKept == KeepsInv /\ [VoiceNext]_voiceVars => KeepsInv'
<1> SUFFICES ASSUME KeepsInv, [VoiceNext]_voiceVars PROVE KeepsInv'
  OBVIOUS
<1>0. VoiceShape /\ VoiceShape'
  BY VoiceShapeKept DEF KeepsInv
<1>1. CASE UNCHANGED <<takenBy, voice, current, undone>>
  BY <1>0, <1>1 DEF KeepsInv, NewerUndone, KnownSince
<1>2. ASSUME NEW base, NEW deltas, NEW batch, Commits(base, deltas, batch, "gate"), UNCHANGED undone PROVE KeepsInv'
  BY <1>0, <1>2, CommitKeeps
<1>3. ASSUME NEW base, NEW batch, Commits(base, batch, batch, "nightly"), UNCHANGED undone PROVE KeepsInv'
  BY <1>0, <1>3, CommitKeeps
<1>4. CASE RevertFlips
  BY <1>0, <1>4, FlipKeeps
<1>5. CASE RevertResets
  <2>1. UNCHANGED <<voice, current, undone>> /\ \A x \in Edits : takenBy'[x] \in {0, takenBy[x]}
    BY <1>5 DEF RevertResets
  <2> QED
    BY <1>0, <2>1 DEF KeepsInv, NewerUndone, KnownSince
<1> QED
  BY <1>0, <1>1, <1>2, <1>3, <1>4, <1>5, WhoWrites

\* What mergeChannelEdits took from the pending edits is in the profile the plans are
\* written with, whatever merge, gate or rollback came between, unless a rollback went back
\* to a snapshot older than that run.
THEOREM NightlyKeeps == VoiceSpec => []NightlyKeepsWhatItTakes
<1>1. KeepsInv => NightlyKeepsWhatItTakes
  <2> SUFFICES ASSUME KeepsInv, NEW x \in Edits, takenBy[x] # 0, voice[takenBy[x]].kind = "nightly", takenBy[x] \notin undone
               PROVE  Learned(current)[x] > 0
    BY DEF NightlyKeepsWhatItTakes
  <2>1. takenBy[x] \in DOMAIN voice /\ DOMAIN voice = 1..Len(voice) /\ current \in 0..Len(voice)
    BY DEF KeepsInv, VoiceShape
  <2>2. takenBy[x] <= current /\ current \in DOMAIN voice
    BY <2>1 DEF KeepsInv, NewerUndone
  <2> QED
    BY <2>1, <2>2 DEF KeepsInv, KnownSince, Learned
<1> QED
  BY <1>1, KeepsInvInit, KeepsInvKept, PTL DEF VoiceSpec

-----------------------------------------------------------------------------
(* The rest of the types: the cycle and what a merge or extraction holds.  *)

Hands == [pc : {"idle", "load", "read", "store", "commit", "move", "close"},
          batch : SUBSET Edits, base : Nat, deltas : SUBSET Edits]

VoiceStatus == {"active", "finalised", "awaiting_voice_approval", "voice_merged", "closed", "failed"}

\* A merge under way read at least one edit, and an extraction only the month's.
VoiceRest ==
  /\ found \subseteq Edits /\ (voice # <<>> => current # 0)
  /\ cycle \in [status : VoiceStatus, deltas : SUBSET OfMonth]
  /\ merge \in [Mergers -> Hands] /\ \A m \in Mergers : merge[m].pc # "idle" => merge[m].batch # {}
  /\ extract \in Hands /\ extract.batch \subseteq OfMonth
  /\ undone \subseteq DOMAIN voice /\ voiceFaults \in 0..VoiceFaults

LEMMA HandRests == Hand \in Hands /\ Hand.pc = "idle" /\ Hand.batch = {}
  BY DEF Hand, Hands

LEMMA VoiceRestInit == VoiceInit => VoiceRest
<1> SUFFICES ASSUME VoiceInit PROVE VoiceRest
  OBVIOUS
<1>1. voice # <<>> => current # 0
  <2>1. PICK seeded \in BOOLEAN :
          /\ voice = IF seeded THEN <<[kind |-> "seed", run |-> "none", learned |-> [x \in Edits |-> 0]]>> ELSE <<>>
          /\ current = Len(voice)
    BY DEF VoiceInit
  <2>2. CASE seeded
    <3>1. Len(voice) = 1
      BY <2>1, <2>2
    <3> QED
      BY <2>1, <3>1
  <2> QED
    BY <2>1, <2>2
<1>2. /\ found = {} /\ undone = {} /\ voiceFaults = 0 /\ cycle = [status |-> "active", deltas |-> {}]
      /\ merge = [m \in Mergers |-> Hand] /\ extract = Hand
  BY DEF VoiceInit
<1> QED
  BY <1>1, <1>2, HandRests, VoiceAssumption DEF VoiceRest, VoiceStatus

LEMMA FaultyCounts ==
  ASSUME VoiceRest, Faulty
  PROVE  voiceFaults' \in 0..VoiceFaults
  BY VoiceAssumption DEF VoiceRest, Faulty

\* A commit appends a snapshot: those undone before are still there.
LEMMA CommitGrows ==
  ASSUME VoiceShape, VoiceRest, NEW base, NEW deltas, NEW batch, NEW kind \in {"nightly", "gate"},
         Commits(base, deltas, batch, kind), UNCHANGED undone
  PROVE  current' # 0 /\ undone' \subseteq DOMAIN voice'
<1>1. Len(voice') = Len(voice) + 1 /\ current' = Len(voice') /\ Len(voice) \in Nat
  BY CommitLeaves DEF VoiceShape
<1>2. DOMAIN voice = 1..Len(voice) /\ DOMAIN voice' = 1..Len(voice')
  BY CommitLeaves DEF VoiceShape
<1> QED
  BY <1>1, <1>2 DEF VoiceRest

LEMMA FlipRests ==
  ASSUME VoiceShape, VoiceRest, RevertFlips
  PROVE  (voice' # <<>> => current' # 0) /\ undone' \subseteq DOMAIN voice'
<1>1. Len(voice) \in Nat /\ DOMAIN voice = 1..Len(voice) /\ revert.target \in DOMAIN voice
  BY DEF VoiceShape, RevertFlips
<1>2. CASE UNCHANGED <<voice, current, undone>>
  BY <1>2 DEF VoiceRest
<1>3. CASE /\ voice' = [voice EXCEPT ![current].run = IF @ = "none" THEN @ ELSE "rolled_back"]
           /\ current' = revert.target
           /\ undone' = undone \cup {n \in DOMAIN voice : n > revert.target}
  <2>1. DOMAIN voice' = DOMAIN voice
    BY <1>3
  <2> QED
    BY <1>1, <1>3, <2>1 DEF VoiceRest
<1> QED
  BY <1>2, <1>3 DEF RevertFlips

LEMMA VoiceRestKept == VoiceShape /\ VoiceRest /\ [VoiceNext]_voiceVars => VoiceRest'
<1> SUFFICES ASSUME VoiceShape, VoiceRest, [VoiceNext]_voiceVars PROVE VoiceRest'
  OBVIOUS
<1> DEFINE Stores == UNCHANGED <<voice, current, undone>>
           Same == UNCHANGED <<found, voice, current, cycle, extract, undone, voiceFaults>>
<1>0. Pending \subseteq Edits /\ current \in Nat
  BY DEF Pending, VoiceRest, VoiceShape
<1>1. CASE UNCHANGED voiceVars
  BY <1>1 DEF VoiceRest
<1>2. CASE Detects
  BY <1>2 DEF Detects, VoiceRest
<1>3. ASSUME NEW m \in Mergers, MergeReads(m) PROVE VoiceRest'
  <2>1. [Hand EXCEPT !.pc = "load", !.batch = Pending] \in Hands
    BY <1>0 DEF Hand, Hands
  <2>2. [Hand EXCEPT !.pc = "load", !.batch = Pending].batch = Pending
    BY DEF Hand
  <2> QED
    BY <1>3, <2>1, <2>2 DEF MergeReads, VoiceRest
<1>4. ASSUME NEW m \in Mergers, MergeLoads(m) PROVE VoiceRest'
  <2>1. merge' = [merge EXCEPT ![m] = [merge[m] EXCEPT !.pc = "commit", !.base = current]]
    BY <1>4 DEF MergeLoads, VoiceRest, Hands
  <2>2. merge[m] \in Hands /\ merge[m].batch # {}
    BY <1>4 DEF MergeLoads, VoiceRest
  <2>3. /\ [merge[m] EXCEPT !.pc = "commit", !.base = current] \in Hands
        /\ [merge[m] EXCEPT !.pc = "commit", !.base = current].batch = merge[m].batch
    BY <1>0, <2>2 DEF Hands
  <2> QED
    BY <1>4, <2>1, <2>2, <2>3 DEF MergeLoads, VoiceRest
<1>5. ASSUME NEW m \in Mergers, MergeGivesUp(m) PROVE VoiceRest'
  BY <1>5, HandRests, FaultyCounts DEF MergeGivesUp, VoiceRest
<1>6. ASSUME NEW m \in Mergers, MergeCommits(m) PROVE VoiceRest'
  <2>1. current' # 0 /\ undone' \subseteq DOMAIN voice'
    BY <1>6, CommitGrows DEF MergeCommits
  <2> QED
    BY <1>6, <2>1, HandRests DEF MergeCommits, VoiceRest
<1>7. CASE ExtractStarts \/ ExtractStores \/ ExtractMoves
  BY <1>7, HandRests DEF ExtractStarts, ExtractStores, ExtractMoves, Extracts, VoiceRest, Hands, VoiceStatus
<1>8. CASE ExtractReads
  <2>1. PICK at \in {"move", "store"} : extract' = [Hand EXCEPT !.pc = at, !.batch = Pending \cap OfMonth]
    BY <1>8 DEF ExtractReads
  <2>2. extract' \in Hands /\ extract'.batch = Pending \cap OfMonth
    BY <1>0, <2>1 DEF Hand, Hands
  <2> QED
    BY <1>8, <2>2 DEF ExtractReads, VoiceRest
<1>9. CASE ExtractFails
  BY <1>9, HandRests, FaultyCounts DEF ExtractFails, VoiceRest, VoiceStatus
<1>10. ASSUME NEW a \in Approvals, ApplyStarts(a) \/ ApplyLoads(a) \/ ApplyReads(a) PROVE VoiceRest'
  BY <1>10 DEF ApplyStarts, ApplyLoads, ApplyReads, VoiceRest
<1>11. ASSUME NEW a \in Approvals, ApplyCommits(a) PROVE VoiceRest'
  <2>1. current' # 0 /\ undone' \subseteq DOMAIN voice'
    BY <1>11, CommitGrows DEF ApplyCommits
  <2> QED
    BY <1>11, <2>1 DEF ApplyCommits, VoiceRest
<1>12. ASSUME NEW a \in Approvals, ApplyMoves(a) PROVE VoiceRest'
  BY <1>12 DEF ApplyMoves, VoiceRest, VoiceStatus
<1>13. ASSUME NEW a \in Approvals, ApplyFails(a) PROVE VoiceRest'
  BY <1>13, FaultyCounts DEF ApplyFails, VoiceRest, VoiceStatus
<1>14. CASE RevertReads \/ RevertLooks
  BY <1>14, FaultyCounts DEF RevertReads, RevertLooks, VoiceRest
<1>15. CASE RevertFlips
  BY <1>15, FlipRests DEF RevertFlips, VoiceRest
<1>16. CASE RevertResets
  BY <1>16 DEF RevertResets, VoiceRest
<1>17. CASE VoiceCrash
  BY <1>17, HandRests, FaultyCounts DEF VoiceCrash, VoiceRest
<1> QED
  BY <1>1, <1>2, <1>3, <1>4, <1>5, <1>6, <1>7, <1>8, <1>9, <1>10, <1>11, <1>12, <1>13, <1>14,
     <1>15, <1>16, <1>17 DEF VoiceNext, MergeStep

\* Edits, snapshots and cycle keep their types: every edit taken names a snapshot that
\* exists, a channel with snapshots has a current one, and a merge never holds nothing.
THEOREM VoiceTypes == VoiceSpec => []VoiceTypeOK
<1>1. VoiceInit => VoiceShape /\ VoiceRest
  BY VoiceShapeInit, VoiceRestInit
<1>2. VoiceShape /\ VoiceRest /\ [VoiceNext]_voiceVars => VoiceShape' /\ VoiceRest'
  BY VoiceShapeKept, VoiceRestKept
<1>3. VoiceShape /\ VoiceRest => VoiceTypeOK
  <2> SUFFICES ASSUME VoiceShape, VoiceRest PROVE VoiceTypeOK
    OBVIOUS
  <2>1. \A n \in DOMAIN voice : voice[n] \in Snapshot
    BY DEF VoiceShape
  <2>2. \A n \in DOMAIN voice :
          /\ voice[n].kind \in {"seed", "nightly", "gate"} /\ voice[n].run \in {"none", "applied", "rolled_back"}
          /\ voice[n].learned \in [Edits -> Nat]
    BY <2>1 DEF Snapshot
  <2> QED
    BY <2>2 DEF VoiceShape, VoiceRest, VoiceTypeOK, VoiceStatus
<1> QED
  BY <1>1, <1>2, <1>3, PTL DEF VoiceSpec

=============================================================================
