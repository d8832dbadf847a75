----------------------------- MODULE VoiceMerge -----------------------------
(***************************************************************************)
(* How a channel's voice profile learns from the client's edits.           *)
(*                                                                         *)
(* Edits found in the workbook wait as pending rows.  A nightly merge, or  *)
(* the gate at the end of a month (extract, approve, apply), turns them    *)
(* into rules and commits a new snapshot in one transaction; an operator   *)
(* can roll the last snapshot back.  Each of them reads the current        *)
(* snapshot, works for minutes and writes afterwards, and nothing but a    *)
(* partial unique index, one current snapshot per channel, arbitrates.     *)
(*                                                                         *)
(* A snapshot is followed by what it has learned: how often each edit's    *)
(* rules were added to it.  Its text, voice.md and client-facts.md on      *)
(* Drive are left out.                                                     *)
(***************************************************************************)
EXTENDS Naturals, Sequences, FiniteSets

CONSTANTS
  Edits,          \* voice_edits rows of the channel
  OfMonth,        \* those of the month whose cycle is followed
  Mergers,        \* nightly merges, the operator's merge-voice included
  Approvals,      \* approve-voice-cycle runs
  VoiceFaults     \* bound: attempts that throw, processes that die, reverts

ASSUME VoiceAssumption == OfMonth \subseteq Edits /\ VoiceFaults \in Nat

VARIABLES
  found,    \* the edits written so far
  takenBy,  \* ingestion_run_id of each, 0 while pending (a run is known by its snapshot)
  voice,    \* the snapshots in the order of their creation, each with its run
  current,  \* the one with is_current, 0 for none
  cycle,    \* the content_cycles row: status and pending_deltas_json
  merge,    \* the merges under way
  extract,  \* the extraction under way
  apply,    \* the approvals under way
  revert,   \* the rollback under way
  undone,   \* history: the runs a rollback went back over
  voiceFaults

work == <<merge, extract, apply, revert>>
voiceVars == <<found, takenBy, voice, current, cycle, work, undone, voiceFaults>>

Pending == {x \in found : takenBy[x] = 0}

Learned(n) == IF n = 0 THEN [x \in Edits |-> 0] ELSE voice[n].learned

\* batch: the edits read.  base: the snapshot read.
Hand == [pc |-> "idle", batch |-> {}, base |-> 0, deltas |-> {}]

VoiceTypeOK ==
  /\ found \subseteq Edits /\ takenBy \in [Edits -> 0..Len(voice)]
  /\ \A n \in DOMAIN voice :
       /\ voice[n].kind \in {"seed", "nightly", "gate"} /\ voice[n].run \in {"none", "applied", "rolled_back"}
       /\ voice[n].learned \in [Edits -> Nat]
  /\ current \in 0..Len(voice) /\ (voice # <<>> => current # 0)
  /\ cycle.status \in {"active", "finalised", "awaiting_voice_approval", "voice_merged", "closed", "failed"}
  /\ cycle.deltas \subseteq OfMonth
  /\ \A m \in Mergers : merge[m].pc # "idle" => merge[m].batch # {}
  /\ undone \subseteq DOMAIN voice /\ voiceFaults \in 0..VoiceFaults

VoiceInit ==
  /\ found = {} /\ takenBy = [x \in Edits |-> 0]
  /\ \E seeded \in BOOLEAN :
       /\ voice = IF seeded THEN <<[kind |-> "seed", run |-> "none", learned |-> [x \in Edits |-> 0]]>> ELSE <<>>
       /\ current = Len(voice)
  /\ cycle = [status |-> "active", deltas |-> {}]
  /\ merge = [m \in Mergers |-> Hand] /\ apply = [a \in Approvals |-> Hand]
  /\ extract = Hand /\ revert = [pc |-> "idle", target |-> 0, run |-> 0, base |-> 0]
  /\ undone = {} /\ voiceFaults = 0

Faulty == voiceFaults < VoiceFaults /\ voiceFaults' = voiceFaults + 1

\* calendar:detect-edits writes what one reading of the workbook found.
Detects ==
  /\ \E S \in (SUBSET (Edits \ found)) \ {{}} : found' = found \cup S
  /\ UNCHANGED <<takenBy, voice, current, cycle, work, undone, voiceFaults>>

---------------------------------------------------------------------------
(* The transaction merge and gate share: the snapshot that was read stops  *)
(* being current, run and new snapshot go in, the edits read are taken.    *)

\* The rules drawn from an edit are added to the block, or amend what is there.
ApplyVoiceDeltas(base, deltas) == [x \in Edits |-> Learned(base)[x] + IF x \in deltas THEN 1 ELSE 0]

CommitsOver(base, deltas, batch, kind) ==   \* mutant: whatever is current is set aside
  /\ voice' = Append(voice, [kind |-> kind, run |-> "applied", learned |-> ApplyVoiceDeltas(base, deltas)])
  /\ current' = Len(voice')
  /\ takenBy' = [x \in Edits |-> IF x \in batch THEN Len(voice') ELSE takenBy[x]]

CommitsAllPending(base, deltas, batch, kind) ==   \* mutant: the batch is selected again at the write
  /\ base = current
  /\ voice' = Append(voice, [kind |-> kind, run |-> "applied", learned |-> ApplyVoiceDeltas(base, deltas)])
  /\ current' = Len(voice')
  /\ takenBy' = [x \in Edits |-> IF x \in Pending THEN Len(voice') ELSE takenBy[x]]

\* With another snapshot current by now the index refuses the new one.
Commits(base, deltas, batch, kind) ==
  /\ base = current
  /\ voice' = Append(voice, [kind |-> kind, run |-> "applied", learned |-> ApplyVoiceDeltas(base, deltas)])
  /\ current' = Len(voice')
  /\ takenBy' = [x \in Edits |-> IF x \in batch THEN Len(voice') ELSE takenBy[x]]

---------------------------------------------------------------------------
(* mergeChannelEdits.                                                      *)

MergeReadsNothing(m) ==   \* mutant: no early return for an empty batch
  /\ merge[m].pc = "idle"
  /\ merge' = [merge EXCEPT ![m] = [Hand EXCEPT !.pc = "load", !.batch = Pending]]
  /\ UNCHANGED <<found, takenBy, voice, current, cycle, extract, apply, revert, undone, voiceFaults>>

MergeReads(m) ==
  /\ merge[m].pc = "idle" /\ Pending # {}
  /\ merge' = [merge EXCEPT ![m] = [Hand EXCEPT !.pc = "load", !.batch = Pending]]
  /\ UNCHANGED <<found, takenBy, voice, current, cycle, extract, apply, revert, undone, voiceFaults>>

MergeLoads(m) ==
  /\ merge[m].pc = "load"
  /\ merge' = [merge EXCEPT ![m].pc = "commit", ![m].base = current]
  /\ UNCHANGED <<found, takenBy, voice, current, cycle, extract, apply, revert, undone, voiceFaults>>

MergeForgetsItsBatch(m) ==   \* mutant: a failed merge has marked its edits
  /\ merge[m].pc = "commit"
  /\ takenBy' = [x \in Edits |-> IF x \in merge[m].batch THEN Len(voice) ELSE takenBy[x]]
  /\ merge' = [merge EXCEPT ![m] = Hand]
  /\ voice # <<>> /\ Faulty
  /\ UNCHANGED <<found, voice, current, cycle, extract, apply, revert, undone>>

\* The model, the validation or the commit fails: the edits stay pending.
MergeGivesUp(m) ==
  /\ merge[m].pc = "commit"
  /\ \/ merge[m].base # current /\ UNCHANGED voiceFaults
     \/ Faulty
  /\ merge' = [merge EXCEPT ![m] = Hand]
  /\ UNCHANGED <<found, takenBy, voice, current, cycle, extract, apply, revert, undone>>

MergeCommits(m) ==
  /\ merge[m].pc = "commit"
  /\ Commits(merge[m].base, merge[m].batch, merge[m].batch, "nightly")
  /\ merge' = [merge EXCEPT ![m] = Hand]
  /\ UNCHANGED <<found, cycle, extract, apply, revert, undone, voiceFaults>>

---------------------------------------------------------------------------
(* The gate: extractVoiceDeltasForCycle ...                                *)

Extracts(pc) == extract' = [extract EXCEPT !.pc = pc]

ExtractStarts ==
  /\ extract.pc = "idle" /\ cycle.status = "active"
  /\ cycle' = [cycle EXCEPT !.status = "finalised"]
  /\ Extracts("read")
  /\ UNCHANGED <<found, takenBy, voice, current, merge, apply, revert, undone, voiceFaults>>

\* Without edits the cycle goes on to the approval with no deltas.
ExtractReads ==
  /\ extract.pc = "read"
  /\ extract' = [Hand EXCEPT !.pc = IF Pending \cap OfMonth = {} THEN "move" ELSE "store", !.batch = Pending \cap OfMonth]
  /\ UNCHANGED <<found, takenBy, voice, current, cycle, merge, apply, revert, undone, voiceFaults>>

ExtractStores ==
  /\ extract.pc = "store"
  /\ cycle' = [cycle EXCEPT !.deltas = extract.batch]
  /\ Extracts("move")
  /\ UNCHANGED <<found, takenBy, voice, current, merge, apply, revert, undone, voiceFaults>>

ExtractMoves ==
  /\ extract.pc = "move"
  /\ cycle' = [cycle EXCEPT !.status = "awaiting_voice_approval"]
  /\ extract' = Hand
  /\ UNCHANGED <<found, takenBy, voice, current, merge, apply, revert, undone, voiceFaults>>

ExtractFails ==
  /\ extract.pc # "idle" /\ Faulty
  /\ cycle' = [cycle EXCEPT !.status = "failed"]
  /\ extract' = Hand
  /\ UNCHANGED <<found, takenBy, voice, current, merge, apply, revert, undone>>

---------------------------------------------------------------------------
(* ... and applyVoiceDeltasForCycle, which reads the snapshot and the      *)
(* pending edits anew.                                                     *)

Applies(a, pc) == apply' = [apply EXCEPT ![a].pc = pc]

ApplyStarts(a) ==
  /\ apply[a].pc = "idle" /\ cycle.status = "awaiting_voice_approval" /\ cycle.deltas # {}
  /\ apply' = [apply EXCEPT ![a] = [Hand EXCEPT !.pc = "load", !.deltas = cycle.deltas]]
  /\ UNCHANGED <<found, takenBy, voice, current, cycle, merge, extract, revert, undone, voiceFaults>>

ApplyLoads(a) ==
  /\ apply[a].pc = "load"
  /\ apply' = [apply EXCEPT ![a].pc = "read", ![a].base = current]
  /\ UNCHANGED <<found, takenBy, voice, current, cycle, merge, extract, revert, undone, voiceFaults>>

ApplyReads(a) ==
  /\ apply[a].pc = "read"
  /\ apply' = [apply EXCEPT ![a].pc = "commit", ![a].batch = Pending \cap OfMonth]
  /\ UNCHANGED <<found, takenBy, voice, current, cycle, merge, extract, revert, undone, voiceFaults>>

ApplyCommits(a) ==
  /\ apply[a].pc = "commit"
  /\ Commits(apply[a].base, apply[a].deltas, apply[a].batch, "gate")
  /\ Applies(a, "move")
  /\ UNCHANGED <<found, cycle, merge, extract, revert, undone, voiceFaults>>

\* awaiting_voice_approval -> voice_merged -> closed.
ApplyMoves(a) ==
  /\ \/ /\ apply[a].pc = "move" /\ cycle.status = "awaiting_voice_approval"
        /\ cycle' = [cycle EXCEPT !.status = "voice_merged"]
        /\ Applies(a, "close")
     \/ /\ apply[a].pc = "close" /\ cycle.status = "voice_merged"
        /\ cycle' = [cycle EXCEPT !.status = "closed"]
        /\ apply' = [apply EXCEPT ![a] = Hand]
  /\ UNCHANGED <<found, takenBy, voice, current, merge, extract, revert, undone, voiceFaults>>

\* An error, a refused commit or an edge the machine refuses: failed, unless closed.
ApplyFails(a) ==
  /\ apply[a].pc \notin {"idle", "load"}
  /\ \/ /\ \/ apply[a].pc = "commit" /\ apply[a].base # current
           \/ apply[a].pc = "move" /\ cycle.status # "awaiting_voice_approval"
           \/ apply[a].pc = "close" /\ cycle.status # "voice_merged"
        /\ UNCHANGED voiceFaults
     \/ Faulty
  /\ cycle' = IF cycle.status = "closed" THEN cycle ELSE [cycle EXCEPT !.status = "failed"]
  /\ apply' = [apply EXCEPT ![a] = Hand]
  /\ UNCHANGED <<found, takenBy, voice, current, merge, extract, revert, undone>>

---------------------------------------------------------------------------
(* revert-voice-merge: rollbackVoice, then the edits.                      *)

\* The prior snapshot is the newest that is not current.
RevertReads ==
  LET others == DOMAIN voice \ {current} IN
  /\ revert.pc = "idle" /\ others # {} /\ Faulty
  /\ LET run == IF voice[current].run = "none" THEN 0 ELSE current IN
     revert' = [pc |-> "look", target |-> CHOOSE n \in others : \A k \in others : k <= n, run |-> run, base |-> 0]
  /\ UNCHANGED <<found, takenBy, voice, current, cycle, merge, extract, apply, undone>>

\* rollbackVoice reads the current snapshot anew, and throws if it is the target.
RevertLooks ==
  /\ revert.pc = "look"
  /\ revert' = [revert EXCEPT !.pc = IF revert.target = current THEN "idle" ELSE "flip", !.base = current]
  /\ UNCHANGED <<found, takenBy, voice, current, cycle, merge, extract, apply, undone, voiceFaults>>

\* It sets that one aside and marks its run; with another current by now the index refuses
\* the target, and the script ends there.
RevertFlips ==
  /\ revert.pc = "flip"
  /\ IF revert.base # current THEN revert' = [revert EXCEPT !.pc = "idle"] /\ UNCHANGED <<voice, current, undone>>
     ELSE /\ voice' = [voice EXCEPT ![current].run = IF @ = "none" THEN @ ELSE "rolled_back"]
          /\ current' = revert.target
          /\ undone' = undone \cup {n \in DOMAIN voice : n > revert.target}
          /\ revert' = [revert EXCEPT !.pc = IF revert.run = 0 THEN "idle" ELSE "reset"]
  /\ UNCHANGED <<found, takenBy, cycle, merge, extract, apply, voiceFaults>>

RevertResets ==
  /\ revert.pc = "reset"
  /\ takenBy' = [x \in Edits |-> IF takenBy[x] = revert.run THEN 0 ELSE takenBy[x]]
  /\ revert' = [revert EXCEPT !.pc = "idle"]
  /\ UNCHANGED <<found, voice, current, cycle, merge, extract, apply, undone, voiceFaults>>

\* Processes die: the engine with its merges and jobs, or the operator's script.
VoiceCrash ==
  /\ Faulty
  /\ \/ /\ merge' = [m \in Mergers |-> Hand] /\ extract' = Hand /\ apply' = [a \in Approvals |-> Hand]
        /\ UNCHANGED revert
     \/ /\ revert.pc # "idle" /\ revert' = [revert EXCEPT !.pc = "idle"]
        /\ UNCHANGED <<merge, extract, apply>>
  /\ UNCHANGED <<found, takenBy, voice, current, cycle, undone>>

MergeStep(m) == MergeReads(m) \/ MergeLoads(m) \/ MergeGivesUp(m) \/ MergeCommits(m)

VoiceNext ==
  \/ Detects
  \/ \E m \in Mergers : MergeStep(m)
  \/ ExtractStarts \/ ExtractReads \/ ExtractStores \/ ExtractMoves \/ ExtractFails
  \/ \E a \in Approvals : \/ ApplyStarts(a) \/ ApplyLoads(a) \/ ApplyReads(a)
                          \/ ApplyCommits(a) \/ ApplyMoves(a) \/ ApplyFails(a)
  \/ RevertReads \/ RevertLooks \/ RevertFlips \/ RevertResets \/ VoiceCrash

VoiceSpec == VoiceInit /\ [][VoiceNext]_voiceVars

---------------------------------------------------------------------------
(* Properties.                                                             *)

\* What the nightly merge took from the pending edits is in the profile the plans are
\* written with, whatever gate, second merge or rollback came between, unless a rollback
\* went back to a snapshot older than that run.
NightlyKeepsWhatItTakes ==
  \A x \in Edits :
    LET n == takenBy[x] IN
    n # 0 /\ voice[n].kind = "nightly" /\ n \notin undone => Learned(current)[x] > 0

\* A new snapshot knows all that the one it displaces knew: two writers who read the same
\* profile cannot both replace it.
NothingIsForgotten ==
  [][Len(voice') > Len(voice) => \A x \in Edits : Learned(current)'[x] >= Learned(current)[x]]_voiceVars

\* Again and again every edit found is in the profile, however many merges fail or come
\* second.  The gate may take an edit unread, and a rollback may leave it with a run it
\* went back over.
PendingIsLearned ==
  []<>(\A x \in found :
         \/ Learned(current)[x] > 0
         \/ takenBy[x] # 0 /\ (voice[takenBy[x]].kind = "gate" \/ takenBy[x] \in undone))

=============================================================================
