--------------------------- MODULE MCEngine_proofs ---------------------------
(***************************************************************************)
(* The engine's three parts side by side, for any edits, mails, saves,     *)
(* workers and failures: the Drive folder's types and that its token never *)
(* passes a save, and that a run of the engine is a run of each part, so   *)
(* that what is proved of a part holds of the engine.                      *)
(***************************************************************************)
EXTENDS MCEngine, VoiceMerge_proofs, MailIntake_proofs

USE DEF files, queued, driveVars

-----------------------------------------------------------------------------
(* The Drive folder: types.  A poll looks at files that exist, under the   *)
(* version it has read, and its listing is not ahead of the feed.          *)

Poll == [pc : {"idle", "list", "file", "workbook", "csv", "record", "queue"},
         from : Int, next : Nat, todo : SUBSET Files, file : Files, version : Nat]

FolderRest ==
  /\ version \in [Files -> Nat] /\ version["workbook"] <= Saves /\ version["csv"] <= Plans
  /\ changedAt \in [Files -> 0..FeedHead]
  /\ \A f \in Files : changedAt[f] > 0 => version[f] > 0
  /\ byClient \subseteq 1..version["workbook"]

BooksRest ==
  /\ detected \cup ledger \subseteq 1..version["workbook"]
  /\ token \in NoToken..FeedHead
  /\ seen \subseteq Files \X Nat /\ \A x \in seen : x[2] \in 1..version[x[1]]
  /\ builds \in Nat /\ build \in {"idle", "write", "record", "advance"}
  /\ build = "record" => version["workbook"] > 0
  /\ driveCycle \in {"planning", "workbook_built"} /\ driveFaults \in 0..DriveFaults

Listed(p) ==
  /\ feed[p].pc \notin {"idle", "list"} => token # NoToken
  /\ feed[p].from \in NoToken..FeedHead /\ (feed[p].from # NoToken => token # NoToken)
  /\ feed[p].next <= FeedHead /\ \A f \in feed[p].todo : version[f] > 0
  /\ feed[p].version <= version[feed[p].file]
  /\ feed[p].pc \in {"workbook", "csv", "record", "queue"} => feed[p].version > 0
  /\ feed[p].pc \in {"workbook", "record"} => feed[p].file = "workbook"
  /\ feed[p].pc \in {"csv", "queue"} => feed[p].file = "csv"

PollsRest == feed \in [Feeds -> Poll] /\ \A p \in Feeds : Listed(p)

DriveRest == FolderRest /\ BooksRest /\ PollsRest

LEMMA HeadCounts == FolderRest => FeedHead \in Nat
  BY DEF FolderRest, FeedHead, Files

LEMMA AsleepIsPoll == Asleep \in Poll /\ Asleep.pc = "idle"
  BY DEF Asleep, Poll, Files, NoToken

LEMMA DriveRestInit == DriveInit => DriveRest
<1> SUFFICES ASSUME DriveInit PROVE DriveRest
  OBVIOUS
<1>1. FolderRest
  BY DriveAssumption DEF DriveInit, FolderRest, FeedHead, Files
<1>2. BooksRest
  BY DriveAssumption DEF DriveInit, BooksRest, FeedHead, Files, NoToken
<1>3. PollsRest
  <2>1. feed \in [Feeds -> Poll] /\ \A p \in Feeds : feed[p] = Asleep
    BY AsleepIsPoll DEF DriveInit
  <2> SUFFICES ASSUME NEW p \in Feeds PROVE Listed(p)
    BY <2>1 DEF PollsRest
  <2>2. feed[p] = Asleep
    BY <2>1
  <2> QED
    BY <2>2 DEF Listed, Asleep, DriveInit, FeedHead, Files, NoToken
<1> QED
  BY <1>1, <1>2, <1>3 DEF DriveRest

\* A file that changes gets its next version and the last place in the feed.
LEMMA ChangesLeaves ==
  ASSUME FolderRest, NEW f \in Files, Changes(f)
  PROVE  /\ version' \in [Files -> Nat] /\ version'["workbook"] <= Saves /\ version'["csv"] <= Plans
         /\ changedAt' \in [Files -> 0..FeedHead'] /\ FeedHead' = FeedHead + 1 /\ FeedHead \in Nat
         /\ version'[f] = version[f] + 1 /\ changedAt'[f] = FeedHead + 1
         /\ \A g \in Files : version[g] <= version'[g]
         /\ \A g \in Files \ {f} : version'[g] = version[g] /\ changedAt'[g] = changedAt[g]
         /\ \A g \in Files : changedAt'[g] > 0 => version'[g] > 0
<1>1. /\ version \in [Files -> Nat] /\ version["workbook"] <= Saves /\ version["csv"] <= Plans
      /\ changedAt \in [Files -> 0..FeedHead] /\ Saves \in Nat /\ Plans \in Nat
      /\ \A g \in Files : changedAt[g] > 0 => version[g] > 0
  BY DriveAssumption DEF FolderRest
<1>2. /\ version[f] < IF f = "csv" THEN Plans ELSE Saves
      /\ version' = [version EXCEPT ![f] = version[f] + 1]
      /\ changedAt' = [changedAt EXCEPT ![f] = FeedHead + 1]
  BY DEF Changes
<1>3. version' \in [Files -> Nat] /\ version'[f] = version[f] + 1 /\ \A g \in Files \ {f} : version'[g] = version[g]
  BY <1>1, <1>2
<1>4. FeedHead \in Nat /\ FeedHead' = FeedHead + 1
  BY <1>1, <1>3 DEF FeedHead, Files
<1>5. /\ changedAt' \in [Files -> 0..FeedHead'] /\ changedAt'[f] = FeedHead + 1
      /\ \A g \in Files \ {f} : changedAt'[g] = changedAt[g]
  BY <1>1, <1>2, <1>4
<1>6. version'["workbook"] <= Saves /\ version'["csv"] <= Plans
  BY <1>1, <1>2, <1>3 DEF Files
<1>7. \A g \in Files : version[g] <= version'[g]
  BY <1>1, <1>3
<1>8. \A g \in Files : changedAt'[g] > 0 => version'[g] > 0
  BY <1>1, <1>3, <1>5
<1> QED
  BY <1>3, <1>4, <1>5, <1>6, <1>7, <1>8

\* What was held of a version and of the feed is held of a later one.
LEMMA VersionsGrow ==
  ASSUME BooksRest, PollsRest, FolderRest, FolderRest', NEW f \in Files, Changes(f),
         UNCHANGED <<detected, ledger, token, seen, builds, driveCycle, driveFaults, feed>>,
         build' \in {"idle", "write", "record", "advance"}, build' = "record" => version'["workbook"] > 0
  PROVE  BooksRest' /\ PollsRest'
<1>1. /\ FeedHead \in Nat /\ FeedHead' = FeedHead + 1 /\ \A g \in Files : version[g] <= version'[g]
      /\ version \in [Files -> Nat] /\ version' \in [Files -> Nat]
  BY ChangesLeaves DEF FolderRest
<1>2. "workbook" \in Files
  BY DEF Files
<1>3. detected' \cup ledger' \subseteq 1..version'["workbook"]
  BY <1>1, <1>2 DEF BooksRest
<1>4. token' \in NoToken..FeedHead'
  BY <1>1 DEF BooksRest, NoToken
<1>5. seen' \subseteq Files \X Nat /\ \A x \in seen' : x[2] \in 1..version'[x[1]]
  BY <1>1 DEF BooksRest
<1>6. BooksRest'
  BY <1>3, <1>4, <1>5 DEF BooksRest
<1>7. ASSUME NEW p \in Feeds PROVE Listed(p)'
  <2>1. feed[p] \in Poll /\ Listed(p) /\ feed'[p] = feed[p] /\ token' = token
    BY DEF PollsRest
  <2>2. feed[p].next <= FeedHead' /\ feed[p].from \in NoToken..FeedHead' /\ feed[p].version <= version'[feed[p].file]
    BY <1>1, <2>1 DEF Listed, Poll, NoToken
  <2>3. \A g \in feed[p].todo : version'[g] > 0
    BY <1>1, <2>1 DEF Listed, Poll
  <2> QED
    BY <2>1, <2>2, <2>3 DEF Listed
<1> QED
  BY <1>6, <1>7 DEF PollsRest

\* One poll moves and the folder does not.
LEMMA PollMoves ==
  ASSUME PollsRest, NEW p \in Feeds, NEW c \in Poll, feed' = [feed EXCEPT ![p] = c],
         UNCHANGED version, token # NoToken => token' # NoToken, Listed(p)'
  PROVE  PollsRest'
<1>1. feed' \in [Feeds -> Poll] /\ \A q \in Feeds \ {p} : feed'[q] = feed[q]
  BY DEF PollsRest
<1>2. FeedHead' = FeedHead
  BY DEF FeedHead
<1>3. ASSUME NEW q \in Feeds \ {p} PROVE Listed(q)'
  <2>1. feed'[q] = feed[q] /\ Listed(q) /\ version' = version /\ FeedHead' = FeedHead
    BY <1>1, <1>2 DEF PollsRest
  <2> QED
    BY <2>1 DEF Listed
<1> QED
  BY <1>1, <1>3 DEF PollsRest

\* It gives up, or is done with a file.
LEMMA PollRestsListed ==
  ASSUME FolderRest, FolderRest', PollsRest, NEW p \in Feeds, UNCHANGED version,
         token # NoToken => token' # NoToken, FeedRests(p)
  PROVE  PollsRest'
<1>1. feed' = [feed EXCEPT ![p] = Asleep] /\ Asleep \in Poll
  BY AsleepIsPoll DEF FeedRests
<1>2. feed'[p] = Asleep
  BY <1>1 DEF PollsRest
<1>3. FeedHead' \in Nat /\ version'["csv"] \in Nat
  BY HeadCounts DEF FolderRest, Files, FeedHead
<1>4. Listed(p)'
  BY <1>2, <1>3 DEF Listed, Asleep, NoToken
<1> QED
  BY <1>1, <1>4, PollMoves

LEMMA PollDoneListed ==
  ASSUME FolderRest, PollsRest, NEW p \in Feeds, UNCHANGED <<version, token>>, NEW f, FeedDone(p, f), token # NoToken
  PROVE  PollsRest'
<1> DEFINE c == [feed[p] EXCEPT !.pc = "file", !.todo = feed[p].todo \ {f}, !.file = "csv", !.version = 0]
<1>1. feed' = [feed EXCEPT ![p] = c] /\ feed[p] \in Poll /\ Listed(p)
  BY DEF FeedDone, PollsRest
<1>2. c \in Poll /\ c.pc = "file" /\ c.todo = feed[p].todo \ {f} /\ c.file = "csv" /\ c.version = 0 /\ c.next = feed[p].next /\ c.from = feed[p].from
  BY <1>1 DEF Poll, Files
<1> HIDE DEF c
<1>3. feed'[p] = c
  BY <1>1 DEF PollsRest
<1>4. version["csv"] \in Nat /\ version' = version /\ token' = token /\ FeedHead' = FeedHead
  BY DEF FolderRest, Files, FeedHead
<1>5. Listed(p)'
  BY <1>1, <1>2, <1>3, <1>4 DEF Listed
<1> QED
  BY <1>1, <1>2, <1>5, PollMoves

LEMMA ProcessedListed ==
  ASSUME DriveRest, NEW p \in Feeds, Processed(p), UNCHANGED <<version, changedAt, byClient, token>>,
         feed[p].pc \in {"workbook", "csv", "record"}
  PROVE  /\ PollsRest' /\ seen' \subseteq Files \X Nat
         /\ \A x \in seen' : x[2] \in 1..version'[x[1]]
<1> DEFINE x == <<feed[p].file, feed[p].version>>
<1>1. /\ FolderRest /\ PollsRest /\ feed[p] \in Poll /\ Listed(p) /\ token # NoToken
      /\ version' = version /\ FeedHead' = FeedHead /\ token' = token
  BY DEF DriveRest, PollsRest, FeedHead, Listed
<1>2. FolderRest'
  BY <1>1 DEF FolderRest
<1>3. /\ seen \subseteq Files \X Nat /\ \A y \in seen : y[2] \in 1..version[y[1]]
      /\ x \in Files \X Nat /\ x[2] \in 1..version[x[1]]
  BY <1>1 DEF DriveRest, BooksRest, Listed, Poll, FolderRest
<1>4. CASE x \in seen
  BY <1>1, <1>2, <1>3, <1>4, PollRestsListed DEF Processed
<1>5. CASE x \notin seen
  <2>1. seen' = seen \cup {x}
    BY <1>5 DEF Processed
  <2>2. CASE feed[p].file = "csv"
    <3> DEFINE c == [feed[p] EXCEPT !.pc = "queue"]
    <3>1. feed' = [feed EXCEPT ![p] = c]
      BY <1>5, <2>2 DEF Processed
    <3>2. c \in Poll /\ c.pc = "queue" /\ c.todo = feed[p].todo /\ c.file = feed[p].file /\ c.version = feed[p].version
          /\ c.next = feed[p].next /\ c.from = feed[p].from
      BY <1>1 DEF Poll
    <3> HIDE DEF c
    <3>3. feed'[p] = c
      BY <1>1, <3>1 DEF PollsRest
    <3>4. Listed(p)'
      BY <1>1, <2>2, <3>2, <3>3 DEF Listed
    <3>5. PollsRest'
      BY <1>1, <3>1, <3>2, <3>4, PollMoves
    <3> QED
      BY <1>1, <1>3, <2>1, <3>5
  <2>3. CASE feed[p].file # "csv"
    <3>1. FeedDone(p, feed[p].file)
      BY <1>5, <2>3 DEF Processed
    <3>2. PollsRest'
      BY <1>1, <3>1, PollDoneListed
    <3> QED
      BY <1>1, <1>3, <2>1, <3>2
  <2> QED
    BY <2>2, <2>3
<1> QED
  BY <1>4, <1>5

\* A step that leaves the folder alone leaves what is said of it.
LEMMA FolderStays == FolderRest /\ UNCHANGED files => FolderRest' /\ FeedHead' = FeedHead /\ version' = version
  BY DEF FolderRest, FeedHead

LEMMA DriveFaultyCounts == BooksRest /\ DriveFaulty => driveFaults' \in 0..DriveFaults
  BY DriveAssumption DEF BooksRest, DriveFaulty

LEMMA PollsStay == PollsRest /\ UNCHANGED <<version, feed, token>> => PollsRest'
  BY DEF PollsRest, Listed, FeedHead

LEMMA FolderChanges ==
  ASSUME DriveRest, CsvArrives \/ ClientSaves \/ BuildWrites
  PROVE  DriveRest'
<1>1. FolderRest /\ BooksRest /\ PollsRest /\ "workbook" \in Files /\ "csv" \in Files
  BY DEF DriveRest, Files
<1>2. CASE CsvArrives
  <2>1. Changes("csv") /\ UNCHANGED <<byClient, token, seen, ledger, queued, build, driveCycle, feed, driveFaults>>
    BY <1>2 DEF CsvArrives
  <2>2. version'["workbook"] = version["workbook"] /\ FolderRest'
    <3>1. version'["workbook"] = version["workbook"]
      BY <1>1, <2>1, ChangesLeaves
    <3> QED
      BY <1>1, <2>1, <3>1, ChangesLeaves DEF FolderRest
  <2>3. BooksRest' /\ PollsRest'
    <3>1. build' \in {"idle", "write", "record", "advance"} /\ (build' = "record" => version'["workbook"] > 0)
      BY <1>1, <2>1, <2>2 DEF BooksRest
    <3> QED
      BY <1>1, <2>1, <2>2, <3>1, VersionsGrow
  <2> QED
    BY <2>2, <2>3 DEF DriveRest
<1>3. CASE ClientSaves
  <2>1. /\ Changes("workbook") /\ UNCHANGED <<token, seen, ledger, queued, build, driveCycle, feed, driveFaults>>
        /\ byClient' = byClient \cup {version["workbook"] + 1}
    BY <1>3 DEF ClientSaves
  <2>2. version'["workbook"] = version["workbook"] + 1 /\ version["workbook"] \in Nat
    BY <1>1, <2>1, ChangesLeaves DEF FolderRest
  <2>3. FolderRest'
    <3>1. byClient' \subseteq 1..version'["workbook"]
      <4>1. byClient \subseteq 1..version["workbook"]
        BY <1>1 DEF FolderRest
      <4> SUFFICES ASSUME NEW n \in byClient' PROVE n \in 1..version'["workbook"]
        OBVIOUS
      <4>2. CASE n \in byClient
        BY <2>2, <4>1, <4>2
      <4>3. CASE n = version["workbook"] + 1
        BY <2>2, <4>3
      <4> QED
        BY <2>1, <4>2, <4>3
    <3> QED
      BY <1>1, <2>1, <3>1, ChangesLeaves DEF FolderRest
  <2>4. BooksRest' /\ PollsRest'
    <3>1. build' \in {"idle", "write", "record", "advance"} /\ (build' = "record" => version'["workbook"] > 0)
      BY <1>1, <2>1, <2>2 DEF BooksRest
    <3> QED
      BY <1>1, <2>1, <2>3, <3>1, VersionsGrow
  <2> QED
    BY <2>3, <2>4 DEF DriveRest
<1>4. CASE BuildWrites
  <2>1. /\ Changes("workbook") /\ UNCHANGED <<byClient, token, seen, ledger, queued, driveCycle, feed, driveFaults>>
        /\ build' = "record"
    BY <1>4 DEF BuildWrites
  <2>2. version'["workbook"] = version["workbook"] + 1 /\ version["workbook"] \in Nat
    BY <1>1, <2>1, ChangesLeaves DEF FolderRest
  <2>3. FolderRest'
    <3>1. byClient' \subseteq 1..version'["workbook"]
      BY <1>1, <2>1, <2>2 DEF FolderRest
    <3> QED
      BY <1>1, <2>1, <3>1, ChangesLeaves DEF FolderRest
  <2>4. BooksRest' /\ PollsRest'
    <3>1. build' \in {"idle", "write", "record", "advance"} /\ version'["workbook"] > 0
      BY <2>1, <2>2
    <3> QED
      BY <1>1, <2>1, <2>3, <3>1, VersionsGrow
  <2> QED
    BY <2>3, <2>4 DEF DriveRest
<1> QED
  BY <1>2, <1>3, <1>4

LEMMA BuildMoves ==
  ASSUME DriveRest, BuildStarts \/ BuildRecords \/ BuildAdvances
  PROVE  DriveRest'
<1>1. FolderRest /\ BooksRest /\ PollsRest /\ "workbook" \in Files /\ version["workbook"] \in Nat
  BY DEF DriveRest, FolderRest, Files
<1>2. UNCHANGED <<files, token, seen, detected, feed>>
  BY DEF BuildStarts, BuildRecords, BuildAdvances
<1>3. FolderRest' /\ PollsRest' /\ FeedHead' = FeedHead /\ version' = version
  BY <1>1, <1>2, FolderStays, PollsStay
<1>4. CASE BuildStarts
  <2>1. BooksRest'
    BY <1>1, <1>2, <1>3, <1>4 DEF BuildStarts, BooksRest
  <2> QED
    BY <1>3, <2>1 DEF DriveRest
<1>5. CASE BuildRecords
  <2>1. driveFaults' \in 0..DriveFaults
    BY <1>1, <1>5, DriveFaultyCounts DEF BuildRecords, BooksRest
  <2>2. ledger' \subseteq 1..version["workbook"]
    BY <1>1, <1>5 DEF BuildRecords, BooksRest
  <2>3. BooksRest'
    BY <1>1, <1>2, <1>3, <1>5, <2>1, <2>2 DEF BuildRecords, BooksRest
  <2> QED
    BY <1>3, <2>3 DEF DriveRest
<1>6. CASE BuildAdvances
  <2>1. BooksRest'
    BY <1>1, <1>2, <1>3, <1>6 DEF BuildAdvances, WorkbookBuilt, BooksRest
  <2> QED
    BY <1>3, <2>1 DEF DriveRest
<1> QED
  BY <1>4, <1>5, <1>6

LEMMA FeedKeeps ==
  ASSUME DriveRest, NEW p \in Feeds, FeedStep(p) \/ FeedFails(p) \/ \E f \in Files : FeedPasses(p, f)
  PROVE  DriveRest'
<1>1. /\ FolderRest /\ BooksRest /\ PollsRest /\ feed[p] \in Poll /\ Listed(p) /\ FeedHead \in Nat
      /\ feed \in [Feeds -> Poll] /\ "workbook" \in Files /\ version \in [Files -> Nat] /\ token \in NoToken..FeedHead
      /\ feed[p].next \in Nat /\ feed[p].todo \subseteq Files
  BY HeadCounts DEF DriveRest, PollsRest, Files, FolderRest, BooksRest, Poll
<1>2. UNCHANGED <<files, ledger, build>>
  BY DEF FeedStep, FeedStarts, FeedLists, FeedLooks, FeedPasses, FeedDetects, FeedRecords, FeedRecordsCsv, FeedQueuesCsv,
         FeedAdvances, FeedFails
<1>3. FolderRest' /\ FeedHead' = FeedHead /\ version' = version
  BY <1>1, <1>2, FolderStays
<1>0. CASE FeedStarts(p)
  <2> DEFINE c == [Asleep EXCEPT !.pc = "list", !.from = token]
  <2>1. feed' = [feed EXCEPT ![p] = c] /\ UNCHANGED <<token, seen, detected, builds, driveCycle, driveFaults>>
    BY <1>0 DEF FeedStarts
  <2>2. c \in Poll /\ c.pc = "list" /\ c.from = token /\ c.next = 0 /\ c.todo = {} /\ c.file = "csv" /\ c.version = 0
    <3>1. token \in Int
      BY <1>1 DEF NoToken
    <3>2. c \in Poll
      BY <3>1, AsleepIsPoll DEF Poll
    <3> QED
      BY <3>2 DEF Asleep
  <2> HIDE DEF c
  <2>3. feed'[p] = c /\ version["csv"] \in Nat
    BY <1>1, <2>1 DEF Files
  <2>4. Listed(p)'
    BY <1>1, <1>3, <2>1, <2>2, <2>3 DEF Listed
  <2>5. PollsRest'
    BY <1>1, <1>3, <2>1, <2>2, <2>4, PollMoves
  <2>6. BooksRest'
    BY <1>1, <1>2, <1>3, <2>1 DEF BooksRest
  <2> QED
    BY <1>3, <2>5, <2>6 DEF DriveRest
<1>4. CASE FeedLists(p)
  <2>1. CASE feed[p].from = NoToken
    <3>1. token' = FeedHead /\ FeedRests(p) /\ UNCHANGED <<seen, detected, builds, driveCycle, driveFaults>>
      BY <1>4, <2>1 DEF FeedLists
    <3>2. BooksRest'
      BY <1>1, <1>2, <1>3, <3>1 DEF BooksRest, NoToken
    <3>3. token' # NoToken
      BY <1>1, <3>1 DEF NoToken
    <3>4. PollsRest'
      BY <1>1, <1>3, <3>1, <3>3, PollRestsListed
    <3> QED
      BY <1>3, <3>2, <3>4 DEF DriveRest
  <2>2. CASE feed[p].from # NoToken
    <3> DEFINE c == Listing(feed[p].from)
    <3>1. feed' = [feed EXCEPT ![p] = c] /\ UNCHANGED <<token, seen, detected, builds, driveCycle, driveFaults>>
      BY <1>4, <2>2 DEF FeedLists
    <3>2. /\ c \in Poll /\ c.pc = "file" /\ c.next = FeedHead /\ c.todo = {f \in Files : changedAt[f] > feed[p].from}
          /\ c.file = "csv" /\ c.version = 0 /\ c.from = NoToken
      <4>1. c \in Poll
        BY <1>1, AsleepIsPoll DEF Poll, Listing
      <4> QED
        BY <4>1 DEF Asleep, Listing
    <3>3. \A f \in c.todo : version[f] > 0
      BY <1>1, <2>2, <3>2 DEF FolderRest, Listed, NoToken
    <3> HIDE DEF c
    <3>4. feed'[p] = c /\ version["csv"] \in Nat /\ token # NoToken
      BY <1>1, <2>2, <3>1 DEF Files, Listed
    <3>5. Listed(p)'
      BY <1>1, <1>3, <3>1, <3>2, <3>3, <3>4 DEF Listed, NoToken
    <3>6. PollsRest'
      BY <1>1, <1>3, <3>1, <3>2, <3>5, PollMoves
    <3>7. BooksRest'
      BY <1>1, <1>2, <1>3, <3>1 DEF BooksRest
    <3> QED
      BY <1>3, <3>6, <3>7 DEF DriveRest
  <2> QED
    BY <2>1, <2>2
<1>5. CASE \E f \in Files : FeedLooks(p, f)
  <2> PICK f \in Files : FeedLooks(p, f)
    BY <1>5
  <2>1. /\ feed[p].pc = "file" /\ f \in feed[p].todo /\ version[f] \in Nat /\ version[f] > 0
        /\ UNCHANGED <<token, seen, detected, builds, driveCycle, driveFaults>> /\ token # NoToken
    BY <1>1 DEF FeedLooks, Listed
  <2>2. BooksRest'
    BY <1>1, <1>2, <1>3, <2>1 DEF BooksRest
  <2>3. CASE <<f, version[f]>> \in seen
    <3>1. FeedDone(p, f)
      BY <2>3 DEF FeedLooks
    <3>2. PollsRest'
      BY <1>1, <1>3, <2>1, <3>1, PollDoneListed
    <3> QED
      BY <1>3, <2>2, <3>2 DEF DriveRest
  <2>4. CASE <<f, version[f]>> \notin seen
    <3> DEFINE c == [feed[p] EXCEPT !.pc = f, !.file = f, !.version = version[f]]
    <3>1. feed' = [feed EXCEPT ![p] = c]
      BY <2>4 DEF FeedLooks
    <3>2. /\ c \in Poll /\ c.pc = f /\ c.file = f /\ c.version = version[f] /\ c.next = feed[p].next /\ c.from = feed[p].from
          /\ c.todo = feed[p].todo
      BY <1>1, <2>1 DEF Poll, Files
    <3> HIDE DEF c
    <3>3. feed'[p] = c
      BY <1>1, <3>1
    <3>4. Listed(p)'
      BY <1>1, <1>3, <2>1, <3>2, <3>3 DEF Listed, Files
    <3>5. PollsRest'
      BY <1>1, <1>3, <2>1, <3>1, <3>2, <3>4, PollMoves
    <3> QED
      BY <1>3, <2>2, <3>5 DEF DriveRest
  <2> QED
    BY <2>3, <2>4
<1>6. CASE FeedDetects(p)
  <2>1. feed[p].pc = "workbook" /\ UNCHANGED <<token, builds, driveCycle, driveFaults>>
    BY <1>6 DEF FeedDetects
  <2>2. feed[p].file = "workbook" /\ feed[p].version \in 1..version["workbook"] /\ token # NoToken
    BY <1>1, <2>1 DEF Listed, Poll
  <2>3. CASE feed[p].version \in ledger
    <3>1. Processed(p) /\ UNCHANGED detected
      BY <1>6, <2>3 DEF FeedDetects
    <3>2. PollsRest' /\ seen' \subseteq Files \X Nat /\ \A x \in seen' : x[2] \in 1..version'[x[1]]
      BY <1>2, <2>1, <3>1, ProcessedListed
    <3>3. BooksRest'
      BY <1>1, <1>2, <1>3, <2>1, <3>1, <3>2 DEF BooksRest
    <3> QED
      BY <1>3, <3>2, <3>3 DEF DriveRest
  <2>4. CASE feed[p].version \notin ledger
    <3> DEFINE c == [feed[p] EXCEPT !.pc = "record"]
    <3>1. feed' = [feed EXCEPT ![p] = c] /\ detected' = detected \cup {feed[p].version} /\ UNCHANGED seen
      BY <1>6, <2>4 DEF FeedDetects
    <3>2. c \in Poll /\ c.pc = "record" /\ c.todo = feed[p].todo /\ c.file = feed[p].file /\ c.version = feed[p].version
          /\ c.next = feed[p].next /\ c.from = feed[p].from
      BY <1>1 DEF Poll
    <3> HIDE DEF c
    <3>3. feed'[p] = c
      BY <1>1, <3>1
    <3>4. Listed(p)'
      BY <1>1, <1>3, <2>1, <2>2, <3>2, <3>3 DEF Listed
    <3>5. PollsRest'
      BY <1>1, <1>3, <2>1, <3>1, <3>2, <3>4, PollMoves
    <3>6. BooksRest'
      BY <1>1, <1>2, <1>3, <2>1, <2>2, <3>1 DEF BooksRest
    <3> QED
      BY <1>3, <3>5, <3>6 DEF DriveRest
  <2> QED
    BY <2>3, <2>4
<1>7. CASE FeedRecords(p)
  <2>1. feed[p].pc = "record" /\ Processed(p) /\ UNCHANGED <<token, detected, builds>>
    BY <1>7 DEF FeedRecords
  <2>2. driveCycle' \in {"planning", "workbook_built"} /\ driveFaults' \in 0..DriveFaults
    BY <1>1, <1>7, DriveFaultyCounts DEF FeedRecords, WorkbookBuilt, BooksRest
  <2>3. PollsRest' /\ seen' \subseteq Files \X Nat /\ \A x \in seen' : x[2] \in 1..version'[x[1]]
    BY <1>2, <2>1, ProcessedListed
  <2>4. BooksRest'
    BY <1>1, <1>2, <1>3, <2>1, <2>2, <2>3 DEF BooksRest
  <2> QED
    BY <1>3, <2>3, <2>4 DEF DriveRest
<1>8. CASE FeedRecordsCsv(p)
  <2>1. feed[p].pc = "csv" /\ Processed(p) /\ UNCHANGED <<token, detected, builds, driveCycle, driveFaults>>
    BY <1>8 DEF FeedRecordsCsv
  <2>2. PollsRest' /\ seen' \subseteq Files \X Nat /\ \A x \in seen' : x[2] \in 1..version'[x[1]]
    BY <1>2, <2>1, ProcessedListed
  <2>3. BooksRest'
    BY <1>1, <1>2, <1>3, <2>1, <2>2 DEF BooksRest
  <2> QED
    BY <1>3, <2>2, <2>3 DEF DriveRest
<1>9. CASE FeedQueuesCsv(p)
  <2>1. /\ builds' = builds + 1 /\ FeedDone(p, "csv") /\ UNCHANGED <<token, seen, detected, driveCycle, driveFaults>>
        /\ token # NoToken
    BY <1>1, <1>9 DEF FeedQueuesCsv, Listed
  <2>2. PollsRest'
    BY <1>1, <1>3, <2>1, PollDoneListed
  <2>3. BooksRest'
    BY <1>1, <1>2, <1>3, <2>1 DEF BooksRest
  <2> QED
    BY <1>3, <2>2, <2>3 DEF DriveRest
<1>10. CASE FeedAdvances(p)
  <2>1. token' = feed[p].next /\ FeedRests(p) /\ UNCHANGED <<seen, detected, builds, driveCycle, driveFaults>>
    BY <1>10 DEF FeedAdvances
  <2>2. token' \in 0..FeedHead
    BY <1>1, <2>1 DEF Listed
  <2>3. PollsRest'
    BY <1>1, <1>3, <2>1, <2>2, PollRestsListed DEF NoToken
  <2>4. BooksRest'
    BY <1>1, <1>2, <1>3, <2>1, <2>2 DEF BooksRest, NoToken
  <2> QED
    BY <1>3, <2>3, <2>4 DEF DriveRest
<1>11. CASE FeedFails(p)
  <2>1. DriveFaulty /\ FeedRests(p) /\ UNCHANGED <<token, seen, detected, builds, driveCycle>>
    BY <1>11 DEF FeedFails
  <2>2. PollsRest'
    BY <1>1, <1>3, <2>1, PollRestsListed
  <2>3. BooksRest'
    BY <1>1, <1>2, <1>3, <2>1, DriveFaultyCounts DEF BooksRest
  <2> QED
    BY <1>3, <2>2, <2>3 DEF DriveRest
<1>12. CASE \E f \in Files : FeedPasses(p, f)
  <2> PICK f \in Files : FeedPasses(p, f)
    BY <1>12
  <2>1. /\ feed[p].pc = "file" /\ DriveFaulty /\ FeedDone(p, f) /\ UNCHANGED <<token, seen, detected, builds, driveCycle>>
        /\ token # NoToken
    BY <1>1 DEF FeedPasses, Listed
  <2>2. PollsRest'
    BY <1>1, <1>3, <2>1, PollDoneListed
  <2>3. BooksRest'
    BY <1>1, <1>2, <1>3, <2>1, DriveFaultyCounts DEF BooksRest
  <2> QED
    BY <1>3, <2>2, <2>3 DEF DriveRest
<1> QED
  BY <1>0, <1>4, <1>5, <1>6, <1>7, <1>8, <1>9, <1>10, <1>11, <1>12 DEF FeedStep

LEMMA DriveRestKept == DriveRest /\ [DriveNext]_driveVars => DriveRest'
<1> SUFFICES ASSUME DriveRest, [DriveNext]_driveVars PROVE DriveRest'
  OBVIOUS
<1>1. CASE CsvArrives \/ ClientSaves \/ BuildWrites
  BY <1>1, FolderChanges
<1>2. CASE BuildStarts \/ BuildRecords \/ BuildAdvances
  BY <1>2, BuildMoves
<1>3. CASE FeedsDie
  <2>1. /\ FolderRest /\ BooksRest /\ UNCHANGED <<files, token, seen, ledger, detected, driveCycle>>
        /\ DriveFaulty /\ feed' = [p \in Feeds |-> Asleep] /\ build' = "idle"
        /\ builds' = builds + IF build = "idle" THEN 0 ELSE 1
    BY <1>3 DEF DriveRest, FeedsDie
  <2>2. FolderRest' /\ FeedHead' = FeedHead /\ version' = version
    BY <2>1, FolderStays
  <2>3. BooksRest'
    BY <2>1, <2>2, DriveFaultyCounts DEF BooksRest
  <2>4. ASSUME NEW p \in Feeds PROVE Listed(p)'
    <3>1. feed'[p] = Asleep /\ FeedHead' \in Nat /\ version'["csv"] \in Nat
      BY <2>1, <2>2, HeadCounts DEF FolderRest, Files
    <3> QED
      BY <3>1 DEF Listed, Asleep, NoToken
  <2>5. PollsRest'
    BY <2>1, <2>4, AsleepIsPoll DEF PollsRest
  <2> QED
    BY <2>2, <2>3, <2>5 DEF DriveRest
<1>4. CASE \E p \in Feeds : FeedStep(p) \/ FeedFails(p) \/ \E f \in Files : FeedPasses(p, f)
  BY <1>4, FeedKeeps
<1>5. CASE UNCHANGED driveVars
  <2>1. FolderRest' /\ PollsRest' /\ FeedHead' = FeedHead
    BY <1>5, FolderStays, PollsStay DEF DriveRest
  <2>2. BooksRest'
    BY <1>5, <2>1 DEF DriveRest, BooksRest
  <2> QED
    BY <2>1, <2>2 DEF DriveRest
<1> QED
  BY <1>1, <1>2, <1>3, <1>4, <1>5 DEF DriveNext

\* Every part of the folder's and the pollers' state has its type: no version, job, ledger
\* entry or token is ahead of what was written.
THEOREM DriveTypes == DriveSpec => []DriveTypeOK
<1>1. DriveInit => DriveRest
  BY DriveRestInit
<1>2. DriveRest /\ [DriveNext]_driveVars => DriveRest'
  BY DriveRestKept
<1>3. DriveRest => DriveTypeOK
  <2> SUFFICES ASSUME DriveRest PROVE DriveTypeOK
    OBVIOUS
  <2>1. /\ FolderRest /\ BooksRest /\ PollsRest /\ version["workbook"] \in Nat /\ version["csv"] \in Nat
    BY DEF DriveRest, FolderRest, Files
  <2>2. \A p \in Feeds : feed[p].todo \subseteq Files /\ feed[p].version \in 0..version[feed[p].file]
    BY <2>1 DEF PollsRest, Listed, Poll, FolderRest
  <2>3. /\ version["workbook"] \in 0..Saves /\ version["csv"] \in 0..Plans /\ changedAt \in [Files -> 0..FeedHead]
        /\ byClient \subseteq 1..version["workbook"]
    BY <2>1, DriveAssumption DEF FolderRest
  <2>4. /\ detected \cup ledger \subseteq 1..version["workbook"] /\ token \in NoToken..FeedHead
        /\ \A x \in seen : x[2] \in 1..version[x[1]]
        /\ build \in {"idle", "write", "record", "advance"} /\ driveCycle \in {"planning", "workbook_built"}
        /\ driveFaults \in 0..DriveFaults
    BY <2>1 DEF BooksRest
  <2>5. byClient \cup detected \cup ledger \subseteq 1..version["workbook"]
    BY <2>3, <2>4
  <2> QED
    BY <2>2, <2>3, <2>4, <2>5 DEF DriveTypeOK
<1> QED
  BY <1>1, <1>2, <1>3, PTL DEF DriveSpec

-----------------------------------------------------------------------------
(* No save behind the token.  A save that a poll has listed is accounted   *)
(* for or still among its files, and the version a poll holds is the one   *)
(* the workbook stands at, or a change beyond the listing came after it.   *)

Known == version["workbook"] \in byClient => version["workbook"] \in detected \cup ledger \cup skipped

SeenIsKnown == \A v \in Nat : <<"workbook", v>> \in seen => v \in detected \cup ledger

Accounts(p) ==
  /\ feed[p].pc = "record" => feed[p].version \in detected
  /\ feed[p].pc = "list" /\ changedAt["workbook"] <= feed[p].from => Known
  /\ feed[p].pc \notin {"idle", "list"} /\ changedAt["workbook"] <= feed[p].next =>
       /\ Known \/ "workbook" \in feed[p].todo
       /\ feed[p].pc \in {"workbook", "record"} => feed[p].version = version["workbook"]

SaveInv == DriveRest /\ SeenIsKnown /\ (changedAt["workbook"] <= token => Known) /\ \A p \in Feeds : Accounts(p)

LEMMA SaveInvInit == DriveInit => SaveInv
<1> SUFFICES ASSUME DriveInit PROVE SaveInv
  OBVIOUS
<1>1. Known
  BY DEF DriveInit, Known
<1>2. ASSUME NEW p \in Feeds PROVE Accounts(p)
  <2>1. feed[p] = Asleep
    BY DEF DriveInit
  <2> QED
    BY <2>1 DEF Accounts, Asleep
<1>3. SeenIsKnown
  BY DEF DriveInit, SeenIsKnown
<1> QED
  BY <1>1, <1>2, <1>3, DriveRestInit DEF SaveInv

\* What the engine knows of it does not forget.
Remembers ==
  /\ UNCHANGED files /\ detected \subseteq detected' /\ ledger \subseteq ledger'
  /\ skipped \subseteq skipped'

LEMMA KnownStays == Remembers /\ Known => Known'
  BY DEF Remembers, Known

\* The polls that do not move go on accounting for what they hold.
LEMMA OthersAccount ==
  ASSUME Remembers, NEW p, Accounts(p), feed'[p] = feed[p]
  PROVE  Accounts(p)'
<1>1. Known => Known'
  BY KnownStays
<1>2. UNCHANGED files /\ detected \subseteq detected'
  BY DEF Remembers
<1> QED
  BY <1>1, <1>2 DEF Accounts

LEMMA OneMoves ==
  ASSUME SaveInv, DriveRest', Remembers, NEW p \in Feeds, NEW c, feed' = [feed EXCEPT ![p] = c],
         SeenIsKnown', changedAt'["workbook"] <= token' => Known', Accounts(p)'
  PROVE  SaveInv'
<1>1. ASSUME NEW q \in Feeds PROVE Accounts(q)'
  <2>1. feed \in [Feeds -> Poll] /\ Accounts(q)
    BY DEF SaveInv, DriveRest, PollsRest
  <2>2. q # p => feed'[q] = feed[q]
    BY <2>1
  <2> QED
    BY <2>1, <2>2, OthersAccount
<1> QED
  BY <1>1 DEF SaveInv

\* A poll that drops a file whose save is known, or that is not the workbook, still accounts.
LEMMA DoneAccounts ==
  ASSUME SaveInv, Remembers, NEW p \in Feeds, NEW f \in Files, FeedDone(p, f), feed[p].pc \notin {"idle", "list"},
         f = "workbook" /\ changedAt["workbook"] <= feed[p].next => Known'
  PROVE  Accounts(p)'
<1> DEFINE c == [feed[p] EXCEPT !.pc = "file", !.todo = feed[p].todo \ {f}, !.file = "csv", !.version = 0]
<1>1. feed' = [feed EXCEPT ![p] = c] /\ feed \in [Feeds -> Poll] /\ feed[p] \in Poll /\ Accounts(p)
  BY DEF FeedDone, SaveInv, DriveRest, PollsRest
<1>2. c.pc = "file" /\ c.todo = feed[p].todo \ {f} /\ c.next = feed[p].next /\ c.from = feed[p].from
  BY <1>1 DEF Poll
<1> HIDE DEF c
<1>3. feed'[p] = c
  BY <1>1
<1>4. UNCHANGED files /\ (Known => Known')
  BY KnownStays DEF Remembers
<1> QED
  BY <1>1, <1>2, <1>3, <1>4 DEF Accounts, Files

\* A version that is recorded is known; the poll then drops the file or fails.
LEMMA ProcessedAccounts ==
  ASSUME SaveInv, Remembers, NEW p \in Feeds, Processed(p), feed[p].pc \in {"workbook", "csv", "record"},
         feed[p].pc \in {"workbook", "record"} => feed[p].version \in detected \cup ledger
  PROVE  SeenIsKnown' /\ Accounts(p)' /\ \E c : feed' = [feed EXCEPT ![p] = c]
<1> DEFINE x == <<feed[p].file, feed[p].version>>
<1>1. /\ feed \in [Feeds -> Poll] /\ feed[p] \in Poll /\ Listed(p) /\ Accounts(p) /\ SeenIsKnown
      /\ UNCHANGED files /\ detected \cup ledger \subseteq detected' \cup ledger'
  BY DEF SaveInv, DriveRest, PollsRest, Remembers
<1>2. feed[p].file = "workbook" => feed[p].version \in detected \cup ledger
  BY <1>1 DEF Listed
<1>3. SeenIsKnown'
  <2>1. seen' = seen \/ seen' = seen \cup {x}
    BY DEF Processed
  <2> QED
    BY <1>1, <1>2, <2>1 DEF SeenIsKnown
<1>4. CASE x \in seen
  <2>1. feed' = [feed EXCEPT ![p] = Asleep]
    BY <1>4 DEF Processed, FeedRests
  <2>2. feed'[p].pc = "idle"
    BY <1>1, <2>1 DEF Asleep
  <2>3. Accounts(p)'
    BY <2>2 DEF Accounts
  <2> QED
    BY <1>3, <2>1, <2>3
<1>5. CASE x \notin seen /\ feed[p].file = "csv"
  <2> DEFINE c == [feed[p] EXCEPT !.pc = "queue"]
  <2>1. feed' = [feed EXCEPT ![p] = c]
    BY <1>5 DEF Processed
  <2>2. c.pc = "queue" /\ c.todo = feed[p].todo /\ c.next = feed[p].next /\ c.from = feed[p].from
    BY <1>1 DEF Poll
  <2> HIDE DEF c
  <2>3. feed'[p] = c
    BY <1>1, <2>1
  <2>4. Known => Known'
    BY KnownStays
  <2>5. Accounts(p)'
    BY <1>1, <2>2, <2>3, <2>4 DEF Accounts
  <2> QED
    BY <1>3, <2>1, <2>5
<1>6. CASE x \notin seen /\ feed[p].file # "csv"
  <2>1. FeedDone(p, feed[p].file) /\ feed[p].file \in Files
    BY <1>1, <1>6 DEF Processed, Poll
  <2>2. feed[p].file = "workbook" /\ feed[p].pc \in {"workbook", "record"}
    BY <1>1, <1>6, <2>1 DEF Listed, Files
  <2>3. changedAt["workbook"] <= feed[p].next => Known'
    BY <1>1, <1>2, <2>2 DEF Accounts, Known
  <2>4. Accounts(p)'
    BY <2>1, <2>2, <2>3, DoneAccounts
  <2>5. \E c : feed' = [feed EXCEPT ![p] = c]
    BY <2>1 DEF FeedDone
  <2> QED
    BY <1>3, <2>4, <2>5
<1> QED
  BY <1>4, <1>5, <1>6

LEMMA FolderAccounts ==
  ASSUME SaveInv, DriveRest', CsvArrives \/ ClientSaves \/ BuildWrites
  PROVE  SaveInv'
<1>1. /\ FolderRest /\ "workbook" \in Files /\ "csv" \in Files /\ PollsRest /\ BooksRest
      /\ UNCHANGED <<token, seen, ledger, detected, feed, skipped>>
      /\ FeedHead \in Nat /\ token \in NoToken..FeedHead
  BY HeadCounts DEF SaveInv, DriveRest, CsvArrives, ClientSaves, BuildWrites, Files, BooksRest
<1>2. SeenIsKnown'
  BY <1>1 DEF SaveInv, SeenIsKnown
<1>3. CASE CsvArrives
  <2>1. Changes("csv") /\ byClient' = byClient
    BY <1>3 DEF CsvArrives
  <2>2. version'["workbook"] = version["workbook"] /\ changedAt'["workbook"] = changedAt["workbook"]
    BY <1>1, <2>1, ChangesLeaves
  <2>3. Known => Known'
    BY <1>1, <2>1, <2>2 DEF Known
  <2>4. ASSUME NEW p \in Feeds PROVE Accounts(p)'
    BY <1>1, <2>2, <2>3 DEF SaveInv, Accounts
  <2> QED
    BY <1>1, <1>2, <2>2, <2>3, <2>4 DEF SaveInv
<1>4. CASE ClientSaves \/ BuildWrites
  <2>1. Changes("workbook")
    BY <1>4 DEF ClientSaves, BuildWrites
  <2>2. changedAt'["workbook"] = FeedHead + 1
    BY <1>1, <2>1, ChangesLeaves
  <2>3. ~(changedAt'["workbook"] <= token')
    BY <1>1, <2>2 DEF NoToken
  <2>4. ASSUME NEW p \in Feeds PROVE Accounts(p)'
    <3>1. feed'[p] = feed[p] /\ feed[p] \in Poll /\ Listed(p) /\ Accounts(p)
      BY <1>1 DEF SaveInv, PollsRest
    <3>2. ~(changedAt'["workbook"] <= feed[p].next) /\ ~(changedAt'["workbook"] <= feed[p].from)
      BY <1>1, <2>2, <3>1 DEF Listed, Poll, NoToken
    <3> QED
      BY <1>1, <3>1, <3>2 DEF Accounts
  <2> QED
    BY <1>2, <2>3, <2>4 DEF SaveInv
<1> QED
  BY <1>3, <1>4

LEMMA FeedAccounts ==
  ASSUME SaveInv, DriveRest', NEW p \in Feeds, FeedStep(p) \/ FeedFails(p) \/ \E f \in Files : FeedPasses(p, f)
  PROVE  SaveInv'
<1>1. /\ feed \in [Feeds -> Poll] /\ feed[p] \in Poll /\ Listed(p) /\ Accounts(p) /\ SeenIsKnown
      /\ "workbook" \in Files /\ version \in [Files -> Nat] /\ FeedHead \in Nat /\ token \in NoToken..FeedHead
      /\ changedAt["workbook"] \in Nat /\ FolderRest /\ (changedAt["workbook"] <= token => Known)
  BY HeadCounts DEF SaveInv, DriveRest, PollsRest, Files, FolderRest, BooksRest
<1>2. UNCHANGED files
  BY DEF FeedStep, FeedStarts, FeedLists, FeedLooks, FeedPasses, FeedDetects, FeedRecords, FeedRecordsCsv, FeedQueuesCsv,
         FeedAdvances, FeedFails
<1>0. CASE FeedStarts(p)
  <2> DEFINE c == [Asleep EXCEPT !.pc = "list", !.from = token]
  <2>1. feed' = [feed EXCEPT ![p] = c] /\ UNCHANGED <<token, seen, detected, ledger, skipped>>
    BY <1>0 DEF FeedStarts
  <2>2. c.pc = "list" /\ c.from = token
    BY DEF Asleep
  <2> HIDE DEF c
  <2>3. feed'[p] = c
    BY <1>1, <2>1
  <2>4. Remembers /\ SeenIsKnown'
    BY <1>1, <1>2, <2>1 DEF Remembers, SeenIsKnown
  <2>5. (Known => Known') /\ (changedAt'["workbook"] <= token' => Known')
    BY <1>1, <1>2, <2>1, <2>4, KnownStays
  <2>6. Accounts(p)'
    BY <1>2, <2>1, <2>2, <2>3, <2>5 DEF Accounts
  <2> QED
    BY <2>1, <2>4, <2>5, <2>6, OneMoves
<1>3. CASE FeedLists(p)
  <2>1. UNCHANGED <<seen, detected, ledger>>
    BY <1>3 DEF FeedLists, queued
  <2>2. SeenIsKnown'
    BY <1>1, <2>1 DEF SeenIsKnown
  <2>3. CASE feed[p].from = NoToken
    <3>1. skipped' = skipped \cup byClient /\ feed' = [feed EXCEPT ![p] = Asleep]
      BY <1>3, <2>3 DEF FeedLists, FeedRests
    <3>2. Remembers /\ Known'
      BY <1>2, <2>1, <3>1 DEF Remembers, Known
    <3>3. feed'[p].pc = "idle"
      BY <1>1, <3>1 DEF Asleep
    <3>4. Accounts(p)'
      BY <3>3 DEF Accounts
    <3> QED
      BY <2>2, <3>1, <3>2, <3>4, OneMoves
  <2>4. CASE feed[p].from # NoToken
    <3> DEFINE c == Listing(feed[p].from)
    <3>1. feed' = [feed EXCEPT ![p] = c] /\ UNCHANGED <<token, skipped>>
      BY <1>3, <2>4 DEF FeedLists
    <3>2. c.pc = "file" /\ c.todo = {f \in Files : changedAt[f] > feed[p].from}
      BY DEF Asleep, Listing
    <3> HIDE DEF c
    <3>3. feed'[p] = c
      BY <1>1, <3>1
    <3>4. Remembers
      BY <1>2, <2>1, <3>1 DEF Remembers
    <3>5. Known => Known'
      BY <3>4, KnownStays
    <3>6. Known \/ "workbook" \in c.todo
      <4>1. feed[p].from \in Int /\ feed[p].pc = "list"
        BY <1>1, <1>3 DEF Poll, FeedLists
      <4> QED
        BY <1>1, <3>2, <4>1 DEF Accounts
    <3>7. Accounts(p)'
      BY <3>2, <3>3, <3>5, <3>6 DEF Accounts
    <3>8. changedAt'["workbook"] <= token' => Known'
      BY <1>1, <1>2, <3>1, <3>5
    <3> QED
      BY <2>2, <3>1, <3>4, <3>7, <3>8, OneMoves
  <2> QED
    BY <2>3, <2>4
<1>4. CASE \E f \in Files : FeedLooks(p, f)
  <2> PICK f \in Files : FeedLooks(p, f)
    BY <1>4
  <2>1. feed[p].pc = "file" /\ f \in feed[p].todo /\ UNCHANGED <<token, seen, detected, ledger, skipped>>
    BY DEF FeedLooks
  <2>2. SeenIsKnown' /\ Remembers
    BY <1>1, <1>2, <2>1 DEF SeenIsKnown, Remembers
  <2>3. Known => Known'
    BY <2>2, KnownStays
  <2>4. changedAt'["workbook"] <= token' => Known'
    BY <1>1, <1>2, <2>1, <2>3
  <2>5. CASE <<f, version[f]>> \in seen
    <3>1. FeedDone(p, f)
      BY <2>5 DEF FeedLooks
    <3>2. f = "workbook" => Known
      BY <1>1, <2>5 DEF SeenIsKnown, Known
    <3>3. Accounts(p)'
      BY <2>1, <2>2, <2>3, <3>1, <3>2, DoneAccounts
    <3>4. \E c : feed' = [feed EXCEPT ![p] = c]
      BY <3>1 DEF FeedDone
    <3> QED
      BY <2>2, <2>4, <3>3, <3>4, OneMoves
  <2>6. CASE <<f, version[f]>> \notin seen
    <3> DEFINE c == [feed[p] EXCEPT !.pc = f, !.file = f, !.version = version[f]]
    <3>1. feed' = [feed EXCEPT ![p] = c]
      BY <2>6 DEF FeedLooks
    <3>2. c.pc = f /\ c.version = version[f] /\ c.next = feed[p].next /\ c.from = feed[p].from /\ c.todo = feed[p].todo
      BY <1>1 DEF Poll
    <3> HIDE DEF c
    <3>3. feed'[p] = c
      BY <1>1, <3>1
    <3>4. Accounts(p)'
      BY <1>1, <1>2, <2>1, <2>3, <3>2, <3>3 DEF Accounts, Files
    <3> QED
      BY <2>2, <2>4, <3>1, <3>4, OneMoves
  <2> QED
    BY <2>5, <2>6
<1>5. CASE FeedDetects(p)
  <2>1. feed[p].pc = "workbook" /\ UNCHANGED <<token, ledger, skipped>>
    BY <1>5 DEF FeedDetects
  <2>2. CASE feed[p].version \in ledger
    <3>1. Processed(p) /\ UNCHANGED detected
      BY <1>5, <2>2 DEF FeedDetects
    <3>2. Remembers
      BY <1>2, <2>1, <3>1 DEF Remembers
    <3>3. SeenIsKnown' /\ Accounts(p)' /\ \E c : feed' = [feed EXCEPT ![p] = c]
      BY <2>1, <2>2, <3>1, <3>2, ProcessedAccounts
    <3>4. changedAt'["workbook"] <= token' => Known'
      BY <1>1, <1>2, <2>1, <3>2, KnownStays
    <3> QED
      BY <3>2, <3>3, <3>4, OneMoves
  <2>3. CASE feed[p].version \notin ledger
    <3> DEFINE c == [feed[p] EXCEPT !.pc = "record"]
    <3>1. feed' = [feed EXCEPT ![p] = c] /\ detected' = detected \cup {feed[p].version} /\ UNCHANGED seen
      BY <1>5, <2>3 DEF FeedDetects
    <3>2. c.pc = "record" /\ c.todo = feed[p].todo /\ c.version = feed[p].version /\ c.next = feed[p].next /\ c.from = feed[p].from
      BY <1>1 DEF Poll
    <3> HIDE DEF c
    <3>3. feed'[p] = c
      BY <1>1, <3>1
    <3>4. Remembers
      BY <1>2, <2>1, <3>1 DEF Remembers
    <3>5. Known => Known'
      BY <3>4, KnownStays
    <3>6. Accounts(p)'
      BY <1>1, <1>2, <2>1, <3>1, <3>2, <3>3, <3>5 DEF Accounts
    <3>7. SeenIsKnown'
      BY <1>1, <2>1, <3>1 DEF SeenIsKnown
    <3>8. changedAt'["workbook"] <= token' => Known'
      BY <1>1, <1>2, <2>1, <3>5
    <3> QED
      BY <3>1, <3>4, <3>6, <3>7, <3>8, OneMoves
  <2> QED
    BY <2>2, <2>3
<1>6. CASE FeedRecords(p) \/ FeedRecordsCsv(p)
  <2>1. Processed(p) /\ feed[p].pc \in {"record", "csv"} /\ UNCHANGED <<token, ledger, detected, skipped>>
    BY <1>6 DEF FeedRecords, FeedRecordsCsv
  <2>2. Remembers
    BY <1>2, <2>1 DEF Remembers
  <2>3. SeenIsKnown' /\ Accounts(p)' /\ \E c : feed' = [feed EXCEPT ![p] = c]
    <3>1. feed[p].pc \in {"workbook", "record"} => feed[p].version \in detected \cup ledger
      BY <1>1, <2>1 DEF Accounts
    <3> QED
      BY <2>1, <2>2, <3>1, ProcessedAccounts
  <2>4. changedAt'["workbook"] <= token' => Known'
    BY <1>1, <1>2, <2>1, <2>2, KnownStays
  <2> QED
    BY <2>2, <2>3, <2>4, OneMoves
<1>7. CASE FeedQueuesCsv(p) \/ \E f \in Files : FeedPasses(p, f)
  <2>1. PICK f \in Files : (FeedQueuesCsv(p) /\ f = "csv") \/ FeedPasses(p, f)
    BY <1>7 DEF Files
  <2>2. FeedDone(p, f) /\ feed[p].pc \notin {"idle", "list"} /\ UNCHANGED <<token, seen, detected, ledger>> /\ skipped \subseteq skipped'
    BY <2>1 DEF FeedQueuesCsv, FeedPasses
  <2>3. Remembers /\ SeenIsKnown'
    BY <1>1, <1>2, <2>2 DEF Remembers, SeenIsKnown
  <2>4. f = "workbook" => Known'
    BY <1>2, <2>1 DEF FeedPasses, Known
  <2>5. Accounts(p)'
    BY <2>2, <2>3, <2>4, DoneAccounts
  <2>6. \E c : feed' = [feed EXCEPT ![p] = c]
    BY <2>2 DEF FeedDone
  <2>7. changedAt'["workbook"] <= token' => Known'
    BY <1>1, <1>2, <2>2, <2>3, KnownStays
  <2> QED
    BY <2>3, <2>5, <2>6, <2>7, OneMoves
<1>8. CASE FeedAdvances(p) \/ FeedFails(p)
  <2>1. FeedRests(p) /\ UNCHANGED <<seen, detected, ledger, skipped>>
    BY <1>8 DEF FeedAdvances, FeedFails
  <2>2. Remembers /\ SeenIsKnown'
    BY <1>1, <1>2, <2>1 DEF Remembers, SeenIsKnown
  <2>3. feed' = [feed EXCEPT ![p] = Asleep] /\ feed'[p].pc = "idle"
    BY <1>1, <2>1 DEF FeedRests, Asleep
  <2>4. Accounts(p)'
    BY <2>3 DEF Accounts
  <2>5. changedAt'["workbook"] <= token' => Known'
    <3>1. CASE FeedFails(p)
      BY <1>1, <1>2, <2>2, <3>1, KnownStays DEF FeedFails
    <3>2. CASE FeedAdvances(p)
      <4>1. changedAt["workbook"] <= feed[p].next => Known
        BY <1>1, <3>2 DEF FeedAdvances, Accounts
      <4> QED
        BY <1>2, <2>2, <3>2, <4>1, KnownStays DEF FeedAdvances
    <3> QED
      BY <1>8, <3>1, <3>2
  <2> QED
    BY <2>2, <2>3, <2>4, <2>5, OneMoves
<1> QED
  BY <1>0, <1>3, <1>4, <1>5, <1>6, <1>7, <1>8 DEF FeedStep

LEMMA SaveInvKept == SaveInv /\ [DriveNext]_driveVars => SaveInv'
<1> SUFFICES ASSUME SaveInv, [DriveNext]_driveVars PROVE SaveInv'
  OBVIOUS
<1>1. DriveRest'
  BY DriveRestKept DEF SaveInv
<1>2. CASE CsvArrives \/ ClientSaves \/ BuildWrites
  BY <1>1, <1>2, FolderAccounts
<1>3. CASE \E p \in Feeds : FeedStep(p) \/ FeedFails(p) \/ \E f \in Files : FeedPasses(p, f)
  BY <1>1, <1>3, FeedAccounts
<1>4. CASE BuildStarts \/ BuildRecords \/ BuildAdvances \/ FeedsDie \/ UNCHANGED driveVars
  <2>1. /\ UNCHANGED <<files, token, seen, detected, skipped>> /\ ledger \subseteq ledger'
        /\ feed' = feed \/ feed' = [p \in Feeds |-> Asleep]
    BY <1>4 DEF BuildStarts, BuildRecords, BuildAdvances, FeedsDie
  <2>2. Remembers /\ SeenIsKnown'
    BY <2>1 DEF Remembers, SaveInv, SeenIsKnown
  <2>3. changedAt'["workbook"] <= token' => Known'
    BY <2>1, <2>2, KnownStays DEF SaveInv
  <2>4. ASSUME NEW p \in Feeds PROVE Accounts(p)'
    <3>1. CASE feed' = feed
      BY <2>2, <3>1, OthersAccount DEF SaveInv
    <3>2. CASE feed' = [q \in Feeds |-> Asleep]
      <4>1. feed'[p].pc = "idle"
        BY <3>2 DEF Asleep
      <4> QED
        BY <4>1 DEF Accounts
    <3> QED
      BY <2>1, <3>1, <3>2
  <2> QED
    BY <1>1, <2>2, <2>3, <2>4 DEF SaveInv
<1> QED
  BY <1>2, <1>3, <1>4 DEF DriveNext

\* Whatever fails, dies or overlaps, the token stands behind every save of the client's that
\* nobody has taken account of.
THEOREM NoSaveIsPassed == DriveSpec => []TokenPassesNoSave
<1>1. SaveInv => TokenPassesNoSave
  BY DEF SaveInv, Known, TokenPassesNoSave
<1> QED
  BY <1>1, SaveInvInit, SaveInvKept, PTL DEF DriveSpec

-----------------------------------------------------------------------------
(* The engine.  The part that is looked at steps, the other two rest.      *)

LEMMA EngineInit == Init => VoiceInit /\ MailInit /\ DriveInit
  BY DEF Init

LEMMA EngineNext == [Next]_engineVars => [VoiceNext]_voiceVars /\ [MailNext]_mailVars /\ [DriveNext]_driveVars
  BY DEF Next, engineVars, VoiceRests, MailRests, DriveRests

LEMMA EngineRunsItsParts == Spec => VoiceSpec /\ MailSpec /\ DriveSpec
  BY EngineInit, EngineNext, PTL DEF Spec, VoiceSpec, MailSpec, DriveSpec

\* Every part of the engine's state has its type, whichever part is looked at.
THEOREM EngineTypes == Spec => []TypeOK
<1>1. VoiceTypeOK /\ MailTypeOK /\ DriveTypeOK => TypeOK
  BY DEF TypeOK
<1> QED
  BY <1>1, EngineRunsItsParts, VoiceTypes, MailTypes, DriveTypes, PTL

\* What the engine promises about its parts, under its own specification: edits that a merge
\* has taken stay in the profile and no commit loses any, a mail comes before its person once
\* and waits for them, and the Drive token passes no save.
THEOREM EngineKeepsItsPromises ==
  Spec => /\ []NightlyKeepsWhatItTakes /\ NothingIsForgotten
          /\ []MailIsFiledOnce /\ []WaitsForItsHuman
          /\ []TokenPassesNoSave
  BY EngineRunsItsParts, NightlyKeeps, SnapshotsAddUp, FiledOnce, HumanIsWaitedFor, NoSaveIsPassed, PTL

=============================================================================
