----------------------------- MODULE DriveFeed ------------------------------
(***************************************************************************)
(* The Drive folder of a channel: a plan's CSV becomes a workbook, the     *)
(* client edits the workbook, and the poller tells the client's saves from *)
(* the engine's own by a ledger of the versions the engine has written.    *)
(*                                                                         *)
(* Drive is followed by the version (modifiedTime) of each file and the    *)
(* place of its last change in the feed.  What detect-edits reads out of a *)
(* workbook is left to VoiceMerge, the parsing of names and the sharing of *)
(* the file are left out.                                                  *)
(***************************************************************************)
EXTENDS Integers, FiniteSets

CONSTANTS
  Feeds,         \* poll cycles that may run side by side
  Saves,         \* bound: versions of the workbook
  Plans,         \* bound: versions of the CSV
  DriveFaults    \* bound: calls that fail and processes that die

ASSUME DriveAssumption == Saves \in Nat /\ Plans \in Nat /\ DriveFaults \in Nat

VARIABLES
  version,     \* how often each file was written, 0 while there is none
  changedAt,   \* the place of its last change in the feed
  byClient,    \* workbook versions that are the client's
  token,       \* client_channels.drive_page_token
  seen,        \* processed_external_ids, source drive: files with their version
  ledger,      \* the same, source drive-self-write
  detected,    \* workbook versions with a detect-edits job
  builds,      \* build-workbook jobs in the queue
  build,       \* the one that runs
  driveCycle,  \* the cycle on the sheet surface
  feed,        \* the poll cycles
  skipped,     \* history: workbook versions before a first poll, or without readable metadata
  driveFaults

files == <<version, changedAt, byClient>>
queued == <<detected, builds>>
driveVars == <<files, token, seen, ledger, queued, build, driveCycle, feed, skipped, driveFaults>>

Files == {"workbook", "csv"}
NoToken == -1
FeedHead == version["workbook"] + version["csv"]   \* changes in the feed so far
Asleep == [pc |-> "idle", from |-> NoToken, next |-> 0, todo |-> {}, file |-> "csv", version |-> 0]

DriveTypeOK ==
  /\ version["workbook"] \in 0..Saves /\ version["csv"] \in 0..Plans /\ changedAt \in [Files -> 0..FeedHead]
  /\ byClient \cup detected \cup ledger \subseteq 1..version["workbook"]
  /\ token \in NoToken..FeedHead /\ \A x \in seen : x[2] \in 1..version[x[1]]
  /\ build \in {"idle", "write", "record", "advance"} /\ driveCycle \in {"planning", "workbook_built"}
  /\ \A p \in Feeds : feed[p].todo \subseteq Files /\ feed[p].version \in 0..version[feed[p].file]
  /\ driveFaults \in 0..DriveFaults

DriveInit ==
  /\ version = [f \in Files |-> 0] /\ changedAt = [f \in Files |-> 0] /\ byClient = {}
  /\ token = NoToken /\ seen = {} /\ ledger = {} /\ detected = {}
  /\ builds = 0 /\ build = "idle" /\ driveCycle = "planning"
  /\ feed = [p \in Feeds |-> Asleep] /\ skipped = {} /\ driveFaults = 0

DriveFaulty == driveFaults < DriveFaults /\ driveFaults' = driveFaults + 1

Changes(f) ==
  /\ version[f] < IF f = "csv" THEN Plans ELSE Saves
  /\ version' = [version EXCEPT ![f] = @ + 1]
  /\ changedAt' = [changedAt EXCEPT ![f] = FeedHead + 1]

\* The plan's CSV is put into the folder; the client saves the workbook.
CsvArrives ==
  /\ Changes("csv")
  /\ UNCHANGED <<byClient, token, seen, ledger, queued, build, driveCycle, feed, skipped, driveFaults>>

ClientSaves ==
  /\ version["workbook"] > 0 /\ Changes("workbook")
  /\ byClient' = byClient \cup {version["workbook"] + 1}
  /\ UNCHANGED <<token, seen, ledger, queued, build, driveCycle, feed, skipped, driveFaults>>

---------------------------------------------------------------------------
(* calendar:build-workbook.                                                *)

BuildStarts ==
  /\ build = "idle" /\ builds > 0
  /\ builds' = builds - 1 /\ build' = "write"
  /\ UNCHANGED <<files, token, seen, ledger, detected, driveCycle, feed, skipped, driveFaults>>

BuildWrites ==
  /\ build = "write" /\ Changes("workbook")
  /\ build' = "record"
  /\ UNCHANGED <<byClient, token, seen, ledger, queued, driveCycle, feed, skipped, driveFaults>>

\* The version that goes into the ledger is read after the write; a failure is swallowed.
BuildRecords ==
  /\ build = "record" /\ build' = "advance"
  /\ \/ ledger' = ledger \cup {version["workbook"]} /\ UNCHANGED driveFaults
     \/ UNCHANGED ledger /\ DriveFaulty
  /\ UNCHANGED <<files, token, seen, queued, driveCycle, feed, skipped>>

WorkbookBuilt == driveCycle' = "workbook_built"

BuildAdvances ==
  /\ build = "advance" /\ build' = "idle"
  /\ WorkbookBuilt
  /\ UNCHANGED <<files, token, seen, ledger, queued, feed, skipped, driveFaults>>

---------------------------------------------------------------------------
(* DrivePoller.pollChannel.                                                *)

FeedRests(p) == feed' = [feed EXCEPT ![p] = Asleep]
FeedDone(p, f) == feed' = [feed EXCEPT ![p] = [@ EXCEPT !.pc = "file", !.todo = feed[p].todo \ {f}, !.file = "csv", !.version = 0]]

FeedStarts(p) ==
  /\ feed[p].pc = "idle"
  /\ feed' = [feed EXCEPT ![p] = [Asleep EXCEPT !.pc = "list", !.from = token]]
  /\ UNCHANGED <<files, token, seen, ledger, queued, build, driveCycle, skipped, driveFaults>>

\* Each changed file is listed once.
Listing(from) == [Asleep EXCEPT !.pc = "file", !.next = FeedHead, !.todo = {f \in Files : changedAt[f] > from}]

FeedListsAndAdvances(p) ==   \* mutant: the token goes on before the files are looked at
  /\ feed[p].pc = "list" /\ token' = FeedHead
  /\ skipped' = IF feed[p].from = NoToken THEN skipped \cup byClient ELSE skipped
  /\ IF feed[p].from = NoToken THEN FeedRests(p) ELSE feed' = [feed EXCEPT ![p] = Listing(feed[p].from)]
  /\ UNCHANGED <<files, seen, ledger, queued, build, driveCycle, driveFaults>>

\* A poll that found no token only takes the head of the feed; another lists what changed
\* since the token it found.
FeedLists(p) ==
  /\ feed[p].pc = "list"
  /\ IF feed[p].from = NoToken THEN token' = FeedHead /\ skipped' = skipped \cup byClient /\ FeedRests(p)
     ELSE /\ feed' = [feed EXCEPT ![p] = Listing(feed[p].from)]
          /\ UNCHANGED <<token, skipped>>
  /\ UNCHANGED <<files, seen, ledger, queued, build, driveCycle, driveFaults>>

\* The key is the version of this moment, not the one of the change.
FeedLooks(p, f) ==
  /\ feed[p].pc = "file" /\ f \in feed[p].todo
  /\ IF <<f, version[f]>> \in seen THEN FeedDone(p, f)
     ELSE feed' = [feed EXCEPT ![p] = [@ EXCEPT !.pc = f, !.file = f, !.version = version[f]]]
  /\ UNCHANGED <<files, token, seen, ledger, queued, build, driveCycle, skipped, driveFaults>>

\* Metadata that cannot be read: the file is passed over.
FeedPasses(p, f) ==
  /\ feed[p].pc = "file" /\ f \in feed[p].todo /\ DriveFaulty
  /\ FeedDone(p, f)
  /\ skipped' = IF f = "workbook" THEN skipped \cup {version[f]} ELSE skipped
  /\ UNCHANGED <<files, token, seen, ledger, queued, build, driveCycle>>

\* The key goes into processed_external_ids, whose index refuses it a second time.
Processed(p) ==
  LET x == <<feed[p].file, feed[p].version>> IN
  IF x \in seen THEN FeedRests(p) /\ UNCHANGED seen
  ELSE seen' = seen \cup {x} /\ IF x[1] = "csv" THEN feed' = [feed EXCEPT ![p].pc = "queue"] ELSE FeedDone(p, x[1])

\* A version of the engine's own is only recorded; any other gets its job first.
FeedDetects(p) ==
  /\ feed[p].pc = "workbook"
  /\ IF feed[p].version \in ledger THEN Processed(p) /\ UNCHANGED detected
     ELSE /\ detected' = detected \cup {feed[p].version}
          /\ feed' = [feed EXCEPT ![p].pc = "record"]
          /\ UNCHANGED seen
  /\ UNCHANGED <<files, token, ledger, builds, build, driveCycle, skipped, driveFaults>>

\* A cycle still planning is moved on, unless that fails too.
FeedRecords(p) ==
  /\ feed[p].pc = "record" /\ Processed(p)
  /\ \/ <<"workbook", feed[p].version>> \notin seen /\ WorkbookBuilt /\ UNCHANGED driveFaults
     \/ <<"workbook", feed[p].version>> \in seen /\ UNCHANGED <<driveCycle, driveFaults>>
     \/ UNCHANGED driveCycle /\ DriveFaulty
  /\ UNCHANGED <<files, token, ledger, queued, build, skipped>>

\* Its incoming_events row, written before, is not followed.
FeedRecordsCsv(p) ==
  /\ feed[p].pc = "csv" /\ Processed(p)
  /\ UNCHANGED <<files, token, ledger, queued, build, driveCycle, skipped, driveFaults>>

FeedQueuesCsv(p) ==
  /\ feed[p].pc = "queue"
  /\ builds' = builds + 1
  /\ FeedDone(p, "csv")
  /\ UNCHANGED <<files, token, seen, ledger, detected, build, driveCycle, skipped, driveFaults>>

FeedAdvancesToNow(p) ==   \* mutant: the token is the feed's head of now, not of the listing
  /\ feed[p].pc = "file" /\ feed[p].todo = {}
  /\ token' = FeedHead /\ FeedRests(p)
  /\ UNCHANGED <<files, seen, ledger, queued, build, driveCycle, skipped, driveFaults>>

FeedAdvances(p) ==
  /\ feed[p].pc = "file" /\ feed[p].todo = {}
  /\ token' = feed[p].next /\ FeedRests(p)
  /\ UNCHANGED <<files, seen, ledger, queued, build, driveCycle, skipped, driveFaults>>

\* The listing, an insert or an add throws: the token stays.
FeedFails(p) ==
  /\ feed[p].pc # "idle" /\ DriveFaulty /\ FeedRests(p)
  /\ UNCHANGED <<files, token, seen, ledger, queued, build, driveCycle, skipped>>

\* The engine dies; a build that ran is found stalled and starts over.
FeedsDie ==
  /\ DriveFaulty
  /\ feed' = [p \in Feeds |-> Asleep]
  /\ build' = "idle" /\ builds' = builds + IF build = "idle" THEN 0 ELSE 1
  /\ UNCHANGED <<files, token, seen, ledger, detected, driveCycle, skipped>>

FeedStep(p) ==
  \/ FeedStarts(p) \/ FeedLists(p) \/ FeedDetects(p) \/ FeedRecords(p) \/ FeedRecordsCsv(p)
  \/ FeedQueuesCsv(p) \/ FeedAdvances(p)
  \/ \E f \in Files : FeedLooks(p, f)

DriveNext ==
  \/ CsvArrives \/ ClientSaves \/ BuildStarts \/ BuildWrites \/ BuildRecords \/ BuildAdvances
  \/ FeedsDie
  \/ \E p \in Feeds : \/ FeedStep(p) \/ FeedFails(p)
                      \/ \E f \in Files : FeedPasses(p, f)

DriveSpec == DriveInit /\ [][DriveNext]_driveVars

---------------------------------------------------------------------------
(* Properties.                                                             *)

\* The token never passes a save: the client's version that the workbook stands at, once the
\* feed is read beyond it, has its job, is in the ledger or is one of the exceptions below.
\* So no failure, death or overlapping poll leaves a save that no later poll would list.
TokenPassesNoSave ==
  version["workbook"] \in byClient /\ changedAt["workbook"] <= token
    => version["workbook"] \in detected \cup ledger \cup skipped

\* Again and again the workbook is as the client's last save that was read for edits or as
\* the engine wrote it: no save stays unnoticed, however the polls overlap and fail.  The
\* exceptions are the code's: a version from before a poll that found no token, one whose
\* metadata could not be read, and one the build took for its own.
SaveIsDetected ==
  []<>(version["workbook"] \in byClient => version["workbook"] \in detected \cup ledger \cup skipped)

=============================================================================
