SPECIFICATION Spec
CONSTANTS
  w1 = w1
  w2 = w2
  e1 = e1
  e2 = e2
  a1 = a1
  Edits = {e1, e2}
  OfMonth = {e1}
  Mergers = {w1, w2}
  Approvals = {a1}
  VoiceFaults = 1
  Mails = 2
  Polls = {w1, w2}
  PageSize = 1
  RuleSets <- MCRuleSets
  MailFaults = 1
  Feeds = {w1, w2}
  Saves = 2
  Plans = 1
  DriveFaults = 1
INVARIANTS
  TypeOK
  NightlyKeepsWhatItTakes
  MailIsFiledOnce
  WaitsForItsHuman
  TokenPassesNoSave
PROPERTIES
  NothingIsForgotten
  PendingIsLearned
  MailIsTakenIn
  SaveIsDetected
CHECK_DEADLOCK FALSE
