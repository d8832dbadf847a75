SPECIFICATION FairSpec
CONSTANTS
  reel = reel
  carousel = carousel
  single = single
  tick = tick
  tock = tock
  Posts = {reel}
  Format <- MCFormat
  Ungrounded = {}
  Sweepers = {tick}
  Concurrency = 2
  MaxAttempts = 1
  MaxSweepAttempts = 2
  Budget <- RecoveryBudget
  MaxEvents = 2
INVARIANTS
  AtMostOneMail
PROPERTIES
  Announced
CHECK_DEADLOCK FALSE
