SPECIFICATION Spec
CONSTANTS
  reel = reel
  carousel = carousel
  single = single
  tick = tick
  tock = tock
  Posts = {reel, single}
  Format <- MCFormat
  Ungrounded = {}
  Sweepers = {tick}
  Concurrency = 2
  MaxAttempts = 2
  MaxSweepAttempts = 1
  Budget <- CalmBudget
  MaxEvents = 0
INVARIANTS
  TypeOK
PROPERTIES
  OwnScriptRunsFirst
  ImplementsAnnouncement
CHECK_DEADLOCK FALSE
