SPECIFICATION Spec
CONSTANTS
  reel = reel
  carousel = carousel
  single = single
  tick = tick
  tock = tock
  Posts = {reel, single}
  Format <- MCFormat
  Ungrounded = {}
  Sweepers = {tick}
  Concurrency = 2
  MaxAttempts = 1
  MaxSweepAttempts = 1
  Budget <- CalmBudget
  MaxEvents = 0
PROPERTIES
  NoMailBeforeScripts
CHECK_DEADLOCK FALSE
