SPECIFICATION FairSpec
CONSTANTS
  reel = reel
  carousel = carousel
  single = single
  tick = tick
  tock = tock
  Posts = {single}
  Format <- MCFormat
  Ungrounded = {}
  Sweepers = {tick}
  Concurrency = 2
  MaxAttempts = 1
  MaxSweepAttempts = 2
  Budget <- LostMailBudget
  MaxEvents = 1
PROPERTIES
  Announced
CHECK_DEADLOCK FALSE
