SPECIFICATION Spec
CONSTANTS
  reel = reel
  carousel = carousel
  single = single
  tick = tick
  tock = tock
  Posts = {carousel}
  Format <- MCFormat
  Ungrounded = {carousel}
  Sweepers = {tick}
  Concurrency = 2
  MaxAttempts = 1
  MaxSweepAttempts = 1
  Budget <- EventsBudget
  MaxEvents = 2
INVARIANTS
  MailedMonthWasResolved
CHECK_DEADLOCK FALSE
