SPECIFICATION FairSpec
CONSTANTS
  early = early
  late = late
  tap = tap
  again = again
  Dates = {early}
  Presses = {tap}
  MaxAttempts = 3
  Budget <- HiccupBudget
  MaxEvents = 2
PROPERTIES
  HiccupHeals
CHECK_DEADLOCK FALSE
