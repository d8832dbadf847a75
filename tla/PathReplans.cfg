SPECIFICATION Spec
CONSTANTS
  early = early
  late = late
  tap = tap
  again = again
  Dates = {early, late}
  Presses = {tap}
  MaxAttempts = 2
  Budget <- AutoBudget
  MaxEvents = 2
PROPERTIES
  ApprovedMonthIsNotPlanned
CHECK_DEADLOCK FALSE
