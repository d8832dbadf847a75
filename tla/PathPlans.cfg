SPECIFICATION FairSpec
CONSTANTS
  early = early
  late = late
  tap = tap
  again = again
  Dates = {early}
  Presses = {tap}
  MaxAttempts = 2
  Budget <- AllBudget
  MaxEvents = 4
INVARIANTS
  TypeOK
  AnnouncedOnce
  OnePlanPerConfirmation
PROPERTIES
  ConfirmedMovesOn
CHECK_DEADLOCK FALSE
