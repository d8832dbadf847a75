SPECIFICATION FairSpec
CONSTANTS
  p1 = p1
  r1 = r1
  t1 = t1
  None = None
  Posts = {p1}
  Requests = {r1}
  Ticks = {t1}
  Limit = 1
  MaxAttempts = 2
  MaxSweeps = 1
  MaxFaults = 1
INVARIANTS
  TypeOK
  PaidOnce
  PlanIsFree
  SweepIsBounded
PROPERTIES
  BankedSettles
  StrandedRecovers
CHECK_DEADLOCK FALSE
