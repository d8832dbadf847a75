SPECIFICATION Spec
CONSTANTS
  b1 = b1
  b2 = b2
  i1 = i1
  i2 = i2
  e1 = e1
  e2 = e2
  None = None
  Beats = {b1, b2}
  Inputs = {i1}
  Editors = {e1, e2}
  MaxReceipts = 1
  LastDay = 9
  FirstWeekday = 1
  Temperature = 20
  Today = 3
  Subjects = {"x", "y"}
  PillarNames <- MCPillars
  Sentences <- MCSentences
  Months <- MCMonths
  Orders <- MCOrders
  MaxBeats = 10
  MaxSaid = 2
  reel = reel
  hook = hook
  move = move
  Changes = {reel, hook, move}
  Rank <- MCRank
  Kind <- MCKind
  RefOf <- MCRefOf
  Screens = {e1, e2}
  ChangeEvents = 1
SYMMETRY Symmetric
INVARIANTS
  TypeOK
  DoorIsClosed
  UsedIdeaWasPlaced
  ReportIsTrue
PROPERTIES
  CommittedIsUntouched
  WritersCarryOthers
  TheirsStays
  ArcIsAnArc
  MonthKeepsItsSize
  CadenceIsReachedThinly
  CorrectionLandsOnTheDate
  SeriesIsAccounted
  FloorOutlivesAssembly
  SeriesSitOrAreMissed
  IdeasDisplaceNothing
CHECK_DEADLOCK FALSE
