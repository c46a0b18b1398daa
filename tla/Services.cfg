SPECIFICATION ServicesSpec
CONSTANTS
  k1 = k1
  k2 = k2
  Threads <- Actors
  PerMinute = 2
  PerDay = 1
  Window = 2
  MaxDelay = 1
  MaxTime = 4
  MaxDay = 4
  Clients = {k1, k2, c3}
  Limit = 2
  RateWindow = 4
  TicksPerSecond = 2
  MaxClients = 2
  RateMaxTime = 5
  Rankings <- Actors
  Foreign = {EUR, CNY}
  DayLength = 3
  PublishedAt = 2
  MaxFixAge = 3
  FixTtl = 2
  BreakAfter = 2
  BrokenFor = 1
  FxMaxTime = 8
  Universe <- ThreeSymbols
  Turnover <- SecondLeads
  PoolSize = 2
  ScanBudget = 1
  RowLimit = 2
  ScanMaxTime = 3
  Devices <- Actors
  AccessTtl = 1
  RefreshTtl = 2
  MaxVersion = 2
  MaxSecret = 2
  Savers = {k1, k2, c3}
  MaxKeySecret = 2
  AccountMaxTime = 2
  Readers <- Actors
  StatementTtl = 1
  MaxYears = 1
  StatementMaxTime = 3
  NewsTtl = 1
  ArticleCap = 2
  BulletCap = 1
  PromptItems = 3
  Probabilities = {4, 7}
  HeadlineMaxTime = 4
  Openers = {"t1", "t2", "t3"}
  Processes = {"p1", "p2"}
  HomeOf <- TwoInOne
  MaxRows = 2
  Runners = {"r1", "r2"}
  LastFile = 3
  Shells = {"s1", "s2"}
  Consumer = "rq"
  HorizonDays = {1, 7}
  JobMaxDay = 3
  DayHours = 6
  WeekDays = 4
  Offsets <- EastAndWest
  OpensAt = 1
  ClosesEarly = 2
  ClosesAt = 3
  Grace = 1
  WalkDays = 3
  CalendarDays = 6
SYMMETRY Symmetry
CHECK_DEADLOCK FALSE
INVARIANTS
  CapsHold
  LimitIsFair
  NoneForgotten
  FixesAreRecent
  AcceptedKnowPassword
  AuditedIsSaved
  AnswerIsSound
  OpinionIsGrounded
  RowsKept
  ReadyIsComplete
  AppliedOnceInOrder
  JobsAreRun
  ExpectedBarIsOut
PROPERTIES
  RefusedForGood
