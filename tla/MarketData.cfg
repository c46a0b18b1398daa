SPECIFICATION MarketSpec
CONSTANTS
  k1 = k1
  k2 = k2
  Views <- Actors
  Askers <- Actors
  Ticks <- Actors
  Batches <- Actors
  Needed = 2
  ThinNeeded = 2
  BarsTtl = 1
  MissTtl = 1
  Cooldown = 1
  FirstSession = 3
  MaxSession = 4
  MaxTime = 2
  Sessions <- OpenDays
  Feeds <- TwoFeeds
  Quotations <- SomeQuotes
  Charts <- SomeCharts
  QuoteTtl = 1
  QuoteMaxTime = 2
  Universe <- Symbols3
  Named <- ByName
  Resolvable <- Known
  Shards = 2
  TickBudget = 5
  Reserve = 2
  PoolFloor = 1
  PoolCeiling = 5
  LegacyPool = 4
  Slow = 2
  Listed <- TwoSymbols
  FewEnough = 1
  Workers = 2
  MemoryMax = 1
INVARIANTS
  ServedFresh
  ChartAgrees
  TickKeepsItsWord
  BatchAccounts
SYMMETRY Symmetry
CHECK_DEADLOCK FALSE
