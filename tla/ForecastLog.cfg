SPECIFICATION PartSpec
CONSTANTS
  k1 = k1
  k2 = k2
  Servings <- Actors
  Scorers = {c1}
  Horizons = {1, 2}
  BatchLimit = 2
  LookBack = 3
  KeepLog = 1
  KeepScores = 1
  LastTime = 6
  Askers <- Actors
  ForecastTtl = 1
  MarketTtl = 1
  ModelTtl = 1
  CacheMax = 1
  MaxModels = 2
  LastTick = 2
SYMMETRY Symmetry
CHECK_DEADLOCK FALSE
INVARIANTS
  AnswerIsCurrent
PROPERTIES
  ScoredOnce
