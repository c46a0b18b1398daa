SPECIFICATION FairSpec
CONSTANTS
  Requests = {q1}
  Runs = {r1, r2}
  Started = {"predict"}
  Waits = FALSE
  StalePredict = 2
  StaleTrain = 3
  LimitPredict = 3
  LimitTrain = 4
  MaxVersions = 1
  MaxFaults = 1
PROPERTIES
  LocksExpire
