SPECIFICATION Spec
CONSTANTS
  Requests = {q1, q2}
  Runs = {r1, r2}
  Started = {"predict", "train"}
  Waits = TRUE
  StalePredict = 1
  StaleTrain = 2
  LimitPredict = 2
  LimitTrain = 3
  MaxVersions = 1
  MaxFaults = 1
SYMMETRY Symmetry
INVARIANTS
  LockProtects
  LabelUnlessTorn
