SPECIFICATION HealthSpec
CONSTANTS
  Callers = {c1, c2}
  Probers = {c2}
  Lookers = {l1}
  Threshold = 2
  OpenFor = 1
  Recent = 1
  Hour = 1
  MaxSamples = 2
  Failures = {"failed", "quota"}
INVARIANTS
  TripsInTime

  
