SPECIFICATION Spec
CONSTANTS
  Evaluators = {e1, e2}
  MaxAlerts = 2
  Conditions = {"above"}
  Levels = {1}
  Cooldowns = {2}
  DefaultCooldown = 2
  Cap = 2
  MaxTime = 2
  MaxEdits = 3
  MaxFires = 2
  MaxFaults = 2
SYMMETRY Symmetry
INVARIANTS
  PausedStaysQuiet
  DeliveryAccounted
  
CHECK_DEADLOCK FALSE
