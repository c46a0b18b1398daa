SPECIFICATION Spec
CONSTANTS
  Evaluators = {e1, e2}
  MaxAlerts = 1
  Conditions = {"above"}
  Levels = {1}
  Cooldowns = {2}
  DefaultCooldown = 2
  Cap = 1
  MaxTime = 2
  MaxEdits = 1
  MaxFires = 3
  MaxFaults = 0
CHECK_DEADLOCK FALSE
INVARIANTS
  CooldownHonored
