SPECIFICATION FairSpec
CONSTANTS
  Evaluators = {e1}
  MaxAlerts = 2
  Conditions = {"above"}
  Levels = {1, 2}
  Cooldowns = {2}
  DefaultCooldown = 2
  Cap = 2
  MaxTime = 2
  MaxEdits = 3
  MaxFires = 3
  MaxFaults = 1
PROPERTIES
  DueAlertFires
