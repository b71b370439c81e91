SPECIFICATION Spec
CONSTANTS
  Clients = {c1}
  Fitting = {c1}
  Configs <- MCConfigs
  Statuses = {"Up", "Initializing"}
  MaxStimuli = 3
  MaxProgress = 1
  Nothing = Nothing
INVARIANTS ReloadNotLost BoardMatchesCfg NoClientForgotten CleanExitLineDown
CHECK_DEADLOCK FALSE
