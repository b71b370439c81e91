SPECIFICATION MainFairSpec
CONSTANTS
  Clients = {c1, c2}
  Fitting = {c2}
  Configs <- MCTwoConfigs
  Statuses = {"NoSignal"}
  MaxStimuli = 2
  MaxProgress = 1
  Nothing = Nothing
PROPERTIES StopExits UpgradeAnswered ReloadApplied
CHECK_DEADLOCK FALSE
