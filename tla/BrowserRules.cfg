SPECIFICATION FairSpec
CONSTANTS
  TERM = 1
  RUNTIME_MAX = 3
  CYCLE_BUDGET = 2
  UNBLOCK_SECS = 2
  VV_RESTART_COOLDOWN = 3
  Stubborn = {"firefox"}
  InCgroup = {}
  Lag = TRUE
  Persistent = FALSE
  Events = {"rules","addon"}
  StartPoints <- Quiet
  SlowPoints <- Nowhere
  KillPoints <- Anywhere
  MaxKills = 1
  MaxFails = 1
  MaxPauses = 1
CHECK_DEADLOCK TRUE
PROPERTY WindowEnds
PROPERTY RulesPropagate
