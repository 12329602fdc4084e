SPECIFICATION Spec
CONSTANTS
  TERM = 1
  RUNTIME_MAX = 2
  CYCLE_BUDGET = 1
  UNBLOCK_SECS = 1
  VV_RESTART_COOLDOWN = 2
  Stubborn = {}
  InCgroup = {"vivaldi"}
  Lag = FALSE
  Persistent = FALSE
  Events = {"vvaddon", "rules", "sets", "install", "refresh"}
  StartPoints <- OutsideClose
  SlowPoints <- Helper
  KillPoints <- Anywhere
  MaxKills = 1
  MaxFails = 0
  MaxPauses = 1
CHECK_DEADLOCK TRUE
INVARIANT TypeOK
INVARIANT BlockedAgain
PROPERTY SyncLoads
PROPERTY SetsRestored
PROPERTY RestartsSpaced
