SPECIFICATION Spec
CONSTANTS
  Night <- NoNight
  ShortBreak = 2
  LongBreak = 3
  SUSPEND_MIN = 0
  RESUME_THRESHOLD = 1
  DAY_RESUME_RESTART = 1
  InitSuspended = 0
  Events <- Sleeps
  KillPoints <- NeverKill
  SuspendPoints <- Resting
  MaxKills = 0
  MaxSuspends = 1
  MaxRev = 0
  Horizon = 5
CHECK_DEADLOCK TRUE
PROPERTY ResumeExact
