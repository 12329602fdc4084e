SPECIFICATION Spec
CONSTANTS
  Night <- LateNight
  ShortBreak = 1
  LongBreak = 2
  SUSPEND_MIN = 0
  RESUME_THRESHOLD = 1
  DAY_RESUME_RESTART = 1
  InitSuspended = 1
  Events <- Nightly
  KillPoints <- KillAround
  SuspendPoints <- Anywhere
  MaxKills = 1
  MaxSuspends = 1
  MaxRev = 0
  Horizon = 5
CHECK_DEADLOCK TRUE
INVARIANT NightBlocked
INVARIANT ModeEnforced
PROPERTY ResumeExact
