SPECIFICATION Spec
CONSTANTS
  Night <- NoNight
  ShortBreak = 2
  LongBreak = 3
  SUSPEND_MIN = 0
  RESUME_THRESHOLD = 1
  DAY_RESUME_RESTART = 1
  InitSuspended = 1
  Events <- DialogSleep
  KillPoints <- NeverKill
  SuspendPoints <- Resting
  MaxKills = 0
  MaxSuspends = 2
  MaxRev = 1
  Horizon = 5
CHECK_DEADLOCK TRUE
INVARIANT TypeOK
INVARIANT BreakServed
INVARIANT ShortenedIsRecorded
INVARIANT RestoreSparesRecorded
