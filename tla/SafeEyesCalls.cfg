SPECIFICATION FairSpec
CONSTANTS
  Night <- ShortNight
  ShortBreak = 1
  LongBreak = 2
  SUSPEND_MIN = 0
  RESUME_THRESHOLD = 1
  DAY_RESUME_RESTART = 1
  InitSuspended = 1
  Events <- CallSleep
  KillPoints <- NeverKill
  SuspendPoints <- Resting
  MaxKills = 0
  MaxSuspends = 2
  MaxRev = 0
  Horizon = 5
CHECK_DEADLOCK TRUE
INVARIANT DisabledIsRecorded
PROPERTY Reenabled
PROPERTY RestoreHappens
