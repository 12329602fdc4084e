SPECIFICATION FairSpec
CONSTANTS
  Clients = {c1}
  Nonces = {n1, n2, n3}
  NoNonce = NoNonce
  MAX_PAUSES_DAY = 1
  QUESTIONS_NEEDED = 2
  QUESTION_SECS = 1
  NEXT_Q_DELAY_SECS = 1
  OPEN_WINDOW_SECS = 0
  GRACE_SECS = 0
  UNBLOCK_SECS = 1
  COOLDOWN_SECS = 1
  KillPoints <- KillAnywhere
  MaxKills = 1
  LastStart = 3
  Horizon = 7
  LastDay = 0
CHECK_DEADLOCK TRUE
INVARIANT DailyLimit
PROPERTY GrantTakesTime
PROPERTY UnblockedEnds
PROPERTY ChallengeEnds
