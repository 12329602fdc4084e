SPECIFICATION Spec
CONSTANTS
  Clients = {c1, c2}
  Nonces = {n1, n2, n3, n4}
  NoNonce = NoNonce
  MAX_PAUSES_DAY = 1
  QUESTIONS_NEEDED = 2
  QUESTION_SECS = 1
  NEXT_Q_DELAY_SECS = 1
  OPEN_WINDOW_SECS = 1
  GRACE_SECS = 1
  UNBLOCK_SECS = 1
  COOLDOWN_SECS = 1
  KillPoints <- KillIdle
  MaxKills = 0
  LastStart = 4
  Horizon = 5
  LastDay = 1
SYMMETRY Symmetry
CHECK_DEADLOCK TRUE
INVARIANT TypeOK
INVARIANT PolicyMatchesPhase
INVARIANT SlotConsumed
INVARIANT ShownDeadlineIsHeld
PROPERTY AnswerScoresOnce
PROPERTY LockoutHeld
PROPERTY ImplementsProtocol
