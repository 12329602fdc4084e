SPECIFICATION Spec
CONSTANTS
  INTERVAL = 3
  WARNING = 1
  DURATION = 4
  GAP = 1
  THRESHOLD = 2
  POLL = 1
  PROBE = 2
  Naps <- ShortAndLong
  MaxSleeps = 2
  MaxRestarts = 1
  Races = {}
CHECK_DEADLOCK TRUE
INVARIANT TypeOK
INVARIANT GateHolds
INVARIANT NeverStuck
INVARIANT WorkBounded
