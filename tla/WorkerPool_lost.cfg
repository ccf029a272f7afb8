SPECIFICATION Spec
CONSTANTS
  max_workers = 1
  Rounds = 1
  RoundSize = 1
  None = None
INVARIANT NothingLost
CHECK_DEADLOCK FALSE
