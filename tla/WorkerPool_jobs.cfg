SPECIFICATION FairSpec
CONSTANTS
  max_workers = 2
  Rounds = 2
  RoundSize = 4
  None = None
INVARIANTS TypeOK NoIdleWorker TrackerCounts RunWithData
PROPERTIES KeepsPromise UserEnds
CHECK_DEADLOCK FALSE
