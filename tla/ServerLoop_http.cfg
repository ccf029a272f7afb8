SPECIFICATION FairSpec
CONSTANTS
  Fds = {fd1, fd2}
  worker_count = 1
  queue_size = 1
  None = None
  MaxConnections = 2
  MaxRequests = 3
  MaxTimeouts = 1
INVARIANTS TypeOK NoLostWakeUp AnswerBelongs
PROPERTIES AnsweredBeforeClosed RequestAnswered StopsInTheEnd
CHECK_DEADLOCK FALSE
