SPECIFICATION FairSpec
CONSTANTS
  Threads = {t1, t2, t3}
  NoThread = NoThread
  MaxHold = 2
INVARIANTS TypeOK MutualExclusion SourceAssertions CountsAgree ConditionsRecycled NoLostWaiter
PROPERTIES ImplementsRWLock NoStarvation
