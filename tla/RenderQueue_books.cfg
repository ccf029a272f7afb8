SPECIFICATION FairSpec
CONSTANTS
  NumJobs = 2
  max_jobs = 1
  max_job_time = 1
  KeepTime = 1
  MaxTime = 2
  None = None
  Books = {b1}
  Requests = {r1, r2}
  Other = Other
INVARIANTS TypeOK JobsAreKnown TimeLimitKept NoIdleSlot OneJobPerBook FinishedIsReady
PROPERTY RenderingEnds
CHECK_DEADLOCK FALSE
