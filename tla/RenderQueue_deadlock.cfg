SPECIFICATION FairSpec
CONSTANTS
  NumJobs = 2
  max_jobs = 1
  max_job_time = 1
  KeepTime = 1
  MaxTime = 0
  None = None
  Books = {b1, b2}
  Requests = {r1}
  Other = Other
PROPERTY RenderingEnds
CHECK_DEADLOCK FALSE
