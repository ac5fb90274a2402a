SPECIFICATION FairSpec
CONSTANTS
  PoolCount = 2
  Jobs = {j1}
  NoJob = NoJob
  Callers = {c1}
PROPERTY GivenJobsStart
CHECK_DEADLOCK FALSE
