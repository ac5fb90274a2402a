SPECIFICATION FairSpec
CONSTANTS
  PoolCount = 2
  Jobs = {j1, j2, j3}
  NoJob = NoJob
  Callers = {c1, c2}
INVARIANT TypeOK
INVARIANT FreeInstancesListen
INVARIANT GivenJobsAreHeld
PROPERTY StartsWhatWasGiven
PROPERTY GivenJobsStartOrMiss
PROPERTY DestroyEnds
\* A destroyed pool has stopped.
CHECK_DEADLOCK FALSE
