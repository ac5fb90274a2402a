SPECIFICATION FairSpec
CONSTANTS
  p1 = p1
  p2 = p2
  p3 = p3
  t1 = t1
  t2 = t2
  t3 = t3
  t4 = t4
  Procs = {p1, p2, p3}
  Threads = {t1, t2, t3, t4}
  ProcOf <- TwoThreadsInOne
  NoPid = NoPid
INVARIANT TypeOK
INVARIANT MutualExclusion
INVARIANT HolderRecorded
PROPERTY StolenFromDeadOnly
PROPERTY DeadHolderReplaced
CHECK_DEADLOCK FALSE
