SPECIFICATION Spec
CONSTANTS
  c1 = c1  c2 = c2  t1 = t1  t2 = t2
  pc0 = pc0  p1 = p1  p2 = p2
  Threads <- MCThreads
  Procs = {pc0, p1, p2}
  PidOf <- MCPidOf
  NoThread = NoThread
  NoPid = NoPid
  Creator = c1
  InitialOwner = {FALSE}
  Mortal = {pc0}
  ExitsAt <- CleanExits
  StrayReleasers = {}
  MaxRepairers = 1
  MaxDepth = 1
INVARIANT MutualExclusion
