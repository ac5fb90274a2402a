SPECIFICATION Spec
CONSTANTS
  Procs = {p1, p2}
  Names = {A}
  NoPid = NoPid
  NoName = NoName
  MaxOpen = 2
  Regimes = {"concurrent"}
INVARIANT SameSemaphore
