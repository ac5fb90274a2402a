SPECIFICATION Spec
CONSTANTS
  Procs = {p1, p2, p3}
  Names = {A, B}
  NoPid = NoPid
  NoName = NoName
  MaxOpen = 2
  Regimes = {"concurrent", "mortal"}
SYMMETRY Symmetry
INVARIANT TypeOK
 
 
 
INVARIANT NothingLeft
 
\* Every process may be dead.
CHECK_DEADLOCK FALSE
