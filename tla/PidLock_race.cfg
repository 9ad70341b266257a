SPECIFICATION Spec
CONSTANTS
  Pids = {p1, p2}
  NoPid = NoPid
  Families <- MCApp
  MaxRuns = 2
  Serial = FALSE
  Faults = {}
SYMMETRY Sym
INVARIANT AtMostOneInstance
CHECK_DEADLOCK FALSE
