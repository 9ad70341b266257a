SPECIFICATION Spec
CONSTANTS
  Pids = {p1, p2}
  NoPid = NoPid
  Families <- MCStatus
  MaxRuns = 2
  Serial = TRUE
  Faults = {}
SYMMETRY Sym
INVARIANT StatusOnlyChecks
CHECK_DEADLOCK FALSE
