SPECIFICATION Spec
CONSTANTS
  Callers = {c1}
  MaxLaunch = 1
  Tids = {p1}
  SetupFails = {"detached"}
  CreateFails = FALSE
INVARIANT NoUseAfterFree
CHECK_DEADLOCK FALSE
