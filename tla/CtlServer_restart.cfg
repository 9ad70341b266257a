SPECIFICATION Spec
CONSTANTS
  Conns = {k1}
  NoConn = NoConn
  Main = "main"
  Components = {}
  Commands <- MCAppOnly
  ServerCmds = {"internal_noop"}
  OtherNames = {}
  NDrones = 1
  MaxEntries = 4
  MaxInits = 2
  Faults = {"setup"}
INVARIANT EvhandlerDestroyedOnce
CHECK_DEADLOCK FALSE
