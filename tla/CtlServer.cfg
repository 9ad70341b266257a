SPECIFICATION FairSpec
CONSTANTS
  Conns = {k1, k2}
  NoConn = NoConn
  Main = "main"
  Components = {"log"}
  Commands <- MCCommands
  ServerCmds = {"internal_noop"}
  OtherNames = {}
  NDrones = 2
  MaxEntries = 2
  MaxInits = 1
  Faults = {"malloc", "setup", "recv"}
INVARIANTS RefcountIsExact HandlersStay OneHandlerPerConnection
PROPERTIES QueuedCommandsFinish StopTerminates
CHECK_DEADLOCK FALSE
