SPECIFICATION FairSpec
CONSTANTS
  Readers = {r1, r2}
  NoReader = NoReader
  QueueSize = 3
  MaxMsgs = 3
  MaxDrops = 2
  MaxDumps = 2
INVARIANTS InOrder EveryMessageCounts WalksMeetListeners
PROPERTIES StopTerminates RingsImplementBacklog
