SPECIFICATION FairSpec
CONSTANTS
  Callers = {c1}
  MaxLaunch = 3
  Tids = {p1, p2}
  SetupFails = {"joinable"}
  CreateFails = TRUE
INVARIANTS NoUseAfterFree EntriesLeadToLiveWrappers NothingLeaks
PROPERTY LaunchesFinish
CHECK_DEADLOCK FALSE
