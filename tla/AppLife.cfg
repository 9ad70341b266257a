SPECIFICATION AppSpec
CONSTANTS
  Main = main
  Workers = {w1}
  Fatal = {SIGSEGV, SIGABRT}
  CommandLines <- MCCommandLines
  None = None
INVARIANTS
  InitTellsTheTruth
  StopLeavesNothing
  CrashesAreReported
PROPERTY
  FatalSignalsEnd
