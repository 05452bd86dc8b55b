SPECIFICATION Spec
CONSTANTS
  DownAfter = 1
  UpAfter = 1
  Counts <- MCCounts
  EventCap = 1
  MaxProbes = 3
  MaxTime = 1
  MaxSignals = 2
  MaxKeys = 1
  RTTs <- MCRTTs
  Errs <- MCErrs
INVARIANTS
  TypeOK
  DisplayCatchesUp
  LogIsTimeline
  ExitHasCause
  CountHonoured
PROPERTIES
  StopHonoured
  ImplementsSession
CHECK_DEADLOCK FALSE
