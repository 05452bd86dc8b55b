SPECIFICATION Spec
CONSTANTS
  DownAfter = 1
  UpAfter = 1
  Counts <- MCCounts
  EventCap = 1
  MaxProbes = 3
  MaxTime = 1
  MaxSignals = 1
  MaxKeys = 0
  RTTs <- MCRTTs
  Errs <- MCErrs
INVARIANT
  PermissionReported
CHECK_DEADLOCK FALSE
