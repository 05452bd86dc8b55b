SPECIFICATION Spec
CONSTANTS
  SeqMod = 2
  Timeout = 3
  MaxProbes = 3
  MaxQueue = 3
  MaxNoise = 2
  RTTs <- MCRTTs
  Errs <- MCErrs
INVARIANT
  DownMeansSilence
CHECK_DEADLOCK FALSE
