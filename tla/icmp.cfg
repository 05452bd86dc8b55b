SPECIFICATION Spec
CONSTANTS
  SeqMod = 8
  Timeout = 3
  MaxProbes = 3
  MaxQueue = 3
  MaxNoise = 2
  RTTs <- MCRTTs
  Errs <- MCErrs
INVARIANTS
  UpMeansAnswered
  DownMeansSilence
PROPERTIES
  ProbeReturns
CHECK_DEADLOCK FALSE
