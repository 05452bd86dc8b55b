SPECIFICATION HSpec
CONSTANTS
  DownAfter = 2
  UpAfter = 3
  MaxProbes = 6
  MaxTime = 2
  RTTs <- MCRTTs
  Errs <- MCErrs
INVARIANTS
  TypeOK
  ThresholdsHold
  StatsMeaningful
  SamplesConserved
  PeriodsPartitionRun
  StatsDescribePeriod
PROPERTIES
  OneEventPerPeriod
  ImplementsHysteresis
CHECK_DEADLOCK FALSE
