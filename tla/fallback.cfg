SPECIFICATION LoopSpec
CONSTANTS
  MaxTiers = 3
  MaxCalls = 4
  Interval = 2
  Timeout = 3
  Second = 2
  MaxTime = 25
  RTTs <- MCRTTs
  Errs <- MCErrs
INVARIANTS
  LoopTypeOK
  ClosedOnce
  Cadence
  VerdictJustified
PROPERTIES
  ProvenTierStays
  CallReturns
CHECK_DEADLOCK FALSE
