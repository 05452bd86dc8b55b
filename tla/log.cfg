SPECIFICATION Spec
CONSTANTS
  p = p
  q = q
  Procs <- TwoProcs
  MaxEntries = 2
  MaxOpens = 2
  MaxFaults = 2
  MaxCrashes = 2
SYMMETRY Symmetry
INVARIANTS
  AckedDurable
  DamageBounded
CHECK_DEADLOCK FALSE
