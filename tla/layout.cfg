SPECIFICATION Spec
CONSTANTS
  TimeWidth = 8
  HostLen = 50
  MaxWidth = 120
INVARIANTS
  TypeOK
  NoWrapAboveFloor
PROPERTIES
  WiderKeepsColumns
