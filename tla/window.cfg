SPECIFICATION Spec
CONSTANTS
  WindowLines = 2
  NoHeader = FALSE
  Sizes <- WindowSizes
  Above = {0, 5}
  MaxStatus = 3
  MaxResizes = 3
  Races = {}
INVARIANTS
  AboveUntouched
  BlockInPlace
  ShowsLatest
PROPERTIES
  NoWriteMidReflow
  Settles
