SPECIFICATION Spec
CONSTANTS
  WindowLines = 2
  NoHeader = FALSE
  Sizes <- WideSizes
  Above = {1}
  MaxStatus = 3
  MaxResizes = 2
  Races = {"home"}
INVARIANTS
  AboveUntouched
