SPECIFICATION PlainSpec
CONSTANTS
  NoHeader = FALSE
  Sizes <- PlainSizes
  Above = {0, 5}
  MaxStatus = 3
  MaxResizes = 3
  Races = {}
INVARIANTS
  ScreenExact
PROPERTIES
  PlainSettles
