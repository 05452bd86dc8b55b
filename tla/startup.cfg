SPECIFICATION Spec
CONSTANTS
  Tokens <- MCTokens
  MaxArgs = 3
  Races = {}
INVARIANTS
  OrderIrrelevant
  AcceptedIsRunnable
  ReleasedOnExit
  OutputAsAsked
