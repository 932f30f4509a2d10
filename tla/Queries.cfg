CONSTANTS
  Events <- QueriedEvents
  MaxOrder = 4
  MaxSnapshot = 1
  Requests <- Requested
  TokensOf <- Words
  Includes <- Parts
  StopFloor = 1
  StopFactor = 1
SPECIFICATION Spec
INVARIANTS
  QueryIsExact
  QueryIsSound
  CountIsQueryLength
