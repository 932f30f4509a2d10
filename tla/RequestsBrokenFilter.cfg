CONSTANTS
  Events <- RelayEvents
  MaxOrder = 4
  MaxSnapshot = 4
  Requests <- SearchedFilters
  TokensOf <- Words
  Includes <- Parts
  StopFloor = 64
  StopFactor = 4
  s1 = s1
  s2 = s2
  Sockets = {s1, s2}
  RawMessages <- TwoClients
  Limitations <- SomeLimits
  SetUp = {{}}
  HandlerResults <- Results
  Unreliable = TRUE
  Ops = {"handler", "info", "store", "broadcast", "notice", "disconnect", "snapshot", "restore", "reset", "close"}
  MaxMessages = 3
  MaxOps = 1
SPECIFICATION RelaySpec
INVARIANT LiveEventsAreNotMissed
\* With every bound reached and every queue empty nothing is left to do.
CHECK_DEADLOCK FALSE
