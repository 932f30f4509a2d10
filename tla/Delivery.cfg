CONSTANTS
  Sockets = {s1, s2}
  Delays = {0, 1, 2}
  TaskDelays = {1}
  OutOfOrder = TRUE
  Early = 1
  Resets = TRUE
  HandlersThrow = TRUE
  MaxClock = 3
  MaxSent = 3
SPECIFICATION Spec
INVARIANTS
  TimerCoversEntries
  DeliveredOnce
  SameDelayKeepsOrder
  NothingIsLost
PROPERTIES
  NothingIsForgotten
\* With every bound reached and every socket closed nothing is left to do.
CHECK_DEADLOCK FALSE
