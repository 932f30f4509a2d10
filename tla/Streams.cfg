CONSTANTS
  list = list
  counted = counted
  endless = endless
  Lists = {list}
  Generators = {counted, endless}
  Counted = {counted}
  Length = 2
  Goal = 2
  MaxEvents = 2
  MaxResets = 1
SPECIFICATION Spec
INVARIANTS
  PublishesInOrder
  WaitIsOver
PROPERTIES
  StoppedIsSilent
  StreamsEnd
  WaitSettles
\* With every stream at its end nothing is left to do.
CHECK_DEADLOCK FALSE
