CONSTANTS
  Events <- AllEvents
  MaxOrder = 4
  MaxSnapshot = 2
SPECIFICATION Spec
INVARIANTS
  IndexesMatchEvents
  OnePerAddress
  LatestIsStored
  DeletedStayOut
PROPERTIES
  ImplementsContents
