CONSTANTS
  p1 = p1
  p2 = p2
  h = h
  Pools = {p1, p2}
  Hosts = {h}
  Requests <- SomeRequests
  Kinds = {"data", "accessor", "none", "frozen"}
  MaxInstalls = 3
  MaxWraps = 2
  MaxSockets = 1
SPECIFICATION PoolSpec
SYMMETRY Symmetry
INVARIANTS
  HooksAgree
  NothingIsLeftBehind
  InstalledPoolAnswers
PROPERTIES
  FailedInstallChangesNothing
