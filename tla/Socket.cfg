CONSTANTS
  Sockets = {s1, s2, s3}
  ConnectDelays = {TRUE, FALSE}
  HasTimeout = TRUE
  Unstable = TRUE
  HandlersThrow = TRUE
SPECIFICATION SafetySpec
SYMMETRY Symmetry
INVARIANTS
  RegistryMatchesState
  TimersOnlyWhileConnecting
  SecondCloseNeedsError
PROPERTY ImplementsLifecycleSafety
