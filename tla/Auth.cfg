CONSTANTS
  Sockets = {s1}
  ConnectDelays = {TRUE, FALSE}
  HasTimeout = TRUE
  Unstable = TRUE
  HandlersThrow = TRUE
  RequiresAuth = TRUE
  HasAuthVerifier = TRUE
  HasValidator = {TRUE, FALSE}
  Ops = {"reset", "setAuthVerifier"}
  MaxReconfigs = 3
  MaxReplies = 2
  MaxCalls = 2
SPECIFICATION AuthSafetySpec
INVARIANTS
  OutstandingIsKnown
  AuthRequiredIsAnswerable
PROPERTIES
  AcceptedUnlessOvertaken
