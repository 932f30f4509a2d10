CONSTANTS
  Sockets = {s1, s2}
  ConnectDelays = {TRUE, FALSE}
  HasTimeout = TRUE
  Unstable = TRUE
  HandlersThrow = FALSE
  RequiresAuth = FALSE
  HasAuthVerifier = TRUE
  HasValidator = {TRUE, FALSE}
  Ops = {"requireAuth"}
  MaxReconfigs = 1
  MaxReplies = 0
  MaxCalls = 1
SPECIFICATION AuthSpec
PROPERTIES
  AcceptedUnlessOvertaken
  OpenIsIssuedChallenge
  ImplementsLifecycle
