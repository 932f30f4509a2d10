CONSTANTS
  Sockets = {s1}
  ConnectDelays = {FALSE}
  HasTimeout = FALSE
  Unstable = FALSE
  HandlersThrow = FALSE
  RequiresAuth = FALSE
  HasAuthVerifier = FALSE
  HasValidator = {FALSE}
  Ops = {"requireAuth"}
  MaxReconfigs = 1
  MaxReplies = 1
  MaxCalls = 1
SPECIFICATION AuthSafetySpec
INVARIANTS
  OutstandingIsKnown
