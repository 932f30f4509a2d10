CONSTANTS
  Sockets = {s1}
  ConnectDelays = {FALSE}
  HasTimeout = FALSE
  Unstable = FALSE
  HandlersThrow = FALSE
  RequiresAuth = TRUE
  HasAuthVerifier = FALSE
  HasValidator = {FALSE}
  Ops = {"setAuthVerifier", "reset"}
  MaxReconfigs = 2
  MaxReplies = 1
  MaxCalls = 1
SPECIFICATION AuthSpec
PROPERTIES
  AcceptedIsOutstanding
