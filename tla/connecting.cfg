\* Connecting, and one interval of the ping, while the connection breaks.
SPECIFICATION FairSpec
CONSTANTS
  Actor <- MCActor
  Registered <- MCRegistered
  Capacity <- Tight
  MaxId = 1
  Payload = {"Unit"}
  MaxRetryCount = 0
  SendStatusRecipient = {}
  Target <- MCTarget
  MayBreak = TRUE
  MaxTicks = 1
CHECK_DEADLOCK FALSE
INVARIANTS
  TimeoutJustified
PROPERTIES
  ConnectDecided
  NothingLeftBehind
