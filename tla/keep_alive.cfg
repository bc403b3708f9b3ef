\* Two intervals of the ping: two chains of attempts over one status.
SPECIFICATION Spec
CONSTANTS
  Actor <- MCActor
  Registered <- MCRegistered
  Capacity <- Tight
  MaxId = 1
  Payload = {"Unit"}
  MaxRetryCount = 0
  SendStatusRecipient = {}
  Target <- MCTarget
  MayBreak = FALSE
  MaxTicks = 2
CHECK_DEADLOCK FALSE
INVARIANTS
  TypeOK
  PingAfterAccept
  PingsBounded
  PingWatched
