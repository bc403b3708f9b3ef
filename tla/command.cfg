\* A request, and one with a topic that is refused, through mailboxes of one
\* and two places while the connection breaks.
SPECIFICATION FairSpec
CONSTANTS
  Actor <- MCActor
  Registered <- MCRegistered
  Capacity <- Tight
  MaxId = 4
  Payload = {"Unit"}
  MaxRetryCount = 1
  SendStatusRecipient = {}
  Target <- MCTarget
  MayBreak = TRUE
  CommandActor = "Subscribe"
  AnswerType = "Suback"
  r1 = r1  r2 = r2
  Request = {r1, r2}
  BadRequest = {r2}
  FirstId = {2}
  UsizeRange = 17
CHECK_DEADLOCK FALSE
INVARIANTS
  TypeOK
PROPERTIES
  CommandKeepsPromise
  CommandsEnd
  StopReachesAll
