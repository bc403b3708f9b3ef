\* A message of QoS 1 and one of QoS 2 for an application whose actor is
\* slow.
SPECIFICATION FairSpec
CONSTANTS
  Actor <- MCActor
  Registered <- MCRegistered
  Capacity <- SlowApp
  MaxId = 2
  Payload = {"PendingAck", "PendingRec", "PendingRel", "PendingComp"}
  MaxRetryCount = 1
  SendStatusRecipient = {}
  Target <- MCTarget
  MayBreak = FALSE
  b0 = b0  b1 = b1  b2 = b2
  Inbound = {b1, b2}
  InQoS <- MCQoS
  InId <- MCId
  MaxSends = 1
CHECK_DEADLOCK FALSE
PROPERTIES
  EventuallyReceived
  ExchangeEnds
  StatusDrains
