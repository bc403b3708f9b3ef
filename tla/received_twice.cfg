\* A message of QoS 2 that the server sends twice.
SPECIFICATION Spec
CONSTANTS
  Actor <- MCActor
  Registered <- MCRegistered
  Capacity <- Ample
  MaxId = 2
  Payload = {"PendingAck", "PendingRec", "PendingRel", "PendingComp"}
  MaxRetryCount = 1
  SendStatusRecipient = {}
  Target <- MCTarget
  MayBreak = FALSE
  b0 = b0  b1 = b1  b2 = b2
  Inbound = {b2}
  InQoS <- MCQoS
  InId <- MCId
  MaxSends = 2
CHECK_DEADLOCK FALSE
INVARIANTS
  ReceivedOnce
