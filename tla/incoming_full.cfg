\* A message of QoS 0 and one of QoS 2 through mailboxes of one and two
\* places, while the connection or the application breaks.
SPECIFICATION Spec
CONSTANTS
  Actor <- MCActor
  Registered <- MCRegistered
  Capacity <- Tight
  MaxId = 2
  Payload = {"PendingAck", "PendingRec", "PendingRel", "PendingComp"}
  MaxRetryCount = 1
  SendStatusRecipient = {}
  Target <- MCTarget
  MayBreak = TRUE
  b0 = b0  b1 = b1  b2 = b2
  Inbound = {b0, b2}
  InQoS <- MCQoS
  InId <- MCId
  MaxSends = 1
CHECK_DEADLOCK FALSE
INVARIANTS
  TypeOK
  OncePerReceipt
  ReleasedMeansDelivered
