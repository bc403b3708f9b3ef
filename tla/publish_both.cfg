\* A message sent while one of QoS 0 and one of QoS 2 are received, with the
\* same identifier or with another.
SPECIFICATION Spec
CONSTANTS
  Actor <- MCActor
  Registered <- MCRegistered
  Capacity <- SlowApp
  MaxId = 2
  Payload = {"PendingAck", "PendingRec", "PendingRel", "PendingComp"}
  MaxRetryCount = 0
  SendStatusRecipient = {}
  Target <- MCTarget
  MayBreak = FALSE
  m1 = m1  m2 = m2  b0 = b0  b2 = b2
  OutMsg = {m1}
  QoS <- MCQoS
  BadTopic = {}
  FirstId = {0, 1}
  UsizeRange = 17
  Inbound = {b0, b2}
  InQoS <- MCInQoS
  InId <- MCInId
  MaxSends = 1
CHECK_DEADLOCK FALSE
INVARIANTS
  SettledOrShared
  DeliveredOrShared
