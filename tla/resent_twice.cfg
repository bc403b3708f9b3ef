\* A slow PUBREC: the server takes a message of QoS 2 twice.
SPECIFICATION Spec
CONSTANTS
  Actor <- MCActor
  Registered <- MCRegistered
  Capacity <- Ample
  MaxId = 3
  Payload = {"PendingAck", "PendingRec", "PendingRel", "PendingComp"}
  MaxRetryCount = 1
  SendStatusRecipient = {}
  Target <- MCTarget
  MayBreak = FALSE
  m1 = m1  m2 = m2  m3 = m3  m4 = m4  m5 = m5
  OutMsg = {m2}
  QoS <- MCQoS
  BadTopic = {}
  FirstId = {0}
  UsizeRange = 16
CHECK_DEADLOCK FALSE
INVARIANTS
  ExactlyOnce
