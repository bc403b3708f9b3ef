\* A disconnection after the mailbox of SendActor was full.
SPECIFICATION ClosingSpec
CONSTANTS
  Actor <- MCActor
  Registered <- MCRegistered
  Capacity <- TightSend
  MaxId = 2
  Payload = {"PendingAck", "PendingRec", "PendingRel", "PendingComp"}
  MaxRetryCount = 1
  SendStatusRecipient = {"Disconnect"}
  Target <- MCTarget
  MayBreak = FALSE
  m1 = m1  m2 = m2
  OutMsg = {m1}
  QoS <- MCQoS
  BadTopic = {}
  FirstId = {0}
  UsizeRange = 17
CHECK_DEADLOCK FALSE
INVARIANTS
  NeverStuck
