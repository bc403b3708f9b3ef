\* A message of QoS 1, a graceful and a forced disconnection.
SPECIFICATION FairClosingSpec
CONSTANTS
  Actor <- MCActor
  Registered <- MCRegistered
  Capacity <- Ample
  MaxId = 2
  Payload = {"PendingAck", "PendingRec", "PendingRel", "PendingComp"}
  MaxRetryCount = 0
  SendStatusRecipient = {"Disconnect"}
  Target <- MCTarget
  MayBreak = FALSE
  m1 = m1  m2 = m2
  OutMsg = {m1}
  QoS <- MCQoS
  BadTopic = {}
  FirstId = {0}
  UsizeRange = 17
CHECK_DEADLOCK FALSE
INVARIANTS
  DisconnectTypeOK
  BeliefIsCurrent
  WaitsForSomething
  NeverStuck
PROPERTIES
  GracefulDisconnectCompletes
  DisconnectionStopsClient
