\* A message of QoS 2 and one of QoS 0: answers of the server against the status
\* checks, through mailboxes of one and two places.  Only SendActor's has room.
SPECIFICATION FairSpec
CONSTANTS
  Actor <- MCActor
  Registered <- MCRegistered
  Capacity <- FastSend
  MaxId = 3
  Payload = {"PendingAck", "PendingRec", "PendingRel", "PendingComp"}
  MaxRetryCount = 1
  SendStatusRecipient = {}
  Target <- MCTarget
  MayBreak = FALSE
  m1 = m1  m2 = m2  m3 = m3  m4 = m4  m5 = m5
  OutMsg = {m2, m3}
  QoS <- MCQoS
  BadTopic = {}
  FirstId = {0}
  UsizeRange = 16
CHECK_DEADLOCK FALSE
INVARIANTS
  TypeOK
PROPERTIES
  AckStopsRetry
  PublishKeepsPromise
  StatusDrains
