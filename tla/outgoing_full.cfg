\* Two messages of QoS 1, and one with a topic that is refused, through mailboxes
\* of one and two places.  The counter wraps: the second and the third attempt
\* share an identifier, be they at one message or at two.
SPECIFICATION Spec
CONSTANTS
  Actor <- MCActor
  Registered <- MCRegistered
  Capacity <- Tight
  MaxId = 5
  Payload = {"PendingAck", "PendingRec", "PendingRel", "PendingComp"}
  MaxRetryCount = 1
  SendStatusRecipient = {}
  Target <- MCTarget
  MayBreak = FALSE
  m1 = m1  m2 = m2  m3 = m3  m4 = m4  m5 = m5
  OutMsg = {m1, m4, m5}
  QoS <- MCQoS
  BadTopic = {m5}
  FirstId = {14}
  UsizeRange = 16
CHECK_DEADLOCK FALSE
INVARIANTS
  SingleRetryChain
  RetryCountsAttempts
  TransmissionBound
  AckedWasTaken
  ConfusedOnlyAtWrap
