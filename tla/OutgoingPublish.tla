-------------------------- MODULE OutgoingPublish --------------------------
(***************************************************************************)
(* The messages the application publishes: SendPublishActor                *)
(* (src/actors/packets/publish.rs) and the actors for the server's answers *)
(* PubackActor, PubrecActor and PubcompActor, over the status actor and    *)
(* the connection.                                                         *)
(***************************************************************************)
EXTENDS Session, Identifiers

CONSTANTS
    OutMsg,     \* the messages the application may publish
    QoS,        \* QoS[m]: the quality of service m is published with
    BadTopic    \* the messages whose topic TopicName::new refuses

PublishPacketStatus == {"PendingAck", "PendingRec", "PendingRel", "PendingComp"}

ASSUME OutgoingAssumption ==
    /\ {"SendPublish", "Puback", "Pubrec", "Pubcomp"} \subseteq Actor
    /\ \A m \in OutMsg : QoS[m] \in 0 .. 2
    /\ BadTopic \subseteq OutMsg
    /\ PublishPacketStatus \subseteq Payload
    /\ \A type \in {"Puback", "Pubrec", "Pubcomp"} :
           type \in DOMAIN Target /\ Target[type] = type

VARIABLES
    published,  \* the messages the application has called publish() with
    sentAs,     \* history: the packet identifiers m was sent with
    acked,      \* history: identifiers whose status an answer has settled
    taken       \* history: the messages the server took, with their identifiers

outVars == <<published, idCounter, sentAs, acked, taken>>
outgoingVars == <<sessionVars, outVars>>

Publish(m, retry) == [type |-> "Publish", m |-> m, retry |-> retry]

OutgoingInit ==
    /\ published = {}
    /\ idCounter \in FirstId
    /\ sentAs = [m \in OutMsg |-> <<>>]
    /\ acked = {}
    /\ taken = {}

-----------------------------------------------------------------------------
(* The application. *)

\* MqttClient::publish: send().await waits while the mailbox is full.
ClientPublish(m) ==
    /\ m \notin published
    /\ Accepts("SendPublish")
    /\ mbox' = Post(mbox, "SendPublish", Publish(m, 0))
    /\ published' = published \cup {m}
    /\ UNCHANGED <<alive, resends, statusVars, wireVars, idCounter, sentAs, acked, taken>>

-----------------------------------------------------------------------------
(* SendPublishActor. *)

\* Mutant: any status makes a message of QoS 2 be sent again, too.
UnansweredAny(m) == PublishPacketStatus

\* The status a message waits in, and the answers to the status check that
\* make it be sent again: any status for QoS 1, PendingRec for QoS 2.
FirstStatus(m) == IF QoS[m] = 1 THEN "PendingAck" ELSE "PendingRec"
Unanswered(m)  == IF QoS[m] = 1 THEN PublishPacketStatus ELSE {"PendingRec"}

PublishPacket(m, id) == [type |-> "Publish", m |-> m, id |-> id, qos |-> QoS[m]]

\* Every attempt is a packet with an identifier of its own.
SendPublishHandle ==
    /\ Handling("SendPublish", "Publish")
    /\ LET msg == Head(mbox["SendPublish"])
           m == msg.m
           box == Take("SendPublish")
           id == IF QoS[m] = 0 THEN 0 ELSE NextId
       IN  \/ /\ RetryExhausted(msg)
              /\ GiveUp(box, 0)
              /\ UNCHANGED <<idCounter, sentAs>>
           \/ /\ ~RetryExhausted(msg)
              /\ m \in BadTopic
              /\ mbox' = box
              /\ UNCHANGED <<resends, timers, idCounter, sentAs>>
           \/ /\ ~RetryExhausted(msg)
              /\ m \notin BadTopic
              /\ QoS[m] = 0
              /\ IF Accepts("Send")
                 THEN mbox' = Post(box, "Send", VariablePacketMessage(PublishPacket(m, id)))
                 ELSE HandleSendError("Send", box)
              /\ UNCHANGED <<resends, timers, idCounter, sentAs>>
           \/ /\ ~RetryExhausted(msg)
              /\ m \notin BadTopic
              /\ QoS[m] # 0
              /\ TakeId
              /\ SetSendSchedule(box, "SendPublish", SetPacketStatus(id, FirstStatus(m)),
                     PublishPacket(m, id),
                     StatusCheck("SendPublish", "SendPublish", id, Retried(msg), Unanswered(m)),
                     Retried(msg))
              /\ sentAs' = [sentAs EXCEPT ![m] =
                     IF Accepts("Status") /\ Accepts("Send") THEN Append(@, id) ELSE @]
    /\ UNCHANGED <<alive, packetStatus, asking, answered, wireVars, published, acked, taken>>

-----------------------------------------------------------------------------
(* The server's answers. *)

PubackHandle  == ResponseHandle("Puback", "Puback") /\ UNCHANGED <<wireVars, outVars>>
PubcompHandle == ResponseHandle("Pubcomp", "Pubcomp") /\ UNCHANGED <<wireVars, outVars>>

\* The check repeats PUBREL on PendingRec, which PubrecActor itself has just
\* overwritten with PendingComp.
PubrecHandle ==
    /\ Handling("Pubrec", "Pubrec")
    /\ LET msg == Head(mbox["Pubrec"])
           id == msg.packet.id
       IN  SendPacketHandle("Pubrec", msg, SetPacketStatus(id, "PendingComp"),
               [type |-> "Pubrel", id |-> id], {"PendingRec"})
    /\ UNCHANGED <<wireVars, outVars>>

\* An answer settles an attempt when it finds the status of that attempt.
Settled(op) ==
    IF /\ packetStatus[op.id] \in {"PendingAck", "PendingRec"}
       /\ \/ op.op = "Remove"
          \/ op.op = "Set" /\ op.payload = "PendingComp"
    THEN {op.id}
    ELSE {}

PublishStatusHandle ==
    /\ StatusHandle
    /\ acked' = acked \cup Settled(Head(mbox["Status"]))
    /\ UNCHANGED <<wireVars, published, idCounter, sentAs, taken>>

-----------------------------------------------------------------------------
(* The server: it answers in the order it reads, whenever it likes. *)

AnswerPacket(type, id) == [type |-> type, id |-> id]

BrokerAnswer(packet) ==
    IF packet.type = "Pubrel" THEN <<AnswerPacket("Pubcomp", packet.id)>>
    ELSE IF packet.qos = 0 THEN <<>>
    ELSE <<AnswerPacket(IF packet.qos = 1 THEN "Puback" ELSE "Pubrec", packet.id)>>

BrokerRead ==
    /\ toBroker # <<>>
    /\ LET packet == Head(toBroker)
       IN  /\ packet.type \in {"Publish", "Pubrel"}
           /\ toBroker' = Tail(toBroker)
           /\ fromBroker' = fromBroker \o BrokerAnswer(packet)
           /\ taken' = taken \cup
                  IF packet.type = "Publish" THEN {[m |-> packet.m, id |-> packet.id]} ELSE {}
    /\ UNCHANGED <<actorVars, statusVars, published, idCounter, sentAs, acked>>

-----------------------------------------------------------------------------

OutgoingStep ==
    \/ \E m \in OutMsg : ClientPublish(m)
    \/ SendPublishHandle
    \/ PubackHandle \/ PubrecHandle \/ PubcompHandle
    \/ PublishStatusHandle
    \/ BrokerRead

Init == SessionInit /\ OutgoingInit

Next ==
    \/ OutgoingStep
    \/ Background /\ UNCHANGED outVars

Spec == Init /\ [][Next]_outgoingVars

\* The server owes no answer, the application no message.
OutgoingFairness ==
    /\ SessionFairness
    /\ WF_outgoingVars(SendPublishHandle)
    /\ WF_outgoingVars(PubackHandle)
    /\ WF_outgoingVars(PubrecHandle)
    /\ WF_outgoingVars(PubcompHandle)
    /\ WF_outgoingVars(PublishStatusHandle)

FairSpec == Spec /\ OutgoingFairness

-----------------------------------------------------------------------------
(* Types. *)

Retry == 0 .. MaxRetryCount + 1
PublishMessages == [type : {"Publish"}, m : OutMsg, retry : Retry]
AnswerPackets(types) == [type : types, id : Id]
AnswerMessages(type) == [type : {type}, packet : AnswerPackets({type}), retry : Retry]
ClientPackets ==
    [type : {"Publish"}, m : OutMsg, id : Id, qos : 0 .. 2]
    \cup AnswerPackets({"Pubrel"})
    \cup [type : {"Disconnect"}]
ServerPackets == AnswerPackets({"Puback", "Pubrec", "Pubcomp"})
VariablePacketMessages(packets) == [type : {"Packet"}, packet : packets]

ChecksOf(a, messages) ==
    [kind : {"check"}, actor : {a}, owner : {a}, id : Id, msg : messages,
     expect : SUBSET Payload]
Tasks == ChecksOf("SendPublish", PublishMessages) \cup ChecksOf("Pubrec", AnswerMessages("Pubrec"))
ResendsOf(a, messages) == [to : {a}, msg : messages]

StatusMessages ==
    [type : {"Status"}, op : {"Set"}, id : Id, payload : Payload]
    \cup [type : {"Status"}, op : {"Remove"}, id : Id]
    \cup {GetAndRemovePacketStatus(t) : t \in Tasks}

\* What the DisconnectActor gets, when it runs too.
SendStatusMessages == [type : {"PacketSendStatus"}, finished : BOOLEAN]
DisconnectMessages == [type : {"Disconnect"}, force : BOOLEAN, by : {"client", "self"}]

MessagesTo(a) ==
    {StopMessage}
    \cup {msg \in PublishMessages : a = "SendPublish"}
    \cup {msg \in AnswerMessages(a) : a \in {"Puback", "Pubrec", "Pubcomp"}}
    \cup {msg \in StatusMessages : a = "Status"}
    \cup {msg \in VariablePacketMessages(ClientPackets) : a = "Send"}
    \cup {msg \in VariablePacketMessages(ServerPackets) : a = "Dispatch"}
    \cup {msg \in SendStatusMessages \cup DisconnectMessages : a \in SendStatusRecipient}

Resends ==
    ResendsOf("SendPublish", PublishMessages)
    \cup ResendsOf("Puback", AnswerMessages("Puback"))
    \cup ResendsOf("Pubrec", AnswerMessages("Pubrec"))
    \cup ResendsOf("Pubcomp", AnswerMessages("Pubcomp"))
    \cup {r \in ResendsOf("Disconnect", DisconnectMessages) : "Disconnect" \in SendStatusRecipient}

MailboxesOK(box) ==
    /\ DOMAIN box = Actor
    /\ \A a \in Actor : box[a] \in Seq(MessagesTo(a))

\* Every mailbox holds only messages its actor has a handler for, and no
\* message or task has a retry_count above MaxRetryCount + 1.
TypeOK ==
    /\ MailboxesOK(mbox)
    /\ alive \subseteq Actor
    /\ BagToSet(resends) \subseteq Resends
    /\ packetStatus \in [Id -> Payload \cup {NoStatus}]
    /\ BagToSet(timers) \subseteq Tasks
    /\ BagToSet(asking) \subseteq Tasks
    /\ BagToSet(answered) \subseteq [task : Tasks, answer : Answer]
    /\ toBroker \in Seq(ClientPackets)
    /\ fromBroker \in Seq(ServerPackets)
    /\ published \subseteq OutMsg
    /\ idCounter \in 0 .. UsizeRange - 1
    /\ sentAs \in [OutMsg -> Seq(Id)]
    /\ acked \subseteq Id
    /\ taken \subseteq [m : OutMsg, id : Id]

-----------------------------------------------------------------------------
(* Properties. *)

\* Whatever may still make SendPublishActor handle m (again).
IsPublishOf(msg, m) == msg.type = "Publish" /\ msg.m = m
PublishContinues(m) ==
    LET Test(msg) == IsPublishOf(msg, m) IN Continues("SendPublish", Test)

\* A message is never retried along two paths at once (publish.rs: each failed
\* step returns after one resend, and the check is scheduled only at the end).
SingleRetryChain ==
    \A m \in OutMsg :
        LET Test(msg) == IsPublishOf(msg, m) IN Continuations("SendPublish", Test) <= 1

\* A message that may be handled again has counted every transmission so far:
\* no resend and no check holds a retry_count older than the last attempt.
RetryCountsAttempts ==
    LET Old(msg) == msg.type = "Publish" /\ msg.retry < Len(sentAs[msg.m])
    IN  ~Continues("SendPublish", Old)

\* MAX_RETRY_COUNT bounds how often a message is transmitted, over full
\* mailboxes and unanswered attempts together.
TransmissionBound == \A m \in OutMsg : Len(sentAs[m]) <= MaxRetryCount + 1

\* Once the answer to an attempt has found the status of that attempt, the
\* message is not transmitted again.
AckStopsRetry ==
    [][\A m \in OutMsg :
          sentAs'[m] # sentAs[m] => \A i \in DOMAIN sentAs[m] : sentAs[m][i] \notin acked
      ]_outgoingVars

\* An answer settles an attempt only if the server took the message.
AckMeansTaken ==
    \A m \in OutMsg : \A i \in DOMAIN sentAs[m] :
        sentAs[m][i] \in acked => \E p \in taken : p.m = m

\* Whatever the identifiers are: an attempt is settled, early or late, only if the
\* server took a message with its identifier.  Giving up a message (publish.rs:104)
\* settles none.
AckedWasTaken ==
    \A m \in OutMsg : \A i \in DOMAIN sentAs[m] :
        sentAs[m][i] \in acked => \E p \in taken : p.id = sentAs[m][i]

\* utils.rs:13-15: so only the identifier on both sides of the wrap may let an
\* answer to one message settle another that the server did not take.
ConfusedOnlyAtWrap ==
    \A m \in OutMsg : \A i \in DOMAIN sentAs[m] :
        sentAs[m][i] \in acked \ {WrapId} => \E p \in taken : p.m = m

\* No trace of identifier id is left: no message was sent with it, and the
\* status actor knows nothing of it, nor will.
Unused(id) ==
    /\ packetStatus[id] = NoStatus
    /\ \A i \in DOMAIN mbox["Status"] :
           mbox["Status"][i].type = "Status" => mbox["Status"][i].id # id
    /\ id \notin acked
    /\ \A m \in OutMsg : \A i \in DOMAIN sentAs[m] : sentAs[m][i] # id

\* next_id gives every attempt an identifier of its own, as it does until its
\* counter wraps or its identifiers come round.  The hypothesis of what is proved
\* about answers; no run checks it, since the bounds decide it.
NeedsId(msg) == ~RetryExhausted(msg) /\ msg.m \notin BadTopic /\ QoS[msg.m] # 0
FreshIdentifiers ==
    [][ SendPublishHandle /\ NeedsId(Head(mbox["SendPublish"])) => Unused(NextId)
      ]_outgoingVars

\* Every status is removed again, so that DisconnectActor can see that nothing
\* is pending: by the answer, by the check, or by giving up.
StatusDrains == <>[](\A id \in Id : packetStatus[id] = NoStatus)

\* Publishing with QoS 1 or 2 keeps the promise of Retransmission.
Phase(m) ==
    IF m \notin published THEN "idle"
    ELSE IF ~PublishContinues(m) THEN "over"
    ELSE IF \E i \in DOMAIN sentAs[m] : sentAs[m][i] \in acked THEN "answered"
    ELSE "open"

Promise == INSTANCE Retransmission WITH
    Request <- {m \in OutMsg : QoS[m] # 0},
    MaxAttempts <- MaxRetryCount + 1,
    phase <- [m \in {m \in OutMsg : QoS[m] # 0} |-> Phase(m)],
    attempts <- [m \in {m \in OutMsg : QoS[m] # 0} |-> Len(sentAs[m])]

\* A message is transmitted at most MAX_RETRY_COUNT + 1 times, not after its
\* answer, and never again once nothing is left that could (publish.rs:104-165).
PublishKeepsPromise == Promise!Spec

\* lib.rs:632: a message of QoS 2 is received once.
ExactlyOnce ==
    \A m \in OutMsg : QoS[m] = 2 => \A p, q \in taken : p.m = m /\ q.m = m => p = q

=============================================================================
