----------------------- MODULE OutgoingPublish_proofs -----------------------
(***************************************************************************)
(* Proofs about OutgoingPublish, for every number of messages,             *)
(* identifiers, retries and mailbox places: its type invariant, and that   *)
(* a published message is followed by one thread of retries only, which    *)
(* MAX_RETRY_COUNT bounds.                                                 *)
(***************************************************************************)
EXTENDS OutgoingPublish, Chain_proofs

(* The exchange as Session_proofs sees it. *)

OutK ==
    [messages |-> [a \in Actor |-> MessagesTo(a)],
     resends |-> Resends, tasks |-> Tasks, timers |-> Tasks,
     payload |-> Payload, client |-> ClientPackets, server |-> ServerPackets]

OutVarsOK ==
    /\ published \subseteq OutMsg
    /\ idCounter \in 0 .. UsizeRange - 1
    /\ sentAs \in [OutMsg -> Seq(Id)]
    /\ acked \subseteq Id
    /\ taken \subseteq [m : OutMsg, id : Id]

LEMMA OutKFields ==
    /\ \A a \in Actor : OutK.messages[a] = MessagesTo(a)
    /\ OutK.resends = Resends
    /\ OutK.tasks = Tasks /\ OutK.timers = Tasks
    /\ OutK.payload = Payload
    /\ OutK.client = ClientPackets /\ OutK.server = ServerPackets
  BY DEF OutK

LEMMA BoxesAreMailboxes == \A box : BoxesOK(OutK, box) <=> MailboxesOK(box)
  BY OutKFields DEF BoxesOK, MailboxesOK

LEMMA TypeParts ==
    /\ TypeOK <=> SessionOK(OutK) /\ OutVarsOK
    /\ TypeOK' <=> SessionOK(OutK)' /\ OutVarsOK'
  <1>1. TypeOK <=> SessionOK(OutK) /\ OutVarsOK
    BY OutKFields DEF TypeOK, MailboxesOK, SessionOK, OutVarsOK
  <1>2. TypeOK' <=> SessionOK(OutK)' /\ OutVarsOK'
    BY OutKFields DEF TypeOK, MailboxesOK, SessionOK, OutVarsOK
  <1> QED
    BY <1>1, <1>2

-----------------------------------------------------------------------------
(* What each actor finds at the head of its mailbox. *)

LEMMA StopMessageToAll == \A a : StopMessage \in MessagesTo(a)
  BY DEF MessagesTo

LEMMA HeadOfSendPublish ==
    ASSUME NEW msg \in MessagesTo("SendPublish"), msg.type = "Publish"
    PROVE  msg \in PublishMessages
  BY StatusAssumption DEF MessagesTo, StopMessage, SendStatusMessages, DisconnectMessages

LEMMA HeadOfAnswer ==
    ASSUME NEW a \in {"Puback", "Pubrec", "Pubcomp"}, NEW msg \in MessagesTo(a), msg.type = a
    PROVE  msg \in AnswerMessages(a)
  BY StatusAssumption DEF MessagesTo, StopMessage, SendStatusMessages, DisconnectMessages

LEMMA HeadOfStatus ==
    ASSUME NEW msg \in MessagesTo("Status"), msg.type = "Status"
    PROVE  msg \in StatusMessages
  BY StatusAssumption DEF MessagesTo, StopMessage, SendStatusMessages, DisconnectMessages

LEMMA HeadOfSend ==
    ASSUME NEW msg \in MessagesTo("Send"), msg.type = "Packet"
    PROVE  msg.packet \in ClientPackets
  BY StatusAssumption
     DEF MessagesTo, StopMessage, SendStatusMessages, DisconnectMessages, VariablePacketMessages

LEMMA HeadOfDispatch ==
    ASSUME NEW msg \in MessagesTo("Dispatch"), msg.type = "Packet"
    PROVE  msg.packet \in ServerPackets
  BY StatusAssumption
     DEF MessagesTo, StopMessage, SendStatusMessages, DisconnectMessages, VariablePacketMessages

\* A packet of the server becomes a message of the actor it is dispatched to.
LEMMA Dispatched ==
    ASSUME NEW packet \in ServerPackets
    PROVE  /\ Target[packet.type] = packet.type
           /\ packet.type \in {"Puback", "Pubrec", "Pubcomp"}
           /\ PacketMessage(packet, 0) \in AnswerMessages(packet.type)
           /\ PacketMessage(packet, 0) \in MessagesTo(Target[packet.type])
  <1>1. packet.type \in {"Puback", "Pubrec", "Pubcomp"} /\ packet \in AnswerPackets({packet.type})
    BY DEF ServerPackets, AnswerPackets
  <1>2. Target[packet.type] = packet.type
    BY <1>1, OutgoingAssumption
  <1>3. PacketMessage(packet, 0) \in AnswerMessages(packet.type)
    BY <1>1, StatusAssumption DEF PacketMessage, AnswerMessages, Retry
  <1> QED
    BY <1>1, <1>2, <1>3 DEF MessagesTo

\* What a task hands to its actor when it goes on is a message of that actor.
LEMMA TaskMessage == \A t \in Tasks : t.actor \in Actor /\ t.msg \in MessagesTo(t.actor)
  BY OutgoingAssumption DEF Tasks, ChecksOf, MessagesTo

LEMMA OutWired == Wired(OutK)
  <1> USE OutKFields, OutgoingAssumption, ActorAssumption, StatusAssumption
  <1>1. \A a \in Actor : StopMessage \in OutK.messages[a]
    BY StopMessageToAll
  <1>2. \A r \in OutK.resends : r.msg \in OutK.messages[r.to]
    <2>1. \A r \in Resends : r.to \in Actor /\ r.msg \in MessagesTo(r.to)
      BY DEF Resends, ResendsOf, MessagesTo
    <2> QED
      BY <2>1
  <1>3. \A t \in OutK.tasks : /\ GetAndRemovePacketStatus(t) \in OutK.messages["Status"]
                              /\ t.kind = "check" => t.msg \in OutK.messages[t.actor]
    <2>1. \A t \in Tasks : GetAndRemovePacketStatus(t) \in StatusMessages
      BY DEF GetAndRemovePacketStatus, StatusMessages, Tasks, ChecksOf
    <2>2. StatusMessages \subseteq MessagesTo("Status")
      BY DEF MessagesTo
    <2> QED
      BY <2>1, <2>2, TaskMessage
  <1>4. ASSUME NEW op \in OutK.messages["Status"], op.type = "Status"
        PROVE  /\ op.id \in Id
               /\ op.op = "Set" => op.payload \in OutK.payload
               /\ op.op = "GetAndRemove" =>
                      op = GetAndRemovePacketStatus(op.task) /\ op.task \in OutK.tasks
    <2>1. op \in StatusMessages
      BY <1>4, HeadOfStatus
    <2>2. CASE op \in [type : {"Status"}, op : {"Set"}, id : Id, payload : Payload]
               \/ op \in [type : {"Status"}, op : {"Remove"}, id : Id]
      BY <2>2
    <2>3. CASE op \in {GetAndRemovePacketStatus(t) : t \in Tasks}
      <3>1. PICK t \in Tasks : op = GetAndRemovePacketStatus(t)
        BY <2>3
      <3>2. t.id \in Id
        BY DEF Tasks, ChecksOf
      <3> QED
        BY <3>1, <3>2 DEF GetAndRemovePacketStatus
    <2> QED
      BY <2>1, <2>2, <2>3 DEF StatusMessages
  <1>5. \A a \in SendStatusRecipient : \A f \in BOOLEAN :
            [type |-> "PacketSendStatus", finished |-> f] \in OutK.messages[a]
    BY DEF MessagesTo, SendStatusMessages
  <1>6. \A msg \in OutK.messages["Send"] : msg.type = "Packet" => msg.packet \in OutK.client
    BY HeadOfSend
  <1>7. \A packet \in OutK.server : VariablePacketMessage(packet) \in OutK.messages["Dispatch"]
    BY DEF MessagesTo, VariablePacketMessage, VariablePacketMessages
  <1>8. ASSUME NEW msg \in OutK.messages["Dispatch"], msg.type = "Packet"
        PROVE  PacketMessage(msg.packet, 0) \in OutK.messages[Target[msg.packet.type]]
    BY <1>8, HeadOfDispatch, Dispatched
  <1> QED
    BY <1>1, <1>2, <1>3, <1>4, <1>5, <1>6, <1>7, <1>8 DEF Wired

-----------------------------------------------------------------------------
(* What several handlers do. *)

LEMMA PostOK ==
    ASSUME NEW box, MailboxesOK(box), NEW a, a \in alive => a \in Actor,
           NEW m, m \in MessagesTo(a)
    PROVE  MailboxesOK(Post(box, a, m))
  <1>1. CASE a \notin alive
    BY <1>1 DEF Post
  <1>2. CASE a \in alive
    <2>1. Post(box, a, m) = [box EXCEPT ![a] = Append(@, m)]
      BY <1>2 DEF Post
    <2>2. Append(box[a], m) \in Seq(MessagesTo(a))
      BY <1>2, AppendProperties DEF MailboxesOK
    <2> QED
      BY <2>1, <2>2 DEF MailboxesOK
  <1> QED
    BY <1>1, <1>2

LEMMA StopActorAlive == TypeOK => \A a \in alive : a \in Actor
  BY DEF TypeOK

LEMMA PostStopOK ==
    ASSUME TypeOK, NEW box, MailboxesOK(box)
    PROVE  MailboxesOK(Post(box, "Stop", StopMessage))
  BY PostOK, StopMessageToAll, StopActorAlive

LEMMA TakeOK ==
    ASSUME MailboxesOK(mbox), NEW a \in Actor, NEW type, Handling(a, type)
    PROVE  /\ MailboxesOK(Take(a))
           /\ Head(mbox[a]) \in MessagesTo(a)
           /\ Head(mbox[a]).type = type
  <1>1. mbox[a] \in Seq(MessagesTo(a)) /\ mbox[a] # <<>>
    BY DEF MailboxesOK, Handling
  <1>2. Head(mbox[a]) \in MessagesTo(a) /\ Tail(mbox[a]) \in Seq(MessagesTo(a))
    BY <1>1, HeadTailProperties
  <1> QED
    BY <1>2 DEF Take, MailboxesOK, Handling

LEMMA EmptiedOK ==
    ASSUME NEW box, MailboxesOK(box), NEW a
    PROVE  MailboxesOK([box EXCEPT ![a] = <<>>])
  BY EmptiedTyped, BoxesAreMailboxes

LEMMA RetriedOK ==
    /\ \A msg \in PublishMessages :
           ~RetryExhausted(msg) => /\ Retried(msg) \in PublishMessages
                                   /\ Retried(msg).m = msg.m
                                   /\ Retried(msg).retry = msg.retry + 1
    /\ \A a : \A msg \in AnswerMessages(a) :
           ~RetryExhausted(msg) => Retried(msg) \in AnswerMessages(a)
  BY StatusAssumption DEF Retried, RetryExhausted, PublishMessages, AnswerMessages, Retry

LEMMA NextIdOK == TypeOK => NextId \in 1 .. MaxId /\ NextId \in Id
  <1> SUFFICES ASSUME TypeOK PROVE NextId \in 1 .. MaxId /\ NextId \in Id
    OBVIOUS
  <1>1. idCounter \in Nat /\ MaxId \in Nat \ {0}
    BY StatusAssumption, OutgoingAssumption, IdentifierAssumption DEF TypeOK
  <1>2. idCounter % MaxId \in 0 .. MaxId - 1
    BY <1>1, ModRange
  <1> QED
    BY <1>1, <1>2 DEF NextId, Id

LEMMA TakeIdOK == TypeOK /\ TakeId => idCounter' \in 0 .. UsizeRange - 1
  <1> SUFFICES ASSUME TypeOK, TakeId PROVE idCounter' \in 0 .. UsizeRange - 1
    OBVIOUS
  <1>1. idCounter + 1 \in Nat /\ UsizeRange \in Nat \ {0}
    BY OutgoingAssumption, IdentifierAssumption DEF TypeOK
  <1> QED
    BY <1>1, ModRange DEF TakeId

\* What the status actor and the SendActor are sent.
LEMMA RemoveToStatus == \A id \in Id : RemovePacketStatus(id) \in OutK.messages["Status"]
  BY OutKFields, ActorAssumption DEF RemovePacketStatus, MessagesTo, StatusMessages

LEMMA SetToStatus ==
    ASSUME NEW id \in Id, NEW payload \in PublishPacketStatus
    PROVE  SetPacketStatus(id, payload) \in OutK.messages["Status"]
  BY OutKFields, ActorAssumption, OutgoingAssumption DEF SetPacketStatus, MessagesTo, StatusMessages

LEMMA PacketToSend ==
    ASSUME NEW packet \in ClientPackets
    PROVE  VariablePacketMessage(packet) \in OutK.messages["Send"]
  BY OutKFields, ActorAssumption DEF VariablePacketMessage, VariablePacketMessages, MessagesTo

-----------------------------------------------------------------------------
(* One lemma per action of the component. *)

LEMMA InitOK == Init => TypeOK
  <1> SUFFICES ASSUME Init PROVE TypeOK
    OBVIOUS
  <1>1. SessionOK(OutK)
    BY SessionInitTyped DEF Init
  <1>2. OutVarsOK
    BY IdentifierAssumption DEF Init, OutgoingInit, OutVarsOK
  <1> QED
    BY <1>1, <1>2, TypeParts

LEMMA ClientPublishOK ==
    ASSUME TypeOK, NEW m \in OutMsg, ClientPublish(m)
    PROVE  TypeOK'
  <1>1. Publish(m, 0) \in MessagesTo("SendPublish")
    BY StatusAssumption DEF Publish, MessagesTo, PublishMessages, Retry
  <1>2. MailboxesOK(mbox')
    BY <1>1, PostOK, StopActorAlive DEF ClientPublish, TypeOK
  <1> QED
    BY <1>2 DEF ClientPublish, TypeOK, MailboxesOK, statusVars, wireVars

\* What SendPublishHandle finds and makes, up to its four cases.
PublishHandled(msg) ==
    LET m  == msg.m
        id == IF QoS[m] = 0 THEN 0 ELSE NextId
    IN  [packet |-> PublishPacket(m, id),
         op     |-> SetPacketStatus(id, FirstStatus(m)),
         check  |-> StatusCheck("SendPublish", "SendPublish", id, Retried(msg), Unanswered(m)),
         id     |-> id]

LEMMA SendPublishTakes ==
    ASSUME TypeOK, SendPublishHandle
    PROVE  LET msg == Head(mbox["SendPublish"])
               h   == PublishHandled(msg)
           IN  /\ BoxesOK(OutK, Take("SendPublish"))
               /\ mbox["SendPublish"] # <<>>
               /\ msg \in PublishMessages
               /\ msg.m \in OutMsg
               /\ h.id \in Id
               /\ VariablePacketMessage(h.packet) \in OutK.messages["Send"]
               /\ h.op \in OutK.messages["Status"] /\ h.op.op = "Set"
               /\ h.check.actor = "SendPublish" /\ h.check.msg = Retried(msg)
               /\ ~RetryExhausted(msg) =>
                      /\ h.check \in Tasks
                      /\ [to |-> "SendPublish", msg |-> Retried(msg)] \in Resends
  <1> DEFINE msg == Head(mbox["SendPublish"])
             m   == msg.m
             id  == IF QoS[m] = 0 THEN 0 ELSE NextId
  <1>1. SessionOK(OutK) /\ "SendPublish" \in Actor /\ Handling("SendPublish", "Publish")
    BY TypeParts, OutgoingAssumption DEF SendPublishHandle
  <1>2. /\ BoxesOK(OutK, Take("SendPublish"))
        /\ mbox["SendPublish"] # <<>>
        /\ msg \in PublishMessages
    BY <1>1, TakeTyped, HeadOfSendPublish, OutKFields
  <1>3. m \in OutMsg /\ QoS[m] \in 0 .. 2
    BY <1>2, OutgoingAssumption DEF PublishMessages
  <1>4. id \in Id
    BY NextIdOK, StatusAssumption DEF Id
  <1>5. PublishPacket(m, id) \in ClientPackets
    BY <1>3, <1>4 DEF PublishPacket, ClientPackets
  <1>6. FirstStatus(m) \in PublishPacketStatus
    BY DEF FirstStatus, PublishPacketStatus
  <1>7. ASSUME ~RetryExhausted(msg)
        PROVE  /\ StatusCheck("SendPublish", "SendPublish", id, Retried(msg), Unanswered(m)) \in Tasks
               /\ [to |-> "SendPublish", msg |-> Retried(msg)] \in Resends
    <2>1. Retried(msg) \in PublishMessages
      BY <1>2, <1>7, RetriedOK
    <2>2. Unanswered(m) \in SUBSET Payload
      BY OutgoingAssumption DEF Unanswered, PublishPacketStatus
    <2> QED
      BY <2>1, <2>2, <1>4 DEF StatusCheck, Tasks, ChecksOf, Resends, ResendsOf
  <1>8. SetPacketStatus(id, FirstStatus(m)) \in OutK.messages["Status"]
    BY <1>4, <1>6, SetToStatus
  <1>9. VariablePacketMessage(PublishPacket(m, id)) \in OutK.messages["Send"]
    BY <1>5, PacketToSend
  <1>10. /\ SetPacketStatus(id, FirstStatus(m)).op = "Set"
         /\ \A e : LET c == StatusCheck("SendPublish", "SendPublish", id, Retried(msg), e)
                   IN  c.actor = "SendPublish" /\ c.msg = Retried(msg)
    BY DEF SetPacketStatus, StatusCheck
  <1> QED
    BY <1>2, <1>3, <1>4, <1>7, <1>8, <1>9, <1>10 DEF PublishHandled

\* Its four cases: given up, refused, sent once, and sent to be answered.
LEMMA SendPublishCases ==
    ASSUME SendPublishHandle
    PROVE  LET msg == Head(mbox["SendPublish"])
               h   == PublishHandled(msg)
               box == Take("SendPublish")
           IN  \/ /\ RetryExhausted(msg)
                  /\ GiveUp(box, 0)
                  /\ UNCHANGED <<idCounter, sentAs>>
               \/ /\ ~RetryExhausted(msg) /\ msg.m \in BadTopic
                  /\ mbox' = box
                  /\ UNCHANGED <<resends, timers, idCounter, sentAs>>
               \/ /\ ~RetryExhausted(msg) /\ QoS[msg.m] = 0
                  /\ IF Accepts("Send")
                     THEN mbox' = Post(box, "Send", VariablePacketMessage(h.packet))
                     ELSE HandleSendError("Send", box)
                  /\ UNCHANGED <<resends, timers, idCounter, sentAs>>
               \/ /\ ~RetryExhausted(msg) /\ NeedsId(msg)
                  /\ TakeId
                  /\ SetSendSchedule(box, "SendPublish", h.op, h.packet, h.check, Retried(msg))
                  /\ sentAs' = [sentAs EXCEPT ![msg.m] =
                         IF Accepts("Status") /\ Accepts("Send") THEN Append(@, h.id) ELSE @]
  BY DEF SendPublishHandle, PublishHandled, NeedsId

LEMMA SendPublishHandleOK ==
    ASSUME TypeOK, SendPublishHandle
    PROVE  TypeOK'
  <1> DEFINE msg == Head(mbox["SendPublish"])
             h   == PublishHandled(msg)
             box == Take("SendPublish")
  <1>1. SessionOK(OutK) /\ Wired(OutK) /\ OutVarsOK
    BY TypeParts, OutWired
  <1>2. /\ BoxesOK(OutK, box) /\ msg.m \in OutMsg /\ h.id \in Id
        /\ h.op \in OutK.messages["Status"]
        /\ VariablePacketMessage(h.packet) \in OutK.messages["Send"]
        /\ ~RetryExhausted(msg) => h.check \in OutK.timers
        /\ ~RetryExhausted(msg) => [to |-> "SendPublish", msg |-> Retried(msg)] \in OutK.resends
    BY SendPublishTakes, OutKFields
  <1>3. BagToSet(resends) \subseteq OutK.resends /\ BagToSet(timers) \subseteq OutK.timers
    BY <1>1 DEF SessionOK
  <1>4. idCounter \in 0 .. UsizeRange - 1 /\ sentAs \in [OutMsg -> Seq(Id)]
    BY <1>1 DEF OutVarsOK
  <1> HIDE DEF box, h, msg
  <1>5. /\ BoxesOK(OutK, mbox')
        /\ BagToSet(resends') \subseteq OutK.resends
        /\ BagToSet(timers') \subseteq OutK.timers
        /\ idCounter' \in 0 .. UsizeRange - 1
        /\ sentAs' \in [OutMsg -> Seq(Id)]
    <2>1. CASE GiveUp(box, 0) /\ UNCHANGED <<idCounter, sentAs>>
      <3>1. RemovePacketStatus(0) \in OutK.messages["Status"]
        BY RemoveToStatus, StatusAssumption DEF Id
      <3>2. BoxesOK(OutK, mbox')
        BY <1>1, <1>2, <2>1, <3>1, GiveUpTyped
      <3> QED
        BY <1>3, <1>4, <2>1, <3>2 DEF GiveUp
    <2>2. CASE mbox' = box /\ UNCHANGED <<resends, timers, idCounter, sentAs>>
      BY <1>2, <1>3, <1>4, <2>2
    <2>3. CASE /\ IF Accepts("Send")
                  THEN mbox' = Post(box, "Send", VariablePacketMessage(h.packet))
                  ELSE HandleSendError("Send", box)
               /\ UNCHANGED <<resends, timers, idCounter, sentAs>>
      <3>1. BoxesOK(OutK, mbox')
        BY <1>1, <1>2, <2>3, PostTyped, SendErrorTyped
      <3> QED
        BY <1>3, <1>4, <2>3, <3>1
    <2>4. CASE /\ ~RetryExhausted(msg)
               /\ TakeId
               /\ SetSendSchedule(box, "SendPublish", h.op, h.packet, h.check, Retried(msg))
               /\ sentAs' = [sentAs EXCEPT ![msg.m] =
                      IF Accepts("Status") /\ Accepts("Send") THEN Append(@, h.id) ELSE @]
      <3>1. sentAs' \in [OutMsg -> Seq(Id)]
        BY <1>2, <1>4, <2>4, AppendProperties
      <3>2. /\ BoxesOK(OutK, mbox')
            /\ BagToSet(resends') \subseteq OutK.resends
            /\ BagToSet(timers') \subseteq OutK.timers
        BY <1>1, <1>2, <2>4, SetSendScheduleTyped
      <3> QED
        BY <2>4, <3>1, <3>2, TakeIdOK
    <2> QED
      BY <2>1, <2>2, <2>3, <2>4, SendPublishCases DEF msg, h, box
  <1>6. SessionOK(OutK)'
    BY <1>1, <1>5 DEF SendPublishHandle, SessionOK, BoxesOK, wireVars
  <1>7. OutVarsOK'
    BY <1>1, <1>5 DEF SendPublishHandle, OutVarsOK
  <1> QED
    BY <1>6, <1>7, TypeParts

LEMMA AnswerTakes ==
    ASSUME TypeOK, NEW a \in {"Puback", "Pubrec", "Pubcomp"}, Handling(a, a)
    PROVE  LET msg == Head(mbox[a])
           IN  /\ a \in Actor
               /\ msg \in AnswerMessages(a)
               /\ msg.packet.id \in Id
               /\ RemovePacketStatus(msg.packet.id) \in OutK.messages["Status"]
               /\ [to |-> a, msg |-> msg] \in OutK.resends
  <1> DEFINE msg == Head(mbox[a])
  <1>1. a \in Actor /\ SessionOK(OutK)
    BY OutgoingAssumption, TypeParts
  <1>2. msg \in AnswerMessages(a)
    BY <1>1, TakeTyped, HeadOfAnswer, OutKFields
  <1>3. msg.packet.id \in Id
    BY <1>2 DEF AnswerMessages, AnswerPackets
  <1>4. [to |-> a, msg |-> msg] \in OutK.resends
    BY <1>2, OutKFields DEF Resends, ResendsOf
  <1> QED
    BY <1>1, <1>2, <1>3, <1>4, RemoveToStatus

LEMMA ResponseHandleOK ==
    ASSUME TypeOK, NEW a \in {"Puback", "Pubcomp"}, ResponseHandle(a, a), UNCHANGED <<wireVars, outVars>>
    PROVE  TypeOK'
  <1>1. SessionOK(OutK) /\ Wired(OutK) /\ OutVarsOK
    BY TypeParts, OutWired
  <1>2. Handling(a, a)
    BY DEF ResponseHandle
  <1>3. SessionOK(OutK)'
    BY <1>1, <1>2, AnswerTakes, ResponseHandleTyped
  <1>4. OutVarsOK'
    BY <1>1 DEF OutVarsOK, outVars
  <1> QED
    BY <1>3, <1>4, TypeParts

\* What PubrecActor sends, and what it becomes when it is not answered.
Pubrel(id) == [type |-> "Pubrel", id |-> id]

LEMMA PubrecTakes ==
    ASSUME TypeOK, Handling("Pubrec", "Pubrec")
    PROVE  LET msg == Head(mbox["Pubrec"])
               id  == msg.packet.id
               op  == SetPacketStatus(id, "PendingComp")
           IN  /\ RemovePacketStatus(id) \in OutK.messages["Status"]
               /\ op \in OutK.messages["Status"] /\ op.op = "Set"
               /\ VariablePacketMessage(Pubrel(id)) \in OutK.messages["Send"]
               /\ Pubrel(id).id = id
               /\ ~RetryExhausted(msg) =>
                      /\ StatusCheck("Pubrec", "Pubrec", id, Retried(msg), {"PendingRec"}) \in OutK.timers
                      /\ [to |-> "Pubrec", msg |-> Retried(msg)] \in OutK.resends
  <1> DEFINE msg == Head(mbox["Pubrec"])
             id  == msg.packet.id
  <1>1. /\ msg \in AnswerMessages("Pubrec") /\ id \in Id
        /\ RemovePacketStatus(id) \in OutK.messages["Status"]
    BY AnswerTakes
  <1>2. Pubrel(id) \in ClientPackets
    BY <1>1 DEF Pubrel, ClientPackets, AnswerPackets
  <1>3. ASSUME ~RetryExhausted(msg)
        PROVE  /\ StatusCheck("Pubrec", "Pubrec", id, Retried(msg), {"PendingRec"}) \in Tasks
               /\ [to |-> "Pubrec", msg |-> Retried(msg)] \in Resends
    <2>1. Retried(msg) \in AnswerMessages("Pubrec")
      BY <1>1, <1>3, RetriedOK
    <2>2. {"PendingRec"} \in SUBSET Payload
      BY OutgoingAssumption DEF PublishPacketStatus
    <2> QED
      BY <2>1, <2>2, <1>1 DEF StatusCheck, Tasks, ChecksOf, Resends, ResendsOf
  <1>4. SetPacketStatus(id, "PendingComp") \in OutK.messages["Status"]
    BY <1>1, SetToStatus DEF PublishPacketStatus
  <1>5. VariablePacketMessage(Pubrel(id)) \in OutK.messages["Send"]
    BY <1>2, PacketToSend
  <1>6. SetPacketStatus(id, "PendingComp").op = "Set" /\ Pubrel(id).id = id
    BY DEF SetPacketStatus, Pubrel
  <1> QED
    BY <1>1, <1>3, <1>4, <1>5, <1>6, OutKFields

LEMMA PubrecHandleOK ==
    ASSUME TypeOK, PubrecHandle
    PROVE  TypeOK'
  <1> DEFINE msg == Head(mbox["Pubrec"])
             id  == msg.packet.id
             op  == SetPacketStatus(id, "PendingComp")
  <1>1. SessionOK(OutK) /\ Wired(OutK) /\ OutVarsOK /\ "Pubrec" \in Actor
    BY TypeParts, OutWired, OutgoingAssumption
  <1>2. /\ Handling("Pubrec", "Pubrec")
        /\ SendPacketHandle("Pubrec", msg, op, Pubrel(id), {"PendingRec"})
        /\ UNCHANGED <<wireVars, outVars>>
    BY DEF PubrecHandle, Pubrel
  <1>3. SessionOK(OutK)'
    <2> HIDE DEF msg, op
    <2>1. /\ RemovePacketStatus(Pubrel(id).id) \in OutK.messages["Status"]
          /\ op \in OutK.messages["Status"]
          /\ VariablePacketMessage(Pubrel(id)) \in OutK.messages["Send"]
          /\ ~RetryExhausted(msg) =>
                 /\ StatusCheck("Pubrec", "Pubrec", Pubrel(id).id, Retried(msg), {"PendingRec"}) \in OutK.timers
                 /\ [to |-> "Pubrec", msg |-> Retried(msg)] \in OutK.resends
      BY <1>2, PubrecTakes DEF msg, op
    <2> QED
      BY <1>1, <1>2, <2>1, SendPacketHandleTyped
  <1>4. OutVarsOK'
    BY <1>1, <1>2 DEF OutVarsOK, outVars
  <1> QED
    BY <1>3, <1>4, TypeParts

LEMMA PublishStatusHandleOK ==
    ASSUME TypeOK, PublishStatusHandle
    PROVE  TypeOK'
  <1>1. SessionOK(OutK) /\ Wired(OutK) /\ OutVarsOK
    BY TypeParts, OutWired
  <1>2. StatusHandle /\ UNCHANGED wireVars
    BY DEF PublishStatusHandle
  <1>3. SessionOK(OutK)' /\ Head(mbox["Status"]).id \in Id
    BY <1>1, <1>2, StatusHandleTyped
  <1>4. Settled(Head(mbox["Status"])) \subseteq Id
    BY <1>3 DEF Settled
  <1>5. OutVarsOK'
    BY <1>1, <1>4 DEF PublishStatusHandle, OutVarsOK
  <1> QED
    BY <1>3, <1>5, TypeParts

LEMMA BrokerAnswers ==
    ASSUME NEW packet \in ClientPackets, packet.type \in {"Publish", "Pubrel"}
    PROVE  BrokerAnswer(packet) \in Seq(ServerPackets)
  <1>1. packet.id \in Id
    BY DEF ClientPackets, AnswerPackets
  <1>2. \A type \in {"Puback", "Pubrec", "Pubcomp"} :
            AnswerPacket(type, packet.id) \in ServerPackets
    BY <1>1 DEF AnswerPacket, ServerPackets, AnswerPackets
  <1> QED
    BY <1>2 DEF BrokerAnswer

LEMMA BrokerReadOK ==
    ASSUME TypeOK, BrokerRead
    PROVE  TypeOK'
  <1> DEFINE packet == Head(toBroker)
  <1>1. toBroker \in Seq(ClientPackets) /\ toBroker # <<>> /\ fromBroker \in Seq(ServerPackets)
    BY DEF BrokerRead, TypeOK
  <1>2. packet \in ClientPackets /\ toBroker' \in Seq(ClientPackets)
    BY <1>1, HeadTailProperties DEF BrokerRead
  <1>3. BrokerAnswer(packet) \in Seq(ServerPackets)
    BY <1>2, BrokerAnswers DEF BrokerRead
  <1>4. fromBroker' \in Seq(ServerPackets)
    BY <1>1, <1>3, ConcatProperties DEF BrokerRead
  <1>5. taken' \subseteq [m : OutMsg, id : Id]
    <2>1. packet.type = "Publish" => packet.m \in OutMsg /\ packet.id \in Id
      BY <1>2 DEF ClientPackets, AnswerPackets
    <2> QED
      BY <2>1 DEF BrokerRead, TypeOK
  <1> QED
    BY <1>2, <1>4, <1>5
    DEF BrokerRead, TypeOK, MailboxesOK, actorVars, statusVars

LEMMA RecvFailsOK ==
    ASSUME TypeOK, RecvFails, UNCHANGED <<statusVars, outVars>>
    PROVE  TypeOK'
  <1>1. SessionOK(OutK)'
    BY TypeParts, OutWired, RecvFailsTyped
  <1>2. OutVarsOK'
    BY TypeParts DEF OutVarsOK, outVars
  <1> QED
    BY <1>1, <1>2, TypeParts

LEMMA BackgroundOK ==
    ASSUME TypeOK, Background, UNCHANGED outVars
    PROVE  TypeOK'
  <1>1. SessionOK(OutK)'
    BY TypeParts, OutWired, BackgroundTyped
  <1>2. OutVarsOK'
    BY TypeParts DEF OutVarsOK, outVars
  <1> QED
    BY <1>1, <1>2, TypeParts

LEMMA StepOK == TypeOK /\ [Next]_outgoingVars => TypeOK'
  <1> SUFFICES ASSUME TypeOK, [Next]_outgoingVars PROVE TypeOK'
    OBVIOUS
  <1>1. CASE OutgoingStep
    BY <1>1, ClientPublishOK, SendPublishHandleOK, ResponseHandleOK, PubrecHandleOK,
       PublishStatusHandleOK, BrokerReadOK
       DEF OutgoingStep, PubackHandle, PubcompHandle
  <1>2. CASE Background /\ UNCHANGED outVars
    BY <1>2, BackgroundOK
  <1>3. CASE UNCHANGED outgoingVars
    BY <1>3 DEF TypeOK, MailboxesOK, outgoingVars, sessionVars, actorVars, statusVars, wireVars,
                outVars
  <1> QED
    BY <1>1, <1>2, <1>3 DEF Next

\* In every execution a mailbox holds only messages its actor has a handler for
\* (Addr<A> of the code is typed by the compiler, the Recipients of the
\* ErrorActor and of resend() are wired at run time in client.rs:222-401), and
\* no message or task carries a retry_count above MaxRetryCount + 1
\* (assert_valid_retry_count, src/actors/packets/macros.rs:1-19).
THEOREM TypeCorrect == Spec => []TypeOK
  <1>1. Init => TypeOK
    BY InitOK
  <1>2. TypeOK /\ [Next]_outgoingVars => TypeOK'
    BY StepOK
  <1> QED
    BY <1>1, <1>2, PTL DEF Spec


-----------------------------------------------------------------------------
(* The messages that make SendPublishActor handle m (again). *)

PublishesOf(m) == {msg \in PublishMessages : msg.m = m}

LEMMA PublishesFollowed ==
    ASSUME NEW m, NEW S \in SUBSET PublishesOf(m)
    PROVE  Followed(OutK, "SendPublish", S)
  <1>1. \A msg \in S : msg.type = "Publish"
    BY DEF PublishesOf, PublishMessages
  <1>2. "SendPublish" \in Actor \ {"Status", "Send", "Dispatch"}
    BY OutgoingAssumption
  <1>3. StopMessage \notin S /\ \A f \in BOOLEAN : [type |-> "PacketSendStatus", finished |-> f] \notin S
    BY <1>1 DEF StopMessage
  <1>4. ASSUME NEW msg \in OutK.messages["Dispatch"], msg.type = "Packet"
        PROVE  PacketMessage(msg.packet, 0) \notin S \cup Asks(OutK, "SendPublish", S)
    <2>1. msg.packet.type \in {"Puback", "Pubrec", "Pubcomp"}
      BY <1>4, HeadOfDispatch, Dispatched, OutKFields, ActorAssumption
    <2>2. PacketMessage(msg.packet, 0).type \in {"Puback", "Pubrec", "Pubcomp"}
      BY <2>1 DEF PacketMessage
    <2>3. \A e \in Asks(OutK, "SendPublish", S) : e.type = "Status"
      BY DEF Asks, GetAndRemovePacketStatus
    <2> QED
      BY <1>1, <2>2, <2>3
  <1>5. \A r \in OutK.resends : r.to # "Status"
    BY OutKFields, StatusAssumption DEF Resends, ResendsOf
  <1>6. \A t \in OutK.tasks : t.actor # "Status"
    BY OutKFields DEF Tasks, ChecksOf
  <1> QED
    BY <1>2, <1>3, <1>4, <1>5, <1>6 DEF Followed

\* There is at most one of them; it has counted every transmission of m; there
\* is none before publish(); and MAX_RETRY_COUNT has not been passed.
ChainOf(m) ==
    /\ AtMostOne(OutK, "SendPublish", PublishesOf(m))
    /\ \A msg \in PublishesOf(m) :
           msg.retry < Len(sentAs[m]) => Absent(OutK, "SendPublish", {msg})
    /\ m \notin published => Absent(OutK, "SendPublish", PublishesOf(m)) /\ sentAs[m] = <<>>
    /\ Len(sentAs[m]) <= MaxRetryCount + 1

Chains == TypeOK /\ \A m \in OutMsg : ChainOf(m)

\* A step that carries every message of m along, and does not transmit it.
CarriesAll(m) == \A S \in SUBSET PublishesOf(m) : Carries(OutK, "SendPublish", S)

LEMMA CarriedChain ==
    ASSUME NEW m, ChainOf(m), CarriesAll(m), m \in published => m \in published',
           sentAs'[m] = sentAs[m]
    PROVE  ChainOf(m)'
  <1>1. AtMostOne(OutK, "SendPublish", PublishesOf(m))'
    BY DEF ChainOf, CarriesAll, Carries
  <1>2. ASSUME NEW msg \in PublishesOf(m), msg.retry < Len(sentAs'[m])
        PROVE  Absent(OutK, "SendPublish", {msg})'
    <2>1. {msg} \in SUBSET PublishesOf(m) /\ Absent(OutK, "SendPublish", {msg})
      BY <1>2 DEF ChainOf
    <2> QED
      BY <2>1 DEF CarriesAll, Carries
  <1>3. m \notin published' => Absent(OutK, "SendPublish", PublishesOf(m))' /\ sentAs'[m] = <<>>
    BY DEF ChainOf, CarriesAll, Carries
  <1>4. Len(sentAs'[m]) <= MaxRetryCount + 1
    BY DEF ChainOf
  <1> QED
    BY <1>1, <1>2, <1>3, <1>4 DEF ChainOf

\* publish() hands m over once.
LEMMA ClientPublishChain ==
    ASSUME Chains, NEW m \in OutMsg, NEW n \in OutMsg, ClientPublish(n)
    PROVE  ChainOf(m)'
  <1>1. SessionOK(OutK) /\ Wired(OutK) /\ BoxesOK(OutK, mbox) /\ "SendPublish" \in Actor
    BY TypeParts, OutWired, OutgoingAssumption DEF Chains, SessionOK, BoxesOK
  <1>2. /\ mbox' = Post(mbox, "SendPublish", Publish(n, 0))
        /\ UNCHANGED <<resends, timers, asking, answered, sentAs>>
        /\ n \notin published /\ published' = published \cup {n}
    BY DEF ClientPublish, statusVars
  <1>3. CASE n = m
    <2>1. Absent(OutK, "SendPublish", PublishesOf(m)) /\ sentAs[m] = <<>>
      BY <1>2, <1>3 DEF Chains, ChainOf
    <2>2. Followed(OutK, "SendPublish", PublishesOf(m))
      BY PublishesFollowed
    <2>3. AtMostOne(OutK, "SendPublish", PublishesOf(m))'
      BY <1>1, <1>2, <2>1, <2>2, PostFirst
    <2>4. sentAs'[m] = <<>> /\ m \in published'
      BY <1>2, <1>3, <2>1
    <2>5. \A msg \in PublishesOf(m) : ~(msg.retry < Len(sentAs'[m]))
      BY <2>4 DEF PublishesOf, PublishMessages, Retry
    <2> QED
      BY <2>3, <2>4, <2>5, StatusAssumption DEF ChainOf
  <1>4. CASE n # m
    <2>1. ASSUME NEW S \in SUBSET PublishesOf(m)
          PROVE  Carries(OutK, "SendPublish", S)
      <3>1. Publish(n, 0) \notin S
        BY <1>4 DEF PublishesOf, Publish
      <3>2. BoxKeeps(mbox, mbox', OutK, "SendPublish", S)
        BY <1>1, <1>2, <3>1, PostKeeps
      <3> QED
        BY <1>2, <3>2, OnlyBoxes DEF ClientPublish
    <2>2. CarriesAll(m)
      BY <2>1 DEF CarriesAll
    <2> QED
      BY <1>2, <2>2, CarriedChain DEF Chains
  <1> QED
    BY <1>3, <1>4

\* The handler of another message.
LEMMA OtherPublishCarries ==
    ASSUME TypeOK, NEW m, SendPublishHandle, Head(mbox["SendPublish"]).m # m
    PROVE  CarriesAll(m)
  <1> DEFINE msg == Head(mbox["SendPublish"])
             h   == PublishHandled(msg)
             box == Take("SendPublish")
  <1>1. SessionOK(OutK) /\ Wired(OutK) /\ TypeOK /\ "SendPublish" \in Actor
    BY TypeParts, OutWired, OutgoingAssumption
  <1>2. /\ BoxesOK(OutK, box) /\ mbox["SendPublish"] # <<>>
        /\ msg \in PublishMessages /\ msg.m \in OutMsg
        /\ VariablePacketMessage(h.packet) \in OutK.messages["Send"]
        /\ h.op \in OutK.messages["Status"] /\ h.op.op = "Set"
        /\ h.check.msg = Retried(msg)
    BY <1>1, SendPublishTakes
  <1>3. UNCHANGED <<asking, answered>>
    BY DEF SendPublishHandle
  <1>4. ~RetryExhausted(msg) => Retried(msg).m # m
    BY <1>2, RetriedOK
  <1> HIDE DEF msg, h, box
  <1>5. ASSUME NEW S \in SUBSET PublishesOf(m)
        PROVE  Carries(OutK, "SendPublish", S)
    <2>1. Followed(OutK, "SendPublish", S)
      BY PublishesFollowed
    <2>2. BoxKeeps(mbox, box, OutK, "SendPublish", S)
      BY <1>1, <1>2, TakeKeeps DEF box
    <2>3. /\ BoxKeeps(box, mbox', OutK, "SendPublish", S)
          /\ BagKeeps(resends, resends', ResendsFor(OutK, "SendPublish", S))
          /\ BagKeeps(timers, timers', TasksFor(OutK, "SendPublish", S))
      <3>1. CASE GiveUp(box, 0)
        <4>1. BoxKeeps(box, mbox', OutK, "SendPublish", S)
          BY <1>1, <1>2, <2>1, <3>1, GiveUpKeeps
        <4>2. UNCHANGED <<resends, timers>>
          BY <3>1 DEF GiveUp
        <4> QED
          BY <4>1, <4>2, BagKeepsItself
      <3>2. CASE mbox' = box /\ UNCHANGED <<resends, timers>>
        BY <3>2, BoxKeepsItself, BagKeepsItself
      <3>3. CASE /\ IF Accepts("Send")
                    THEN mbox' = Post(box, "Send", VariablePacketMessage(h.packet))
                    ELSE HandleSendError("Send", box)
                 /\ UNCHANGED <<resends, timers>>
        <4>1. BoxKeeps(box, mbox', OutK, "SendPublish", S)
          BY <1>1, <1>2, <2>1, <3>3, PostKeeps, SendErrorKeeps
        <4> QED
          BY <3>3, <4>1, BagKeepsItself
      <3>4. CASE /\ ~RetryExhausted(msg)
                 /\ SetSendSchedule(box, "SendPublish", h.op, h.packet, h.check, Retried(msg))
        <4>1. Retried(msg) \notin S
          BY <1>4, <3>4 DEF PublishesOf
        <4>2. /\ [to |-> "SendPublish", msg |-> Retried(msg)] \notin ResendsFor(OutK, "SendPublish", S)
              /\ h.check \notin TasksFor(OutK, "SendPublish", S)
          BY <1>2, <4>1 DEF ResendsFor, TasksFor
        <4> QED
          BY <1>1, <1>2, <2>1, <3>4, <4>2, SetSendScheduleKeeps
      <3> QED
        BY <3>1, <3>2, <3>3, <3>4, SendPublishCases DEF msg, h, box
    <2>4. BoxKeeps(mbox, mbox', OutK, "SendPublish", S)
      BY <2>2, <2>3, BoxKeepsOn
    <2>5. Undisturbed(OutK, "SendPublish", S)
      BY <1>3, <2>3, <2>4, BagKeepsItself DEF Undisturbed
    <2> QED
      BY <2>5, UndisturbedCarries
  <1> QED
    BY <1>5 DEF CarriesAll

LEMMA OtherPublishChain ==
    ASSUME Chains, NEW m \in OutMsg, SendPublishHandle, Head(mbox["SendPublish"]).m # m
    PROVE  ChainOf(m)'
  <1>1. TypeOK /\ UNCHANGED published
    BY DEF Chains, SendPublishHandle
  <1>2. CarriesAll(m)
    BY <1>1, OtherPublishCarries
  <1>3. sentAs'[m] = sentAs[m]
    <2>1. PICK msg : msg = Head(mbox["SendPublish"]) /\ msg.m # m
      OBVIOUS
    <2>2. sentAs \in [OutMsg -> Seq(Id)]
      BY <1>1 DEF TypeOK
    <2> QED
      BY <2>1, <2>2, SendPublishCases
  <1> QED
    BY <1>1, <1>2, <1>3, CarriedChain DEF Chains

\* Its own handler: it takes the only message there is, and makes at most one,
\* which has counted the transmission.
LEMMA OwnPublishChain ==
    ASSUME Chains, NEW m \in OutMsg, SendPublishHandle, Head(mbox["SendPublish"]).m = m
    PROVE  ChainOf(m)'
  <1> DEFINE msg == Head(mbox["SendPublish"])
             h   == PublishHandled(msg)
             box == Take("SendPublish")
             S   == PublishesOf(m)
  <1>1. /\ SessionOK(OutK) /\ Wired(OutK) /\ TypeOK
        /\ "SendPublish" \in Actor \ {"Status"}
        /\ Followed(OutK, "SendPublish", S)
        /\ ChainOf(m)
    BY TypeParts, OutWired, OutgoingAssumption, PublishesFollowed DEF Chains
  <1>2. /\ BoxesOK(OutK, box) /\ mbox["SendPublish"] # <<>>
        /\ msg \in PublishMessages /\ msg.m \in OutMsg /\ h.id \in Id
        /\ VariablePacketMessage(h.packet) \in OutK.messages["Send"]
        /\ h.op \in OutK.messages["Status"] /\ h.op.op = "Set"
        /\ h.check.msg = Retried(msg)
    BY <1>1, SendPublishTakes
  <1>3. UNCHANGED <<asking, answered, published>>
    BY DEF SendPublishHandle
  <1>4. msg \in S
    BY <1>2 DEF PublishesOf
  <1>5. AbsentWith(box, OutK, "SendPublish", S)
    BY <1>1, <1>2, <1>4, TakenOnce DEF ChainOf
  <1>6. 1 \in DOMAIN mbox["SendPublish"] /\ mbox["SendPublish"][1] = msg
    <2>1. mbox["SendPublish"] \in Seq(OutK.messages["SendPublish"])
      BY <1>1 DEF SessionOK
    <2> QED
      BY <1>2, <2>1
  <1>7. m \in published /\ ~(msg.retry < Len(sentAs[m]))
    <2>1. ~Absent(OutK, "SendPublish", S)
      BY <1>4, <1>6 DEF Absent, NoneButAt, NoneIn
    <2>2. ~Absent(OutK, "SendPublish", {msg})
      BY <1>6 DEF Absent, NoneButAt, NoneIn
    <2> QED
      BY <1>1, <1>4, <2>1, <2>2 DEF ChainOf
  <1>8. sentAs \in [OutMsg -> Seq(Id)] /\ Len(sentAs[m]) \in Nat /\ msg.retry \in Nat
    <2>1. sentAs \in [OutMsg -> Seq(Id)]
      BY <1>1 DEF TypeOK
    <2> QED
      BY <1>2, <2>1, StatusAssumption DEF PublishMessages, Retry
  <1> HIDE DEF msg, h, box, S
  <1>9. ASSUME BoxKeeps(box, mbox', OutK, "SendPublish", S), UNCHANGED <<resends, timers, sentAs>>
        PROVE  ChainOf(m)'
    <2>1. Absent(OutK, "SendPublish", S)'
      BY <1>3, <1>5, <1>9, AbsentAfter, BagKeepsItself
    <2>2. AtMostOne(OutK, "SendPublish", S)'
      BY <2>1, AbsentIsAtMostOne
    <2>3. \A x \in S : Absent(OutK, "SendPublish", {x})'
      BY <2>1, AbsentFromPart
    <2> QED
      BY <1>1, <1>3, <1>7, <1>9, <2>2, <2>3 DEF ChainOf, S
  <1>10. CASE GiveUp(box, 0) /\ UNCHANGED sentAs
    <2>1. BoxKeeps(box, mbox', OutK, "SendPublish", S)
      BY <1>1, <1>2, <1>10, GiveUpKeeps
    <2> QED
      BY <1>9, <1>10, <2>1 DEF GiveUp
  <1>11. CASE mbox' = box /\ UNCHANGED <<resends, timers, sentAs>>
    BY <1>9, <1>11, BoxKeepsItself
  <1>12. CASE /\ IF Accepts("Send")
                 THEN mbox' = Post(box, "Send", VariablePacketMessage(h.packet))
                 ELSE HandleSendError("Send", box)
              /\ UNCHANGED <<resends, timers, sentAs>>
    <2>1. BoxKeeps(box, mbox', OutK, "SendPublish", S)
      BY <1>1, <1>2, <1>12, PostKeeps, SendErrorKeeps
    <2> QED
      BY <1>9, <1>12, <2>1
  <1>13. CASE /\ ~RetryExhausted(msg)
              /\ SetSendSchedule(box, "SendPublish", h.op, h.packet, h.check, Retried(msg))
              /\ sentAs' = [sentAs EXCEPT ![m] =
                     IF Accepts("Status") /\ Accepts("Send") THEN Append(@, h.id) ELSE @]
    <2>0. PICK retry : retry = Retried(msg)
      OBVIOUS
    <2>1. AtMostOne(OutK, "SendPublish", S)' /\ Absent(OutK, "SendPublish", S \ {retry})'
      BY <2>0, <1>1, <1>2, <1>3, <1>5, <1>13, SetSendScheduleMoves
    <2>2. Len(sentAs'[m]) \in Nat /\ Len(sentAs'[m]) <= Len(sentAs[m]) + 1
      BY <1>2, <1>8, <1>13, AppendProperties DEF msg
    <2>3. Len(sentAs'[m]) <= msg.retry + 1 /\ msg.retry <= MaxRetryCount
      BY <1>7, <1>8, <1>13, <2>2, StatusAssumption DEF RetryExhausted
    <2>4. ASSUME NEW x \in S, x.retry < Len(sentAs'[m])
          PROVE  Absent(OutK, "SendPublish", {x})'
      <3>1. retry.retry = msg.retry + 1
        BY <1>2, <1>13, <2>0, RetriedOK
      <3>2. x.retry \in Nat
        BY StatusAssumption DEF S, PublishesOf, PublishMessages, Retry
      <3>3. x # retry
        BY <1>8, <2>2, <2>3, <2>4, <3>1, <3>2
      <3>4. {x} \subseteq S \ {retry}
        BY <3>3
      <3> QED
        BY <2>1, <3>4, AbsentFromPart
    <2>5. Len(sentAs'[m]) <= MaxRetryCount + 1
      BY <1>8, <2>2, <2>3, StatusAssumption
    <2> QED
      BY <1>3, <1>7, <2>1, <2>4, <2>5 DEF ChainOf, S
  <1> QED
    BY <1>10, <1>11, <1>12, <1>13, SendPublishCases DEF msg, h, box

\* Whatever else goes on only carries the messages of m along.
LEMMA ElsewhereCarries ==
    ASSUME TypeOK, NEW m,
           \/ PubackHandle \/ PubrecHandle \/ PubcompHandle \/ PublishStatusHandle \/ BrokerRead
           \/ Background
    PROVE  CarriesAll(m)
  <1> SUFFICES ASSUME NEW S \in SUBSET PublishesOf(m)
               PROVE  Carries(OutK, "SendPublish", S)
    BY DEF CarriesAll
  <1>1. /\ SessionOK(OutK) /\ Wired(OutK)
        /\ {"Puback", "Pubrec", "Pubcomp"} \subseteq Actor \ {"SendPublish"}
        /\ Followed(OutK, "SendPublish", S)
    BY TypeParts, OutWired, OutgoingAssumption, PublishesFollowed
  <1>2. CASE PubackHandle \/ PubcompHandle
    BY <1>1, <1>2, ResponseHandleCarries DEF PubackHandle, PubcompHandle
  <1>3. CASE PubrecHandle
    <2> DEFINE msg == Head(mbox["Pubrec"])
               op  == SetPacketStatus(msg.packet.id, "PendingComp")
    <2>1. /\ Handling("Pubrec", "Pubrec")
          /\ SendPacketHandle("Pubrec", msg, op, Pubrel(msg.packet.id), {"PendingRec"})
      BY <1>3 DEF PubrecHandle, Pubrel
    <2>2. op \in OutK.messages["Status"] /\ op.op \in {"Set", "Remove"}
      BY <2>1, PubrecTakes
    <2> HIDE DEF msg, op
    <2> QED
      BY <1>1, <2>1, <2>2, SendPacketHandleCarries
  <1>4. CASE PublishStatusHandle
    BY <1>1, <1>4, StatusHandleCarries DEF PublishStatusHandle
  <1>5. CASE BrokerRead
    <2>1. UNCHANGED <<mbox, resends, statusVars>>
      BY <1>5 DEF BrokerRead, actorVars
    <2>2. BoxKeeps(mbox, mbox', OutK, "SendPublish", S)
      BY <2>1, BoxKeepsItself
    <2> QED
      BY <2>1, <2>2, OnlyBoxes
  <1>6. CASE Background
    BY <1>1, <1>6, BackgroundCarries
  <1> QED
    BY <1>2, <1>3, <1>4, <1>5, <1>6

LEMMA ChainsInit == Init => Chains
  <1> SUFFICES ASSUME Init PROVE Chains
    OBVIOUS
  <1>1. TypeOK
    BY InitOK
  <1>2. /\ mbox = [a \in Actor |-> <<>>] /\ sentAs = [m \in OutMsg |-> <<>>]
        /\ BagToSet(resends) = {} /\ BagToSet(timers) = {}
        /\ BagToSet(asking) = {} /\ BagToSet(answered) = {}
    BY EmptyBagElements DEF Init, SessionInit, ActorsInit, StatusInit, OutgoingInit
  <1>3. ASSUME NEW S PROVE Absent(OutK, "SendPublish", S)
    BY <1>2, OutgoingAssumption, ActorAssumption DEF Absent, NoneButAt, NoneIn, NoneInBag
  <1>4. ASSUME NEW m \in OutMsg PROVE ChainOf(m)
    <2>1. sentAs[m] = <<>>
      BY <1>2
    <2>2. AtMostOne(OutK, "SendPublish", PublishesOf(m))
      BY <1>3, AbsentIsAtMostOne
    <2> QED
      BY <1>3, <2>1, <2>2, StatusAssumption DEF ChainOf
  <1> QED
    BY <1>1, <1>4 DEF Chains

LEMMA ChainsStep == Chains /\ [Next]_outgoingVars => Chains'
  <1> SUFFICES ASSUME Chains, [Next]_outgoingVars PROVE Chains'
    OBVIOUS
  <1>1. TypeOK /\ TypeOK'
    BY StepOK DEF Chains
  <1>2. ASSUME NEW m \in OutMsg PROVE ChainOf(m)'
    <2>1. CASE \E n \in OutMsg : ClientPublish(n)
      BY <2>1, ClientPublishChain
    <2>2. CASE SendPublishHandle
      BY <2>2, OtherPublishChain, OwnPublishChain
    <2>3. CASE \/ PubackHandle \/ PubrecHandle \/ PubcompHandle \/ PublishStatusHandle \/ BrokerRead
               \/ Background /\ UNCHANGED outVars
      <3>1. CarriesAll(m)
        BY <1>1, <2>3, ElsewhereCarries
      <3>2. UNCHANGED <<published, sentAs>>
        BY <2>3 DEF PubackHandle, PubrecHandle, PubcompHandle, PublishStatusHandle, BrokerRead, outVars
      <3> QED
        BY <3>1, <3>2, CarriedChain DEF Chains
    <2>4. CASE UNCHANGED outgoingVars
      <3>1. UNCHANGED <<mbox, resends, statusVars, published, sentAs>>
        BY <2>4 DEF outgoingVars, sessionVars, actorVars, outVars
      <3>2. ASSUME NEW S PROVE Carries(OutK, "SendPublish", S)
        BY <3>1, BoxKeepsItself, OnlyBoxes
      <3>3. CarriesAll(m)
        BY <3>2 DEF CarriesAll
      <3> QED
        BY <3>1, <3>3, CarriedChain DEF Chains
    <2> QED
      BY <2>1, <2>2, <2>3, <2>4 DEF Next, OutgoingStep
  <1> QED
    BY <1>1, <1>2 DEF Chains


-----------------------------------------------------------------------------
(* What the invariants count. *)

\* Everything that makes SendPublishActor handle m again is a message of m.
LEMMA WhereMessagesOf ==
    ASSUME TypeOK, NEW m
    PROVE  LET S == PublishesOf(m)
           IN  /\ \A i \in DOMAIN mbox["SendPublish"] :
                      IsPublishOf(mbox["SendPublish"][i], m) => mbox["SendPublish"][i] \in S
               /\ \A r \in BagToSet(resends) :
                      r.to = "SendPublish" /\ IsPublishOf(r.msg, m)
                          => r.msg \in S /\ r \in ResendsFor(OutK, "SendPublish", S)
               /\ \A t \in BagToSet(timers) \cup BagToSet(asking) :
                      t.actor = "SendPublish" /\ IsPublishOf(t.msg, m)
                          => t.msg \in S /\ t \in TasksFor(OutK, "SendPublish", S)
               /\ \A r \in BagToSet(answered) :
                      r.task.actor = "SendPublish" /\ IsPublishOf(r.task.msg, m)
                          => r.task.msg \in S /\ r \in AnswersFor(OutK, "SendPublish", S)
               /\ \A i \in DOMAIN mbox["Status"] :
                      LET op == mbox["Status"][i]
                      IN  (/\ op.type = "Status" /\ op.op = "GetAndRemove"
                           /\ op.task.actor = "SendPublish" /\ IsPublishOf(op.task.msg, m))
                              => op.task.msg \in S /\ op \in Asks(OutK, "SendPublish", S)
  <1> DEFINE S == PublishesOf(m)
  <1>1. SessionOK(OutK) /\ Wired(OutK) /\ {"SendPublish", "Status"} \subseteq Actor
    BY TypeParts, OutWired, OutgoingAssumption, ActorAssumption
  <1>2. ASSUME NEW i \in DOMAIN mbox["SendPublish"], IsPublishOf(mbox["SendPublish"][i], m)
        PROVE  mbox["SendPublish"][i] \in S
    <2>1. mbox["SendPublish"][i] \in MessagesTo("SendPublish")
      BY <1>1, OutKFields, ElementOfSeq DEF SessionOK
    <2> QED
      BY <1>2, <2>1, HeadOfSendPublish DEF IsPublishOf, PublishesOf
  <1>3. ASSUME NEW r \in Resends, r.to = "SendPublish", IsPublishOf(r.msg, m)
        PROVE  r.msg \in S /\ r \in ResendsFor(OutK, "SendPublish", S)
    <2>1. r.msg \in MessagesTo("SendPublish")
      BY <1>1, <1>3, OutKFields DEF Wired
    <2> QED
      BY <1>3, <2>1, HeadOfSendPublish, OutKFields DEF IsPublishOf, PublishesOf, ResendsFor
  <1>4. ASSUME NEW t \in Tasks, t.actor = "SendPublish", IsPublishOf(t.msg, m)
        PROVE  t.msg \in S /\ t \in TasksFor(OutK, "SendPublish", S)
    <2>1. t.msg \in MessagesTo("SendPublish")
      BY <1>4, TaskMessage
    <2> QED
      BY <1>4, <2>1, HeadOfSendPublish, OutKFields DEF IsPublishOf, PublishesOf, TasksFor
  <1>5. ASSUME NEW i \in DOMAIN mbox["Status"],
               mbox["Status"][i].type = "Status", mbox["Status"][i].op = "GetAndRemove",
               mbox["Status"][i].task.actor = "SendPublish", IsPublishOf(mbox["Status"][i].task.msg, m)
        PROVE  mbox["Status"][i].task.msg \in S /\ mbox["Status"][i] \in Asks(OutK, "SendPublish", S)
    <2> DEFINE op == mbox["Status"][i]
    <2>1. op \in OutK.messages["Status"]
      BY <1>1, ElementOfSeq DEF SessionOK
    <2>2. op = GetAndRemovePacketStatus(op.task) /\ op.task \in Tasks
      BY <1>1, <1>5, <2>1, OutKFields DEF Wired
    <2>3. op.task \in TasksFor(OutK, "SendPublish", S) /\ op.task.msg \in S
      BY <1>4, <1>5, <2>2
    <2> QED
      BY <2>2, <2>3 DEF Asks
  <1>6. /\ BagToSet(resends) \subseteq Resends
        /\ BagToSet(timers) \cup BagToSet(asking) \subseteq Tasks
        /\ BagToSet(answered) \subseteq [task : Tasks, answer : Answer]
    BY DEF TypeOK
  <1>7. ASSUME NEW r \in BagToSet(answered), r.task.actor = "SendPublish", IsPublishOf(r.task.msg, m)
        PROVE  r.task.msg \in S /\ r \in AnswersFor(OutK, "SendPublish", S)
    BY <1>4, <1>6, <1>7, OutKFields DEF AnswersFor
  <1>8. \A r \in BagToSet(resends) :
            r.to = "SendPublish" /\ IsPublishOf(r.msg, m)
                => r.msg \in S /\ r \in ResendsFor(OutK, "SendPublish", S)
    BY <1>3, <1>6
  <1>9. \A t \in BagToSet(timers) \cup BagToSet(asking) :
            t.actor = "SendPublish" /\ IsPublishOf(t.msg, m)
                => t.msg \in S /\ t \in TasksFor(OutK, "SendPublish", S)
    BY <1>4, <1>6
  <1> QED
    BY <1>2, <1>5, <1>7, <1>8, <1>9

LEMMA ChainsCount == Chains => SingleRetryChain /\ RetryCountsAttempts /\ TransmissionBound
  <1> SUFFICES ASSUME Chains PROVE SingleRetryChain /\ RetryCountsAttempts /\ TransmissionBound
    OBVIOUS
  <1>1. TypeOK /\ \A m \in OutMsg : ChainOf(m)
    BY DEF Chains
  <1>2. ASSUME NEW m \in OutMsg
        PROVE  LET Test(msg) == IsPublishOf(msg, m) IN Continuations("SendPublish", Test) <= 1
    <2> DEFINE S == PublishesOf(m)
               Test(msg) == IsPublishOf(msg, m)
               InResend(r) == r.to = "SendPublish" /\ Test(r.msg)
               InTask(t)   == t.actor = "SendPublish" /\ Test(t.msg)
               InAnswer(r) == r.task.actor = "SendPublish" /\ Test(r.task.msg)
               InMailbox == {i \in DOMAIN mbox["SendPublish"] : Test(mbox["SendPublish"][i])}
               Questions == {i \in DOMAIN mbox["Status"] :
                                /\ mbox["Status"][i].type = "Status"
                                /\ mbox["Status"][i].op = "GetAndRemove"
                                /\ mbox["Status"][i].task.actor = "SendPublish"
                                /\ Test(mbox["Status"][i].task.msg)}
               Resent == UNION {{e} \X (1 .. resends[e]) : e \in {e \in BagToSet(resends) : InResend(e)}}
               Timed == UNION {{e} \X (1 .. timers[e]) : e \in {e \in BagToSet(timers) : InTask(e)}}
               Asking == UNION {{e} \X (1 .. asking[e]) : e \in {e \in BagToSet(asking) : InTask(e)}}
               Told == UNION {{e} \X (1 .. answered[e]) : e \in {e \in BagToSet(answered) : InAnswer(e)}}
    <2>1. OnceEverywhere(OutK, "SendPublish", S)
      BY <1>1 DEF ChainOf, AtMostOne
    <2>2. PICK here \in Place : NoneButAt(here, OutK, "SendPublish", S)
      BY <1>1 DEF ChainOf, AtMostOne
    <2>3. /\ \A x, y \in InMailbox : x = y
          /\ here # "mailbox" => InMailbox = {}
      BY <1>1, <2>1, <2>2, WhereMessagesOf DEF OnceEverywhere, NoneButAt, OnceIn, NoneIn
    <2>4. /\ \A x, y \in Questions : x = y
          /\ here # "status" => Questions = {}
      BY <1>1, <2>1, <2>2, WhereMessagesOf DEF OnceEverywhere, NoneButAt, OnceIn, NoneIn
    <2>5. /\ \A e, f \in BagToSet(resends) : InResend(e) /\ InResend(f) => e = f /\ resends[e] = 1
          /\ here # "resends" => \A e \in BagToSet(resends) : ~InResend(e)
      BY <1>1, <2>1, <2>2, WhereMessagesOf DEF OnceEverywhere, NoneButAt, OnceInBag, NoneInBag
    <2>6. /\ \A e, f \in BagToSet(timers) : InTask(e) /\ InTask(f) => e = f /\ timers[e] = 1
          /\ here # "timers" => \A e \in BagToSet(timers) : ~InTask(e)
      BY <1>1, <2>1, <2>2, WhereMessagesOf DEF OnceEverywhere, NoneButAt, OnceInBag, NoneInBag
    <2>7. /\ \A e, f \in BagToSet(asking) : InTask(e) /\ InTask(f) => e = f /\ asking[e] = 1
          /\ here # "asking" => \A e \in BagToSet(asking) : ~InTask(e)
      BY <1>1, <2>1, <2>2, WhereMessagesOf DEF OnceEverywhere, NoneButAt, OnceInBag, NoneInBag
    <2>8. /\ \A e, f \in BagToSet(answered) : InAnswer(e) /\ InAnswer(f) => e = f /\ answered[e] = 1
          /\ here # "answered" => \A e \in BagToSet(answered) : ~InAnswer(e)
      BY <1>1, <2>1, <2>2, WhereMessagesOf DEF OnceEverywhere, NoneButAt, OnceInBag, NoneInBag
    <2>9. Continuations("SendPublish", Test)
              = Cardinality(InMailbox) + Cardinality(Questions)
                + Cardinality(Resent) + Cardinality(Timed)
                + Cardinality(Asking) + Cardinality(Told)
      BY DEF Continuations, QuestionsFor, Copies
    <2>10. (\A x, y \in Resent : x = y) /\ (here # "resends" => Resent = {})
      BY <2>5
    <2>11. (\A x, y \in Timed : x = y) /\ (here # "timers" => Timed = {})
      BY <2>6
    <2>12. (\A x, y \in Asking : x = y) /\ (here # "asking" => Asking = {})
      BY <2>7
    <2>13. (\A x, y \in Told : x = y) /\ (here # "answered" => Told = {})
      BY <2>8
    <2> HIDE DEF Resent, Timed, Asking, Told, InMailbox, Questions, Test
    <2>14. /\ Cardinality(InMailbox) \in 0 .. 1 /\ (here # "mailbox" => Cardinality(InMailbox) = 0)
           /\ Cardinality(Questions) \in 0 .. 1 /\ (here # "status" => Cardinality(Questions) = 0)
           /\ Cardinality(Resent) \in 0 .. 1 /\ (here # "resends" => Cardinality(Resent) = 0)
           /\ Cardinality(Timed) \in 0 .. 1 /\ (here # "timers" => Cardinality(Timed) = 0)
           /\ Cardinality(Asking) \in 0 .. 1 /\ (here # "asking" => Cardinality(Asking) = 0)
           /\ Cardinality(Told) \in 0 .. 1 /\ (here # "answered" => Cardinality(Told) = 0)
      BY <2>3, <2>4, <2>10, <2>11, <2>12, <2>13, CardinalityAtMostOne
    <2>15. Cardinality(InMailbox) + Cardinality(Questions) + Cardinality(Resent)
               + Cardinality(Timed) + Cardinality(Asking) + Cardinality(Told) <= 1
      BY <2>2, <2>14 DEF Place
    <2> QED
      BY <2>9, <2>15 DEF Test
  <1>3. RetryCountsAttempts
    <2> DEFINE Old(msg) == msg.type = "Publish" /\ msg.retry < Len(sentAs[msg.m])
    <2>1. ASSUME NEW m \in OutMsg, NEW x \in PublishesOf(m), x.retry < Len(sentAs[m])
          PROVE  /\ \A i \in DOMAIN mbox["SendPublish"] : mbox["SendPublish"][i] # x
                 /\ \A i \in DOMAIN mbox["Status"] :
                        mbox["Status"][i].task.msg = x =>
                            mbox["Status"][i] \notin Asks(OutK, "SendPublish", PublishesOf(m))
                 /\ \A r \in BagToSet(resends) :
                        r.msg = x => r \notin ResendsFor(OutK, "SendPublish", PublishesOf(m))
                 /\ \A t \in BagToSet(timers) \cup BagToSet(asking) :
                        t.msg = x => t \notin TasksFor(OutK, "SendPublish", PublishesOf(m))
                 /\ \A r \in BagToSet(answered) :
                        r.task.msg = x => r \notin AnswersFor(OutK, "SendPublish", PublishesOf(m))
      <3>1. Absent(OutK, "SendPublish", {x})
        BY <1>1, <2>1 DEF ChainOf
      <3>2. \A op \in Asks(OutK, "SendPublish", PublishesOf(m)) :
                op.task.msg = x => op \in Asks(OutK, "SendPublish", {x})
        BY DEF Asks, TasksFor, GetAndRemovePacketStatus
      <3> QED
        BY <3>1, <3>2
           DEF Absent, NoneButAt, NoneIn, NoneInBag, TasksFor, ResendsFor, AnswersFor
    <2>2. ASSUME NEW msg, Old(msg), msg \in PublishesOf(msg.m)
          PROVE  msg.m \in OutMsg /\ IsPublishOf(msg, msg.m)
      BY <2>2 DEF PublishesOf, PublishMessages, IsPublishOf
    <2>3. ASSUME NEW msg, Old(msg)
          PROVE  IsPublishOf(msg, msg.m)
      BY <2>3 DEF IsPublishOf
    <2>4. ~Continues("SendPublish", Old)
      BY <1>1, <2>1, <2>2, <2>3, WhereMessagesOf DEF Continues, QuestionsFor
    <2> QED
      BY <2>4 DEF RetryCountsAttempts
  <1>4. TransmissionBound
    BY <1>1 DEF ChainOf, TransmissionBound
  <1> QED
    BY <1>2, <1>3, <1>4 DEF SingleRetryChain

\* The messages of m never fork: whatever step of SendPublishActor fails, a
\* full mailbox, a status check or its answer, m is handled again along one
\* path (publish.rs:92-165, macros.rs:64-91, mod.rs:110-186 of packets).
THEOREM RetryChainSingle == Spec => []SingleRetryChain
  <1>1. Init => Chains
    BY ChainsInit
  <1>2. Chains /\ [Next]_outgoingVars => Chains'
    BY ChainsStep
  <1>3. Chains => SingleRetryChain
    BY ChainsCount
  <1> QED
    BY <1>1, <1>2, <1>3, PTL DEF Spec

\* What SendPublishActor may still handle has counted every transmission in its
\* retry_count (create_retry_msg_from_msg, packets/mod.rs), so that
\* assert_valid_retry_count of macros.rs:1-19 sees them all.
THEOREM RetriesCounted == Spec => []RetryCountsAttempts
  <1>1. Init => Chains
    BY ChainsInit
  <1>2. Chains /\ [Next]_outgoingVars => Chains'
    BY ChainsStep
  <1>3. Chains => RetryCountsAttempts
    BY ChainsCount
  <1> QED
    BY <1>1, <1>2, <1>3, PTL DEF Spec

\* MAX_RETRY_COUNT bounds the transmissions of every message, whatever mailboxes
\* are full and whatever answers come late (publish.rs:92-165, macros.rs:1-19).
THEOREM TransmissionsBounded == Spec => []TransmissionBound
  <1>1. Init => Chains
    BY ChainsInit
  <1>2. Chains /\ [Next]_outgoingVars => Chains'
    BY ChainsStep
  <1>3. Chains => TransmissionBound
    BY ChainsCount
  <1> QED
    BY <1>1, <1>2, <1>3, PTL DEF Spec

=============================================================================
