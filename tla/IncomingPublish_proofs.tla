----------------------- MODULE IncomingPublish_proofs -----------------------
(***************************************************************************)
(* Proofs about IncomingPublish, for every number of messages,             *)
(* identifiers, retries and mailbox places: its type invariant, that the   *)
(* server lets go of a message of QoS 2 only when the application has it,  *)
(* and that the application gets a message no more often than the server   *)
(* sends it.                                                               *)
(***************************************************************************)
EXTENDS IncomingPublish, Chain_proofs

(* The exchange as Session_proofs sees it. *)

InResends ==
    [to : {"RecvPublish"}, msg : PublishMessages] \cup [to : {"Pubrel"}, msg : PubrelMessages]

InK ==
    [messages |-> [a \in Actor |-> MessagesTo(a)],
     resends |-> InResends, tasks |-> Tasks, timers |-> Timers,
     payload |-> Payload, client |-> ClientPackets, server |-> ServerPackets]

InVarsOK ==
    /\ stage \in [Inbound -> {"new", "publish", "release", "done"}]
    /\ sends \in [Inbound -> 0 .. MaxSends]
    /\ received \in [Inbound -> Nat]

LEMMA InKFields ==
    /\ \A a \in Actor : InK.messages[a] = MessagesTo(a)
    /\ InK.resends = InResends
    /\ InK.tasks = Tasks /\ InK.timers = Timers
    /\ InK.payload = Payload
    /\ InK.client = ClientPackets /\ InK.server = ServerPackets
  BY DEF InK

LEMMA TypeParts ==
    /\ TypeOK <=> SessionOK(InK) /\ InVarsOK
    /\ TypeOK' <=> SessionOK(InK)' /\ InVarsOK'
  <1>1. TypeOK <=> SessionOK(InK) /\ InVarsOK
    BY InKFields DEF TypeOK, SessionOK, InVarsOK, InResends
  <1>2. TypeOK' <=> SessionOK(InK)' /\ InVarsOK'
    BY InKFields DEF TypeOK, SessionOK, InVarsOK, InResends
  <1> QED
    BY <1>1, <1>2

-----------------------------------------------------------------------------
(* What each actor finds at the head of its mailbox. *)

LEMMA HeadOfRecvPublish ==
    ASSUME NEW msg \in MessagesTo("RecvPublish"), msg.type = "Publish"
    PROVE  msg \in PublishMessages
  BY StatusAssumption DEF MessagesTo, StopMessage, SendStatusMessages

LEMMA HeadOfPubrel ==
    ASSUME NEW msg \in MessagesTo("Pubrel"), msg.type = "Pubrel"
    PROVE  msg \in PubrelMessages
  BY StatusAssumption DEF MessagesTo, StopMessage, SendStatusMessages

LEMMA HeadOfApp ==
    ASSUME NEW msg \in MessagesTo("App"), msg.type = "PublishMessage"
    PROVE  msg.b \in Inbound /\ msg = PublishMessage(msg.b)
  BY StatusAssumption DEF MessagesTo, StopMessage, SendStatusMessages, PublishMessage

LEMMA HeadOfStatus ==
    ASSUME NEW msg \in MessagesTo("Status"), msg.type = "Status"
    PROVE  msg \in StatusMessages
  BY StatusAssumption DEF MessagesTo, StopMessage, SendStatusMessages

LEMMA HeadOfSend ==
    ASSUME NEW msg \in MessagesTo("Send"), msg.type = "Packet"
    PROVE  msg.packet \in ClientPackets
  BY StatusAssumption DEF MessagesTo, StopMessage, SendStatusMessages, VariablePacketMessages

LEMMA HeadOfDispatch ==
    ASSUME NEW msg \in MessagesTo("Dispatch"), msg.type = "Packet"
    PROVE  msg.packet \in ServerPackets
  BY StatusAssumption DEF MessagesTo, StopMessage, SendStatusMessages, VariablePacketMessages

\* A packet of the server becomes a message of the actor it is dispatched to.
LEMMA Dispatched ==
    ASSUME NEW packet \in ServerPackets
    PROVE  PacketMessage(packet, 0) \in MessagesTo(Target[packet.type])
  <1>1. 0 \in Retry
    BY StatusAssumption DEF Retry
  <1>2. CASE packet \in PublishPackets
    <2>1. packet.type = "Publish"
      BY <1>2 DEF PublishPackets, PublishPacketOf
    <2>2. PacketMessage(packet, 0) \in PublishMessages
      BY <1>1, <1>2, <2>1 DEF PacketMessage, PublishMessages
    <2> QED
      BY <2>1, <2>2, IncomingAssumption DEF MessagesTo
  <1>3. CASE packet \in IdPackets({"Pubrel"})
    <2>1. packet.type = "Pubrel"
      BY <1>3 DEF IdPackets
    <2>2. PacketMessage(packet, 0) \in PubrelMessages
      BY <1>1, <1>3, <2>1 DEF PacketMessage, PubrelMessages
    <2> QED
      BY <2>1, <2>2, IncomingAssumption DEF MessagesTo
  <1> QED
    BY <1>2, <1>3 DEF ServerPackets

LEMMA IncomingActors ==
    /\ {"Stop", "Send", "Recv", "Dispatch", "Status", "RecvPublish", "Pubrel", "App"} \subseteq Actor
    /\ SendStatusRecipient \subseteq {"Disconnect"}
    /\ SendStatusRecipient \subseteq Actor
  BY ActorAssumption, IncomingAssumption, StatusAssumption DEF IncomingActor

\* A check hands its actor a message of its own; a task that delivers is about
\* a message that has not been handled too often.
LEMMA TaskFields ==
    ASSUME NEW t \in Tasks
    PROVE  /\ t.id \in Id /\ t.id = t.msg.packet.id
           /\ t.actor \in {"RecvPublish", "Pubrel"}
           /\ t.actor = "RecvPublish" => t.msg \in PublishMessages
           /\ t.msg \in MessagesTo(t.actor)
           /\ t.kind = "deliver" =>
                  t.msg \in PublishMessages /\ ~RetryExhausted(t.msg) /\ t.msg.packet.qos = 2
           /\ "Closed" \notin t.expect
  BY DEF Tasks, Timers, TaskOf, MessagesTo

LEMMA TimersAreTasks == Timers \subseteq Tasks
  BY DEF Tasks

LEMMA InWired == Wired(InK)
  <1> USE InKFields, IncomingActors
  <1>1. \A a \in Actor : StopMessage \in InK.messages[a]
    BY DEF MessagesTo
  <1>2. \A r \in InK.resends : r.msg \in InK.messages[r.to]
    <2>1. \A r \in InResends : r.to \in Actor /\ r.msg \in MessagesTo(r.to)
      BY DEF InResends, MessagesTo
    <2> QED
      BY <2>1
  <1>3. \A t \in InK.tasks : /\ GetAndRemovePacketStatus(t) \in InK.messages["Status"]
                             /\ t.kind = "check" => t.msg \in InK.messages[t.actor]
    <2>1. \A t \in Tasks : GetAndRemovePacketStatus(t) \in StatusMessages
      BY DEF StatusMessages
    <2>2. StatusMessages \subseteq MessagesTo("Status")
      BY DEF MessagesTo
    <2>3. \A t \in Tasks : t.actor \in Actor /\ t.msg \in MessagesTo(t.actor)
      BY TaskFields
    <2> QED
      BY <2>1, <2>2, <2>3
  <1>4. ASSUME NEW op \in InK.messages["Status"], op.type = "Status"
        PROVE  /\ op.id \in Id
               /\ op.op = "Set" => op.payload \in InK.payload
               /\ op.op = "GetAndRemove" =>
                      op = GetAndRemovePacketStatus(op.task) /\ op.task \in InK.tasks
    <2>1. op \in StatusMessages
      BY <1>4, HeadOfStatus
    <2>2. CASE op \in [type : {"Status"}, op : {"Set"}, id : Id, payload : Payload]
               \/ op \in [type : {"Status"}, op : {"Remove"}, id : Id]
      BY <2>2
    <2>3. CASE op \in {GetAndRemovePacketStatus(t) : t \in Tasks}
      <3>1. PICK t \in Tasks : op = GetAndRemovePacketStatus(t)
        BY <2>3
      <3>2. t.id \in Id
        BY TaskFields
      <3> QED
        BY <3>1, <3>2 DEF GetAndRemovePacketStatus
    <2> QED
      BY <2>1, <2>2, <2>3 DEF StatusMessages
  <1>5. \A a \in SendStatusRecipient : \A f \in BOOLEAN :
            [type |-> "PacketSendStatus", finished |-> f] \in InK.messages[a]
    BY DEF MessagesTo, SendStatusMessages
  <1>6. \A msg \in InK.messages["Send"] : msg.type = "Packet" => msg.packet \in InK.client
    BY HeadOfSend
  <1>7. \A packet \in InK.server : VariablePacketMessage(packet) \in InK.messages["Dispatch"]
    BY DEF MessagesTo, VariablePacketMessage, VariablePacketMessages
  <1>8. ASSUME NEW msg \in InK.messages["Dispatch"], msg.type = "Packet"
        PROVE  PacketMessage(msg.packet, 0) \in InK.messages[Target[msg.packet.type]]
    <2>1. msg.packet \in ServerPackets
      BY <1>8, HeadOfDispatch
    <2>2. Target[msg.packet.type] \in Actor
      BY <2>1, IncomingAssumption DEF ServerPackets, PublishPackets, PublishPacketOf, IdPackets
    <2> QED
      BY <2>1, <2>2, Dispatched
  <1> QED
    BY <1>1, <1>2, <1>3, <1>4, <1>5, <1>6, <1>7, <1>8, TimersAreTasks DEF Wired

-----------------------------------------------------------------------------
(* What the handlers are made of. *)

LEMMA IdOfInbound == \A b \in Inbound : InId[b] \in Id
  BY IncomingAssumption, StatusAssumption DEF Id

LEMMA PublishFields ==
    ASSUME NEW msg \in PublishMessages
    PROVE  /\ msg.packet.b \in Inbound
           /\ msg.packet.id = InId[msg.packet.b] /\ msg.packet.id \in Id
           /\ msg.packet.qos = InQoS[msg.packet.b]
           /\ msg.type = "Publish"
           /\ msg.retry \in Nat
  <1>1. msg.packet \in PublishPackets /\ msg.type = "Publish" /\ msg.retry \in Retry
    BY DEF PublishMessages
  <1>2. PICK b \in Inbound : msg.packet = PublishPacketOf(b)
    BY <1>1 DEF PublishPackets
  <1> QED
    BY <1>1, <1>2, IdOfInbound DEF PublishPacketOf, Retry

LEMMA RetriedOK ==
    /\ \A msg \in PublishMessages :
           ~RetryExhausted(msg) => /\ Retried(msg) \in PublishMessages
                                   /\ Retried(msg).packet = msg.packet
                                   /\ Retried(msg).retry = msg.retry + 1
    /\ \A msg \in PubrelMessages :
           ~RetryExhausted(msg) => /\ Retried(msg) \in PubrelMessages
                                   /\ Retried(msg).packet = msg.packet
  BY StatusAssumption DEF Retried, RetryExhausted, PublishMessages, PubrelMessages, Retry

\* What the status actor, the SendActor, the application and resend() are given.
LEMMA RemoveToStatus == \A id \in Id : RemovePacketStatus(id) \in InK.messages["Status"]
  BY InKFields, IncomingActors DEF RemovePacketStatus, MessagesTo, StatusMessages

LEMMA SetToStatus ==
    \A id \in Id : SetPacketStatus(id, "PendingRel") \in InK.messages["Status"]
  BY InKFields, IncomingActors, IncomingAssumption DEF SetPacketStatus, MessagesTo, StatusMessages

LEMMA PacketToSend ==
    \A packet \in ClientPackets : VariablePacketMessage(packet) \in InK.messages["Send"]
  BY InKFields, IncomingActors DEF VariablePacketMessage, VariablePacketMessages, MessagesTo

LEMMA MessageToApp == \A b \in Inbound : PublishMessage(b) \in InK.messages["App"]
  BY InKFields, IncomingActors DEF MessagesTo

LEMMA AnswersOfClient ==
    \A id \in Id : /\ PubackPacket(id) \in ClientPackets
                   /\ PubrecPacket(id) \in ClientPackets
                   /\ PubcompPacket(id) \in ClientPackets
  BY DEF ClientPackets, IdPackets, PubackPacket, PubrecPacket, PubcompPacket

LEMMA PublishAgain ==
    \A msg \in PublishMessages : [to |-> "RecvPublish", msg |-> msg] \in InK.resends
  BY InKFields DEF InResends

\* The check of phase 2 is a timer that no actor owns.
LEMMA Phase2OK ==
    ASSUME NEW msg \in PublishMessages, ~RetryExhausted(msg)
    PROVE  Phase2(msg) \in InK.timers
  <1>1. /\ Retried(msg) \in PublishMessages /\ msg.packet.id \in Id
        /\ Retried(msg).packet = msg.packet
    BY RetriedOK, PublishFields
  <1>2. {"PendingRec"} \in SUBSET Payload
    BY IncomingAssumption
  <1> QED
    BY <1>1, <1>2, InKFields DEF Phase2, StatusCheck, Timers, TaskOf

\* What PUBREC and the status "PendingRel" do, from mailboxes box on.
LEMMA AnswerLevel2OK ==
    ASSUME TypeOK, NEW box, BoxesOK(InK, box), NEW msg \in PublishMessages, ~RetryExhausted(msg),
           SetSendSchedule(box, "RecvPublish", SetPacketStatus(msg.packet.id, "PendingRel"),
               PubrecPacket(msg.packet.id), Phase2(msg), Retried(msg))
    PROVE  /\ BoxesOK(InK, mbox')
           /\ BagToSet(resends') \subseteq InK.resends
           /\ BagToSet(timers') \subseteq InK.timers
  <1>1. SessionOK(InK) /\ Wired(InK) /\ msg.packet.id \in Id
    BY TypeParts, InWired, PublishFields
  <1> DEFINE op     == SetPacketStatus(msg.packet.id, "PendingRel")
             packet == PubrecPacket(msg.packet.id)
  <1>2. op \in InK.messages["Status"] /\ VariablePacketMessage(packet) \in InK.messages["Send"]
    BY <1>1, SetToStatus, PacketToSend, AnswersOfClient
  <1>3. Phase2(msg) \in InK.timers /\ [to |-> "RecvPublish", msg |-> Retried(msg)] \in InK.resends
    BY Phase2OK, RetriedOK, PublishAgain
  <1>4. SetSendSchedule(box, "RecvPublish", op, packet, Phase2(msg), Retried(msg))
    OBVIOUS
  <1> HIDE DEF op, packet
  <1> QED
    BY <1>1, <1>2, <1>3, <1>4, SetSendScheduleTyped

-----------------------------------------------------------------------------
(* One lemma per action of the component. *)

LEMMA InitOK == Init => TypeOK
  <1> SUFFICES ASSUME Init PROVE TypeOK
    OBVIOUS
  <1>1. SessionOK(InK)
    BY SessionInitTyped DEF Init
  <1>2. InVarsOK
    BY IncomingAssumption DEF Init, IncomingInit, InVarsOK
  <1> QED
    BY <1>1, <1>2, TypeParts

LEMMA Level0OK ==
    ASSUME TypeOK, NEW box, BoxesOK(InK, box), NEW msg \in PublishMessages, RecvLevel0(box, msg)
    PROVE  BoxesOK(InK, mbox')
  <1> DEFINE cleared == IF Closed("Status")
                        THEN Post(box, "Stop", StopMessage)
                        ELSE Post(box, "Status", RemovePacketStatus(0))
  <1>1. SessionOK(InK) /\ Wired(InK) /\ msg.packet.b \in Inbound /\ 0 \in Id
    BY TypeParts, InWired, PublishFields, StatusAssumption DEF Id
  <1>2. BoxesOK(InK, Post(box, "Stop", StopMessage))
    BY <1>1, PostStopTyped
  <1>3. BoxesOK(InK, Post(box, "Status", RemovePacketStatus(0)))
    BY <1>1, RemoveToStatus, PostTyped
  <1>4. BoxesOK(InK, cleared)
    BY <1>2, <1>3
  <1>5. IF Accepts("App") THEN mbox' = Post(cleared, "App", PublishMessage(msg.packet.b))
                          ELSE HandleSendError("App", cleared)
    BY DEF RecvLevel0
  <1> HIDE DEF cleared
  <1>6. PublishMessage(msg.packet.b) \in InK.messages["App"]
    BY <1>1, MessageToApp
  <1> QED
    BY <1>1, <1>4, <1>5, <1>6, PostTyped, SendErrorTyped

LEMMA Level1OK ==
    ASSUME TypeOK, NEW box, BoxesOK(InK, box), NEW msg \in PublishMessages, ~RetryExhausted(msg),
           RecvLevel1(box, msg)
    PROVE  BoxesOK(InK, mbox') /\ BagToSet(resends') \subseteq InK.resends
  <1> DEFINE acked == Post(box, "Send", VariablePacketMessage(PubackPacket(msg.packet.id)))
  <1>1. SessionOK(InK) /\ Wired(InK) /\ msg.packet.b \in Inbound /\ msg.packet.id \in Id
    BY TypeParts, InWired, PublishFields
  <1>2. [to |-> "RecvPublish", msg |-> Retried(msg)] \in InK.resends
        /\ BagToSet(resends) \subseteq InK.resends
    BY <1>1, RetriedOK, PublishAgain DEF SessionOK
  <1>3. BoxesOK(InK, acked)
    BY <1>1, PostTyped, PacketToSend, AnswersOfClient
  <1>4. \/ HandleSendErrorWithResend("Send", box, "RecvPublish", Retried(msg))
        \/ mbox' = Post(acked, "App", PublishMessage(msg.packet.b)) /\ UNCHANGED resends
        \/ HandleSendErrorWithResend("App", acked, "RecvPublish", Retried(msg))
    BY DEF RecvLevel1
  <1> HIDE DEF acked
  <1>5. PublishMessage(msg.packet.b) \in InK.messages["App"]
    BY <1>1, MessageToApp
  <1> QED
    BY <1>1, <1>2, <1>3, <1>4, <1>5, PostTyped, SendErrorWithResendTyped

LEMMA RecvPublishTakes ==
    ASSUME TypeOK, RecvPublishHandle
    PROVE  /\ BoxesOK(InK, Take("RecvPublish"))
           /\ Head(mbox["RecvPublish"]) \in PublishMessages
           /\ mbox["RecvPublish"] # <<>>
  <1>1. SessionOK(InK) /\ "RecvPublish" \in Actor /\ Handling("RecvPublish", "Publish")
    BY TypeParts, IncomingActors DEF RecvPublishHandle
  <1> QED
    BY <1>1, TakeTyped, HeadOfRecvPublish, InKFields

LEMMA RecvPublishHandleOK ==
    ASSUME TypeOK, RecvPublishHandle
    PROVE  TypeOK'
  <1> DEFINE msg == Head(mbox["RecvPublish"])
             box == Take("RecvPublish")
  <1>1. SessionOK(InK) /\ Wired(InK) /\ InVarsOK
    BY TypeParts, InWired
  <1>2. BoxesOK(InK, box) /\ msg \in PublishMessages /\ msg.packet.id \in Id
    BY RecvPublishTakes, PublishFields
  <1>3. /\ BagToSet(resends) \subseteq InK.resends
        /\ BagToSet(timers) \subseteq InK.timers
        /\ BagToSet(asking) \subseteq InK.tasks
    BY <1>1 DEF SessionOK
  <1>4. \/ GiveUp(box, msg.packet.id) /\ UNCHANGED asking
        \/ RecvLevel0(box, msg)
        \/ ~RetryExhausted(msg) /\ RecvLevel1(box, msg)
        \/ ~RetryExhausted(msg) /\ msg.packet.qos = 2 /\ RecvLevel2(box, msg)
    BY DEF RecvPublishHandle
  <1> HIDE DEF msg, box
  <1>5. /\ BoxesOK(InK, mbox')
        /\ BagToSet(resends') \subseteq InK.resends
        /\ BagToSet(timers') \subseteq InK.timers
        /\ BagToSet(asking') \subseteq InK.tasks
    <2>1. CASE GiveUp(box, msg.packet.id) /\ UNCHANGED asking
      <3>1. BoxesOK(InK, mbox')
        BY <1>1, <1>2, <2>1, RemoveToStatus, GiveUpTyped
      <3> QED
        BY <1>3, <2>1, <3>1 DEF GiveUp
    <2>2. CASE RecvLevel0(box, msg)
      BY <1>2, <1>3, <2>2, Level0OK DEF RecvLevel0
    <2>3. CASE ~RetryExhausted(msg) /\ RecvLevel1(box, msg)
      BY <1>2, <1>3, <2>3, Level1OK DEF RecvLevel1
    <2>4. CASE ~RetryExhausted(msg) /\ msg.packet.qos = 2 /\ RecvLevel2(box, msg)
      <3>1. DeliverTask(msg) \in Tasks
        BY <1>2, <2>4 DEF DeliverTask, Tasks, TaskOf
      <3>2. BagToSet(asking') \subseteq InK.tasks
        BY <1>3, <2>4, <3>1, BagAddElements, InKFields DEF RecvLevel2
      <3> QED
        BY <1>2, <1>3, <2>4, <3>2 DEF RecvLevel2
    <2> QED
      BY <1>4, <2>1, <2>2, <2>3, <2>4
  <1>6. UNCHANGED <<alive, packetStatus, answered, wireVars, inVars>>
    BY DEF RecvPublishHandle
  <1>7. SessionOK(InK)'
    BY <1>1, <1>5, <1>6 DEF SessionOK, BoxesOK, wireVars
  <1>8. InVarsOK'
    BY <1>1, <1>6 DEF InVarsOK, inVars
  <1> QED
    BY <1>7, <1>8, TypeParts

\* What a task that delivers has been told, and the message it is about.
LEMMA AnsweredOK ==
    ASSUME TypeOK, NEW r \in BagToSet(answered), r.task.kind = "deliver"
    PROVE  /\ r.task.msg \in PublishMessages /\ ~RetryExhausted(r.task.msg)
           /\ r.task.msg.packet.qos = 2
  <1>1. r.task \in Tasks
    BY DEF TypeOK
  <1> QED
    BY <1>1, TaskFields

LEMMA DeliverOK ==
    ASSUME TypeOK, Deliver
    PROVE  TypeOK'
  <1>1. SessionOK(InK) /\ Wired(InK) /\ InVarsOK /\ BoxesOK(InK, mbox)
    BY TypeParts, InWired DEF SessionOK, BoxesOK
  <1>2. PICK r \in BagToSet(answered) :
            /\ r.task.kind = "deliver"
            /\ answered' = BagRemove(answered, r)
            /\ \/ mbox' = Post(mbox, "Stop", StopMessage) /\ UNCHANGED <<resends, timers>>
               \/ DeliverNew(r.task.msg)
               \/ AnswerLevel2(mbox, r.task.msg)
            /\ UNCHANGED <<alive, packetStatus, asking, wireVars, inVars>>
    BY Zenon DEF Deliver
  <1> DEFINE msg       == r.task.msg
             delivered == Post(mbox, "App", PublishMessage(msg.packet.b))
  <1>3. msg \in PublishMessages /\ ~RetryExhausted(msg) /\ msg.packet.b \in Inbound
    BY <1>2, AnsweredOK, PublishFields
  <1>4. BoxesOK(InK, delivered)
    BY <1>1, <1>3, MessageToApp, PostTyped
  <1>5. \/ mbox' = Post(mbox, "Stop", StopMessage) /\ UNCHANGED <<resends, timers>>
        \/ HandleSendErrorWithResend("App", mbox, "RecvPublish", msg) /\ UNCHANGED timers
        \/ AnswerLevel2(delivered, msg)
        \/ AnswerLevel2(mbox, msg)
    BY <1>2 DEF DeliverNew
  <1> HIDE DEF msg, delivered
  <1>6. BagToSet(resends) \subseteq InK.resends /\ BagToSet(timers) \subseteq InK.timers
    BY <1>1 DEF SessionOK
  <1>7. /\ BoxesOK(InK, mbox')
        /\ BagToSet(resends') \subseteq InK.resends
        /\ BagToSet(timers') \subseteq InK.timers
    <2>1. CASE mbox' = Post(mbox, "Stop", StopMessage) /\ UNCHANGED <<resends, timers>>
      BY <1>1, <1>6, <2>1, PostStopTyped
    <2>2. CASE HandleSendErrorWithResend("App", mbox, "RecvPublish", msg) /\ UNCHANGED timers
      BY <1>1, <1>3, <1>6, <2>2, PublishAgain, SendErrorWithResendTyped
    <2>3. CASE AnswerLevel2(delivered, msg)
      BY <1>3, <1>4, <2>3, AnswerLevel2OK DEF AnswerLevel2
    <2>4. CASE AnswerLevel2(mbox, msg)
      BY <1>1, <1>3, <2>4, AnswerLevel2OK DEF AnswerLevel2
    <2> QED
      BY <1>5, <2>1, <2>2, <2>3, <2>4
  <1>8. BagToSet(answered') \subseteq [task : InK.tasks, answer : Answer]
    BY <1>1, <1>2, BagRemoveElements DEF SessionOK
  <1>9. SessionOK(InK)'
    BY <1>1, <1>2, <1>7, <1>8 DEF SessionOK, BoxesOK, wireVars
  <1>10. InVarsOK'
    BY <1>1, <1>2 DEF InVarsOK, inVars
  <1> QED
    BY <1>9, <1>10, TypeParts

LEMMA PubrelHandleOK ==
    ASSUME TypeOK, PubrelHandle
    PROVE  TypeOK'
  <1> DEFINE msg == Head(mbox["Pubrel"])
             id  == msg.packet.id
             op  == RemovePacketStatus(id)
  <1>1. SessionOK(InK) /\ Wired(InK) /\ InVarsOK /\ "Pubrel" \in Actor
    BY TypeParts, InWired, IncomingActors
  <1>2. /\ Handling("Pubrel", "Pubrel")
        /\ SendPacketHandle("Pubrel", msg, op, PubcompPacket(id), {"PendingRel"})
        /\ UNCHANGED <<wireVars, inVars>>
    BY DEF PubrelHandle
  <1>3. msg \in PubrelMessages
    BY <1>1, <1>2, TakeTyped, HeadOfPubrel, InKFields
  <1>4. id \in Id /\ PubcompPacket(id).id = id
    BY <1>3 DEF PubrelMessages, IdPackets, PubcompPacket
  <1>5. /\ op \in InK.messages["Status"]
        /\ VariablePacketMessage(PubcompPacket(id)) \in InK.messages["Send"]
    BY <1>4, RemoveToStatus, PacketToSend, AnswersOfClient
  <1>6. ASSUME ~RetryExhausted(msg)
        PROVE  /\ StatusCheck("Pubrel", "Pubrel", id, Retried(msg), {"PendingRel"}) \in InK.timers
               /\ [to |-> "Pubrel", msg |-> Retried(msg)] \in InK.resends
    <2>1. Retried(msg) \in PubrelMessages /\ Retried(msg).packet.id = id
      BY <1>3, <1>6, RetriedOK
    <2>2. {"PendingRel"} \in SUBSET Payload
      BY IncomingAssumption
    <2> QED
      BY <1>4, <2>1, <2>2, InKFields DEF StatusCheck, Timers, TaskOf, InResends
  <1> HIDE DEF msg, op
  <1>7. SessionOK(InK)'
    <2>1. /\ RemovePacketStatus(PubcompPacket(id).id) \in InK.messages["Status"]
          /\ ~RetryExhausted(msg) =>
                 /\ StatusCheck("Pubrel", "Pubrel", PubcompPacket(id).id, Retried(msg), {"PendingRel"})
                        \in InK.timers
                 /\ [to |-> "Pubrel", msg |-> Retried(msg)] \in InK.resends
      BY <1>4, <1>5, <1>6 DEF op
    <2> QED
      BY <1>1, <1>2, <1>5, <2>1, SendPacketHandleTyped
  <1>8. InVarsOK'
    BY <1>1, <1>2 DEF InVarsOK, inVars
  <1> QED
    BY <1>7, <1>8, TypeParts

LEMMA IncomingStatusHandleOK ==
    ASSUME TypeOK, IncomingStatusHandle
    PROVE  TypeOK'
  <1>1. SessionOK(InK)'
    BY TypeParts, InWired, StatusHandleTyped DEF IncomingStatusHandle
  <1>2. InVarsOK'
    BY TypeParts DEF IncomingStatusHandle, InVarsOK, inVars
  <1> QED
    BY <1>1, <1>2, TypeParts

LEMMA AppHandleOK ==
    ASSUME TypeOK, AppHandle
    PROVE  TypeOK'
  <1>1. SessionOK(InK) /\ InVarsOK /\ "App" \in Actor /\ Handling("App", "PublishMessage")
    BY TypeParts, IncomingActors DEF AppHandle
  <1>2. BoxesOK(InK, Take("App")) /\ Head(mbox["App"]).b \in Inbound
    BY <1>1, TakeTyped, HeadOfApp, InKFields
  <1>3. SessionOK(InK)'
    BY <1>1, <1>2 DEF AppHandle, SessionOK, BoxesOK, statusVars, wireVars
  <1>4. InVarsOK'
    BY <1>1, <1>2 DEF AppHandle, InVarsOK
  <1> QED
    BY <1>3, <1>4, TypeParts

LEMMA AppStopsOK ==
    ASSUME TypeOK, AppStops
    PROVE  TypeOK'
  <1>1. SessionOK(InK) /\ InVarsOK
    BY TypeParts
  <1>2. BoxesOK(InK, mbox')
    BY <1>1, EmptiedTyped DEF AppStops, SessionOK, BoxesOK
  <1>3. SessionOK(InK)'
    BY <1>1, <1>2 DEF AppStops, SessionOK, BoxesOK, statusVars, wireVars
  <1>4. InVarsOK'
    BY <1>1 DEF AppStops, InVarsOK, inVars
  <1> QED
    BY <1>3, <1>4, TypeParts

LEMMA BrokerPublishOK ==
    ASSUME TypeOK, NEW b \in Inbound, BrokerPublish(b)
    PROVE  TypeOK'
  <1>1. SessionOK(InK) /\ InVarsOK
    BY TypeParts
  <1>2. PublishPacketOf(b) \in InK.server
    BY InKFields DEF ServerPackets, PublishPackets
  <1>3. fromBroker' \in Seq(InK.server)
    BY <1>1, <1>2, AppendProperties DEF BrokerPublish, SessionOK
  <1>4. SessionOK(InK)'
    BY <1>1, <1>3 DEF BrokerPublish, SessionOK, actorVars, statusVars
  <1>5. InVarsOK'
    BY <1>1, IncomingAssumption DEF BrokerPublish, InVarsOK
  <1> QED
    BY <1>4, <1>5, TypeParts

LEMMA BrokerAnsweredOK ==
    ASSUME TypeOK, BrokerAnswered
    PROVE  TypeOK'
  <1> DEFINE packet == Head(toBroker)
  <1>1. SessionOK(InK) /\ InVarsOK
    BY TypeParts
  <1>2. toBroker \in Seq(ClientPackets) /\ toBroker # <<>> /\ fromBroker \in Seq(ServerPackets)
    BY <1>1, InKFields DEF SessionOK, BrokerAnswered
  <1>3. packet \in ClientPackets /\ toBroker' \in Seq(ClientPackets)
    BY <1>2, HeadTailProperties DEF BrokerAnswered
  <1>4. PubrelPacket(packet.id) \in ServerPackets
    BY <1>3 DEF ClientPackets, ServerPackets, IdPackets, PubrelPacket
  <1>5. fromBroker' \in Seq(ServerPackets)
    BY <1>2, <1>4, AppendProperties DEF BrokerAnswered
  <1>6. SessionOK(InK)'
    BY <1>1, <1>3, <1>5, InKFields DEF BrokerAnswered, SessionOK, actorVars, statusVars
  <1>7. \A b \in Inbound : NextStage(b, packet.type) \in {"new", "publish", "release", "done"}
    BY <1>1 DEF NextStage, InVarsOK
  <1>8. InVarsOK'
    BY <1>1, <1>7 DEF BrokerAnswered, InVarsOK
  <1> QED
    BY <1>6, <1>8, TypeParts

LEMMA BackgroundOK ==
    ASSUME TypeOK, Background, UNCHANGED inVars
    PROVE  TypeOK'
  <1>1. SessionOK(InK)'
    BY TypeParts, InWired, BackgroundTyped
  <1>2. InVarsOK'
    BY TypeParts DEF InVarsOK, inVars
  <1> QED
    BY <1>1, <1>2, TypeParts

LEMMA StepOK == TypeOK /\ [Next]_incomingVars => TypeOK'
  <1> SUFFICES ASSUME TypeOK, [Next]_incomingVars PROVE TypeOK'
    OBVIOUS
  <1>1. CASE IncomingStep
    BY <1>1, RecvPublishHandleOK, DeliverOK, PubrelHandleOK, AppHandleOK, AppStopsOK,
       BrokerAnsweredOK, BrokerPublishOK DEF IncomingStep
  <1>2. CASE IncomingStatusHandle
    BY <1>2, IncomingStatusHandleOK
  <1>3. CASE Background /\ UNCHANGED inVars
    BY <1>3, BackgroundOK
  <1>4. CASE UNCHANGED incomingVars
    BY <1>4 DEF TypeOK, incomingVars, sessionVars, actorVars, statusVars, wireVars, inVars
  <1> QED
    BY <1>1, <1>2, <1>3, <1>4 DEF Next

\* In every execution a mailbox holds only messages its actor has a handler for,
\* and no message or task carries a retry_count above MaxRetryCount + 1
\* (assert_valid_retry_count, src/actors/packets/macros.rs:1-19), and none above
\* MaxRetryCount where that check has passed, as in the tasks that deliver a
\* message of QoS 2 (publish.rs:411-515).
THEOREM IncomingTypeCorrect == Spec => []TypeOK
  <1>1. Init => TypeOK
    BY InitOK
  <1>2. TypeOK /\ [Next]_incomingVars => TypeOK'
    BY StepOK
  <1> QED
    BY <1>1, <1>2, PTL DEF Spec

-----------------------------------------------------------------------------
(* A message of QoS 2 the application does not have yet leaves no trace:   *)
(* no status, nothing that will set one, no PUBREC, no attempt but first   *)
(* ones, no answer that calls it a duplicate, and a server that has not    *)
(* let go of it.  The trace is found by the packet identifier, so this     *)
(* needs a server that never uses an identifier for two messages.          *)

DistinctIds ==
    \A b, c \in Inbound : InQoS[b] # 0 /\ InQoS[c] # 0 /\ InId[b] = InId[c] => b = c

ToApp(b)        == {PublishMessage(b)}
SetsOf(b)       == {SetPacketStatus(InId[b], payload) : payload \in Payload}
PubrecsOf(b)    == {VariablePacketMessage(PubrecPacket(InId[b]))}
RetriesOf(b)    == {msg \in PublishMessages : msg.packet.b = b /\ msg.retry > 0}
DuplicatesOf(b) ==
    {r \in [task : Tasks, answer : Answer] :
        r.task.kind = "deliver" /\ r.task.msg.packet.b = b /\ r.answer \notin {NoStatus, "Closed"}}

Undelivered(b) ==
    "App" \in alive /\ received[b] = 0 /\ NoneIn(mbox["App"], ToApp(b))

NoTrace(b) ==
    /\ packetStatus[InId[b]] = NoStatus
    /\ NoneIn(mbox["Status"], SetsOf(b))
    /\ NoneIn(mbox["Send"], PubrecsOf(b))
    /\ NoneIn(toBroker, {PubrecPacket(InId[b])})
    /\ Absent(InK, "RecvPublish", RetriesOf(b))
    /\ NoneInBag(answered, DuplicatesOf(b))
    /\ stage[b] \in {"new", "publish"}

Unseen(b) == Undelivered(b) => NoTrace(b)

\* Mailboxes new have no more of a trace of b than mailboxes old.
Hush(old, new, b) ==
    /\ NoneIn(new["App"], ToApp(b)) => NoneIn(old["App"], ToApp(b))
    /\ NoneIn(old["Status"], SetsOf(b)) => NoneIn(new["Status"], SetsOf(b))
    /\ NoneIn(old["Send"], PubrecsOf(b)) => NoneIn(new["Send"], PubrecsOf(b))

LEMMA HushItself == \A box, b : Hush(box, box, b)
  BY DEF Hush

LEMMA HushOn ==
    ASSUME NEW b, NEW box, NEW box2, NEW box3, Hush(box, box2, b), Hush(box2, box3, b)
    PROVE  Hush(box, box3, b)
  BY DEF Hush

LEMMA ShorterInAppend ==
    ASSUME NEW M, NEW s \in Seq(M), NEW E, NEW x, NoneIn(Append(s, x), E)
    PROVE  NoneIn(s, E)
  <1>1. /\ Len(Append(s, x)) = Len(s) + 1 /\ Len(s) \in Nat
        /\ DOMAIN s = 1 .. Len(s) /\ DOMAIN Append(s, x) = 1 .. Len(s) + 1
        /\ \A i \in 1 .. Len(s) : Append(s, x)[i] = s[i]
    OBVIOUS
  <1> QED
    BY <1>1 DEF NoneIn

LEMMA PostHush ==
    ASSUME TypeOK, NEW b, NEW box, BoxesOK(InK, box), NEW a, NEW m,
           a = "Status" => m \notin SetsOf(b),
           a = "Send" => m \notin PubrecsOf(b)
    PROVE  Hush(box, Post(box, a, m), b)
  <1>1. CASE a \notin alive
    BY <1>1, HushItself DEF Post
  <1>2. CASE a \in alive
    <2>1. a \in Actor
      BY <1>2 DEF TypeOK
    <2>2. Post(box, a, m) = [box EXCEPT ![a] = Append(@, m)]
      BY <1>2 DEF Post
    <2>3. box[a] \in Seq(InK.messages[a]) /\ DOMAIN box = Actor
      BY <2>1 DEF BoxesOK
    <2>4. Post(box, a, m)[a] = Append(box[a], m) /\ \A c \in Actor \ {a} : Post(box, a, m)[c] = box[c]
      BY <2>1, <2>2, <2>3
    <2>5. \A E : /\ NoneIn(box[a], E) /\ m \notin E => NoneIn(Append(box[a], m), E)
                 /\ NoneIn(Append(box[a], m), E) => NoneIn(box[a], E)
      BY <2>3, NoneInAppend, ShorterInAppend
    <2> QED
      BY <2>1, <2>4, <2>5, IncomingActors DEF Hush
  <1> QED
    BY <1>1, <1>2

LEMMA OtherHush ==
    /\ \A b : StopMessage \notin SetsOf(b) \cup PubrecsOf(b)
    /\ \A b, id : RemovePacketStatus(id) \notin SetsOf(b)
    /\ \A b, t : GetAndRemovePacketStatus(t) \notin SetsOf(b)
    /\ \A b, id : /\ VariablePacketMessage(PubackPacket(id)) \notin PubrecsOf(b)
                  /\ VariablePacketMessage(PubcompPacket(id)) \notin PubrecsOf(b)
  BY DEF StopMessage, SetsOf, PubrecsOf, SetPacketStatus, RemovePacketStatus,
         GetAndRemovePacketStatus, VariablePacketMessage, PubackPacket, PubcompPacket, PubrecPacket

LEMMA PostStopHush ==
    ASSUME TypeOK, NEW b, NEW box, BoxesOK(InK, box)
    PROVE  Hush(box, Post(box, "Stop", StopMessage), b)
  BY PostHush

LEMMA TakeHush ==
    ASSUME TypeOK, NEW b, NEW a \in Actor \ {"App"}, mbox[a] # <<>>
    PROVE  Hush(mbox, Take(a), b)
  <1>1. mbox[a] \in Seq(MessagesTo(a)) /\ DOMAIN mbox = Actor
    BY DEF TypeOK
  <1>2. \A E : NoneIn(mbox[a], E) => NoneIn(Tail(mbox[a]), E)
    BY <1>1, InTail
  <1>3. Take(a)[a] = Tail(mbox[a]) /\ \A c \in Actor \ {a} : Take(a)[c] = mbox[c]
    BY <1>1 DEF Take
  <1> QED
    BY <1>2, <1>3, IncomingActors DEF Hush

LEMMA EmptiedHush ==
    ASSUME NEW b, NEW box, BoxesOK(InK, box), NEW a \in Actor \ {"App"}
    PROVE  Hush(box, [box EXCEPT ![a] = <<>>], b)
  <1>1. \A E : NoneIn(<<>>, E)
    BY DEF NoneIn
  <1> QED
    BY <1>1, IncomingActors DEF Hush, BoxesOK

LEMMA SendErrorHush ==
    ASSUME TypeOK, NEW b, NEW box, BoxesOK(InK, box), NEW target, HandleSendError(target, box)
    PROVE  Hush(box, mbox', b)
  BY PostStopHush, HushItself DEF HandleSendError

LEMMA SendErrorWithResendHush ==
    ASSUME TypeOK, NEW b, NEW box, BoxesOK(InK, box), NEW target, NEW a, NEW msg,
           HandleSendErrorWithResend(target, box, a, msg)
    PROVE  Hush(box, mbox', b)
  BY PostStopHush, HushItself DEF HandleSendErrorWithResend

LEMMA GiveUpHush ==
    ASSUME TypeOK, NEW b, NEW box, BoxesOK(InK, box), NEW id, GiveUp(box, id)
    PROVE  Hush(box, mbox', b)
  BY PostStopHush, PostHush, OtherHush DEF GiveUp

LEMMA SetSendScheduleHush ==
    ASSUME TypeOK, NEW b, NEW box, BoxesOK(InK, box), NEW a, NEW op, NEW packet, NEW check, NEW retry,
           op \in InK.messages["Status"], op \notin SetsOf(b),
           VariablePacketMessage(packet) \notin PubrecsOf(b),
           SetSendSchedule(box, a, op, packet, check, retry)
    PROVE  Hush(box, mbox', b)
  <1>1. BoxesOK(InK, Post(box, "Status", op)) /\ Hush(box, Post(box, "Status", op), b)
    BY PostTyped, PostHush, TypeParts
  <1> DEFINE box2 == Post(box, "Status", op)
  <1>2. Hush(box2, Post(box2, "Send", VariablePacketMessage(packet)), b)
    <2> HIDE DEF box2
    <2>1. BoxesOK(InK, box2)
      BY <1>1 DEF box2
    <2> QED
      BY <2>1, PostHush
  <1>3. CASE HandleSendErrorWithResend("Status", box, a, retry)
    BY <1>3, SendErrorWithResendHush
  <1>4. CASE HandleSendErrorWithResend("Send", box2, a, retry)
    <2>1. Hush(box2, mbox', b)
      BY <1>1, <1>4, SendErrorWithResendHush
    <2> QED
      BY <1>1, <2>1, HushOn
  <1>5. CASE mbox' = Post(box2, "Send", VariablePacketMessage(packet))
    BY <1>1, <1>2, <1>5, HushOn
  <1> QED
    BY <1>3, <1>4, <1>5 DEF SetSendSchedule

\* The server gets a PUBREC from the mailbox of the SendActor only.
WrittenBySend(b) ==
    NoneIn(mbox["Send"], PubrecsOf(b)) /\ NoneIn(toBroker, {PubrecPacket(InId[b])})
        => NoneIn(toBroker', {PubrecPacket(InId[b])})

\* A step that leaves the mailboxes quiet and everything else as it is.
LEMMA QuietStep ==
    ASSUME NEW b, Unseen(b), Hush(mbox, mbox', b), Carries(InK, "RecvPublish", RetriesOf(b)),
           packetStatus'[InId[b]] = NoStatus \/ packetStatus'[InId[b]] = packetStatus[InId[b]],
           WrittenBySend(b),
           NoneInBag(answered, DuplicatesOf(b)) => NoneInBag(answered', DuplicatesOf(b)),
           stage'[b] = stage[b], received'[b] = received[b], alive' \subseteq alive
    PROVE  Unseen(b)'
  <1> SUFFICES ASSUME Undelivered(b)' PROVE NoTrace(b)'
    BY DEF Unseen
  <1>1. Undelivered(b)
    BY DEF Undelivered, Hush
  <1>2. NoTrace(b)
    BY <1>1 DEF Unseen
  <1> QED
    BY <1>2 DEF NoTrace, WrittenBySend, Hush, Carries

-----------------------------------------------------------------------------
(* The steps that have nothing to do with b. *)

LEMMA RetriesFollowed ==
    ASSUME NEW b, NEW S \in SUBSET RetriesOf(b)
    PROVE  Followed(InK, "RecvPublish", S)
  <1>1. \A msg \in S : msg.type = "Publish" /\ msg.retry \in Nat /\ msg.retry > 0
    BY PublishFields DEF RetriesOf
  <1>2. "RecvPublish" \in Actor \ {"Status", "Send", "Dispatch"}
    BY IncomingActors
  <1>3. StopMessage \notin S /\ \A f \in BOOLEAN : [type |-> "PacketSendStatus", finished |-> f] \notin S
    BY <1>1 DEF StopMessage
  <1>4. ASSUME NEW msg \in InK.messages["Dispatch"], msg.type = "Packet"
        PROVE  PacketMessage(msg.packet, 0) \notin S \cup Asks(InK, "RecvPublish", S)
    <2>1. PacketMessage(msg.packet, 0) \notin S
      BY <1>1 DEF PacketMessage
    <2>2. msg.packet \in ServerPackets
      BY <1>4, HeadOfDispatch, InKFields, IncomingActors
    <2>3. PacketMessage(msg.packet, 0).type # "Status"
      BY <2>2 DEF PacketMessage, ServerPackets, PublishPackets, PublishPacketOf, IdPackets
    <2>4. \A e \in Asks(InK, "RecvPublish", S) : e.type = "Status"
      BY DEF Asks, GetAndRemovePacketStatus
    <2> QED
      BY <2>1, <2>3, <2>4
  <1>5. \A r \in InK.resends : r.to # "Status"
    BY InKFields DEF InResends
  <1>6. \A t \in InK.tasks : t.actor # "Status"
    BY InKFields, TaskFields
  <1> QED
    BY <1>2, <1>3, <1>4, <1>5, <1>6 DEF Followed

\* What Background keeps for Unseen(b): the mailboxes, the wire, the answers.
Quietly(b) ==
    /\ Hush(mbox, mbox', b)
    /\ WrittenBySend(b)
    /\ NoneInBag(answered, DuplicatesOf(b)) => NoneInBag(answered', DuplicatesOf(b))
    /\ packetStatus' = packetStatus
    /\ alive' \subseteq alive

LEMMA ClosedIsNoDuplicate == \A b, t : Answered(t, "Closed") \notin DuplicatesOf(b)
  BY DEF Answered, DuplicatesOf

LEMMA FewerAnswers ==
    ASSUME NEW b, NEW B, NEW x, NoneInBag(B, DuplicatesOf(b))
    PROVE  NoneInBag(BagRemove(B, x), DuplicatesOf(b))
  BY BagRemoveElements DEF NoneInBag

LEMMA ResendQuietly ==
    ASSUME TypeOK, NEW b, Resend, UNCHANGED <<statusVars, wireVars>>
    PROVE  Quietly(b)
  <1>1. PICK r \in BagToSet(resends) :
            /\ mbox' = Post(mbox, r.to, r.msg)
            /\ UNCHANGED alive
    BY DEF Resend
  <1>2. r.to \in {"RecvPublish", "Pubrel"} /\ BoxesOK(InK, mbox)
    BY TypeParts, InKFields DEF SessionOK, BoxesOK, InResends
  <1>3. Hush(mbox, mbox', b)
    BY <1>1, <1>2, PostHush
  <1> QED
    BY <1>1, <1>3 DEF Quietly, WrittenBySend, statusVars, wireVars

LEMMA BroadcastStopQuietly ==
    ASSUME TypeOK, NEW b, BroadcastStop, UNCHANGED <<statusVars, wireVars>>
    PROVE  Quietly(b)
  <1>1. mbox'["App"] = mbox["App"]
    BY IncomingAssumption, IncomingActors DEF BroadcastStop
  <1>2. ASSUME NEW a \in {"Status", "Send"}, NEW E, StopMessage \notin E, NoneIn(mbox[a], E)
        PROVE  NoneIn(mbox'[a], E)
    <2>1. mbox[a] \in Seq(MessagesTo(a))
      BY IncomingActors DEF TypeOK
    <2>2. mbox'[a] = mbox[a] \/ mbox'[a] = Append(mbox[a], StopMessage)
      BY IncomingActors DEF BroadcastStop
    <2> QED
      BY <1>2, <2>1, <2>2, NoneInAppend
  <1>3. Hush(mbox, mbox', b)
    BY <1>1, <1>2, OtherHush DEF Hush
  <1>4. alive' \subseteq alive
    BY DEF BroadcastStop
  <1> QED
    BY <1>3, <1>4 DEF Quietly, WrittenBySend, statusVars, wireVars

LEMMA TimerFiresQuietly ==
    ASSUME NEW b, TimerFires, UNCHANGED wireVars
    PROVE  Quietly(b)
  <1>1. UNCHANGED <<actorVars, packetStatus, answered, wireVars>>
    BY DEF TimerFires
  <1> QED
    BY <1>1, HushItself DEF Quietly, WrittenBySend, actorVars, wireVars

LEMMA AskStatusQuietly ==
    ASSUME TypeOK, NEW b, AskStatus, UNCHANGED wireVars
    PROVE  Quietly(b)
  <1>1. PICK t \in BagToSet(asking) :
            /\ \/ mbox' = Post(mbox, "Status", GetAndRemovePacketStatus(t)) /\ UNCHANGED answered
               \/ answered' = BagAdd(answered, Answered(t, "Closed")) /\ UNCHANGED mbox
            /\ UNCHANGED <<alive, packetStatus>>
    BY DEF AskStatus
  <1>2. BoxesOK(InK, mbox)
    BY TypeParts DEF SessionOK, BoxesOK
  <1>3. Hush(mbox, mbox', b)
    BY <1>1, <1>2, PostHush, OtherHush, HushItself
  <1>4. NoneInBag(answered, DuplicatesOf(b)) => NoneInBag(answered', DuplicatesOf(b))
    BY <1>1, BagAddElements, ClosedIsNoDuplicate DEF NoneInBag
  <1> QED
    BY <1>1, <1>3, <1>4 DEF Quietly, WrittenBySend, wireVars

LEMMA StatusCheckedQuietly ==
    ASSUME TypeOK, NEW b, StatusChecked, UNCHANGED wireVars
    PROVE  Quietly(b)
  <1>1. PICK r \in BagToSet(answered) :
            /\ answered' = BagRemove(answered, r)
            /\ \/ mbox' = Post(mbox, r.task.actor, r.task.msg)
               \/ mbox' = Post(mbox, "Stop", StopMessage)
               \/ mbox' = mbox
            /\ UNCHANGED <<alive, packetStatus>>
    BY DEF StatusChecked
  <1>2. r.task.actor \in {"RecvPublish", "Pubrel"} /\ BoxesOK(InK, mbox)
    BY TypeParts, TaskFields, InKFields DEF SessionOK, BoxesOK
  <1>3. Hush(mbox, mbox', b)
    BY <1>1, <1>2, PostHush, PostStopHush, HushItself
  <1> QED
    BY <1>1, <1>3, FewerAnswers DEF Quietly, WrittenBySend, wireVars

LEMMA SendHandleQuietly ==
    ASSUME TypeOK, NEW b, SendHandle, UNCHANGED statusVars
    PROVE  Quietly(b)
  <1> DEFINE msg == Head(mbox["Send"])
  <1>1. /\ mbox["Send"] \in Seq(MessagesTo("Send")) /\ mbox["Send"] # <<>>
        /\ toBroker \in Seq(ClientPackets)
    BY IncomingActors DEF TypeOK, SendHandle, Handling
  <1>2. msg \in MessagesTo("Send") /\ msg.type = "Packet"
    BY <1>1, HeadTailProperties DEF SendHandle, Handling
  <1>3. msg \in VariablePacketMessages(ClientPackets)
    BY <1>2, StatusAssumption DEF MessagesTo, StopMessage, SendStatusMessages
  <1>4. NoneIn(mbox["Send"], PubrecsOf(b)) => msg # VariablePacketMessage(PubrecPacket(InId[b]))
    BY <1>1 DEF NoneIn, PubrecsOf
  <1>5. NoneIn(mbox["Send"], PubrecsOf(b)) => msg.packet # PubrecPacket(InId[b])
    BY <1>3, <1>4 DEF VariablePacketMessages, VariablePacketMessage
  <1>6. Hush(mbox, mbox', b)
    BY <1>1, TakeHush, IncomingActors DEF SendHandle
  <1>7. WrittenBySend(b)
    BY <1>1, <1>5, NoneInAppend DEF SendHandle, WrittenBySend
  <1> QED
    BY <1>6, <1>7 DEF SendHandle, Quietly, statusVars

LEMMA BufferLostHides ==
    ASSUME TypeOK, BufferLost, NEW E, NoneIn(toBroker, E)
    PROVE  NoneIn(toBroker', E)
  <1>1. PICK n \in 0 .. Len(toBroker) : toBroker' = SubSeq(toBroker, 1, n)
    BY DEF BufferLost
  <1>2. toBroker \in Seq(ClientPackets)
    BY DEF TypeOK
  <1>3. /\ DOMAIN SubSeq(toBroker, 1, n) = 1 .. n /\ DOMAIN toBroker = 1 .. Len(toBroker)
        /\ Len(toBroker) \in Nat
        /\ \A i \in 1 .. n : SubSeq(toBroker, 1, n)[i] = toBroker[i]
    BY <1>2, SubSeqProperties
  <1> QED
    BY <1>1, <1>3 DEF NoneIn

LEMMA RecvPacketQuietly ==
    ASSUME TypeOK, NEW b, RecvPacket, UNCHANGED statusVars
    PROVE  Quietly(b)
  <1>1. BoxesOK(InK, mbox)
    BY TypeParts DEF SessionOK, BoxesOK
  <1>2. Hush(mbox, mbox', b)
    BY <1>1, PostHush, HushItself DEF RecvPacket
  <1> QED
    BY <1>2 DEF RecvPacket, Quietly, WrittenBySend, statusVars

LEMMA DispatchHandleQuietly ==
    ASSUME TypeOK, NEW b, DispatchHandle, UNCHANGED statusVars
    PROVE  Quietly(b)
  <1> DEFINE packet == Head(mbox["Dispatch"]).packet
             target == Target[packet.type]
             box    == Take("Dispatch")
  <1>1. SessionOK(InK) /\ "Dispatch" \in Actor /\ Handling("Dispatch", "Packet")
    BY TypeParts, IncomingActors DEF DispatchHandle
  <1>2. /\ BoxesOK(InK, box) /\ mbox["Dispatch"] # <<>>
        /\ packet \in ServerPackets
    BY <1>1, TakeTyped, HeadOfDispatch, InKFields
  <1>3. target \in {"RecvPublish", "Pubrel"}
    BY <1>2, IncomingAssumption DEF ServerPackets, PublishPackets, PublishPacketOf, IdPackets
  <1>4. Hush(mbox, box, b)
    BY <1>2, TakeHush, IncomingActors
  <1>5. mbox' = Post(box, target, PacketMessage(packet, 0)) \/ HandleSendError(target, box)
    BY DEF DispatchHandle
  <1> HIDE DEF box, target
  <1>6. Hush(box, mbox', b)
    BY <1>2, <1>3, <1>5, PostHush, SendErrorHush
  <1>7. Hush(mbox, mbox', b)
    BY <1>4, <1>6, HushOn
  <1> QED
    BY <1>7 DEF DispatchHandle, Quietly, WrittenBySend, statusVars, wireVars

LEMMA RecvFailsQuietly ==
    ASSUME TypeOK, NEW b, RecvFails, UNCHANGED statusVars
    PROVE  Quietly(b)
  <1> DEFINE box  == IF Accepts("Stop") THEN Post(mbox, "Stop", StopMessage) ELSE mbox
             box2 == Post(box, "Stop", StopMessage)
  <1>1. SessionOK(InK) /\ Wired(InK) /\ BoxesOK(InK, mbox) /\ "Recv" \in Actor
    BY TypeParts, InWired, IncomingActors DEF SessionOK, BoxesOK
  <1>2. BoxesOK(InK, box) /\ Hush(mbox, box, b)
    BY <1>1, PostStopTyped, PostStopHush, HushItself
  <1>3. mbox' = [box2 EXCEPT !["Recv"] = <<>>]
    BY DEF RecvFails
  <1> HIDE DEF box
  <1>4. BoxesOK(InK, box2) /\ Hush(box, box2, b)
    BY <1>1, <1>2, PostStopTyped, PostStopHush
  <1> HIDE DEF box2
  <1>5. Hush(box2, mbox', b)
    BY <1>1, <1>3, <1>4, EmptiedHush
  <1>6. Hush(mbox, mbox', b)
    BY <1>2, <1>4, <1>5, HushOn
  <1> QED
    BY <1>6 DEF RecvFails, Quietly, WrittenBySend, statusVars

LEMMA WriteErrorQuietly ==
    ASSUME TypeOK, NEW b, WriteError, UNCHANGED statusVars
    PROVE  Quietly(b)
  <1> DEFINE box == Post(mbox, "Stop", StopMessage)
  <1>1. SessionOK(InK) /\ Wired(InK) /\ BoxesOK(InK, mbox) /\ "Send" \in Actor
    BY TypeParts, InWired, IncomingActors DEF SessionOK, BoxesOK
  <1>2. BoxesOK(InK, box) /\ Hush(mbox, box, b)
    BY <1>1, PostStopTyped, PostStopHush
  <1>3. mbox' = [box EXCEPT !["Send"] = <<>>]
    BY DEF WriteError
  <1> HIDE DEF box
  <1>4. Hush(box, mbox', b)
    BY <1>1, <1>2, <1>3, EmptiedHush
  <1>5. Hush(mbox, mbox', b)
    BY <1>2, <1>4, HushOn
  <1> QED
    BY <1>5, BufferLostHides DEF WriteError, Quietly, WrittenBySend, statusVars

LEMMA StopHandleQuietly ==
    ASSUME TypeOK, NEW b, StopHandle
    PROVE  Quietly(b)
  <1>1. PICK a \in Registered :
            /\ HandleStop(a)
            /\ IF a = "Send" THEN BufferLost ELSE UNCHANGED toBroker
    BY DEF StopHandle
  <1> DEFINE box == [mbox EXCEPT ![a] = <<>>]
  <1>2. SessionOK(InK) /\ BoxesOK(InK, mbox) /\ a \in Actor \ {"App"}
    BY TypeParts, ActorAssumption, IncomingAssumption DEF SessionOK, BoxesOK
  <1>3. BoxesOK(InK, box) /\ Hush(mbox, box, b)
    BY <1>2, EmptiedTyped, EmptiedHush
  <1>4. mbox' = IF a = "Recv" THEN Post(box, "Stop", StopMessage) ELSE box
    BY <1>1 DEF HandleStop
  <1> HIDE DEF box
  <1>5. Hush(box, mbox', b)
    BY <1>3, <1>4, PostStopHush, HushItself
  <1>6. Hush(mbox, mbox', b)
    BY <1>3, <1>5, HushOn
  <1>7. NoneInBag(answered, DuplicatesOf(b)) => NoneInBag(answered', DuplicatesOf(b))
    <2>1. \A r \in BagToSet(Unanswerable(mbox["Status"])) : r \notin DuplicatesOf(b)
      BY ClosedIsNoDuplicate DEF Unanswerable, BagToSet
    <2>2. \/ answered' = answered
          \/ answered' = answered (+) Unanswerable(mbox["Status"])
      BY <1>1 DEF HandleStop
    <2> QED
      BY <2>1, <2>2, BagUnionElements DEF NoneInBag
  <1>8. WrittenBySend(b)
    BY <1>1, BufferLostHides DEF WrittenBySend
  <1>9. UNCHANGED packetStatus /\ alive' \subseteq alive
    BY <1>1 DEF HandleStop
  <1> QED
    BY <1>6, <1>7, <1>8, <1>9 DEF Quietly

LEMMA BackgroundQuietly ==
    ASSUME TypeOK, NEW b, Background
    PROVE  Quietly(b)
  <1>1. CASE Resend /\ UNCHANGED <<statusVars, wireVars>>
    BY <1>1, ResendQuietly
  <1>2. CASE BroadcastStop /\ UNCHANGED <<statusVars, wireVars>>
    BY <1>2, BroadcastStopQuietly
  <1>3. CASE TaskNext /\ UNCHANGED wireVars
    BY <1>3, TimerFiresQuietly, AskStatusQuietly, StatusCheckedQuietly DEF TaskNext
  <1>4. CASE TransportNext /\ UNCHANGED statusVars
    <2>1. CASE DispatchOrphaned
      BY <1>4, <2>1, HushItself DEF DispatchOrphaned, Quietly, WrittenBySend, statusVars, wireVars
    <2> QED
      BY <1>4, <2>1, SendHandleQuietly, RecvPacketQuietly, DispatchHandleQuietly,
         RecvFailsQuietly, WriteErrorQuietly DEF TransportNext, RecvError
  <1>5. CASE StopHandle
    BY <1>5, StopHandleQuietly
  <1> QED
    BY <1>1, <1>2, <1>3, <1>4, <1>5 DEF Background

LEMMA BackgroundUnseen ==
    ASSUME TypeOK, NEW b \in Inbound, Unseen(b), Background, UNCHANGED inVars
    PROVE  Unseen(b)'
  <1>1. Carries(InK, "RecvPublish", RetriesOf(b))
    BY TypeParts, InWired, RetriesFollowed, BackgroundCarries
  <1>2. alive' \subseteq alive
    BY DEF Background, Resend, BroadcastStop, TaskNext, TimerFires, AskStatus, StatusChecked,
           TransportNext, SendHandle, RecvPacket, DispatchHandle, RecvError, RecvFails, WriteError,
           DispatchOrphaned, StopHandle, HandleStop, actorVars
  <1>3. Quietly(b)
    BY BackgroundQuietly
  <1> QED
    BY <1>1, <1>2, <1>3, QuietStep DEF Quietly, inVars

-----------------------------------------------------------------------------
(* The steps of the exchange. *)

\* Another message, of any quality of service, has another identifier.
LEMMA OtherId ==
    ASSUME DistinctIds, NEW b \in Inbound, InQoS[b] = 2, NEW c \in Inbound, c # b
    PROVE  InId[c] # InId[b]
  BY IncomingAssumption, StatusAssumption DEF DistinctIds

\* PUBREC for another message: no trace of b.
LEMMA AnswerOtherQuietly ==
    ASSUME TypeOK, DistinctIds, NEW b \in Inbound, InQoS[b] = 2,
           NEW box, BoxesOK(InK, box), NEW msg \in PublishMessages, ~RetryExhausted(msg),
           msg.packet.b # b, AnswerLevel2(box, msg)
    PROVE  /\ Hush(box, mbox', b)
           /\ BoxKeeps(box, mbox', InK, "RecvPublish", RetriesOf(b))
           /\ BagKeeps(resends, resends', ResendsFor(InK, "RecvPublish", RetriesOf(b)))
           /\ BagKeeps(timers, timers', TasksFor(InK, "RecvPublish", RetriesOf(b)))
  <1> DEFINE op     == SetPacketStatus(msg.packet.id, "PendingRel")
             packet == PubrecPacket(msg.packet.id)
  <1>1. /\ SessionOK(InK) /\ Wired(InK)
        /\ Followed(InK, "RecvPublish", RetriesOf(b))
        /\ msg.packet.id \in Id /\ msg.packet.id # InId[b]
    BY TypeParts, InWired, RetriesFollowed, PublishFields, OtherId
  <1>2. op \in InK.messages["Status"] /\ op \notin SetsOf(b) /\ op.op = "Set"
    BY <1>1, SetToStatus DEF SetsOf, SetPacketStatus
  <1>3. VariablePacketMessage(packet) \notin PubrecsOf(b)
    BY <1>1 DEF PubrecsOf, VariablePacketMessage, PubrecPacket
  <1>4. Retried(msg) \notin RetriesOf(b)
    BY RetriedOK DEF RetriesOf
  <1>5. [to |-> "RecvPublish", msg |-> Retried(msg)] \notin ResendsFor(InK, "RecvPublish", RetriesOf(b))
    BY <1>4 DEF ResendsFor
  <1>6. Phase2(msg) \notin TasksFor(InK, "RecvPublish", RetriesOf(b))
    BY <1>4 DEF TasksFor, Phase2, StatusCheck
  <1>7. SetSendSchedule(box, "RecvPublish", op, packet, Phase2(msg), Retried(msg))
    BY DEF AnswerLevel2
  <1> HIDE DEF op, packet
  <1>8. Hush(box, mbox', b)
    BY <1>2, <1>3, <1>7, SetSendScheduleHush
  <1> QED
    BY <1>1, <1>2, <1>5, <1>6, <1>7, <1>8, SetSendScheduleKeeps

\* Nor does it take anything from the application.
LEMMA SetSendScheduleApp ==
    ASSUME TypeOK, NEW b, NEW box, BoxesOK(InK, box), NEW msg \in PublishMessages,
           SetSendSchedule(box, "RecvPublish", SetPacketStatus(msg.packet.id, "PendingRel"),
               PubrecPacket(msg.packet.id), Phase2(msg), Retried(msg))
    PROVE  NoneIn(mbox'["App"], ToApp(b)) => NoneIn(box["App"], ToApp(b))
  <1>1. \A x, a, m : a # "App" => Post(x, a, m)["App"] = x["App"]
    BY DEF Post
  <1>2. mbox'["App"] = box["App"]
    BY <1>1 DEF SetSendSchedule, HandleSendErrorWithResend
  <1> QED
    BY <1>2

\* The message RecvPublishActor finds is a first attempt, if it is b.
LEMMA FirstAttempt ==
    ASSUME NEW b, mbox["RecvPublish"] # <<>>, mbox["RecvPublish"] \in Seq(MessagesTo("RecvPublish")),
           Absent(InK, "RecvPublish", RetriesOf(b))
    PROVE  Head(mbox["RecvPublish"]) \notin RetriesOf(b)
  BY DEF Absent, NoneButAt, NoneIn

LEMMA RecvPublishHandleUnseen ==
    ASSUME TypeOK, DistinctIds, NEW b \in Inbound, InQoS[b] = 2, Unseen(b), RecvPublishHandle
    PROVE  Unseen(b)'
  <1> DEFINE msg == Head(mbox["RecvPublish"])
             box == Take("RecvPublish")
             S   == RetriesOf(b)
  <1>1. SessionOK(InK) /\ Wired(InK) /\ Followed(InK, "RecvPublish", S) /\ "RecvPublish" \in Actor
    BY TypeParts, InWired, RetriesFollowed, IncomingActors
  <1>2. /\ BoxesOK(InK, box) /\ msg \in PublishMessages /\ mbox["RecvPublish"] # <<>>
        /\ msg.packet.qos = InQoS[msg.packet.b]
    BY RecvPublishTakes, PublishFields
  <1>3. Hush(mbox, box, b) /\ BoxKeeps(mbox, box, InK, "RecvPublish", S)
    BY <1>1, <1>2, TakeHush, TakeKeeps
  <1>4. UNCHANGED <<alive, packetStatus, answered, wireVars, inVars>>
    BY DEF RecvPublishHandle
  <1>5. Absent(InK, "RecvPublish", S) => msg \notin S
    BY <1>2, FirstAttempt, IncomingActors DEF TypeOK
  <1>6. \/ GiveUp(box, msg.packet.id) /\ UNCHANGED asking
        \/ msg.packet.qos = 0 /\ RecvLevel0(box, msg)
        \/ ~RetryExhausted(msg) /\ msg.packet.qos = 1 /\ RecvLevel1(box, msg)
        \/ RecvLevel2(box, msg)
    BY DEF RecvPublishHandle
  <1> HIDE DEF msg, box
  <1>7. /\ Hush(box, mbox', b)
        /\ BoxKeeps(box, mbox', InK, "RecvPublish", S)
        /\ BagKeeps(resends, resends', ResendsFor(InK, "RecvPublish", S))
        /\ BagKeeps(timers, timers', TasksFor(InK, "RecvPublish", S))
        /\ Absent(InK, "RecvPublish", S) => BagKeeps(asking, asking', TasksFor(InK, "RecvPublish", S))
    <2>1. CASE GiveUp(box, msg.packet.id) /\ UNCHANGED asking
      <3>1. Hush(box, mbox', b) /\ BoxKeeps(box, mbox', InK, "RecvPublish", S)
        BY <1>1, <1>2, <2>1, GiveUpHush, GiveUpKeeps
      <3> QED
        BY <2>1, <3>1, BagKeepsItself DEF GiveUp
    <2>2. CASE msg.packet.qos = 0 /\ RecvLevel0(box, msg)
      <3> DEFINE stop    == Post(box, "Stop", StopMessage)
                 remove  == Post(box, "Status", RemovePacketStatus(0))
                 cleared == IF Closed("Status") THEN stop ELSE remove
      <3>1. BoxesOK(InK, stop) /\ Hush(box, stop, b) /\ BoxKeeps(box, stop, InK, "RecvPublish", S)
        BY <1>1, <1>2, PostStopTyped, PostStopHush, PostStopKeeps
      <3>2. RemovePacketStatus(0) \in InK.messages["Status"]
            /\ RemovePacketStatus(0) \notin Asks(InK, "RecvPublish", S)
        <4>1. 0 \in Id
          BY StatusAssumption DEF Id
        <4>2. RemovePacketStatus(0).op = "Remove"
          BY DEF RemovePacketStatus
        <4> QED
          BY <4>1, <4>2, RemoveToStatus, NotAsked
      <3>3. BoxesOK(InK, remove) /\ Hush(box, remove, b) /\ BoxKeeps(box, remove, InK, "RecvPublish", S)
        BY <1>1, <1>2, <3>2, PostTyped, PostHush, OtherHush, PostKeeps
      <3>4. BoxesOK(InK, cleared) /\ Hush(box, cleared, b) /\ BoxKeeps(box, cleared, InK, "RecvPublish", S)
        BY <3>1, <3>3
      <3>5. \/ mbox' = Post(cleared, "App", PublishMessage(msg.packet.b))
            \/ HandleSendError("App", cleared)
        BY <2>2 DEF RecvLevel0
      <3>6. UNCHANGED <<resends, timers, asking>>
        BY <2>2 DEF RecvLevel0
      <3> HIDE DEF cleared
      <3>7. Hush(cleared, mbox', b) /\ BoxKeeps(cleared, mbox', InK, "RecvPublish", S)
        BY <1>1, <3>4, <3>5, PostHush, PostKeeps, SendErrorHush, SendErrorKeeps
      <3>8. Hush(box, mbox', b) /\ BoxKeeps(box, mbox', InK, "RecvPublish", S)
        BY <3>4, <3>7, HushOn, BoxKeepsOn
      <3> QED
        BY <3>6, <3>8, BagKeepsItself
    <2>3. CASE ~RetryExhausted(msg) /\ msg.packet.qos = 1 /\ RecvLevel1(box, msg)
      <3> DEFINE packet == VariablePacketMessage(PubackPacket(msg.packet.id))
                 acked  == Post(box, "Send", packet)
      <3>1. /\ BoxesOK(InK, acked) /\ Hush(box, acked, b)
            /\ BoxKeeps(box, acked, InK, "RecvPublish", S)
        <4>1. packet \in InK.messages["Send"] /\ packet \notin PubrecsOf(b)
          BY <1>2, PublishFields, PacketToSend, AnswersOfClient, OtherHush
        <4> HIDE DEF packet
        <4> QED
          BY <1>1, <1>2, <4>1, PostTyped, PostHush, PostKeeps
      <3>2. [to |-> "RecvPublish", msg |-> Retried(msg)] \notin ResendsFor(InK, "RecvPublish", S)
        <4>1. InQoS[msg.packet.b] = 1
          BY <1>2, <2>3
        <4>2. msg.packet.b # b
          BY <4>1
        <4>3. Retried(msg).packet = msg.packet
          BY <1>2, <2>3, RetriedOK
        <4> QED
          BY <4>2, <4>3 DEF ResendsFor, RetriesOf
      <3>3. \/ HandleSendErrorWithResend("Send", box, "RecvPublish", Retried(msg))
            \/ mbox' = Post(acked, "App", PublishMessage(msg.packet.b)) /\ UNCHANGED resends
            \/ HandleSendErrorWithResend("App", acked, "RecvPublish", Retried(msg))
        BY <2>3 DEF RecvLevel1
      <3>4. UNCHANGED <<timers, asking>>
        BY <2>3 DEF RecvLevel1
      <3> HIDE DEF acked
      <3>5. CASE HandleSendErrorWithResend("Send", box, "RecvPublish", Retried(msg))
        BY <1>1, <1>2, <3>2, <3>4, <3>5, SendErrorWithResendHush, SendErrorWithResendKeeps, BagKeepsItself
      <3>6. CASE mbox' = Post(acked, "App", PublishMessage(msg.packet.b)) /\ UNCHANGED resends
        <4>1. Hush(acked, mbox', b) /\ BoxKeeps(acked, mbox', InK, "RecvPublish", S)
          BY <1>1, <3>1, <3>6, PostHush, PostKeeps
        <4>2. Hush(box, mbox', b) /\ BoxKeeps(box, mbox', InK, "RecvPublish", S)
          BY <3>1, <4>1, HushOn, BoxKeepsOn
        <4> QED
          BY <3>4, <3>6, <4>2, BagKeepsItself
      <3>7. CASE HandleSendErrorWithResend("App", acked, "RecvPublish", Retried(msg))
        <4>1. /\ Hush(acked, mbox', b) /\ BoxKeeps(acked, mbox', InK, "RecvPublish", S)
              /\ BagKeeps(resends, resends', ResendsFor(InK, "RecvPublish", S))
          BY <1>1, <3>1, <3>2, <3>7, SendErrorWithResendHush, SendErrorWithResendKeeps
        <4>2. Hush(box, mbox', b) /\ BoxKeeps(box, mbox', InK, "RecvPublish", S)
          BY <3>1, <4>1, HushOn, BoxKeepsOn
        <4> QED
          BY <3>4, <4>1, <4>2, BagKeepsItself
      <3> QED
        BY <3>3, <3>5, <3>6, <3>7
    <2>4. CASE RecvLevel2(box, msg)
      <3>1. Absent(InK, "RecvPublish", S) => DeliverTask(msg) \notin TasksFor(InK, "RecvPublish", S)
        BY <1>5 DEF TasksFor, DeliverTask
      <3>2. Absent(InK, "RecvPublish", S) => BagKeeps(asking, asking', TasksFor(InK, "RecvPublish", S))
        BY <2>4, <3>1, BagAddKeeps DEF RecvLevel2
      <3>3. mbox' = box /\ UNCHANGED <<resends, timers>>
        BY <2>4 DEF RecvLevel2
      <3> QED
        BY <3>2, <3>3, HushItself, BoxKeepsItself, BagKeepsItself
    <2> QED
      BY <1>6, <2>1, <2>2, <2>3, <2>4
  <1>8. Hush(mbox, mbox', b) /\ BoxKeeps(mbox, mbox', InK, "RecvPublish", S)
    BY <1>3, <1>7, HushOn, BoxKeepsOn
  <1>9. CASE ~Absent(InK, "RecvPublish", S)
    <2>1. ~Undelivered(b)
      BY <1>9 DEF Unseen, NoTrace
    <2>2. ~Undelivered(b)'
      BY <1>4, <1>8, <2>1 DEF Undelivered, Hush, inVars
    <2> QED
      BY <2>2 DEF Unseen
  <1>10. CASE Absent(InK, "RecvPublish", S)
    <2>1. Undisturbed(InK, "RecvPublish", S)
      BY <1>4, <1>7, <1>8, <1>10, BagKeepsItself DEF Undisturbed
    <2>2. Carries(InK, "RecvPublish", S)
      BY <2>1, UndisturbedCarries
    <2> QED
      BY <1>4, <1>8, <2>2, QuietStep DEF WrittenBySend, wireVars, inVars
  <1> QED
    BY <1>9, <1>10

\* A task that a trace of b would have answered as a duplicate.
LEMMA NewIsFirst ==
    ASSUME TypeOK, NEW b, NoTrace(b), NEW r \in BagToSet(answered),
           r.task.kind = "deliver", r.answer # "Closed", r.task.msg.packet.b = b
    PROVE  IsNew(r.task.msg, r.answer)
  <1>1. r \in [task : Tasks, answer : Answer]
    BY DEF TypeOK
  <1>2. r \notin DuplicatesOf(b) /\ r \notin AnswersFor(InK, "RecvPublish", RetriesOf(b))
    BY DEF NoTrace, NoneInBag, Absent, NoneButAt
  <1>3. r.task.msg \in PublishMessages /\ r.task.actor = "RecvPublish"
    BY <1>1 DEF Tasks, Timers, TaskOf
  <1>4. r.answer = NoStatus
    BY <1>1, <1>2 DEF DuplicatesOf
  <1>5. r.task.msg \notin RetriesOf(b)
    BY <1>1, <1>2, <1>3, InKFields DEF AnswersFor, TasksFor
  <1>6. r.task.msg.retry = 0
    BY <1>3, <1>5, PublishFields DEF RetriesOf
  <1> QED
    BY <1>4, <1>6 DEF IsNew

LEMMA DeliverUnseen ==
    ASSUME TypeOK, DistinctIds, NEW b \in Inbound, InQoS[b] = 2, Unseen(b), Deliver
    PROVE  Unseen(b)'
  <1> DEFINE S == RetriesOf(b)
  <1>1. PICK r \in BagToSet(answered) :
            /\ r.task.kind = "deliver"
            /\ answered' = BagRemove(answered, r)
            /\ \/ /\ mbox' = Post(mbox, "Stop", StopMessage)
                  /\ UNCHANGED <<resends, timers>>
               \/ r.answer # "Closed" /\ IsNew(r.task.msg, r.answer) /\ DeliverNew(r.task.msg)
               \/ r.answer # "Closed" /\ ~IsNew(r.task.msg, r.answer) /\ AnswerLevel2(mbox, r.task.msg)
            /\ UNCHANGED <<alive, packetStatus, asking, wireVars, inVars>>
    BY Zenon DEF Deliver
  <1> DEFINE msg       == r.task.msg
             delivered == Post(mbox, "App", PublishMessage(msg.packet.b))
  <1>2. /\ SessionOK(InK) /\ Wired(InK) /\ BoxesOK(InK, mbox)
        /\ Followed(InK, "RecvPublish", S)
    BY TypeParts, InWired, RetriesFollowed DEF SessionOK, BoxesOK
  <1>3. msg \in PublishMessages /\ ~RetryExhausted(msg) /\ msg.packet.b \in Inbound
    BY <1>1, AnsweredOK, PublishFields
  <1>4. /\ BoxesOK(InK, delivered) /\ Hush(mbox, delivered, b)
        /\ BoxKeeps(mbox, delivered, InK, "RecvPublish", S)
    BY <1>2, <1>3, MessageToApp, PostTyped, PostHush, PostKeeps, IncomingActors
  <1>5. UNCHANGED <<alive, packetStatus, asking, wireVars, inVars>>
    BY <1>1
  <1>6. \/ mbox' = Post(mbox, "Stop", StopMessage) /\ UNCHANGED <<resends, timers>>
        \/ /\ IsNew(msg, r.answer)
           /\ HandleSendErrorWithResend("App", mbox, "RecvPublish", msg) /\ UNCHANGED timers
        \/ Accepts("App") /\ AnswerLevel2(delivered, msg)
        \/ r.answer # "Closed" /\ ~IsNew(msg, r.answer) /\ AnswerLevel2(mbox, msg)
    BY <1>1 DEF DeliverNew
  <1>7. BagKeeps(answered, answered', AnswersFor(InK, "RecvPublish", S))
    BY <1>1, BagRemoveKeeps
  <1>8. NoneInBag(answered, DuplicatesOf(b)) => NoneInBag(answered', DuplicatesOf(b))
    BY <1>1, FewerAnswers
  <1> HIDE DEF delivered
  <1>9. ASSUME Hush(mbox, mbox', b), BoxKeeps(mbox, mbox', InK, "RecvPublish", S),
               BagKeeps(resends, resends', ResendsFor(InK, "RecvPublish", S)),
               BagKeeps(timers, timers', TasksFor(InK, "RecvPublish", S))
        PROVE  Unseen(b)'
    <2>1. Undisturbed(InK, "RecvPublish", S)
      BY <1>5, <1>7, <1>9, BagKeepsItself DEF Undisturbed
    <2>2. Carries(InK, "RecvPublish", S)
      BY <2>1, UndisturbedCarries
    <2> QED
      BY <1>5, <1>8, <1>9, <2>2, QuietStep DEF WrittenBySend, wireVars, inVars
  <1>10. CASE mbox' = Post(mbox, "Stop", StopMessage) /\ UNCHANGED <<resends, timers>>
    BY <1>2, <1>9, <1>10, PostStopHush, PostStopKeeps, BagKeepsItself
  <1>11. CASE /\ IsNew(msg, r.answer)
              /\ HandleSendErrorWithResend("App", mbox, "RecvPublish", msg) /\ UNCHANGED timers
    <2>1. msg.retry = 0
      BY <1>11 DEF IsNew
    <2>2. [to |-> "RecvPublish", msg |-> msg] \notin ResendsFor(InK, "RecvPublish", S)
      BY <2>1 DEF ResendsFor, RetriesOf
    <2> HIDE DEF msg
    <2> QED
      BY <1>2, <1>9, <1>11, <2>2, SendErrorWithResendHush, SendErrorWithResendKeeps, BagKeepsItself
  <1>12. CASE Accepts("App") /\ AnswerLevel2(delivered, msg)
    <2>1. CASE msg.packet.b = b
      <3>1. ~NoneIn(delivered["App"], ToApp(b))
        <4>1. mbox["App"] \in Seq(MessagesTo("App")) /\ "App" \in DOMAIN mbox
          BY IncomingActors DEF TypeOK
        <4>2. delivered["App"] = Append(mbox["App"], PublishMessage(b))
          BY <1>12, <2>1, <4>1 DEF delivered, Post, Accepts
        <4>3. /\ Append(mbox["App"], PublishMessage(b))[Len(mbox["App"]) + 1] = PublishMessage(b)
              /\ Len(mbox["App"]) + 1 \in DOMAIN Append(mbox["App"], PublishMessage(b))
          BY <4>1
        <4> QED
          BY <4>2, <4>3 DEF NoneIn, ToApp
      <3>2. NoneIn(mbox'["App"], ToApp(b)) => NoneIn(delivered["App"], ToApp(b))
        BY <1>3, <1>4, <1>12, SetSendScheduleApp DEF AnswerLevel2
      <3> QED
        BY <3>1, <3>2 DEF Unseen, Undelivered
    <2>2. CASE msg.packet.b # b
      <3>1. /\ Hush(delivered, mbox', b)
            /\ BoxKeeps(delivered, mbox', InK, "RecvPublish", S)
            /\ BagKeeps(resends, resends', ResendsFor(InK, "RecvPublish", S))
            /\ BagKeeps(timers, timers', TasksFor(InK, "RecvPublish", S))
        BY <1>3, <1>4, <1>12, <2>2, AnswerOtherQuietly
      <3>2. Hush(mbox, mbox', b) /\ BoxKeeps(mbox, mbox', InK, "RecvPublish", S)
        BY <1>4, <3>1, HushOn, BoxKeepsOn
      <3> QED
        BY <1>9, <3>1, <3>2
    <2> QED
      BY <2>1, <2>2
  <1>13. CASE r.answer # "Closed" /\ ~IsNew(msg, r.answer) /\ AnswerLevel2(mbox, msg)
    <2>1. CASE msg.packet.b = b
      <3>1. ~Undelivered(b)
        BY <1>1, <1>13, <2>1, NewIsFirst DEF Unseen
      <3>2. NoneIn(mbox'["App"], ToApp(b)) => NoneIn(mbox["App"], ToApp(b))
        BY <1>2, <1>3, <1>13, SetSendScheduleApp DEF AnswerLevel2
      <3> QED
        BY <1>5, <3>1, <3>2 DEF Unseen, Undelivered, inVars
    <2>2. CASE msg.packet.b # b
      BY <1>2, <1>3, <1>9, <1>13, <2>2, AnswerOtherQuietly
    <2> QED
      BY <2>1, <2>2
  <1> QED
    BY <1>6, <1>10, <1>11, <1>12, <1>13

LEMMA PubrelHandleUnseen ==
    ASSUME TypeOK, NEW b \in Inbound, Unseen(b), PubrelHandle
    PROVE  Unseen(b)'
  <1> DEFINE msg    == Head(mbox["Pubrel"])
             id     == msg.packet.id
             op     == RemovePacketStatus(id)
             packet == PubcompPacket(id)
             box    == Take("Pubrel")
             S      == RetriesOf(b)
  <1>1. /\ SessionOK(InK) /\ Wired(InK) /\ Followed(InK, "RecvPublish", S)
        /\ "Pubrel" \in Actor \ {"RecvPublish"} /\ "Pubrel" \in Actor \ {"App"}
    BY TypeParts, InWired, RetriesFollowed, IncomingActors
  <1>2. /\ Handling("Pubrel", "Pubrel")
        /\ SendPacketHandle("Pubrel", msg, op, packet, {"PendingRel"})
        /\ UNCHANGED <<wireVars, inVars>>
    BY DEF PubrelHandle
  <1>3. BoxesOK(InK, box) /\ mbox["Pubrel"] # <<>> /\ msg \in PubrelMessages
    BY <1>1, <1>2, TakeTyped, HeadOfPubrel, InKFields
  <1>4. op \in InK.messages["Status"] /\ op.op = "Remove" /\ op \notin SetsOf(b)
    <2>1. id \in Id
      BY <1>3 DEF PubrelMessages, IdPackets
    <2>2. op.op = "Remove"
      BY DEF RemovePacketStatus
    <2> QED
      BY <2>1, <2>2, RemoveToStatus, OtherHush
  <1>5. VariablePacketMessage(packet) \notin PubrecsOf(b)
    BY OtherHush
  <1>6. Hush(mbox, box, b)
    BY <1>1, <1>3, TakeHush
  <1>7. \/ GiveUp(box, packet.id)
        \/ SetSendSchedule(box, "Pubrel", op, packet,
               StatusCheck("Pubrel", "Pubrel", packet.id, Retried(msg), {"PendingRel"}), Retried(msg))
    BY <1>2 DEF SendPacketHandle
  <1> HIDE DEF msg, op, packet, box
  <1>8. Hush(box, mbox', b)
    BY <1>3, <1>4, <1>5, <1>7, GiveUpHush, SetSendScheduleHush
  <1>9. Hush(mbox, mbox', b)
    BY <1>6, <1>8, HushOn
  <1>10. Carries(InK, "RecvPublish", S)
    BY <1>1, <1>2, <1>4, SendPacketHandleCarries
  <1>11. UNCHANGED <<alive, packetStatus, answered, wireVars, inVars>>
    BY <1>2 DEF SendPacketHandle
  <1> QED
    BY <1>9, <1>10, <1>11, QuietStep DEF WrittenBySend, wireVars, inVars

LEMMA IncomingStatusHandleUnseen ==
    ASSUME TypeOK, NEW b \in Inbound, Unseen(b), IncomingStatusHandle
    PROVE  Unseen(b)'
  <1> DEFINE op == Head(mbox["Status"])
  <1>1. SessionOK(InK) /\ Wired(InK) /\ Followed(InK, "RecvPublish", RetriesOf(b))
    BY TypeParts, InWired, RetriesFollowed
  <1>2. StatusHandle /\ UNCHANGED <<wireVars, inVars>>
    BY DEF IncomingStatusHandle
  <1>3. Carries(InK, "RecvPublish", RetriesOf(b))
    BY <1>1, <1>2, StatusHandleCarries
  <1>4. /\ mbox["Status"] \in Seq(MessagesTo("Status")) /\ mbox["Status"] # <<>>
        /\ op \in MessagesTo("Status") /\ op.type = "Status"
    <2>1. Handling("Status", "Status") /\ "Status" \in Actor
      BY <1>2, IncomingActors DEF StatusHandle
    <2>2. mbox["Status"] \in Seq(MessagesTo("Status"))
      BY <2>1 DEF TypeOK
    <2> QED
      BY <1>1, <2>1, <2>2, TakeTyped, InKFields
  <1>5. op \in StatusMessages
    BY <1>4, HeadOfStatus
  <1>6. Hush(mbox, mbox', b)
    <2>1. Hush(mbox, Take("Status"), b)
      BY <1>4, TakeHush, IncomingActors
    <2>2. \A a \in {"App", "Status", "Send"} : mbox'[a] = Take("Status")[a]
      BY <1>2, IncomingActors DEF StatusHandle
    <2> QED
      BY <2>1, <2>2 DEF Hush
  <1>7. alive' = alive
    BY <1>2 DEF StatusHandle
  <1>8. CASE ~Undelivered(b)
    BY <1>2, <1>6, <1>7, <1>8 DEF Unseen, Undelivered, Hush, inVars
  <1>9. CASE Undelivered(b)
    <2>1. NoTrace(b)
      BY <1>9 DEF Unseen
    <2>2. op \notin SetsOf(b) /\ packetStatus[InId[b]] = NoStatus
      BY <1>4, <2>1 DEF NoTrace, NoneIn
    <2>3. packetStatus'[InId[b]] = NoStatus
      <3>1. packetStatus' = Apply(op) /\ packetStatus \in [Id -> Payload \cup {NoStatus}]
        BY <1>2 DEF StatusHandle, TypeOK
      <3>2. op.op = "Set" => op.id # InId[b]
        BY <1>5, <2>2 DEF StatusMessages, SetsOf, SetPacketStatus, GetAndRemovePacketStatus
      <3>3. InId[b] \in Id
        BY IdOfInbound
      <3>4. \/ op.op = "Set" /\ packetStatus' = [packetStatus EXCEPT ![op.id] = op.payload]
            \/ packetStatus' = [packetStatus EXCEPT ![op.id] = NoStatus]
        BY <3>1 DEF Apply
      <3> QED
        BY <2>2, <3>1, <3>2, <3>3, <3>4
    <2>4. NoneInBag(answered', DuplicatesOf(b))
      <3>1. NoneInBag(answered, DuplicatesOf(b))
        BY <2>1 DEF NoTrace
      <3>2. CASE op.op # "GetAndRemove"
        BY <1>2, <3>1, <3>2 DEF StatusHandle
      <3>3. CASE op.op = "GetAndRemove"
        <4> DEFINE r == Answered(op.task, packetStatus[op.id])
        <4>1. answered' = BagAdd(answered, r)
          BY <1>2, <3>3 DEF StatusHandle
        <4>2. op = GetAndRemovePacketStatus(op.task) /\ op.task \in Tasks
          BY <1>4, <3>3, InWired, InKFields, IncomingActors DEF Wired
        <4>3. op.id = op.task.id
          BY <4>2 DEF GetAndRemovePacketStatus
        <4>4. op.task.kind = "deliver" /\ op.task.msg.packet.b = b => op.task.id = InId[b]
          BY <4>2, TaskFields, PublishFields
        <4>5. r \notin DuplicatesOf(b)
          BY <2>2, <4>3, <4>4 DEF Answered, DuplicatesOf
        <4> HIDE DEF r
        <4> QED
          BY <3>1, <4>1, <4>5, BagAddElements DEF NoneInBag
      <3> QED
        BY <3>2, <3>3
    <2> QED
      BY <1>2, <1>3, <1>6, <1>7, <2>3, <2>4, QuietStep DEF WrittenBySend, wireVars, inVars
  <1> QED
    BY <1>8, <1>9

LEMMA AppHandleUnseen ==
    ASSUME TypeOK, NEW b \in Inbound, Unseen(b), AppHandle
    PROVE  Unseen(b)'
  <1> DEFINE first == Head(mbox["App"])
  <1>1. SessionOK(InK) /\ "App" \in Actor /\ Handling("App", "PublishMessage")
    BY TypeParts, IncomingActors DEF AppHandle
  <1>2. /\ mbox["App"] \in Seq(MessagesTo("App")) /\ mbox["App"] # <<>>
        /\ first.b \in Inbound /\ first = PublishMessage(first.b)
    BY <1>1, TakeTyped, HeadOfApp, InKFields DEF SessionOK
  <1>3. mbox' = Take("App") /\ alive' = alive
    BY DEF AppHandle
  <1>4. mbox'["App"] = Tail(mbox["App"]) /\ \A a \in Actor \ {"App"} : mbox'[a] = mbox[a]
    BY <1>1, <1>3 DEF Take, SessionOK
  <1>5. received \in [Inbound -> Nat] /\ received' = [received EXCEPT ![first.b] = @ + 1]
    BY DEF TypeOK, AppHandle
  <1>6. Undelivered(b)' => Undelivered(b)
    <2>1. SUFFICES ASSUME Undelivered(b)' PROVE Undelivered(b)
      OBVIOUS
    <2>2. first.b # b /\ received[b] = 0
      BY <1>2, <1>5, <2>1 DEF Undelivered
    <2>3. NoneIn(Tail(mbox["App"]), ToApp(b))
      BY <1>4, <2>1 DEF Undelivered
    <2>4. first \notin ToApp(b)
      BY <1>2, <2>2 DEF ToApp, PublishMessage
    <2>5. NoneIn(mbox["App"], ToApp(b))
      <3>1. SUFFICES ASSUME NEW i \in DOMAIN mbox["App"] PROVE mbox["App"][i] \notin ToApp(b)
        BY DEF NoneIn
      <3>2. CASE i = 1
        BY <2>4, <3>2
      <3>3. CASE i # 1
        <4>1. i \in 2 .. Len(mbox["App"]) /\ i - 1 \in 1 .. Len(mbox["App"]) - 1
          BY <1>2, <3>3
        <4>2. i - 1 \in DOMAIN Tail(mbox["App"]) /\ Tail(mbox["App"])[i - 1] = mbox["App"][i]
          BY <1>2, <4>1
        <4> QED
          BY <2>3, <4>2 DEF NoneIn
      <3> QED
        BY <3>2, <3>3
    <2> QED
      BY <1>3, <2>1, <2>2, <2>5 DEF Undelivered
  <1>7. Carries(InK, "RecvPublish", RetriesOf(b))
    <2>1. BoxKeeps(mbox, mbox', InK, "RecvPublish", RetriesOf(b))
      BY <1>1, <1>2, <1>3, TakeKeeps, IncomingActors
    <2> QED
      BY <2>1, OnlyBoxes DEF AppHandle
  <1>8. NoTrace(b) => NoTrace(b)'
    BY <1>4, <1>7, IncomingActors DEF AppHandle, NoTrace, Carries, statusVars, wireVars
  <1> QED
    BY <1>6, <1>8 DEF Unseen

\* The server sends b again, or another message; it reads an answer.
LEMMA BrokerPublishUnseen ==
    ASSUME TypeOK, NEW b \in Inbound, InQoS[b] = 2, Unseen(b), NEW c \in Inbound, BrokerPublish(c)
    PROVE  Unseen(b)'
  <1>1. UNCHANGED <<actorVars, statusVars, toBroker, received>>
    BY DEF BrokerPublish
  <1>2. stage[b] \in {"new", "publish"} => stage'[b] \in {"new", "publish"}
    BY DEF BrokerPublish, TypeOK
  <1>3. Carries(InK, "RecvPublish", RetriesOf(b))
    BY <1>1, BoxKeepsItself, OnlyBoxes DEF actorVars
  <1> QED
    BY <1>1, <1>2, <1>3 DEF Unseen, Undelivered, NoTrace, Carries, actorVars, statusVars

LEMMA BrokerAnsweredUnseen ==
    ASSUME TypeOK, NEW b \in Inbound, InQoS[b] = 2, Unseen(b), BrokerAnswered
    PROVE  Unseen(b)'
  <1> DEFINE packet == Head(toBroker)
  <1>1. UNCHANGED <<actorVars, statusVars, received>>
    BY DEF BrokerAnswered
  <1>2. Carries(InK, "RecvPublish", RetriesOf(b))
    BY <1>1, BoxKeepsItself, OnlyBoxes DEF actorVars
  <1>3. toBroker \in Seq(ClientPackets) /\ toBroker # <<>> /\ toBroker' = Tail(toBroker)
    BY DEF TypeOK, BrokerAnswered
  <1>4. /\ packet \in ClientPackets
        /\ NoneIn(toBroker, {PubrecPacket(InId[b])}) =>
               NoneIn(toBroker', {PubrecPacket(InId[b])}) /\ packet # PubrecPacket(InId[b])
    BY <1>3, HeadTailProperties, InTail DEF NoneIn
  <1>5. NoTrace(b) => stage'[b] \in {"new", "publish"}
    <2>1. SUFFICES ASSUME NoTrace(b) PROVE stage'[b] \in {"new", "publish"}
      OBVIOUS
    <2>2. stage[b] \in {"new", "publish"} /\ packet # PubrecPacket(InId[b])
      BY <1>4, <2>1 DEF NoTrace
    <2>3. stage'[b] = IF InFlight(b) /\ InId[b] = packet.id THEN NextStage(b, packet.type) ELSE stage[b]
      BY DEF BrokerAnswered
    <2>4. packet.id = InId[b] => packet.type # "Pubrec"
      BY <1>4, <2>2 DEF ClientPackets, IdPackets, PubrecPacket
    <2>5. packet.type # "Pubrec" => NextStage(b, packet.type) = stage[b]
      BY <2>2 DEF NextStage
    <2> QED
      BY <2>2, <2>3, <2>4, <2>5
  <1> QED
    BY <1>1, <1>2, <1>4, <1>5 DEF Unseen, Undelivered, NoTrace, Carries, actorVars, statusVars

-----------------------------------------------------------------------------

Traces == TypeOK /\ \A b \in Inbound : InQoS[b] = 2 => Unseen(b)

LEMMA InitTraces == Init => Traces
  <1> SUFFICES ASSUME Init, NEW b \in Inbound PROVE NoTrace(b)
    BY InitOK DEF Traces, Unseen
  <1>1. /\ \A a \in Actor : mbox[a] = <<>>
        /\ BagToSet(resends) = {} /\ BagToSet(timers) = {} /\ BagToSet(asking) = {}
        /\ BagToSet(answered) = {} /\ toBroker = <<>>
        /\ stage[b] = "new" /\ packetStatus[InId[b]] = NoStatus
    BY EmptyBagElements, IdOfInbound
       DEF Init, SessionInit, ActorsInit, StatusInit, TransportInit, IncomingInit
  <1>2. \A E : NoneIn(<<>>, E)
    BY DEF NoneIn
  <1> QED
    BY <1>1, <1>2, IncomingActors DEF NoTrace, Absent, NoneButAt, NoneInBag

LEMMA StepTraces == DistinctIds /\ Traces /\ [Next]_incomingVars => Traces'
  <1> SUFFICES ASSUME DistinctIds, TypeOK, [Next]_incomingVars,
                      NEW b \in Inbound, InQoS[b] = 2, Unseen(b)
               PROVE  Unseen(b)'
    BY StepOK DEF Traces
  <1>1. CASE RecvPublishHandle
    BY <1>1, RecvPublishHandleUnseen
  <1>2. CASE Deliver
    BY <1>2, DeliverUnseen
  <1>3. CASE PubrelHandle
    BY <1>3, PubrelHandleUnseen
  <1>4. CASE AppHandle
    BY <1>4, AppHandleUnseen
  <1>5. CASE AppStops
    BY <1>5 DEF AppStops, Unseen, Undelivered
  <1>6. CASE BrokerAnswered
    BY <1>6, BrokerAnsweredUnseen
  <1>7. CASE \E c \in Inbound : BrokerPublish(c)
    BY <1>7, BrokerPublishUnseen
  <1>8. CASE IncomingStatusHandle
    BY <1>8, IncomingStatusHandleUnseen
  <1>9. CASE Background /\ UNCHANGED inVars
    BY <1>9, BackgroundUnseen
  <1>10. CASE UNCHANGED incomingVars
    <2>1. Carries(InK, "RecvPublish", RetriesOf(b))
      BY <1>10, BoxKeepsItself, OnlyBoxes DEF incomingVars, sessionVars, actorVars
    <2> QED
      BY <1>10, <2>1 DEF incomingVars, sessionVars, actorVars, statusVars, wireVars, inVars,
                         Unseen, Undelivered, NoTrace, Carries
  <1> QED
    BY <1>1, <1>2, <1>3, <1>4, <1>5, <1>6, <1>7, <1>8, <1>9, <1>10 DEF Next, IncomingStep

\* What Delivered counts.
LEMMA DeliveredCounts ==
    ASSUME TypeOK, NEW b \in Inbound, "App" \in alive, ~Undelivered(b)
    PROVE  Delivered(b) > 0
  <1> DEFINE T == {i \in DOMAIN mbox["App"] : mbox["App"][i] = PublishMessage(b)}
  <1>1. received[b] \in Nat /\ mbox["App"] \in Seq(MessagesTo("App"))
    BY IncomingActors DEF TypeOK
  <1>2. IsFiniteSet(T)
    <2>1. T \subseteq 1 .. Len(mbox["App"]) /\ Len(mbox["App"]) \in Nat
      BY <1>1
    <2> QED
      BY <2>1, FS_Interval, FS_Subset
  <1>3. Cardinality(T) \in Nat
    BY <1>2, FS_CardinalityType
  <1>4. received[b] # 0 \/ T # {}
    BY DEF Undelivered, NoneIn, ToApp
  <1>5. T # {} => Cardinality(T) # 0
    BY <1>2, FS_EmptySet
  <1> HIDE DEF T
  <1>6. received[b] + Cardinality(T) > 0
    BY <1>1, <1>3, <1>4, <1>5
  <1> QED
    BY <1>6 DEF Delivered, T

\* The server lets go of a message of QoS 2 only when the application has got it
\* (publish.rs:336-518, where the PUBREC follows the message to the
\* application), however the mailboxes fill up, however often the server
\* repeats the PUBLISH and whatever else stops, as long as the application's
\* actor runs and the server does not use an identifier for two messages.
THEOREM ReleaseIsSafe ==
    ASSUME DistinctIds
    PROVE  Spec => []ReleasedMeansDelivered
  <1>1. Init => Traces
    BY InitTraces
  <1>2. Traces /\ [Next]_incomingVars => Traces'
    BY StepTraces
  <1>3. Traces => ReleasedMeansDelivered
    <2>1. SUFFICES ASSUME Traces, "App" \in alive, NEW b \in Inbound, InQoS[b] = 2,
                          stage[b] \in {"release", "done"}
                   PROVE  Delivered(b) > 0
      BY DEF ReleasedMeansDelivered
    <2>2. ~NoTrace(b)
      BY <2>1 DEF NoTrace
    <2>3. ~Undelivered(b) /\ TypeOK
      BY <2>1, <2>2 DEF Traces, Unseen
    <2> QED
      BY <2>1, <2>3, DeliveredCounts
  <1> QED
    BY <1>1, <1>2, <1>3, PTL DEF Spec

-----------------------------------------------------------------------------
(* What is on its way is worth for b: how often the application may still  *)
(* be given b because of it.  A PUBLISH is worth one, in whatever form; of *)
(* a QoS 2 message only the first attempt, since later ones never deliver. *)

PendingOf(b) == {msg \in PublishMessages :
                    msg.packet = PublishPacketOf(b) /\ (InQoS[b] = 2 => msg.retry = 0)}

Owed(b, a, m) ==
    \/ a = "RecvPublish" /\ m \in PendingOf(b)
    \/ a = "App" /\ m = PublishMessage(b)
    \/ a = "Dispatch" /\ m = VariablePacketMessage(PublishPacketOf(b))
    \/ a = "Status" /\ m \in Asks(InK, "RecvPublish", PendingOf(b))

Worth(b) == [a \in Actor |-> [m \in MessagesTo(a) |-> IF Owed(b, a, m) THEN 1 ELSE 0]]

LEMMA WorthIs ==
    ASSUME NEW b \in Inbound
    PROVE  \A a \in Actor : \A m \in MessagesTo(a) : Worth(b)[a][m] = IF Owed(b, a, m) THEN 1 ELSE 0
  BY DEF Worth

LEMMA WorthOfPublish ==
    ASSUME NEW b \in Inbound, NEW msg \in PublishMessages
    PROVE  /\ Worth(b)["RecvPublish"][msg] = IF msg \in PendingOf(b) THEN 1 ELSE 0
           /\ Worth(b)["RecvPublish"][msg] \in Nat
  <1>1. msg \in MessagesTo("RecvPublish")
    BY DEF MessagesTo
  <1>2. Owed(b, "RecvPublish", msg) <=> msg \in PendingOf(b)
    BY DEF Owed
  <1> QED
    BY <1>1, <1>2, WorthIs, IncomingActors

LEMMA WorthOfDelivery ==
    ASSUME NEW b \in Inbound, NEW c \in Inbound
    PROVE  Worth(b)["App"][PublishMessage(c)] = IF c = b THEN 1 ELSE 0
  <1>1. PublishMessage(c) \in MessagesTo("App")
    BY DEF MessagesTo
  <1>2. Owed(b, "App", PublishMessage(c)) <=> c = b
    BY DEF Owed, PublishMessage
  <1> QED
    BY <1>1, <1>2, WorthIs, IncomingActors

LEMMA WorthOfPacket ==
    ASSUME NEW b \in Inbound, NEW packet \in ServerPackets
    PROVE  /\ VariablePacketMessage(packet) \in MessagesTo("Dispatch")
           /\ Worth(b)["Dispatch"][VariablePacketMessage(packet)] =
                  IF packet = PublishPacketOf(b) THEN 1 ELSE 0
  <1>1. VariablePacketMessage(packet) \in MessagesTo("Dispatch")
    BY DEF MessagesTo, VariablePacketMessage, VariablePacketMessages
  <1>2. Owed(b, "Dispatch", VariablePacketMessage(packet)) <=> packet = PublishPacketOf(b)
    BY DEF Owed, VariablePacketMessage
  <1> QED
    BY <1>1, <1>2, WorthIs, IncomingActors

LEMMA WorthOfQuestion ==
    ASSUME NEW b \in Inbound, NEW t \in Tasks
    PROVE  Worth(b)["Status"][GetAndRemovePacketStatus(t)] =
               IF t.actor = "RecvPublish" /\ t.msg \in PendingOf(b) THEN 1 ELSE 0
  <1>1. GetAndRemovePacketStatus(t) \in MessagesTo("Status")
    BY DEF MessagesTo, StatusMessages
  <1>2. Owed(b, "Status", GetAndRemovePacketStatus(t)) <=> t.actor = "RecvPublish" /\ t.msg \in PendingOf(b)
    BY InKFields DEF Owed, Asks, TasksFor, GetAndRemovePacketStatus
  <1> QED
    BY <1>1, <1>2, WorthIs, IncomingActors

LEMMA WorthOfOperation ==
    ASSUME NEW b \in Inbound, NEW id \in Id
    PROVE  /\ Worth(b)["Status"][RemovePacketStatus(id)] = 0
           /\ Worth(b)["Status"][SetPacketStatus(id, "PendingRel")] = 0
  <1>1. RemovePacketStatus(id) \in MessagesTo("Status") /\ SetPacketStatus(id, "PendingRel") \in MessagesTo("Status")
    BY RemoveToStatus, SetToStatus, InKFields, IncomingActors
  <1>2. /\ ~Owed(b, "Status", RemovePacketStatus(id))
        /\ ~Owed(b, "Status", SetPacketStatus(id, "PendingRel"))
    BY DEF Owed, Asks, GetAndRemovePacketStatus, RemovePacketStatus, SetPacketStatus
  <1> QED
    BY <1>1, <1>2, WorthIs, IncomingActors

LEMMA WorthOfAnswer ==
    ASSUME NEW b \in Inbound, NEW packet \in ClientPackets
    PROVE  Worth(b)["Send"][VariablePacketMessage(packet)] = 0
  <1>1. VariablePacketMessage(packet) \in MessagesTo("Send")
    BY PacketToSend, InKFields, IncomingActors
  <1>2. ~Owed(b, "Send", VariablePacketMessage(packet))
    BY DEF Owed
  <1> QED
    BY <1>1, <1>2, WorthIs, IncomingActors

LEMMA WorthOfPubrel ==
    ASSUME NEW b \in Inbound, NEW msg \in PubrelMessages
    PROVE  Worth(b)["Pubrel"][msg] = 0
  <1>1. msg \in MessagesTo("Pubrel")
    BY DEF MessagesTo
  <1>2. ~Owed(b, "Pubrel", msg)
    BY DEF Owed
  <1> QED
    BY <1>1, <1>2, WorthIs, IncomingActors

LEMMA WorthWeighed ==
    ASSUME NEW b \in Inbound
    PROVE  Weighed(InK, Worth(b))
  <1> DEFINE w == Worth(b)
  <1> USE InKFields, IncomingActors
  <1>1. \A r \in InK.resends : r.to \in Actor
    BY DEF InResends
  <1>2. \A a \in Actor : \A m \in InK.messages[a] : w[a][m] \in Nat
    BY WorthIs
  <1>3. \A a \in Actor : w[a][StopMessage] = 0
    <2>1. ASSUME NEW a \in Actor PROVE w[a][StopMessage] = 0
      <3>1. StopMessage \in MessagesTo(a)
        BY DEF MessagesTo
      <3>2. ~Owed(b, a, StopMessage)
        BY DEF Owed, PendingOf, PublishMessages, PublishMessage, VariablePacketMessage, Asks,
               GetAndRemovePacketStatus, StopMessage
      <3> QED
        BY <3>1, <3>2, WorthIs
    <2> QED
      BY <2>1
  <1>4. \A a \in SendStatusRecipient : \A f \in BOOLEAN :
            w[a][[type |-> "PacketSendStatus", finished |-> f]] = 0
    <2>1. ASSUME NEW a \in SendStatusRecipient, NEW f \in BOOLEAN
          PROVE  w[a][[type |-> "PacketSendStatus", finished |-> f]] = 0
      <3>1. [type |-> "PacketSendStatus", finished |-> f] \in MessagesTo(a) /\ a = "Disconnect" /\ a \in Actor
        BY DEF MessagesTo, SendStatusMessages
      <3>2. ~Owed(b, a, [type |-> "PacketSendStatus", finished |-> f])
        BY <3>1 DEF Owed
      <3> QED
        BY <3>1, <3>2, WorthIs
    <2> QED
      BY <2>1
  <1>5. \A t \in InK.tasks : "Closed" \notin t.expect
    BY TaskFields
  <1>6. \A t \in InK.tasks : w[t.actor][t.msg] <= w["Status"][GetAndRemovePacketStatus(t)]
    <2>1. ASSUME NEW t \in Tasks PROVE w[t.actor][t.msg] <= w["Status"][GetAndRemovePacketStatus(t)]
      <3>1. /\ t.actor \in {"RecvPublish", "Pubrel"}
            /\ t.actor = "RecvPublish" => t.msg \in PublishMessages
            /\ t.actor = "Pubrel" => t.msg \in PubrelMessages
        BY DEF Tasks, Timers, TaskOf
      <3>2. CASE t.actor = "RecvPublish"
        BY <3>1, <3>2, WorthOfPublish, WorthOfQuestion
      <3>3. CASE t.actor = "Pubrel"
        BY <3>1, <3>3, WorthOfPubrel, WorthOfQuestion
      <3> QED
        BY <3>1, <3>2, <3>3
    <2> QED
      BY <2>1
  <1>7. ASSUME NEW msg \in InK.messages["Dispatch"], msg.type = "Packet"
        PROVE  w[Target[msg.packet.type]][PacketMessage(msg.packet, 0)] <= w["Dispatch"][msg]
    <2> DEFINE packet == msg.packet
    <2>1. packet \in ServerPackets /\ msg = VariablePacketMessage(packet)
      <3>1. msg \in MessagesTo("Dispatch")
        OBVIOUS
      <3>2. msg \in VariablePacketMessages(ServerPackets)
        BY <1>7, <3>1, StatusAssumption DEF MessagesTo, StopMessage, SendStatusMessages
      <3> QED
        BY <3>2 DEF VariablePacketMessages, VariablePacketMessage
    <2>2. w["Dispatch"][msg] = IF packet = PublishPacketOf(b) THEN 1 ELSE 0
      BY <2>1, WorthOfPacket
    <2>3. CASE packet \in PublishPackets
      <3>1. packet.type = "Publish" /\ PacketMessage(packet, 0).packet = packet
            /\ PacketMessage(packet, 0) \in PublishMessages
        BY <2>3, StatusAssumption
           DEF PublishPackets, PublishPacketOf, PacketMessage, PublishMessages, Retry
      <3>2. Target[packet.type] = "RecvPublish"
        BY <3>1, IncomingAssumption
      <3>3. w["RecvPublish"][PacketMessage(packet, 0)] =
                IF PacketMessage(packet, 0) \in PendingOf(b) THEN 1 ELSE 0
        BY <3>1, WorthOfPublish
      <3>4. PacketMessage(packet, 0) \in PendingOf(b) => packet = PublishPacketOf(b)
        BY <3>1 DEF PendingOf
      <3> QED
        BY <2>2, <3>2, <3>3, <3>4
    <2>4. CASE packet \in IdPackets({"Pubrel"})
      <3>1. packet.type = "Pubrel" /\ PacketMessage(packet, 0) \in PubrelMessages
        BY <2>4, StatusAssumption DEF IdPackets, PacketMessage, PubrelMessages, Retry
      <3>2. Target[packet.type] = "Pubrel"
        BY <3>1, IncomingAssumption
      <3> QED
        BY <2>2, <3>1, <3>2, WorthOfPubrel
    <2> QED
      BY <2>1, <2>3, <2>4 DEF ServerPackets
  <1> QED
    BY <1>1, <1>2, <1>3, <1>4, <1>5, <1>6, <1>7 DEF Weighed

\* What a message is worth when it is handled.
LEMMA WorthOfHandled ==
    ASSUME NEW b \in Inbound, NEW msg \in PublishMessages
    PROVE  /\ Worth(b)["RecvPublish"][msg] \in Nat
           /\ msg.packet.qos # 2 \/ msg.retry = 0 =>
                  Worth(b)["App"][PublishMessage(msg.packet.b)] <= Worth(b)["RecvPublish"][msg]
           /\ ~RetryExhausted(msg) =>
                  Worth(b)["RecvPublish"][Retried(msg)] <= Worth(b)["RecvPublish"][msg]
           /\ ~RetryExhausted(msg) /\ msg.packet.qos = 2 =>
                  Worth(b)["RecvPublish"][Retried(msg)] = 0
  <1>1. /\ msg.packet.b \in Inbound /\ msg.packet = PublishPacketOf(msg.packet.b)
        /\ msg.packet.qos = InQoS[msg.packet.b] /\ msg.retry \in Nat
    <2>1. msg.packet \in PublishPackets
      BY DEF PublishMessages
    <2>2. PICK c \in Inbound : msg.packet = PublishPacketOf(c)
      BY <2>1 DEF PublishPackets
    <2>3. msg.packet.b = c
      BY <2>2 DEF PublishPacketOf
    <2> QED
      BY <2>2, <2>3, PublishFields
  <1>2. Worth(b)["RecvPublish"][msg] = IF msg \in PendingOf(b) THEN 1 ELSE 0
    BY WorthOfPublish
  <1>3. msg \in PendingOf(b) <=> msg.packet.b = b /\ (msg.packet.qos = 2 => msg.retry = 0)
    <2>1. msg.packet = PublishPacketOf(b) <=> msg.packet.b = b
      BY <1>1 DEF PublishPacketOf
    <2> QED
      BY <1>1, <2>1 DEF PendingOf
  <1>4. Worth(b)["App"][PublishMessage(msg.packet.b)] = IF msg.packet.b = b THEN 1 ELSE 0
    BY <1>1, WorthOfDelivery
  <1>5. ASSUME ~RetryExhausted(msg)
        PROVE  /\ Worth(b)["RecvPublish"][Retried(msg)] = IF Retried(msg) \in PendingOf(b) THEN 1 ELSE 0
               /\ Retried(msg) \in PendingOf(b) => msg \in PendingOf(b) /\ msg.packet.qos # 2
    <2>1. /\ Retried(msg) \in PublishMessages /\ Retried(msg).packet = msg.packet
          /\ Retried(msg).retry = msg.retry + 1
      BY <1>5, RetriedOK
    <2>2. Worth(b)["RecvPublish"][Retried(msg)] = IF Retried(msg) \in PendingOf(b) THEN 1 ELSE 0
      BY <2>1, WorthOfPublish
    <2>3. ASSUME Retried(msg) \in PendingOf(b) PROVE msg \in PendingOf(b) /\ msg.packet.qos # 2
      <3>1. msg.packet = PublishPacketOf(b) /\ (InQoS[b] = 2 => msg.retry + 1 = 0)
        BY <2>1, <2>3 DEF PendingOf
      <3>2. InQoS[b] # 2 /\ msg.packet.qos = InQoS[b]
        BY <1>1, <3>1 DEF PublishPacketOf
      <3> QED
        BY <3>1, <3>2 DEF PendingOf
    <2> QED
      BY <2>2, <2>3
  <1> QED
    BY <1>2, <1>3, <1>4, <1>5

Once(b) == Counted(InK, Worth(b)) /\ received[b] + Load(InK, Worth(b)) <= sends[b]

LEMMA QuietOnce ==
    ASSUME TypeOK, NEW b \in Inbound, Once(b), Lightens(InK, Worth(b)), UNCHANGED <<sends, received>>
    PROVE  Once(b)'
  <1>1. Load(InK, Worth(b)) \in Nat /\ Load(InK, Worth(b))' \in Nat
    BY LoadsAreNat, LoadIsNatNext DEF Once, Lightens
  <1>2. received[b] \in Nat /\ sends[b] \in Nat
    BY DEF TypeOK
  <1>3. received[b] + Load(InK, Worth(b))' <= sends[b]
    BY <1>1, <1>2 DEF Once, Lightens
  <1>4. received'[b] = received[b] /\ sends'[b] = sends[b]
    OBVIOUS
  <1>5. Counted(InK, Worth(b))'
    BY DEF Lightens
  <1> QED
    BY <1>3, <1>4, <1>5 DEF Once

LEMMA InTyped ==
    ASSUME TypeOK, NEW b \in Inbound, Once(b)
    PROVE  /\ SessionOK(InK) /\ Wired(InK) /\ Weighed(InK, Worth(b)) /\ Counted(InK, Worth(b))
           /\ BoxesOK(InK, mbox) /\ BoxCountable(mbox, Worth(b))
  BY TypeParts, InWired, WorthWeighed DEF Once, SessionOK, BoxesOK, Counted

LEMMA Level0Adds ==
    ASSUME TypeOK, NEW b \in Inbound, Once(b), NEW box, BoxesOK(InK, box), BoxCountable(box, Worth(b)),
           NEW msg \in PublishMessages, msg.packet.qos = 0, RecvLevel0(box, msg)
    PROVE  Adds(InK, Worth(b), box, Worth(b)["RecvPublish"][msg])
  <1> DEFINE w       == Worth(b)
             n       == w["RecvPublish"][msg]
             cleared == IF Closed("Status")
                        THEN Post(box, "Stop", StopMessage)
                        ELSE Post(box, "Status", RemovePacketStatus(0))
             given   == PublishMessage(msg.packet.b)
  <1>1. /\ SessionOK(InK) /\ Wired(InK) /\ Weighed(InK, w) /\ Counted(InK, w)
        /\ msg.packet.b \in Inbound /\ 0 \in Id
    BY InTyped, PublishFields, StatusAssumption DEF Id
  <1>2. n \in Nat /\ w["App"][given] \in Nat /\ w["App"][given] <= n
    BY <1>1, WorthOfHandled, WorthOfDelivery
  <1>3. UNCHANGED <<resends, timers>>
        /\ IF Accepts("App") THEN mbox' = Post(cleared, "App", given) ELSE HandleSendError("App", cleared)
    BY DEF RecvLevel0
  <1>4. /\ BoxesOK(InK, cleared) /\ BoxCountable(cleared, w)
        /\ BoxLoad(cleared, w) \in Nat /\ BoxLoad(box, w) \in Nat /\ BoxLoad(cleared, w) <= BoxLoad(box, w)
    <2>1. CASE Closed("Status")
      BY <1>1, <2>1, PostStopTyped, PostStopLoad
    <2>2. CASE ~Closed("Status")
      <3>1. RemovePacketStatus(0) \in InK.messages["Status"] /\ w["Status"][RemovePacketStatus(0)] = 0
        BY <1>1, RemoveToStatus, WorthOfOperation
      <3> QED
        BY <1>1, <2>2, <3>1, PostTyped, PostNothing
    <2> QED
      BY <2>1, <2>2
  <1> HIDE DEF w, n, cleared, given
  <1>5. /\ BoxCountable(mbox', w) /\ BoxLoad(mbox', w) \in Nat
        /\ BoxLoad(mbox', w) <= BoxLoad(cleared, w) + n
    <2>1. CASE mbox' = Post(cleared, "App", given)
      BY <1>1, <1>2, <1>4, <2>1, PostLoad
    <2>2. CASE HandleSendError("App", cleared)
      <3>1. /\ BoxCountable(mbox', w) /\ BoxLoad(mbox', w) \in Nat
            /\ BoxLoad(mbox', w) <= BoxLoad(cleared, w)
        BY <1>1, <1>4, <2>2, SendErrorLoad
      <3> QED
        BY <1>2, <1>4, <3>1
    <2> QED
      BY <1>3, <2>1, <2>2
  <1>6. BoxLoad(mbox', w) <= BoxLoad(box, w) + n
    BY <1>2, <1>4, <1>5
  <1>7. BoxCountable(box, w)
    BY DEF w
  <1>8. Adds(InK, w, box, n)
    BY <1>1, <1>2, <1>3, <1>5, <1>6, <1>7, AddsToBox
  <1> QED
    BY <1>8 DEF w, n

LEMMA Level1Adds ==
    ASSUME TypeOK, NEW b \in Inbound, Once(b), NEW box, BoxesOK(InK, box), BoxCountable(box, Worth(b)),
           NEW msg \in PublishMessages, ~RetryExhausted(msg), msg.packet.qos = 1, RecvLevel1(box, msg)
    PROVE  Adds(InK, Worth(b), box, Worth(b)["RecvPublish"][msg])
  <1> DEFINE w     == Worth(b)
             n     == w["RecvPublish"][msg]
             acked == Post(box, "Send", VariablePacketMessage(PubackPacket(msg.packet.id)))
             given == PublishMessage(msg.packet.b)
  <1>1. /\ SessionOK(InK) /\ Wired(InK) /\ Weighed(InK, w) /\ Counted(InK, w)
        /\ msg.packet.b \in Inbound /\ msg.packet.id \in Id
    BY InTyped, PublishFields
  <1>2. /\ n \in Nat /\ w["App"][given] \in Nat /\ w["App"][given] <= n
        /\ w["RecvPublish"][Retried(msg)] <= n
    BY <1>1, WorthOfHandled, WorthOfDelivery
  <1>3. UNCHANGED timers
        /\ \/ HandleSendErrorWithResend("Send", box, "RecvPublish", Retried(msg))
           \/ mbox' = Post(acked, "App", given) /\ UNCHANGED resends
           \/ HandleSendErrorWithResend("App", acked, "RecvPublish", Retried(msg))
    BY DEF RecvLevel1
  <1>4. /\ BoxesOK(InK, acked) /\ BoxCountable(acked, w)
        /\ BoxLoad(acked, w) \in Nat /\ BoxLoad(box, w) \in Nat /\ BoxLoad(acked, w) <= BoxLoad(box, w)
    <2>1. /\ VariablePacketMessage(PubackPacket(msg.packet.id)) \in InK.messages["Send"]
          /\ w["Send"][VariablePacketMessage(PubackPacket(msg.packet.id))] = 0
      BY <1>1, PacketToSend, AnswersOfClient, WorthOfAnswer
    <2> QED
      BY <1>1, <2>1, PostTyped, PostNothing
  <1>5. [to |-> "RecvPublish", msg |-> Retried(msg)] \in InK.resends
    BY RetriedOK, PublishAgain
  <1>6. BoxCountable(box, w)
    OBVIOUS
  <1> HIDE DEF w, n, acked, given
  <1> SUFFICES Adds(InK, w, box, n)
    BY DEF w, n
  <1>7. BoxLoad(acked, w) <= BoxLoad(box, w) + 0 /\ 0 + n <= n /\ 0 \in Nat
    BY <1>2, <1>4
  <1>8. CASE HandleSendErrorWithResend("Send", box, "RecvPublish", Retried(msg))
    BY <1>1, <1>2, <1>3, <1>5, <1>6, <1>8, SendErrorWithResendAdds
  <1>9. CASE HandleSendErrorWithResend("App", acked, "RecvPublish", Retried(msg))
    <2>1. Adds(InK, w, acked, n)
      BY <1>1, <1>2, <1>3, <1>4, <1>5, <1>9, SendErrorWithResendAdds
    <2> QED
      BY <1>1, <1>2, <1>4, <1>6, <1>7, <2>1, AddsOn
  <1>10. CASE mbox' = Post(acked, "App", given) /\ UNCHANGED resends
    <2>1. /\ BoxCountable(mbox', w) /\ BoxLoad(mbox', w) \in Nat
          /\ BoxLoad(mbox', w) <= BoxLoad(acked, w) + n
      BY <1>1, <1>2, <1>4, <1>10, PostLoad
    <2>2. Adds(InK, w, acked, n)
      BY <1>1, <1>2, <1>3, <1>4, <1>10, <2>1, AddsToBox
    <2> QED
      BY <1>1, <1>2, <1>4, <1>6, <1>7, <2>2, AddsOn
  <1> QED
    BY <1>3, <1>8, <1>9, <1>10

LEMMA RecvPublishHandleOnce ==
    ASSUME TypeOK, NEW b \in Inbound, Once(b), RecvPublishHandle
    PROVE  Once(b)'
  <1> DEFINE w   == Worth(b)
             msg == Head(mbox["RecvPublish"])
             box == Take("RecvPublish")
             n   == w["RecvPublish"][msg]
  <1>1. /\ SessionOK(InK) /\ Wired(InK) /\ Weighed(InK, w) /\ Counted(InK, w) /\ BoxCountable(mbox, w)
        /\ "RecvPublish" \in Actor
    BY InTyped, IncomingActors
  <1>2. BoxesOK(InK, box) /\ msg \in PublishMessages /\ mbox["RecvPublish"] # <<>>
    BY RecvPublishTakes
  <1>3. BoxCountable(box, w) /\ n \in Nat
    BY <1>1, <1>2, TakeLoad, WorthOfHandled
  <1>4. /\ UNCHANGED <<answered, fromBroker, sends, received>>
        /\ \/ GiveUp(box, msg.packet.id) /\ UNCHANGED asking
           \/ msg.packet.qos = 0 /\ RecvLevel0(box, msg)
           \/ ~RetryExhausted(msg) /\ msg.packet.qos = 1 /\ RecvLevel1(box, msg)
           \/ ~RetryExhausted(msg) /\ msg.packet.qos = 2 /\ RecvLevel2(box, msg)
    BY DEF RecvPublishHandle, wireVars, inVars
  <1> SUFFICES Lightens(InK, w)
    BY <1>4, QuietOnce
  <1> HIDE DEF w, msg, box, n
  <1>5. ASSUME Adds(InK, w, box, n), UNCHANGED asking
        PROVE  Lightens(InK, w)
    <2>1. n <= w["RecvPublish"][Head(mbox["RecvPublish"])]
      BY <1>3 DEF n, msg
    <2> QED
      BY <1>1, <1>2, <1>3, <1>4, <1>5, <2>1, HandlerLightens DEF box
  <1>6. CASE GiveUp(box, msg.packet.id) /\ UNCHANGED asking
    <2>1. w["Status"][RemovePacketStatus(msg.packet.id)] = 0
      BY <1>2, PublishFields, WorthOfOperation DEF w
    <2>2. Adds(InK, w, box, n)
      BY <1>1, <1>2, <1>3, <1>6, <2>1, GiveUpAdds
    <2> QED
      BY <1>5, <1>6, <2>2
  <1>7. CASE msg.packet.qos = 0 /\ RecvLevel0(box, msg)
    <2>1. Adds(InK, w, box, n)
      BY <1>2, <1>3, <1>7, Level0Adds DEF w, n
    <2> QED
      BY <1>5, <1>7, <2>1 DEF RecvLevel0
  <1>8. CASE ~RetryExhausted(msg) /\ msg.packet.qos = 1 /\ RecvLevel1(box, msg)
    <2>1. Adds(InK, w, box, n)
      BY <1>2, <1>3, <1>8, Level1Adds DEF w, n
    <2> QED
      BY <1>5, <1>8, <2>1 DEF RecvLevel1
  <1>9. CASE ~RetryExhausted(msg) /\ msg.packet.qos = 2 /\ RecvLevel2(box, msg)
    <2> DEFINE t == DeliverTask(msg)
    <2>1. t \in Tasks /\ t.msg = msg /\ t.actor = "RecvPublish"
      BY <1>2, <1>9, PublishFields DEF DeliverTask, Tasks, TaskOf
    <2>2. w["Status"][GetAndRemovePacketStatus(t)] = n
      BY <1>2, <2>1, WorthOfQuestion, WorthOfPublish DEF w, n
    <2>3. mbox' = box /\ asking' = BagAdd(asking, t) /\ UNCHANGED <<resends, timers>>
      BY <1>9 DEF RecvLevel2
    <2> HIDE DEF t
    <2>4. w["Status"][GetAndRemovePacketStatus(t)] <= w["RecvPublish"][Head(mbox["RecvPublish"])]
      BY <1>3, <2>2 DEF n, msg
    <2> QED
      BY <1>1, <1>2, <1>4, <2>1, <2>3, <2>4, TaskStarts, InKFields DEF box
  <1> QED
    BY <1>4, <1>6, <1>7, <1>8, <1>9

\* Once a message of QoS 2 is answered, what is left of it is worth nothing.
LEMMA AnswerLevel2Adds ==
    ASSUME TypeOK, NEW b \in Inbound, Once(b), NEW box, BoxesOK(InK, box), BoxCountable(box, Worth(b)),
           NEW msg \in PublishMessages, ~RetryExhausted(msg), msg.packet.qos = 2, AnswerLevel2(box, msg)
    PROVE  Adds(InK, Worth(b), box, 0)
  <1> DEFINE w      == Worth(b)
             op     == SetPacketStatus(msg.packet.id, "PendingRel")
             packet == PubrecPacket(msg.packet.id)
             check  == Phase2(msg)
             retry  == Retried(msg)
  <1>1. /\ SessionOK(InK) /\ Wired(InK) /\ Weighed(InK, w) /\ Counted(InK, w) /\ msg.packet.id \in Id
    BY InTyped, PublishFields
  <1>2. /\ op \in InK.messages["Status"] /\ w["Status"][op] = 0
        /\ w["Send"][VariablePacketMessage(packet)] = 0
    BY <1>1, SetToStatus, WorthOfOperation, WorthOfAnswer, AnswersOfClient
  <1>3. w["RecvPublish"][retry] = 0 /\ retry \in PublishMessages
    BY WorthOfHandled, RetriedOK
  <1>4. [to |-> "RecvPublish", msg |-> retry] \in InK.resends
    BY <1>3, PublishAgain
  <1>5. check \in Tasks /\ check.actor = "RecvPublish" /\ check.msg = retry
    BY Phase2OK, TimersAreTasks, InKFields DEF Phase2, StatusCheck
  <1>6. w["Status"][GetAndRemovePacketStatus(check)] = 0
    BY <1>3, <1>5, WorthOfQuestion, WorthOfPublish
  <1>7. SetSendSchedule(box, "RecvPublish", op, packet, check, retry)
    BY DEF AnswerLevel2
  <1>8. BoxCountable(box, w) /\ check \in InK.tasks
    BY <1>5, InKFields
  <1> HIDE DEF w, op, packet, check, retry
  <1>9. /\ 0 \in Nat /\ w["RecvPublish"][retry] <= 0
        /\ w["Status"][GetAndRemovePacketStatus(check)] <= 0
    BY <1>3, <1>6
  <1>10. Adds(InK, w, box, 0)
    BY <1>1, <1>2, <1>4, <1>7, <1>8, <1>9, SetSendScheduleAdds
  <1> QED
    BY <1>10 DEF w

LEMMA DeliverOnce ==
    ASSUME TypeOK, NEW b \in Inbound, Once(b), Deliver
    PROVE  Once(b)'
  <1> DEFINE w == Worth(b)
  <1>1. /\ SessionOK(InK) /\ Wired(InK) /\ Weighed(InK, w) /\ Counted(InK, w)
        /\ BoxesOK(InK, mbox) /\ BoxCountable(mbox, w)
    BY InTyped
  <1>2. PICK r \in BagToSet(answered) :
            /\ r.task.kind = "deliver"
            /\ answered' = BagRemove(answered, r)
            /\ \/ /\ r.answer = "Closed"
                  /\ mbox' = Post(mbox, "Stop", StopMessage)
                  /\ UNCHANGED <<resends, timers>>
               \/ /\ r.answer # "Closed" /\ IsNew(r.task.msg, r.answer)
                  /\ DeliverNew(r.task.msg)
               \/ /\ r.answer # "Closed" /\ AnswerLevel2(mbox, r.task.msg)
            /\ UNCHANGED <<alive, packetStatus, asking, wireVars, inVars>>
    BY Zenon DEF Deliver
  <1> DEFINE msg   == r.task.msg
             n     == w["RecvPublish"][msg]
             given == PublishMessage(msg.packet.b)
             delivered == Post(mbox, "App", given)
  <1>3. /\ msg \in PublishMessages /\ ~RetryExhausted(msg) /\ msg.packet.qos = 2
        /\ msg.packet.b \in Inbound
    BY <1>2, AnsweredOK, PublishFields
  <1>4. n \in Nat /\ (msg.retry = 0 => w["App"][given] \in Nat /\ w["App"][given] <= n)
    BY <1>3, WorthOfHandled, WorthOfDelivery
  <1>5. AnswerWeight(InK, w)[r] = IF r.answer = "Closed" THEN 0 ELSE n
    <2>1. r \in [task : Tasks, answer : Answer]
      BY <1>1, InKFields DEF SessionOK
    <2>2. r.task.actor = "RecvPublish"
      BY <1>2, <2>1 DEF Tasks, Timers, TaskOf
    <2>3. w["Status"][GetAndRemovePacketStatus(r.task)] = n
      BY <1>3, <2>1, <2>2, WorthOfQuestion, WorthOfPublish
    <2>4. /\ AnswerWeight(InK, w)[r] = IF r.answer = "Closed" THEN 0 ELSE TaskWeight(InK, w)[r.task]
          /\ TaskWeight(InK, w)[r.task] = w["Status"][GetAndRemovePacketStatus(r.task)]
      BY <1>1, <2>1, InKFields, WeightsAreNat
    <2> QED
      BY <2>3, <2>4
  <1>6. [to |-> "RecvPublish", msg |-> msg] \in InK.resends
    BY <1>3, PublishAgain
  <1>7. UNCHANGED <<asking, fromBroker, sends, received>>
    BY <1>2 DEF wireVars, inVars
  <1>8. DeliverNew(msg) =>
            \/ HandleSendErrorWithResend("App", mbox, "RecvPublish", msg) /\ UNCHANGED timers
            \/ AnswerLevel2(delivered, msg)
    BY DEF DeliverNew
  <1>9. IsNew(msg, r.answer) => msg.retry = 0
    BY DEF IsNew
  <1> SUFFICES Lightens(InK, w)
    BY <1>7, QuietOnce
  <1> HIDE DEF w, msg, n, given, delivered
  <1>10. ASSUME NEW k \in Nat, k <= AnswerWeight(InK, w)[r], Adds(InK, w, mbox, k)
         PROVE  Lightens(InK, w)
    BY <1>1, <1>2, <1>7, <1>10, TaskEnds
  <1>11. CASE r.answer = "Closed" /\ mbox' = Post(mbox, "Stop", StopMessage) /\ UNCHANGED <<resends, timers>>
    <2>1. /\ BoxCountable(mbox', w) /\ BoxLoad(mbox', w) \in Nat /\ BoxLoad(mbox, w) \in Nat
          /\ BoxLoad(mbox', w) <= BoxLoad(mbox, w)
      BY <1>1, <1>11, PostStopLoad
    <2> DEFINE k == AnswerWeight(InK, w)[r]
    <2>2. k \in Nat /\ k <= k /\ BoxLoad(mbox', w) <= BoxLoad(mbox, w) + k
      BY <1>5, <1>11, <2>1
    <2> HIDE DEF k
    <2>3. Adds(InK, w, mbox, k)
      BY <1>1, <1>11, <2>1, <2>2, AddsToBox
    <2> QED
      BY <1>10, <2>2, <2>3 DEF k
  <1>12. ASSUME r.answer # "Closed", Adds(InK, w, mbox, n)
         PROVE  Lightens(InK, w)
    <2>1. n <= AnswerWeight(InK, w)[r]
      BY <1>4, <1>5, <1>12
    <2> QED
      BY <1>4, <1>10, <1>12, <2>1
  <1>13. CASE r.answer # "Closed" /\ HandleSendErrorWithResend("App", mbox, "RecvPublish", msg) /\ UNCHANGED timers
    <2>1. w["RecvPublish"][msg] <= n
      BY <1>4 DEF n
    <2>2. Adds(InK, w, mbox, n)
      BY <1>1, <1>4, <1>6, <1>13, <2>1, SendErrorWithResendAdds
    <2> QED
      BY <1>12, <1>13, <2>2
  <1>14. CASE r.answer # "Closed" /\ msg.retry = 0 /\ AnswerLevel2(delivered, msg)
    <2>1. given \in InK.messages["App"]
      BY <1>3, MessageToApp DEF given
    <2>2. /\ BoxesOK(InK, delivered) /\ BoxCountable(delivered, w)
          /\ BoxLoad(delivered, w) <= BoxLoad(mbox, w) + n
      BY <1>1, <1>4, <1>14, <2>1, PostTyped, PostLoad DEF delivered
    <2>3. Adds(InK, w, delivered, 0)
      BY <1>3, <1>14, <2>2, AnswerLevel2Adds DEF w
    <2>4. n + 0 <= n /\ 0 \in Nat
      BY <1>4
    <2>5. Adds(InK, w, mbox, n)
      BY <1>1, <1>4, <2>2, <2>3, <2>4, AddsOn
    <2> QED
      BY <1>12, <1>14, <2>5
  <1>15. CASE r.answer # "Closed" /\ AnswerLevel2(mbox, msg)
    <2>1. Adds(InK, w, mbox, 0)
      BY <1>1, <1>3, <1>15, AnswerLevel2Adds DEF w
    <2>2. 0 \in Nat /\ 0 <= AnswerWeight(InK, w)[r]
      BY <1>4, <1>5
    <2> QED
      BY <1>10, <2>1, <2>2
  <1> QED
    BY <1>2, <1>8, <1>9, <1>11, <1>13, <1>14, <1>15 DEF msg

LEMMA PubrelHandleOnce ==
    ASSUME TypeOK, NEW b \in Inbound, Once(b), PubrelHandle
    PROVE  Once(b)'
  <1> DEFINE w      == Worth(b)
             msg    == Head(mbox["Pubrel"])
             id     == msg.packet.id
             op     == RemovePacketStatus(id)
             packet == PubcompPacket(id)
             check  == StatusCheck("Pubrel", "Pubrel", packet.id, Retried(msg), {"PendingRel"})
  <1>1. /\ SessionOK(InK) /\ Wired(InK) /\ Weighed(InK, w) /\ Counted(InK, w) /\ "Pubrel" \in Actor
    BY InTyped, IncomingActors
  <1>2. /\ Handling("Pubrel", "Pubrel")
        /\ SendPacketHandle("Pubrel", msg, op, packet, {"PendingRel"})
        /\ UNCHANGED <<fromBroker, sends, received>>
    BY DEF PubrelHandle, wireVars, inVars
  <1>3. msg \in PubrelMessages
    BY <1>1, <1>2, TakeTyped, HeadOfPubrel, InKFields
  <1>4. id \in Id /\ packet.id = id /\ packet \in ClientPackets
    BY <1>3, AnswersOfClient DEF PubrelMessages, IdPackets, PubcompPacket
  <1>5. /\ w["Status"][RemovePacketStatus(packet.id)] = 0
        /\ op \in InK.messages["Status"] /\ w["Status"][op] = 0
        /\ w["Send"][VariablePacketMessage(packet)] = 0
    BY <1>4, RemoveToStatus, WorthOfOperation, WorthOfAnswer
  <1>6. ASSUME ~RetryExhausted(msg)
        PROVE  /\ [to |-> "Pubrel", msg |-> Retried(msg)] \in InK.resends
               /\ check \in InK.tasks
               /\ w["Status"][GetAndRemovePacketStatus(check)] <= w["Pubrel"][msg]
               /\ w["Pubrel"][Retried(msg)] <= w["Pubrel"][msg]
    <2>1. Retried(msg) \in PubrelMessages /\ Retried(msg).packet.id = id
      BY <1>3, <1>6, RetriedOK
    <2>2. check \in Tasks /\ check.actor = "Pubrel"
      BY <1>4, <2>1 DEF StatusCheck, Timers, TaskOf, Tasks
    <2>3. w["Status"][GetAndRemovePacketStatus(check)] = 0
      BY <2>2, WorthOfQuestion
    <2>4. w["Pubrel"][msg] = 0 /\ w["Pubrel"][Retried(msg)] = 0
      BY <1>3, <2>1, WorthOfPubrel
    <2> QED
      BY <2>1, <2>2, <2>3, <2>4, InKFields DEF InResends
  <1> HIDE DEF w, op, packet
  <1>7. Lightens(InK, w)
    BY <1>1, <1>2, <1>5, <1>6, SendPacketHandleLightens
  <1> QED
    BY <1>2, <1>7, QuietOnce DEF w

LEMMA IncomingStatusHandleOnce ==
    ASSUME TypeOK, NEW b \in Inbound, Once(b), IncomingStatusHandle
    PROVE  Once(b)'
  <1>1. StatusHandle /\ UNCHANGED <<fromBroker, sends, received>>
    BY DEF IncomingStatusHandle, wireVars, inVars
  <1>2. Lightens(InK, Worth(b))
    BY <1>1, InTyped, StatusHandleLightens
  <1> QED
    BY <1>1, <1>2, QuietOnce

LEMMA BackgroundOnce ==
    ASSUME TypeOK, NEW b \in Inbound, Once(b), Background, UNCHANGED inVars
    PROVE  Once(b)'
  <1>1. Lightens(InK, Worth(b))
    BY InTyped, BackgroundLightens
  <1> QED
    BY <1>1, QuietOnce DEF inVars

\* What the application has received is no longer on its way.
LEMMA AppHandleOnce ==
    ASSUME TypeOK, NEW b \in Inbound, Once(b), AppHandle
    PROVE  Once(b)'
  <1> DEFINE w     == Worth(b)
             first == Head(mbox["App"])
             n     == w["App"][first]
  <1>1. /\ SessionOK(InK) /\ Weighed(InK, w) /\ Counted(InK, w) /\ BoxCountable(mbox, w) /\ "App" \in Actor
        /\ Handling("App", "PublishMessage") /\ mbox["App"] # <<>>
    BY InTyped, IncomingActors DEF AppHandle, Handling
  <1>2. first.b \in Inbound /\ first = PublishMessage(first.b)
    BY <1>1, TakeTyped, HeadOfApp, InKFields
  <1>3. n = IF first.b = b THEN 1 ELSE 0
    BY <1>2, WorthOfDelivery
  <1>4. /\ mbox' = Take("App") /\ sends' = sends
        /\ UNCHANGED <<resends, timers, asking, answered, fromBroker>>
        /\ received' = [received EXCEPT ![first.b] = @ + 1]
    BY DEF AppHandle, statusVars, wireVars
  <1>5. received \in [Inbound -> Nat] /\ sends[b] \in Nat
    BY DEF TypeOK
  <1>6. received'[b] = received[b] + n /\ received[b] \in Nat
    BY <1>2, <1>3, <1>4, <1>5
  <1>7. received[b] + Load(InK, w) <= sends[b]
    BY DEF Once
  <1> HIDE DEF w, first, n
  <1>8. /\ BoxCountable(mbox', w) /\ BoxLoad(mbox', w) \in Nat /\ n \in Nat
        /\ BoxLoad(mbox', w) + n <= BoxLoad(mbox, w)
    BY <1>1, <1>4, TakeLoad DEF n, first
  <1>9. Counted(InK, w)' /\ Load(InK, w)' + n <= Load(InK, w)
    BY <1>1, <1>4, <1>8, TakenAway
  <1>10. Load(InK, w) \in Nat /\ Load(InK, w)' \in Nat
    BY <1>1, <1>9, LoadsAreNat, LoadIsNatNext
  <1>11. received'[b] + Load(InK, w)' <= sends'[b]
    BY <1>4, <1>5, <1>6, <1>7, <1>8, <1>9, <1>10
  <1> QED
    BY <1>9, <1>11 DEF Once, w

LEMMA AppStopsOnce ==
    ASSUME TypeOK, NEW b \in Inbound, Once(b), AppStops
    PROVE  Once(b)'
  <1> DEFINE w == Worth(b)
  <1>1. Counted(InK, w) /\ BoxesOK(InK, mbox) /\ BoxCountable(mbox, w)
    BY InTyped
  <1>2. /\ mbox' = [mbox EXCEPT !["App"] = <<>>]
        /\ UNCHANGED <<resends, timers, asking, answered, fromBroker, sends, received>>
    BY DEF AppStops, statusVars, wireVars, inVars
  <1> HIDE DEF w
  <1>3. /\ BoxCountable(mbox', w) /\ BoxLoad(mbox', w) \in Nat
        /\ BoxLoad(mbox', w) <= BoxLoad(mbox, w)
    BY <1>1, <1>2, EmptiedLoad
  <1>4. Lightens(InK, w)
    BY <1>1, <1>2, <1>3, OnlyLess
  <1> QED
    BY <1>2, <1>4, QuietOnce DEF w

\* Every PUBLISH the server sends is worth one, and is counted.
LEMMA BrokerPublishOnce ==
    ASSUME TypeOK, NEW b \in Inbound, Once(b), NEW c \in Inbound, BrokerPublish(c)
    PROVE  Once(b)'
  <1> DEFINE w      == Worth(b)
             packet == PublishPacketOf(c)
             n      == w["Dispatch"][VariablePacketMessage(packet)]
  <1>1. SessionOK(InK) /\ Wired(InK) /\ Weighed(InK, w) /\ Counted(InK, w)
    BY InTyped
  <1>2. packet \in ServerPackets
    BY DEF ServerPackets, PublishPackets
  <1>3. n = IF c = b THEN 1 ELSE 0
    BY <1>2, WorthOfPacket DEF PublishPacketOf
  <1>4. /\ fromBroker' = Append(fromBroker, packet) /\ received' = received
        /\ UNCHANGED <<mbox, resends, timers, asking, answered>>
        /\ sends' = [sends EXCEPT ![c] = @ + 1]
    BY DEF BrokerPublish, actorVars, statusVars
  <1>5. received[b] \in Nat /\ sends \in [Inbound -> 0 .. MaxSends] /\ sends[b] \in Nat
    BY IncomingAssumption DEF TypeOK
  <1>6. sends'[b] = sends[b] + n /\ n \in Nat
    BY <1>3, <1>4, <1>5
  <1>7. received[b] + Load(InK, w) <= sends[b]
    BY DEF Once
  <1> HIDE DEF w, packet, n
  <1>8. Counted(InK, w)' /\ Load(InK, w)' <= Load(InK, w) + n
    BY <1>1, <1>2, <1>4, ServerSends, InKFields DEF n
  <1>9. Load(InK, w) \in Nat /\ Load(InK, w)' \in Nat
    BY <1>1, <1>8, LoadsAreNat, LoadIsNatNext
  <1>10. received'[b] + Load(InK, w)' <= sends'[b]
    BY <1>4, <1>5, <1>6, <1>7, <1>8, <1>9
  <1> QED
    BY <1>8, <1>10 DEF Once, w

\* A PUBREL is worth nothing.
LEMMA BrokerAnsweredOnce ==
    ASSUME TypeOK, NEW b \in Inbound, Once(b), BrokerAnswered
    PROVE  Once(b)'
  <1> DEFINE w      == Worth(b)
             packet == PubrelPacket(Head(toBroker).id)
  <1>1. SessionOK(InK) /\ Wired(InK) /\ Weighed(InK, w) /\ Counted(InK, w)
    BY InTyped
  <1>2. packet \in ServerPackets
    <2>1. toBroker \in Seq(ClientPackets) /\ toBroker # <<>>
      BY DEF TypeOK, BrokerAnswered
    <2>2. Head(toBroker) \in ClientPackets
      BY <2>1, HeadTailProperties
    <2> QED
      BY <2>2 DEF ClientPackets, ServerPackets, IdPackets, PubrelPacket
  <1>3. w["Dispatch"][VariablePacketMessage(packet)] = 0
    BY <1>2, WorthOfPacket DEF PublishPacketOf, PubrelPacket
  <1>4. /\ UNCHANGED <<mbox, resends, timers, asking, answered, sends, received>>
        /\ fromBroker' = Append(fromBroker, packet) \/ fromBroker' = fromBroker
    BY DEF BrokerAnswered, actorVars, statusVars
  <1> SUFFICES Lightens(InK, w)
    BY <1>4, QuietOnce
  <1> HIDE DEF w, packet
  <1>5. CASE fromBroker' = Append(fromBroker, packet)
    <2>1. Counted(InK, w)' /\ Load(InK, w)' <= Load(InK, w) + w["Dispatch"][VariablePacketMessage(packet)]
      BY <1>1, <1>2, <1>4, <1>5, ServerSends, InKFields
    <2>2. Load(InK, w) \in Nat /\ Load(InK, w)' \in Nat
      BY <1>1, <2>1, LoadsAreNat, LoadIsNatNext
    <2>3. Load(InK, w)' <= Load(InK, w)
      BY <1>3, <2>1, <2>2
    <2> QED
      BY <2>1, <2>3 DEF Lightens
  <1>6. CASE fromBroker' = fromBroker
    <2>1. /\ BoxCountable(mbox', w) /\ BoxLoad(mbox', w) \in Nat /\ BoxLoad(mbox, w) \in Nat
          /\ BoxLoad(mbox', w) <= BoxLoad(mbox, w)
      BY <1>1, <1>4, LoadsAreNat DEF Counted
    <2> QED
      BY <1>1, <1>4, <1>6, <2>1, OnlyLess
  <1> QED
    BY <1>4, <1>5, <1>6

-----------------------------------------------------------------------------

Receipts == TypeOK /\ \A b \in Inbound : Once(b)

LEMMA InitReceipts == Init => Receipts
  <1> SUFFICES ASSUME Init, NEW b \in Inbound PROVE Once(b)
    BY InitOK DEF Receipts
  <1>1. Counted(InK, Worth(b)) /\ Load(InK, Worth(b)) = 0
    BY InitLoad DEF Init
  <1>2. received[b] = 0 /\ sends[b] = 0
    BY DEF Init, IncomingInit
  <1> QED
    BY <1>1, <1>2 DEF Once

LEMMA StepReceipts == Receipts /\ [Next]_incomingVars => Receipts'
  <1> SUFFICES ASSUME TypeOK, [Next]_incomingVars, NEW b \in Inbound, Once(b)
               PROVE  Once(b)'
    BY StepOK DEF Receipts
  <1>1. CASE UNCHANGED incomingVars
    <2>1. UNCHANGED <<mbox, resends, timers, asking, answered, fromBroker, sends, received>>
      BY <1>1 DEF incomingVars, sessionVars, actorVars, statusVars, wireVars, inVars
    <2>2. /\ BoxCountable(mbox', Worth(b)) /\ BoxLoad(mbox', Worth(b)) \in Nat
          /\ BoxLoad(mbox', Worth(b)) <= BoxLoad(mbox, Worth(b))
      BY <2>1, InTyped, LoadsAreNat
    <2>3. Lightens(InK, Worth(b))
      BY <2>1, <2>2, InTyped, OnlyLess
    <2> QED
      BY <2>1, <2>3, QuietOnce
  <1> QED
    BY <1>1, RecvPublishHandleOnce, DeliverOnce, PubrelHandleOnce, AppHandleOnce, AppStopsOnce,
       BrokerAnsweredOnce, BrokerPublishOnce, IncomingStatusHandleOnce, BackgroundOnce
       DEF Next, IncomingStep

\* What waits for the application is part of the load.
LEMMA DeliveredIsOwed ==
    ASSUME TypeOK, NEW b \in Inbound, Once(b)
    PROVE  Delivered(b) <= sends[b]
  <1> DEFINE w    == Worth(b)
             S    == {i \in DOMAIN mbox["App"] : mbox["App"][i] = PublishMessage(b)}
             f    == [i \in S |-> Token("App", i, 1)]
  <1>1. /\ mbox["App"] \in Seq(MessagesTo("App")) /\ DOMAIN mbox = Actor /\ "App" \in Actor
        /\ received[b] \in Nat /\ sends[b] \in Nat
    BY IncomingActors DEF TypeOK
  <1>2. IsFiniteSet(BoxTokens(mbox, w)) /\ Counted(InK, w)
    BY InTyped DEF BoxCountable
  <1>3. \A i \in S : f[i] \in BoxTokens(mbox, w)
    <2>1. SUFFICES ASSUME NEW i \in S PROVE Token("App", i, 1) \in BoxTokens(mbox, w)
      OBVIOUS
    <2>2. i \in Nat /\ i \in DOMAIN mbox["App"] /\ mbox["App"][i] = PublishMessage(b)
      BY <1>1
    <2>3. w["App"][mbox["App"][i]] = 1
      BY <2>2, WorthOfDelivery
    <2> HIDE DEF w
    <2> QED
      BY <1>1, <2>2, <2>3 DEF BoxTokens, Token
  <1>4. \A i, j \in S : f[i] = f[j] => i = j
    BY DEF Token
  <1> HIDE DEF w, S, f
  <1>5. IsFiniteSet(S) /\ Cardinality(S) <= BoxLoad(mbox, w)
    BY <1>2, <1>3, <1>4, Injected DEF BoxLoad
  <1>6. Cardinality(S) \in Nat
    BY <1>5, FS_CardinalityType
  <1>7. BoxLoad(mbox, w) \in Nat /\ Load(InK, w) \in Nat /\ BoxLoad(mbox, w) <= Load(InK, w)
    BY <1>2, LoadsAreNat, LoadParts
  <1>8. received[b] + Load(InK, w) <= sends[b]
    BY DEF Once, w
  <1>9. received[b] + Cardinality(S) <= sends[b]
    BY <1>1, <1>5, <1>6, <1>7, <1>8
  <1> QED
    BY <1>9 DEF Delivered, S

\* A PUBLISH that RecvPublishActor handles again and again, because a mailbox
\* was full or because the status of its PUBREC is still there
\* (publish.rs:336-518), reaches the application at most once, for every quality
\* of service, however the mailboxes fill up and whatever stops.
THEOREM ReceiptIsOnce == Spec => []OncePerReceipt
  <1>1. Receipts => OncePerReceipt
    BY DeliveredIsOwed DEF Receipts, OncePerReceipt
  <1> QED
    BY InitReceipts, StepReceipts, <1>1, PTL DEF Spec

=============================================================================
