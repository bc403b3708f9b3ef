----------------------- MODULE PublishAnswers_proofs -----------------------
(***************************************************************************)
(* Proofs about the server's answers to the messages of OutgoingPublish.   *)
(* An answer carries the identifier of a message that the server took.     *)
(* As long as next_id gives every attempt an identifier of its own, an     *)
(* answer settles an attempt at one message only: the server has taken the *)
(* message, it is not transmitted again, and publishing keeps the promise  *)
(* of Retransmission.                                                      *)
(***************************************************************************)
EXTENDS OutgoingPublish_proofs

(* What an exchange has to allow for its handlers to keep to it. *)

LEMMA ClientPublishTyped ==
    ASSUME NEW K, SessionOK(K), NEW m, Publish(m, 0) \in K.messages["SendPublish"], ClientPublish(m)
    PROVE  SessionOK(K)'
  <1>1. BoxesOK(K, mbox)
    BY DEF SessionOK, BoxesOK
  <1>2. BoxesOK(K, mbox')
    BY <1>1, PostTyped DEF ClientPublish
  <1> QED
    BY <1>2 DEF ClientPublish, SessionOK, BoxesOK, statusVars, wireVars

\* A packet that is never sent may be any other one.
DisconnectPacket == [type |-> "Disconnect"]

LEMMA SendPublishTyped ==
    ASSUME NEW K, SessionOK(K), Wired(K), SendPublishHandle,
           RemovePacketStatus(0) \in K.messages["Status"],
           VariablePacketMessage(DisconnectPacket) \in K.messages["Send"],
           LET msg == Head(mbox["SendPublish"])
               h   == PublishHandled(msg)
           IN  ~RetryExhausted(msg) =>
                   /\ QoS[msg.m] = 0 \/ (NeedsId(msg) /\ Accepts("Status") /\ Accepts("Send"))
                          => VariablePacketMessage(h.packet) \in K.messages["Send"]
                   /\ h.op \in K.messages["Status"]
                   /\ NeedsId(msg) => h.check \in K.timers
                   /\ [to |-> "SendPublish", msg |-> Retried(msg)] \in K.resends
    PROVE  SessionOK(K)'
  <1> DEFINE msg == Head(mbox["SendPublish"])
             h   == PublishHandled(msg)
             box == Take("SendPublish")
  <1>1. BoxesOK(K, box)
    BY TakeTyped, OutgoingAssumption DEF SendPublishHandle
  <1>2. BagToSet(resends) \subseteq K.resends /\ BagToSet(timers) \subseteq K.timers
    BY DEF SessionOK
  <1>3. ~RetryExhausted(msg) =>
            /\ QoS[msg.m] = 0 \/ (NeedsId(msg) /\ Accepts("Status") /\ Accepts("Send"))
                   => VariablePacketMessage(h.packet) \in K.messages["Send"]
            /\ h.op \in K.messages["Status"]
            /\ NeedsId(msg) => h.check \in K.timers
            /\ [to |-> "SendPublish", msg |-> Retried(msg)] \in K.resends
    OBVIOUS
  <1> HIDE DEF box, h, msg
  <1>4. /\ BoxesOK(K, mbox')
        /\ BagToSet(resends') \subseteq K.resends
        /\ BagToSet(timers') \subseteq K.timers
    <2>1. CASE GiveUp(box, 0)
      <3>1. BoxesOK(K, mbox')
        BY <1>1, <2>1, GiveUpTyped
      <3> QED
        BY <1>2, <2>1, <3>1 DEF GiveUp
    <2>2. CASE mbox' = box /\ UNCHANGED <<resends, timers>>
      BY <1>1, <1>2, <2>2
    <2>3. CASE /\ ~RetryExhausted(msg) /\ QoS[msg.m] = 0
               /\ IF Accepts("Send")
                  THEN mbox' = Post(box, "Send", VariablePacketMessage(h.packet))
                  ELSE HandleSendError("Send", box)
               /\ UNCHANGED <<resends, timers>>
      <3>1. BoxesOK(K, mbox')
        BY <1>1, <1>3, <2>3, PostTyped, SendErrorTyped
      <3> QED
        BY <1>2, <2>3, <3>1
    <2>4. CASE /\ ~RetryExhausted(msg) /\ NeedsId(msg)
               /\ SetSendSchedule(box, "SendPublish", h.op, h.packet, h.check, Retried(msg))
      <3>1. PICK packet : /\ VariablePacketMessage(packet) \in K.messages["Send"]
                          /\ SetSendSchedule(box, "SendPublish", h.op, packet, h.check, Retried(msg))
        <4>1. CASE Accepts("Status") /\ Accepts("Send")
          BY <1>3, <2>4, <4>1
        <4>2. CASE ~(Accepts("Status") /\ Accepts("Send"))
          <5>1. SetSendSchedule(box, "SendPublish", h.op, DisconnectPacket, h.check, Retried(msg))
            BY <2>4, <4>2 DEF SetSendSchedule
          <5> QED
            BY <5>1
        <4> QED
          BY <4>1, <4>2
      <3> QED
        BY <1>1, <1>3, <2>4, <3>1, SetSendScheduleTyped
    <2> QED
      BY <2>1, <2>2, <2>3, <2>4, SendPublishCases DEF msg, h, box
  <1> QED
    BY <1>4 DEF SendPublishHandle, SessionOK, BoxesOK, wireVars

LEMMA BrokerReadTyped ==
    ASSUME NEW K, SessionOK(K), BrokerRead,
           Head(toBroker) \in K.client => BrokerAnswer(Head(toBroker)) \in Seq(K.server)
    PROVE  SessionOK(K)'
  <1>1. toBroker \in Seq(K.client) /\ toBroker # <<>> /\ fromBroker \in Seq(K.server)
    BY DEF BrokerRead, SessionOK
  <1>2. Head(toBroker) \in K.client /\ toBroker' \in Seq(K.client)
    BY <1>1, HeadTailProperties DEF BrokerRead
  <1>3. fromBroker' \in Seq(K.server)
    BY <1>1, <1>2, ConcatProperties DEF BrokerRead
  <1> QED
    BY <1>2, <1>3 DEF BrokerRead, SessionOK, actorVars, statusVars

-----------------------------------------------------------------------------
(* Whose answer an answer is.  The messages, packets and tasks of OutK that *)
(* the identifiers in sent and the messages in tk account for: an answer    *)
(* has the identifier of a message that the server took, and only a message *)
(* of QoS 2 leads to PUBREC, PUBREL and the status PendingComp.             *)

\* The status of an attempt that is waiting for an answer.
Waiting == {"PendingAck", "PendingRec"}

Answering    == {"Puback", "Pubrec", "Pubcomp"}
TakenIds(tk) == {p.id : p \in tk}
RecIds(tk)   == {p.id : p \in {q \in tk : QoS[q.m] = 2}}

SentOK(packet, sent, tk) ==
    /\ packet.type = "Publish" =>
           /\ packet.qos = QoS[packet.m]
           /\ IF packet.qos = 0 THEN packet.id = 0 ELSE packet.id \in sent[packet.m]
    /\ packet.type = "Pubrel" => packet.id \in RecIds(tk)
AnswerOK(packet, tk) ==
    packet.id \in TakenIds(tk) /\ (packet.type = "Pubrec" => packet.id \in RecIds(tk))
TaskOK(t, tk) ==
    /\ t.expect \subseteq PublishPacketStatus
    /\ t.actor = "SendPublish" => t.expect = Unanswered(t.msg.m)
    /\ t.actor = "Pubrec" => AnswerOK(t.msg.packet, tk)
OpOK(op, tk) ==
    /\ op.op = "Remove" => op.id \in TakenIds(tk) \cup {0}
    /\ op.op = "Set" => op.payload \in Waiting \/ op.id \in RecIds(tk)
    /\ op.op = "GetAndRemove" => TaskOK(op.task, tk)

KnownMessage(a, msg, sent, tk) ==
    /\ a = "Send" /\ msg.type = "Packet" => SentOK(msg.packet, sent, tk)
    /\ a = "Dispatch" /\ msg.type = "Packet" => AnswerOK(msg.packet, tk)
    /\ a \in Answering /\ msg.type = a => AnswerOK(msg.packet, tk)
    /\ a = "Status" /\ msg.type = "Status" => OpOK(msg, tk)

KnownK(sent, tk) ==
    [messages |-> [a \in Actor |-> {msg \in MessagesTo(a) : KnownMessage(a, msg, sent, tk)}],
     resends |-> {r \in Resends : r.to \in Answering => AnswerOK(r.msg.packet, tk)},
     tasks |-> {t \in Tasks : TaskOK(t, tk)}, timers |-> {t \in Tasks : TaskOK(t, tk)},
     payload |-> Payload,
     client |-> {packet \in ClientPackets : SentOK(packet, sent, tk)},
     server |-> {packet \in ServerPackets : AnswerOK(packet, tk)}]

LEMMA KnownFields ==
    ASSUME NEW sent, NEW tk
    PROVE  LET K == KnownK(sent, tk)
           IN  /\ \A a \in Actor :
                      K.messages[a] = {msg \in MessagesTo(a) : KnownMessage(a, msg, sent, tk)}
               /\ K.resends = {r \in Resends : r.to \in Answering => AnswerOK(r.msg.packet, tk)}
               /\ K.tasks = {t \in Tasks : TaskOK(t, tk)}
               /\ K.timers = {t \in Tasks : TaskOK(t, tk)}
               /\ K.payload = Payload
               /\ K.client = {packet \in ClientPackets : SentOK(packet, sent, tk)}
               /\ K.server = {packet \in ServerPackets : AnswerOK(packet, tk)}
  BY DEF KnownK

LEMMA OutActors ==
    /\ {"SendPublish", "Puback", "Pubrec", "Pubcomp", "Status", "Send", "Dispatch"} \subseteq Actor
    /\ SendStatusRecipient \subseteq {"Disconnect"}
    /\ \A r \in Resends : r.to \in {"SendPublish", "Disconnect"} \cup Answering
    /\ \A t \in Tasks : t.actor \in {"SendPublish", "Pubrec"}
  BY OutgoingAssumption, ActorAssumption, StatusAssumption
     DEF Resends, ResendsOf, Tasks, ChecksOf, Answering

LEMMA KnownWired ==
    ASSUME NEW sent, NEW tk
    PROVE  Wired(KnownK(sent, tk))
  <1>0. PICK K : K = KnownK(sent, tk)
    OBVIOUS
  <1>1. /\ \A a \in Actor :
               K.messages[a] = {msg \in MessagesTo(a) : KnownMessage(a, msg, sent, tk)}
        /\ K.resends = {r \in Resends : r.to \in Answering => AnswerOK(r.msg.packet, tk)}
        /\ K.tasks = {t \in Tasks : TaskOK(t, tk)}
        /\ K.timers = {t \in Tasks : TaskOK(t, tk)}
        /\ K.payload = Payload
        /\ K.client = {packet \in ClientPackets : SentOK(packet, sent, tk)}
        /\ K.server = {packet \in ServerPackets : AnswerOK(packet, tk)}
    BY <1>0, KnownFields
  <1>2. Wired(OutK)
    BY OutWired
  <1> USE OutActors, OutKFields
  <1>3. \A a \in Actor : StopMessage \in K.messages[a]
    BY <1>1, StopMessageToAll DEF KnownMessage, StopMessage, Answering
  <1>4. ASSUME NEW r \in K.resends
        PROVE  r.msg \in K.messages[r.to]
    <2>1. r.msg \in MessagesTo(r.to) /\ r.to \in Actor
      <3>1. r \in Resends
        BY <1>1
      <3> QED
        BY <3>1, OutgoingAssumption, StatusAssumption DEF Resends, ResendsOf, MessagesTo
    <2>2. KnownMessage(r.to, r.msg, sent, tk)
      BY <1>1 DEF KnownMessage, Answering
    <2> QED
      BY <1>1, <2>1, <2>2
  <1>5. ASSUME NEW t \in K.tasks
        PROVE  /\ GetAndRemovePacketStatus(t) \in K.messages["Status"]
               /\ t.kind = "check" => t.msg \in K.messages[t.actor]
    <2>1. t \in Tasks /\ TaskOK(t, tk)
      BY <1>1
    <2>2. GetAndRemovePacketStatus(t) \in MessagesTo("Status") /\ t.msg \in MessagesTo(t.actor)
      BY <1>2, <2>1, TaskMessage DEF Wired
    <2>3. KnownMessage("Status", GetAndRemovePacketStatus(t), sent, tk)
      BY <2>1 DEF KnownMessage, OpOK, GetAndRemovePacketStatus, Answering
    <2>4. KnownMessage(t.actor, t.msg, sent, tk)
      BY <2>1 DEF KnownMessage, TaskOK, Answering
    <2> QED
      BY <1>1, <2>1, <2>2, <2>3, <2>4
  <1>6. ASSUME NEW op \in K.messages["Status"], op.type = "Status"
        PROVE  /\ op.id \in Id
               /\ op.op = "Set" => op.payload \in K.payload
               /\ op.op = "GetAndRemove" => op = GetAndRemovePacketStatus(op.task) /\ op.task \in K.tasks
    <2>1. op \in OutK.messages["Status"] /\ OpOK(op, tk)
      BY <1>1, <1>6 DEF KnownMessage
    <2> QED
      BY <1>1, <1>2, <1>6, <2>1 DEF Wired, OpOK
  <1>7. ASSUME NEW a \in SendStatusRecipient, NEW f \in BOOLEAN
        PROVE  [type |-> "PacketSendStatus", finished |-> f] \in K.messages[a]
    <2>1. a \in Actor /\ a = "Disconnect"
      BY StatusAssumption
    <2>2. [type |-> "PacketSendStatus", finished |-> f] \in MessagesTo(a)
      BY DEF MessagesTo, SendStatusMessages
    <2>3. KnownMessage(a, [type |-> "PacketSendStatus", finished |-> f], sent, tk)
      BY <2>1 DEF KnownMessage, Answering
    <2> QED
      BY <1>1, <2>1, <2>2, <2>3
  <1>8. \A msg \in K.messages["Send"] : msg.type = "Packet" => msg.packet \in K.client
    BY <1>1, <1>2 DEF Wired, KnownMessage
  <1>9. ASSUME NEW packet \in K.server
        PROVE  VariablePacketMessage(packet) \in K.messages["Dispatch"]
    <2>1. packet \in OutK.server /\ AnswerOK(packet, tk)
      BY <1>1
    <2>2. VariablePacketMessage(packet) \in MessagesTo("Dispatch")
      BY <1>2, <2>1 DEF Wired
    <2>3. KnownMessage("Dispatch", VariablePacketMessage(packet), sent, tk)
      BY <2>1 DEF KnownMessage, VariablePacketMessage, Answering
    <2> QED
      BY <1>1, <2>2, <2>3
  <1>10. ASSUME NEW msg \in K.messages["Dispatch"], msg.type = "Packet"
         PROVE  PacketMessage(msg.packet, 0) \in K.messages[Target[msg.packet.type]]
    <2>1. msg.packet \in ServerPackets /\ AnswerOK(msg.packet, tk)
      BY <1>1, <1>10, HeadOfDispatch DEF KnownMessage
    <2>2. /\ Target[msg.packet.type] = msg.packet.type /\ msg.packet.type \in Answering
          /\ PacketMessage(msg.packet, 0) \in MessagesTo(msg.packet.type)
      BY <2>1, Dispatched DEF Answering
    <2>3. KnownMessage(msg.packet.type, PacketMessage(msg.packet, 0), sent, tk)
      BY <2>1, <2>2 DEF KnownMessage, PacketMessage, Answering
    <2> QED
      BY <1>1, <2>2, <2>3 DEF Answering
  <1>11. K.payload \subseteq Payload /\ K.timers \subseteq K.tasks
    BY <1>1
  <1>12. Wired(K)
    BY <1>3, <1>4, <1>5, <1>6, <1>7, <1>8, <1>9, <1>10, <1>11 DEF Wired
  <1> QED
    BY <1>0, <1>12

\* What is accounted for stays so when more is sent and taken.
LEMMA KnownPart ==
    ASSUME NEW sent, NEW sent2, NEW tk, NEW tk2,
           \A m \in OutMsg : sent[m] \subseteq sent2[m], tk \subseteq tk2
    PROVE  LET K == KnownK(sent, tk)
               L == KnownK(sent2, tk2)
           IN  /\ \A a \in Actor : K.messages[a] \subseteq L.messages[a]
               /\ K.resends \subseteq L.resends /\ K.tasks \subseteq L.tasks
               /\ K.timers \subseteq L.timers
               /\ K.client \subseteq L.client /\ K.server \subseteq L.server
               /\ K.payload = L.payload
  <1>1. TakenIds(tk) \subseteq TakenIds(tk2) /\ RecIds(tk) \subseteq RecIds(tk2)
    BY DEF TakenIds, RecIds
  <1>2. \A packet \in ClientPackets : SentOK(packet, sent, tk) => SentOK(packet, sent2, tk2)
    <2>1. \A packet \in ClientPackets : packet.type = "Publish" => packet.m \in OutMsg
      BY DEF ClientPackets, AnswerPackets
    <2> QED
      BY <1>1, <2>1 DEF SentOK
  <1>3. \A packet : AnswerOK(packet, tk) => AnswerOK(packet, tk2)
    BY <1>1 DEF AnswerOK
  <1>4. \A t : TaskOK(t, tk) => TaskOK(t, tk2)
    BY <1>3 DEF TaskOK
  <1>5. \A op : OpOK(op, tk) => OpOK(op, tk2)
    BY <1>1, <1>4 DEF OpOK
  <1>6. \A a \in Actor : \A msg \in MessagesTo(a) :
            KnownMessage(a, msg, sent, tk) => KnownMessage(a, msg, sent2, tk2)
    BY <1>2, <1>3, <1>5, HeadOfSend DEF KnownMessage
  <1> QED
    BY <1>2, <1>3, <1>4, <1>6, KnownFields

LEMMA SeqGrows ==
    ASSUME NEW S, NEW T, S \subseteq T
    PROVE  Seq(S) \subseteq Seq(T)
  OBVIOUS

LEMMA KnownGrows ==
    ASSUME NEW sent, NEW sent2, NEW tk, NEW tk2, SessionOK(KnownK(sent, tk)),
           \A m \in OutMsg : sent[m] \subseteq sent2[m], tk \subseteq tk2
    PROVE  SessionOK(KnownK(sent2, tk2))
  <1>1. PICK K, L : K = KnownK(sent, tk) /\ L = KnownK(sent2, tk2)
    OBVIOUS
  <1>2. /\ \A a \in Actor : K.messages[a] \subseteq L.messages[a]
        /\ K.resends \subseteq L.resends /\ K.tasks \subseteq L.tasks /\ K.timers \subseteq L.timers
        /\ K.client \subseteq L.client /\ K.server \subseteq L.server /\ K.payload = L.payload
    BY <1>1, KnownPart
  <1>3. /\ \A a \in Actor : Seq(K.messages[a]) \subseteq Seq(L.messages[a])
        /\ Seq(K.client) \subseteq Seq(L.client) /\ Seq(K.server) \subseteq Seq(L.server)
    BY <1>2, SeqGrows
  <1>4. SessionOK(K)
    BY <1>1
  <1>5. SessionOK(L)
    BY <1>2, <1>3, <1>4 DEF SessionOK
  <1> QED
    BY <1>1, <1>5

-----------------------------------------------------------------------------
(* The invariant about them. *)

Sent(m) == {sentAs[m][i] : i \in DOMAIN sentAs[m]}
SentIn  == [m \in OutMsg |-> Sent(m)]

Known ==
    /\ SessionOK(KnownK(SentIn, taken))
    /\ \A id \in Id : packetStatus[id] \in Waiting \cup {NoStatus} \/ id \in RecIds(taken)
    /\ acked \subseteq TakenIds(taken) \cup {0}
    /\ \A p \in taken : IF QoS[p.m] = 0 THEN p.id = 0 ELSE p.id \in Sent(p.m)
    /\ \A m \in OutMsg : \A id \in Sent(m) : QoS[m] # 0 /\ id # 0

LEMMA AppendElements ==
    ASSUME NEW S, NEW s \in Seq(S), NEW n \in S
    PROVE  {Append(s, n)[i] : i \in DOMAIN Append(s, n)} = {s[i] : i \in DOMAIN s} \cup {n}
  <1>1. /\ DOMAIN Append(s, n) = 1 .. Len(s) + 1
        /\ DOMAIN s = 1 .. Len(s) /\ Len(s) \in Nat
        /\ \A i \in 1 .. Len(s) : Append(s, n)[i] = s[i]
        /\ Append(s, n)[Len(s) + 1] = n
    BY AppendProperties, LenProperties
  <1>2. \A i \in 1 .. Len(s) + 1 : i \in 1 .. Len(s) \/ i = Len(s) + 1
    BY <1>1
  <1>3. 1 .. Len(s) \subseteq 1 .. Len(s) + 1 /\ Len(s) + 1 \in 1 .. Len(s) + 1
    BY <1>1
  <1> QED
    BY <1>1, <1>2, <1>3

\* The transmission of a message, and what it adds to sentAs.
LEMMA Transmission ==
    ASSUME TypeOK, SendPublishHandle
    PROVE  LET msg == Head(mbox["SendPublish"])
               h   == PublishHandled(msg)
           IN  /\ \/ UNCHANGED sentAs
                  \/ /\ NeedsId(msg) /\ Accepts("Status") /\ Accepts("Send")
                     /\ SetSendSchedule(Take("SendPublish"), "SendPublish", h.op, h.packet, h.check,
                            Retried(msg))
                     /\ sentAs' = [sentAs EXCEPT ![msg.m] = Append(@, NextId)]
               /\ NeedsId(msg) /\ Accepts("Status") /\ Accepts("Send") =>
                      \A m : m = msg.m => NextId \in Sent(m)'
               /\ NeedsId(msg) => h.id = NextId
               /\ \A m \in OutMsg :
                      \/ sentAs'[m] = sentAs[m] /\ Sent(m)' = Sent(m)
                      \/ /\ m = msg.m /\ sentAs' # sentAs
                         /\ sentAs'[m] = Append(sentAs[m], NextId)
                         /\ Sent(m)' = Sent(m) \cup {NextId}
  <1> DEFINE msg == Head(mbox["SendPublish"])
             h   == PublishHandled(msg)
             box == Take("SendPublish")
  <1>1. sentAs \in [OutMsg -> Seq(Id)] /\ msg.m \in OutMsg /\ NextId \in Id
    BY SendPublishTakes, NextIdOK DEF TypeOK
  <1>2. NeedsId(msg) => h.id = NextId
    BY DEF NeedsId, PublishHandled
  <1>3. \/ UNCHANGED sentAs
        \/ /\ NeedsId(msg) /\ Accepts("Status") /\ Accepts("Send")
           /\ SetSendSchedule(box, "SendPublish", h.op, h.packet, h.check, Retried(msg))
           /\ sentAs' = [sentAs EXCEPT ![msg.m] = Append(@, NextId)]
    <2> HIDE DEF msg, h, box
    <2>1. CASE /\ NeedsId(msg)
               /\ SetSendSchedule(box, "SendPublish", h.op, h.packet, h.check, Retried(msg))
               /\ sentAs' = [sentAs EXCEPT ![msg.m] =
                      IF Accepts("Status") /\ Accepts("Send") THEN Append(@, h.id) ELSE @]
      BY <1>1, <1>2, <2>1
    <2>2. CASE UNCHANGED sentAs
      BY <2>2
    <2> QED
      BY <2>1, <2>2, SendPublishCases DEF msg, h, box
  <1>4. NeedsId(msg) /\ Accepts("Status") /\ Accepts("Send") =>
            sentAs' = [sentAs EXCEPT ![msg.m] = Append(@, NextId)]
    <2> HIDE DEF box
    <2> QED
      BY <1>2, SendPublishCases DEF NeedsId, box
  <1> HIDE DEF msg, h, box
  <1>5. ASSUME NEW m \in OutMsg
        PROVE  \/ sentAs'[m] = sentAs[m] /\ Sent(m)' = Sent(m)
               \/ /\ m = msg.m /\ sentAs' # sentAs
                  /\ sentAs'[m] = Append(sentAs[m], NextId)
                  /\ Sent(m)' = Sent(m) \cup {NextId}
    <2>1. CASE sentAs'[m] = sentAs[m]
      BY <2>1 DEF Sent
    <2>2. CASE sentAs'[m] # sentAs[m]
      <3>1. m = msg.m /\ sentAs' # sentAs /\ sentAs'[m] = Append(sentAs[m], NextId)
        BY <1>1, <1>3, <2>2
      <3>2. Sent(m)' = Sent(m) \cup {NextId}
        BY <1>1, <3>1, AppendElements DEF Sent
      <3> QED
        BY <3>1, <3>2
    <2> QED
      BY <2>1, <2>2
  <1>6. ASSUME NeedsId(msg), Accepts("Status"), Accepts("Send"), NEW m, m = msg.m
        PROVE  NextId \in Sent(m)'
    <2>1. m \in OutMsg /\ sentAs'[m] = Append(sentAs[m], NextId)
      BY <1>1, <1>4, <1>6
    <2>2. PICK s \in Seq(Id), n \in Id : s = sentAs[m] /\ n = NextId /\ sentAs'[m] = Append(s, n)
      BY <1>1, <2>1
    <2>3. n \in {Append(s, n)[i] : i \in DOMAIN Append(s, n)}
      BY <2>2, AppendElements
    <2> QED
      BY <2>2, <2>3 DEF Sent
  <1> QED
    BY <1>2, <1>3, <1>5, <1>6 DEF msg, h, box

LEMMA KnownInit == Init => Known
  <1> SUFFICES ASSUME Init PROVE Known
    OBVIOUS
  <1>1. /\ packetStatus = [id \in Id |-> NoStatus]
        /\ sentAs = [m \in OutMsg |-> <<>>] /\ acked = {} /\ taken = {}
    BY DEF Init, SessionInit, StatusInit, OutgoingInit
  <1>2. SessionOK(KnownK(SentIn, taken))
    BY SessionInitTyped DEF Init
  <1>3. \A m \in OutMsg : Sent(m) = {}
    BY <1>1 DEF Sent
  <1> QED
    BY <1>1, <1>2, <1>3 DEF Known

\* A step that sends and takes nothing.
LEMMA KnownKept ==
    ASSUME Known, UNCHANGED <<packetStatus, sentAs, acked, taken>>,
           \A K : K = KnownK(SentIn, taken) => SessionOK(K)'
    PROVE  Known'
  <1>1. SentIn' = SentIn /\ \A m : Sent(m)' = Sent(m)
    BY DEF SentIn, Sent
  <1>2. PICK K : K = KnownK(SentIn, taken)
    OBVIOUS
  <1>3. K = KnownK(SentIn, taken)' /\ SessionOK(K)'
    BY <1>1, <1>2
  <1>4. SessionOK(KnownK(SentIn, taken))'
    BY <1>3 DEF SessionOK
  <1> QED
    BY <1>1, <1>4 DEF Known

LEMMA ClientPublishKnown ==
    ASSUME Known, NEW m \in OutMsg, ClientPublish(m)
    PROVE  Known'
  <1>1. ASSUME NEW K, K = KnownK(SentIn, taken)
        PROVE  SessionOK(K)'
    <2>1. Publish(m, 0) \in MessagesTo("SendPublish")
      BY StatusAssumption DEF Publish, MessagesTo, PublishMessages, Retry
    <2>2. KnownMessage("SendPublish", Publish(m, 0), SentIn, taken)
      BY DEF KnownMessage, Answering
    <2>3. Publish(m, 0) \in K.messages["SendPublish"]
      BY <1>1, <2>1, <2>2, KnownFields, OutActors
    <2> QED
      BY <1>1, <2>3, ClientPublishTyped DEF Known
  <1> QED
    BY <1>1, KnownKept DEF ClientPublish, statusVars

\* What an actor for the answers finds at the head of its mailbox.
LEMMA KnownAnswer ==
    ASSUME TypeOK, NEW K, K = KnownK(SentIn, taken), SessionOK(K), NEW a \in Answering, Handling(a, a)
    PROVE  LET msg == Head(mbox[a])
           IN  /\ a \in Actor /\ msg \in AnswerMessages(a) /\ msg.packet.type = a
               /\ AnswerOK(msg.packet, taken) /\ msg.packet.id \in Id
               /\ RemovePacketStatus(msg.packet.id) \in K.messages["Status"]
               /\ [to |-> a, msg |-> msg] \in K.resends
  <1> DEFINE msg == Head(mbox[a])
  <1>1. /\ a \in Actor /\ msg \in AnswerMessages(a) /\ msg.packet.id \in Id
        /\ RemovePacketStatus(msg.packet.id) \in OutK.messages["Status"]
        /\ [to |-> a, msg |-> msg] \in OutK.resends
    BY AnswerTakes DEF Answering
  <1>2. msg \in K.messages[a] /\ msg.type = a
    BY <1>1, TakeTyped
  <1>3. AnswerOK(msg.packet, taken)
    <2>1. KnownMessage(a, msg, SentIn, taken)
      BY <1>1, <1>2, KnownFields
    <2> QED
      BY <1>2, <2>1 DEF KnownMessage
  <1>4. msg.packet.type = a
    BY <1>1 DEF AnswerMessages, AnswerPackets
  <1> HIDE DEF msg
  <1>5. RemovePacketStatus(msg.packet.id) \in K.messages["Status"]
    <2>1. KnownMessage("Status", RemovePacketStatus(msg.packet.id), SentIn, taken)
      BY <1>3 DEF KnownMessage, OpOK, RemovePacketStatus, AnswerOK, Answering
    <2> QED
      BY <1>1, <2>1, KnownFields, OutKFields, OutActors
  <1>6. [to |-> a, msg |-> msg] \in K.resends
    BY <1>1, <1>3, KnownFields, OutKFields
  <1> QED
    BY <1>1, <1>3, <1>4, <1>5, <1>6 DEF msg

LEMMA ResponseHandleKnown ==
    ASSUME TypeOK, Known, NEW a \in {"Puback", "Pubcomp"}, ResponseHandle(a, a),
           UNCHANGED <<wireVars, outVars>>
    PROVE  Known'
  <1>1. ASSUME NEW K, K = KnownK(SentIn, taken)
        PROVE  SessionOK(K)'
    <2>1. SessionOK(K) /\ Wired(K)
      BY <1>1, KnownWired DEF Known
    <2>2. /\ a \in Actor
          /\ RemovePacketStatus(Head(mbox[a]).packet.id) \in K.messages["Status"]
          /\ [to |-> a, msg |-> Head(mbox[a])] \in K.resends
      BY <1>1, <2>1, KnownAnswer DEF ResponseHandle, Answering
    <2> QED
      BY <2>1, <2>2, ResponseHandleTyped
  <1>2. UNCHANGED <<packetStatus, sentAs, acked, taken>>
    BY DEF ResponseHandle, statusVars, outVars
  <1> QED
    BY <1>1, <1>2, KnownKept

LEMMA KnownPubrec ==
    ASSUME TypeOK, NEW K, K = KnownK(SentIn, taken), SessionOK(K), Handling("Pubrec", "Pubrec")
    PROVE  LET msg == Head(mbox["Pubrec"])
               id  == msg.packet.id
           IN  /\ RemovePacketStatus(id) \in K.messages["Status"]
               /\ SetPacketStatus(id, "PendingComp") \in K.messages["Status"]
               /\ VariablePacketMessage(Pubrel(id)) \in K.messages["Send"]
               /\ Pubrel(id).id = id
               /\ ~RetryExhausted(msg) =>
                      /\ StatusCheck("Pubrec", "Pubrec", id, Retried(msg), {"PendingRec"}) \in K.timers
                      /\ [to |-> "Pubrec", msg |-> Retried(msg)] \in K.resends
  <1> DEFINE msg == Head(mbox["Pubrec"])
             id  == msg.packet.id
             op  == SetPacketStatus(id, "PendingComp")
  <1>1. /\ msg \in AnswerMessages("Pubrec") /\ AnswerOK(msg.packet, taken)
        /\ msg.packet.type = "Pubrec"
        /\ RemovePacketStatus(id) \in K.messages["Status"]
    BY KnownAnswer DEF Answering
  <1>2. /\ op \in OutK.messages["Status"]
        /\ VariablePacketMessage(Pubrel(id)) \in OutK.messages["Send"]
        /\ ~RetryExhausted(msg) =>
               /\ StatusCheck("Pubrec", "Pubrec", id, Retried(msg), {"PendingRec"}) \in Tasks
               /\ [to |-> "Pubrec", msg |-> Retried(msg)] \in Resends
    BY PubrecTakes, OutKFields
  <1>3. id \in RecIds(taken)
    BY <1>1 DEF AnswerOK
  <1>4. op \in K.messages["Status"]
    <2>1. KnownMessage("Status", op, SentIn, taken)
      BY <1>3 DEF KnownMessage, OpOK, SetPacketStatus, Answering
    <2> QED
      BY <1>2, <2>1, KnownFields, OutKFields, OutActors
  <1>5. VariablePacketMessage(Pubrel(id)) \in K.messages["Send"]
    <2>1. KnownMessage("Send", VariablePacketMessage(Pubrel(id)), SentIn, taken)
      BY <1>3 DEF KnownMessage, SentOK, VariablePacketMessage, Pubrel, Answering
    <2> QED
      BY <1>2, <2>1, KnownFields, OutKFields, OutActors
  <1>6. Retried(msg).packet = msg.packet
    BY <1>1 DEF Retried, AnswerMessages
  <1>7. ASSUME ~RetryExhausted(msg)
        PROVE  /\ StatusCheck("Pubrec", "Pubrec", id, Retried(msg), {"PendingRec"}) \in K.timers
               /\ [to |-> "Pubrec", msg |-> Retried(msg)] \in K.resends
    <2>1. TaskOK(StatusCheck("Pubrec", "Pubrec", id, Retried(msg), {"PendingRec"}), taken)
      BY <1>1, <1>6 DEF TaskOK, StatusCheck, PublishPacketStatus
    <2> QED
      BY <1>1, <1>2, <1>6, <1>7, <2>1, KnownFields
  <1>8. Pubrel(id).id = id
    BY DEF Pubrel
  <1> QED
    BY <1>1, <1>4, <1>5, <1>7, <1>8

LEMMA PubrecHandleKnown ==
    ASSUME TypeOK, Known, PubrecHandle
    PROVE  Known'
  <1>1. PICK msg : msg = Head(mbox["Pubrec"])
    OBVIOUS
  <1>2. PICK id : id = msg.packet.id
    OBVIOUS
  <1>3. PICK op : op = SetPacketStatus(id, "PendingComp")
    OBVIOUS
  <1>4. /\ Handling("Pubrec", "Pubrec") /\ "Pubrec" \in Actor
        /\ SendPacketHandle("Pubrec", msg, op, Pubrel(id), {"PendingRec"})
        /\ UNCHANGED <<wireVars, outVars>>
    BY <1>1, <1>2, <1>3, OutActors DEF PubrecHandle, Pubrel
  <1>5. ASSUME NEW K, K = KnownK(SentIn, taken)
        PROVE  SessionOK(K)'
    <2>1. SessionOK(K) /\ Wired(K)
      BY <1>5, KnownWired DEF Known
    <2> QED
      BY <1>1, <1>2, <1>3, <1>4, <1>5, <2>1, KnownPubrec, SendPacketHandleTyped
  <1>6. UNCHANGED <<packetStatus, sentAs, acked, taken>>
    BY <1>4 DEF SendPacketHandle, outVars
  <1> QED
    BY <1>5, <1>6, KnownKept

\* What SendPublishActor makes is accounted for when its identifier is.
LEMMA KnownPublish ==
    ASSUME TypeOK, SendPublishHandle, NEW sent, NEW tk, NEW K, K = KnownK(sent, tk),
           NeedsId(Head(mbox["SendPublish"])) /\ Accepts("Status") /\ Accepts("Send")
               => \A m : m = Head(mbox["SendPublish"]).m => NextId \in sent[m]
    PROVE  LET msg == Head(mbox["SendPublish"])
               h   == PublishHandled(msg)
           IN  /\ RemovePacketStatus(0) \in K.messages["Status"]
               /\ VariablePacketMessage(DisconnectPacket) \in K.messages["Send"]
               /\ QoS[msg.m] = 0 \/ (NeedsId(msg) /\ Accepts("Status") /\ Accepts("Send"))
                      => VariablePacketMessage(h.packet) \in K.messages["Send"]
               /\ h.op \in K.messages["Status"]
               /\ ~RetryExhausted(msg) =>
                      /\ h.check \in K.timers
                      /\ [to |-> "SendPublish", msg |-> Retried(msg)] \in K.resends
  <1> DEFINE msg == Head(mbox["SendPublish"])
             h   == PublishHandled(msg)
  <1>5. /\ msg \in PublishMessages /\ msg.m \in OutMsg /\ h.id \in Id
        /\ VariablePacketMessage(h.packet) \in MessagesTo("Send")
        /\ h.op \in MessagesTo("Status")
        /\ ~RetryExhausted(msg) =>
               /\ h.check \in Tasks
               /\ [to |-> "SendPublish", msg |-> Retried(msg)] \in Resends
    BY SendPublishTakes, OutKFields, OutActors
  <1>6. /\ \A a \in Actor : K.messages[a] = {m \in MessagesTo(a) : KnownMessage(a, m, sent, tk)}
        /\ K.resends = {r \in Resends : r.to \in Answering => AnswerOK(r.msg.packet, tk)}
        /\ K.timers = {t \in Tasks : TaskOK(t, tk)}
    BY KnownFields
  <1>7. RemovePacketStatus(0) \in K.messages["Status"]
    <2>1. RemovePacketStatus(0) \in MessagesTo("Status")
      BY RemoveToStatus, OutKFields, OutActors, StatusAssumption DEF Id
    <2>2. KnownMessage("Status", RemovePacketStatus(0), sent, tk)
      BY DEF KnownMessage, OpOK, RemovePacketStatus, Answering
    <2> QED
      BY <1>6, <2>1, <2>2, OutActors
  <1>8. VariablePacketMessage(DisconnectPacket) \in K.messages["Send"]
    <2>1. VariablePacketMessage(DisconnectPacket) \in MessagesTo("Send")
      BY PacketToSend, OutKFields, OutActors DEF ClientPackets, DisconnectPacket
    <2>2. KnownMessage("Send", VariablePacketMessage(DisconnectPacket), sent, tk)
      BY DEF KnownMessage, SentOK, VariablePacketMessage, DisconnectPacket, Answering
    <2> QED
      BY <1>6, <2>1, <2>2, OutActors
  <1>9. ASSUME QoS[msg.m] = 0 \/ (NeedsId(msg) /\ Accepts("Status") /\ Accepts("Send"))
        PROVE  VariablePacketMessage(h.packet) \in K.messages["Send"]
    <2>1. IF QoS[msg.m] = 0 THEN h.id = 0 ELSE h.id \in sent[msg.m]
      <3>1. CASE QoS[msg.m] = 0
        BY <3>1 DEF PublishHandled
      <3>2. CASE QoS[msg.m] # 0
        BY <1>5, <1>9, <3>2, Transmission
      <3> QED
        BY <3>1, <3>2
    <2>2. h.packet = PublishPacket(msg.m, h.id)
      BY DEF PublishHandled
    <2> HIDE DEF h, msg
    <2>3. KnownMessage("Send", VariablePacketMessage(h.packet), sent, tk)
      BY <2>1, <2>2 DEF KnownMessage, SentOK, VariablePacketMessage, PublishPacket, Answering
    <2> QED
      BY <1>5, <1>6, <2>3, OutActors
  <1>10. h.op \in K.messages["Status"]
    <2>1. KnownMessage("Status", h.op, sent, tk)
      BY DEF KnownMessage, OpOK, PublishHandled, SetPacketStatus, FirstStatus, Waiting, Answering
    <2> QED
      BY <1>5, <1>6, <2>1, OutActors
  <1>11. ASSUME ~RetryExhausted(msg)
         PROVE  h.check \in K.timers
    <2>1. Retried(msg).m = msg.m
      BY <1>5, <1>11, RetriedOK
    <2>2. TaskOK(h.check, tk)
      BY <2>1 DEF TaskOK, PublishHandled, StatusCheck, Unanswered, PublishPacketStatus
    <2> QED
      BY <1>5, <1>6, <1>11, <2>2
  <1>12. ~RetryExhausted(msg) => [to |-> "SendPublish", msg |-> Retried(msg)] \in K.resends
    BY <1>5, <1>6 DEF Answering
  <1> QED
    BY <1>7, <1>8, <1>9, <1>10, <1>11, <1>12

LEMMA SendPublishHandleKnown ==
    ASSUME TypeOK, Known, SendPublishHandle
    PROVE  Known'
  <1> DEFINE msg == Head(mbox["SendPublish"])
             h   == PublishHandled(msg)
  <1>1. PICK sent, tk, K : sent = SentIn' /\ tk = taken /\ K = KnownK(sent, tk)
    OBVIOUS
  <1>2. UNCHANGED <<packetStatus, acked, taken>>
    BY DEF SendPublishHandle
  <1>3. \A m \in OutMsg : sent[m] = Sent(m)' /\ SentIn[m] = Sent(m) /\ Sent(m) \subseteq sent[m]
    BY <1>1, Transmission DEF SentIn
  <1>4. SessionOK(K) /\ Wired(K)
    BY <1>1, <1>3, KnownGrows, KnownWired DEF Known
  <1> HIDE DEF msg, h
  <1>5. SessionOK(K)'
    <2>1. NeedsId(msg) /\ Accepts("Status") /\ Accepts("Send") => \A m : m = msg.m => NextId \in sent[m]
      BY <1>3, Transmission, SendPublishTakes DEF msg
    <2> QED
      BY <1>1, <1>4, <2>1, KnownPublish, SendPublishTyped DEF msg, h
  <1>6. SessionOK(KnownK(SentIn, taken))'
    BY <1>1, <1>2, <1>5 DEF SessionOK
  <1>7. \A p \in taken : IF QoS[p.m] = 0 THEN p.id = 0 ELSE p.id \in Sent(p.m)'
    <2>1. \A p \in taken : p.m \in OutMsg
      BY DEF TypeOK
    <2>2. ASSUME NEW m \in OutMsg, NEW p \in taken, p.m = m, QoS[m] # 0
          PROVE  p.id \in Sent(m)'
      BY <1>3, <2>2 DEF Known
    <2> QED
      BY <2>1, <2>2 DEF Known, Sent
  <1>8. ASSUME NEW m \in OutMsg, NEW id \in Sent(m)'
         PROVE  QoS[m] # 0 /\ id # 0
    <2>1. CASE id \in Sent(m)
      BY <2>1 DEF Known
    <2>2. CASE id \notin Sent(m)
      <3>1. m = msg.m /\ sentAs' # sentAs /\ id = NextId
        BY <2>2, Transmission DEF msg
      <3>2. NeedsId(msg)
        BY <3>1, Transmission DEF msg
      <3>3. NextId # 0
        BY NextIdOK
      <3> QED
        BY <3>1, <3>2, <3>3 DEF NeedsId
    <2> QED
      BY <2>1, <2>2
  <1> QED
    BY <1>2, <1>6, <1>7, <1>8 DEF Known

\* The status actor does what it is asked to, and an answer that has settled an
\* attempt is the answer to a message that was taken.
LEMMA PublishStatusHandleKnown ==
    ASSUME TypeOK, Known, PublishStatusHandle
    PROVE  Known'
  <1>1. PICK K, op : K = KnownK(SentIn, taken) /\ op = Head(mbox["Status"])
    OBVIOUS
  <1>2. /\ StatusHandle /\ UNCHANGED <<wireVars, sentAs, taken>>
        /\ acked' = acked \cup Settled(op)
        /\ packetStatus' = Apply(op)
    BY <1>1 DEF PublishStatusHandle, StatusHandle
  <1>3. SessionOK(K) /\ Wired(K)
    BY <1>1, KnownWired DEF Known
  <1>4. SessionOK(K)' /\ op.id \in Id
    BY <1>1, <1>2, <1>3, StatusHandleTyped
  <1>5. OpOK(op, taken)
    <2>1. op \in K.messages["Status"] /\ op.type = "Status"
      BY <1>1, <1>2, <1>3, TakeTyped, OutActors DEF StatusHandle
    <2>2. KnownMessage("Status", op, SentIn, taken)
      BY <1>1, <2>1, KnownFields, OutActors
    <2> QED
      BY <2>1, <2>2 DEF KnownMessage
  <1>6. SentIn' = SentIn /\ \A m : Sent(m)' = Sent(m)
    BY <1>2 DEF SentIn, Sent
  <1>7. SessionOK(KnownK(SentIn, taken))'
    <2>1. K = KnownK(SentIn, taken)'
      BY <1>1, <1>2, <1>6
    <2> QED
      BY <1>4, <2>1 DEF SessionOK
  <1>8. \A id \in Id : packetStatus'[id] \in Waiting \cup {NoStatus} \/ id \in RecIds(taken)
    <2>1. packetStatus \in [Id -> Payload \cup {NoStatus}]
      BY DEF TypeOK
    <2>2. packetStatus' = [packetStatus EXCEPT ![op.id] = IF op.op = "Set" THEN op.payload ELSE NoStatus]
      BY <1>2 DEF Apply
    <2> QED
      BY <1>5, <2>1, <2>2 DEF Known, OpOK
  <1>9. Settled(op) \subseteq TakenIds(taken) \cup {0}
    <2>1. ASSUME op.op = "Set", op.payload = "PendingComp"
          PROVE  op.id \in TakenIds(taken)
      BY <1>5, <2>1 DEF OpOK, Waiting, RecIds, TakenIds
    <2> QED
      BY <1>5, <2>1 DEF Settled, OpOK
  <1>10. acked' \subseteq TakenIds(taken') \cup {0}
    BY <1>2, <1>9 DEF Known
  <1> QED
    BY <1>2, <1>6, <1>7, <1>8, <1>10 DEF Known

\* The server answers what it has taken.
LEMMA KnownBrokerAnswer ==
    ASSUME NEW sent, NEW tk, NEW packet \in ClientPackets, SentOK(packet, sent, tk),
           packet.type \in {"Publish", "Pubrel"},
           packet.type = "Publish" => [m |-> packet.m, id |-> packet.id] \in tk
    PROVE  BrokerAnswer(packet) \in Seq(KnownK(sent, tk).server)
  <1>1. BrokerAnswer(packet) \in Seq(ServerPackets)
    BY BrokerAnswers
  <1>2. ASSUME packet.type = "Publish"
        PROVE  /\ packet.id \in TakenIds(tk)
               /\ packet.qos = 2 => packet.id \in RecIds(tk)
    <2>1. packet.qos = QoS[packet.m]
      BY <1>2 DEF SentOK
    <2> QED
      BY <1>2, <2>1 DEF TakenIds, RecIds
  <1>3. packet.type = "Pubrel" => packet.id \in TakenIds(tk)
    BY DEF SentOK, TakenIds, RecIds
  <1>4. \A i \in DOMAIN BrokerAnswer(packet) : AnswerOK(BrokerAnswer(packet)[i], tk)
    <2>1. CASE packet.type = "Pubrel"
      BY <1>3, <2>1 DEF BrokerAnswer, AnswerOK, AnswerPacket
    <2>2. CASE packet.type = "Publish"
      <3>1. packet.qos \in 0 .. 2
        BY <2>2 DEF ClientPackets, AnswerPackets
      <3> QED
        BY <1>2, <2>2, <3>1 DEF BrokerAnswer, AnswerOK, AnswerPacket
    <2> QED
      BY <2>1, <2>2
  <1>5. PICK server : /\ server = KnownK(sent, tk).server
                      /\ server = {p \in ServerPackets : AnswerOK(p, tk)}
    BY KnownFields
  <1> HIDE DEF BrokerAnswer
  <1>6. BrokerAnswer(packet) \in Seq(server)
    BY <1>1, <1>4, <1>5
  <1> QED
    BY <1>5, <1>6

LEMMA BrokerReadKnown ==
    ASSUME TypeOK, Known, BrokerRead
    PROVE  Known'
  <1>1. PICK packet, sent, tk, K : /\ packet = Head(toBroker) /\ sent = SentIn
                                   /\ tk = taken' /\ K = KnownK(sent, tk)
    OBVIOUS
  <1>2. UNCHANGED <<packetStatus, sentAs, acked>> /\ \A m : Sent(m)' = Sent(m)
    BY DEF BrokerRead, statusVars, Sent
  <1>3. taken' = taken \cup
            IF packet.type = "Publish" THEN {[m |-> packet.m, id |-> packet.id]} ELSE {}
    BY <1>1 DEF BrokerRead
  <1>4. SessionOK(K)
    BY <1>1, <1>3, KnownGrows DEF Known
  <1>5. packet \in ClientPackets /\ SentOK(packet, sent, tk) /\ packet.type \in {"Publish", "Pubrel"}
    <2>1. toBroker \in Seq(K.client) /\ toBroker # <<>> /\ packet.type \in {"Publish", "Pubrel"}
      BY <1>1, <1>4 DEF SessionOK, BrokerRead
    <2>2. packet \in K.client
      BY <1>1, <2>1
    <2> QED
      BY <1>1, <2>1, <2>2, KnownFields
  <1>6. BrokerAnswer(packet) \in Seq(K.server)
    <2>1. packet.type = "Publish" => [m |-> packet.m, id |-> packet.id] \in tk
      BY <1>1, <1>3
    <2> QED
      BY <1>1, <1>5, <2>1, KnownBrokerAnswer
  <1>7. SessionOK(K)'
    BY <1>1, <1>4, <1>6, BrokerReadTyped
  <1>8. SessionOK(KnownK(SentIn, taken))'
    <2>1. K = KnownK(SentIn, taken)'
      BY <1>1, <1>2 DEF SentIn
    <2> QED
      BY <1>7, <2>1 DEF SessionOK
  <1>9. TakenIds(taken) \subseteq TakenIds(taken') /\ RecIds(taken) \subseteq RecIds(taken')
    BY <1>3 DEF TakenIds, RecIds
  <1>10. \A p \in taken' : IF QoS[p.m] = 0 THEN p.id = 0 ELSE p.id \in Sent(p.m)
    <2>1. ASSUME packet.type = "Publish"
          PROVE  IF QoS[packet.m] = 0 THEN packet.id = 0 ELSE packet.id \in Sent(packet.m)
      <3>1. packet.m \in OutMsg
        BY <1>5, <2>1 DEF ClientPackets, AnswerPackets
      <3>2. sent[packet.m] = Sent(packet.m)
        BY <1>1, <3>1 DEF SentIn
      <3> QED
        BY <1>5, <2>1, <3>2 DEF SentOK
    <2> QED
      BY <1>3, <2>1 DEF Known
  <1>11. \A p \in taken' : IF QoS[p.m] = 0 THEN p.id = 0 ELSE p.id \in Sent(p.m)'
    BY <1>2, <1>10 DEF Sent
  <1> QED
    BY <1>2, <1>8, <1>9, <1>11 DEF Known

LEMMA BackgroundKnown ==
    ASSUME Known, Background, UNCHANGED outVars
    PROVE  Known'
  <1>1. ASSUME NEW K, K = KnownK(SentIn, taken)
        PROVE  SessionOK(K)'
    BY <1>1, KnownWired, BackgroundTyped DEF Known
  <1> QED
    BY <1>1, KnownKept, BackgroundMap DEF outVars

LEMMA KnownStep == TypeOK /\ Known /\ [Next]_outgoingVars => Known'
  <1> SUFFICES ASSUME TypeOK, Known, [Next]_outgoingVars PROVE Known'
    OBVIOUS
  <1>1. CASE \E m \in OutMsg : ClientPublish(m)
    BY <1>1, ClientPublishKnown
  <1>2. CASE SendPublishHandle
    BY <1>2, SendPublishHandleKnown
  <1>3. CASE PubackHandle \/ PubcompHandle
    BY <1>3, ResponseHandleKnown DEF PubackHandle, PubcompHandle
  <1>4. CASE PubrecHandle
    BY <1>4, PubrecHandleKnown
  <1>5. CASE PublishStatusHandle
    BY <1>5, PublishStatusHandleKnown
  <1>6. CASE BrokerRead
    BY <1>6, BrokerReadKnown
  <1>7. CASE Background /\ UNCHANGED outVars
    BY <1>7, BackgroundKnown
  <1>8. CASE UNCHANGED outgoingVars
    <2>1. ASSUME NEW K, K = KnownK(SentIn, taken)
          PROVE  SessionOK(K)'
      BY <1>8, <2>1 DEF Known, SessionOK, outgoingVars, sessionVars, actorVars, statusVars, wireVars
    <2> QED
      BY <1>8, <2>1, KnownKept DEF outgoingVars, sessionVars, statusVars, outVars
  <1> QED
    BY <1>1, <1>2, <1>3, <1>4, <1>5, <1>6, <1>7, <1>8 DEF Next, OutgoingStep

-----------------------------------------------------------------------------
(* Everything that identifiers of any message may account for: what an      *)
(* attempt is followed in, since it does not change.                        *)

AllK == KnownK([m \in OutMsg |-> Id], [m : OutMsg, id : Id])

LEMMA AllFields ==
    /\ Wired(AllK) /\ StatusApart(AllK)
    /\ \A a \in Actor : AllK.messages[a] \subseteq OutK.messages[a]
    /\ AllK.resends \subseteq OutK.resends /\ AllK.tasks \subseteq OutK.tasks
    /\ AllK.timers \subseteq OutK.timers
    /\ \A t \in AllK.tasks : "Closed" \notin t.expect
    /\ \A t \in AllK.tasks : t.actor = "SendPublish" => t.expect = Unanswered(t.msg.m)
  <1>1. PICK sent, tk : AllK = KnownK(sent, tk)
    BY DEF AllK
  <1>2. PICK K : K = KnownK(sent, tk)
    OBVIOUS
  <1>3. /\ \A a \in Actor : K.messages[a] = {msg \in MessagesTo(a) : KnownMessage(a, msg, sent, tk)}
        /\ K.resends = {r \in Resends : r.to \in Answering => AnswerOK(r.msg.packet, tk)}
        /\ K.tasks = {t \in Tasks : TaskOK(t, tk)} /\ K.timers = {t \in Tasks : TaskOK(t, tk)}
    BY <1>2, KnownFields
  <1>4. Wired(K)
    BY <1>2, KnownWired
  <1>5. /\ \A a \in Actor : K.messages[a] \subseteq OutK.messages[a]
        /\ K.resends \subseteq OutK.resends /\ K.tasks \subseteq OutK.tasks /\ K.timers \subseteq OutK.timers
    BY <1>3, OutKFields
  <1>6. /\ \A t \in K.tasks : "Closed" \notin t.expect
        /\ \A t \in K.tasks : t.actor = "SendPublish" => t.expect = Unanswered(t.msg.m)
    BY <1>3 DEF TaskOK, PublishPacketStatus
  <1>7. StatusApart(K)
    <2>1. \A r \in K.resends : r.to \in Actor \ {"Status"}
      BY <1>3, OutActors, OutgoingAssumption, StatusAssumption DEF Resends, ResendsOf
    <2>2. \A t \in K.tasks : t.actor \in Actor \ {"Status"}
      BY <1>3, OutActors
    <2>3. ASSUME NEW msg \in K.messages["Dispatch"], msg.type = "Packet"
          PROVE  Target[msg.packet.type] \in Actor \ {"Status"}
      <3>1. msg.packet \in ServerPackets
        BY <1>3, <2>3, OutActors, HeadOfDispatch
      <3> QED
        BY <3>1, Dispatched, OutActors
    <2>4. SendStatusRecipient \subseteq Actor \ {"Status"}
      BY StatusAssumption
    <2> QED
      BY <2>1, <2>2, <2>3, <2>4 DEF StatusApart
  <1> QED
    BY <1>1, <1>2, <1>4, <1>5, <1>6, <1>7

LEMMA AllFollowed ==
    ASSUME NEW m
    PROVE  Followed(AllK, "SendPublish", PublishesOf(m))
  <1>1. Followed(OutK, "SendPublish", PublishesOf(m))
    BY PublishesFollowed
  <1>2. Asks(AllK, "SendPublish", PublishesOf(m)) \subseteq Asks(OutK, "SendPublish", PublishesOf(m))
    BY AllFields DEF Asks, TasksFor
  <1> QED
    BY <1>1, <1>2, AllFields, OutActors DEF Followed

\* What is accounted for is in AllK.
LEMMA KnownInAll ==
    ASSUME TypeOK
    PROVE  LET K == KnownK(SentIn, taken)
           IN  /\ \A a \in Actor : K.messages[a] \subseteq AllK.messages[a]
               /\ K.resends \subseteq AllK.resends /\ K.timers \subseteq AllK.timers
               /\ SessionOK(K) => SessionOK(AllK)
  <1>1. PICK all, tk : all = [m \in OutMsg |-> Id] /\ tk = [m : OutMsg, id : Id]
    OBVIOUS
  <1>2. AllK = KnownK(all, tk)
    BY <1>1 DEF AllK
  <1>3. (\A m \in OutMsg : SentIn[m] \subseteq all[m]) /\ taken \subseteq tk
    BY <1>1 DEF TypeOK, SentIn, Sent
  <1>4. PICK sent : sent = SentIn /\ \A m \in OutMsg : sent[m] \subseteq all[m]
    BY <1>3
  <1>5. PICK old, K : old = taken /\ K = KnownK(sent, old) /\ old \subseteq tk
    BY <1>3
  <1>6. /\ \A a \in Actor : K.messages[a] \subseteq AllK.messages[a]
        /\ K.resends \subseteq AllK.resends /\ K.timers \subseteq AllK.timers
    BY <1>2, <1>4, <1>5, KnownPart
  <1>7. SessionOK(K) => SessionOK(AllK)
    BY <1>2, <1>4, <1>5, KnownGrows
  <1> QED
    BY <1>4, <1>5, <1>6, <1>7

LEMMA AllTyped == TypeOK /\ Known => SessionOK(AllK)
  BY KnownInAll DEF Known

LEMMA AllStays ==
    ASSUME TypeOK, Known, [Next]_outgoingVars
    PROVE  SessionOK(AllK) /\ SessionOK(AllK)'
  <1>1. TypeOK' /\ Known'
    BY StepOK, KnownStep
  <1>2. TypeOK' /\ Known' => SessionOK(AllK)'
    BY AllTyped, PTL
  <1> QED
    BY <1>1, <1>2, AllTyped

-----------------------------------------------------------------------------
(* Attempts whose identifiers nobody else uses.  While the status of an     *)
(* attempt is there, its check is all that may repeat the message; once an  *)
(* answer has settled it, the check finds nothing.                          *)

Held(m, id) == HeldTo(AllK, "SendPublish", PublishesOf(m), id)

StatusFirst   == \A id \in Id : SetFirst(AllK, id, Waiting)
AckedClear    == \A id \in acked : Clear(AllK, id, Waiting)
AttemptsHeld  == \A m \in OutMsg : \A id \in Sent(m) :
                     ~Clear(AllK, id, Waiting) \/ id \in acked => Held(m, id)
AttemptsApart == \A m, n \in OutMsg : m # n => Sent(m) \cap Sent(n) = {}

Attempts == StatusFirst /\ AckedClear /\ AttemptsHeld /\ AttemptsApart

\* What a handler that leaves the status actor alone does to its statuses.
LEMMA StatusUntouched ==
    ASSUME mbox'["Status"] = mbox["Status"], UNCHANGED packetStatus
    PROVE  \A id \in Id : /\ Clear(AllK, id, Waiting)' <=> Clear(AllK, id, Waiting)
                          /\ SetFirst(AllK, id, Waiting)' <=> SetFirst(AllK, id, Waiting)
  BY DEF Clear, SetFirst

LEMMA SentIds ==
    ASSUME TypeOK, NEW m \in OutMsg
    PROVE  Sent(m) \subseteq Id
  BY DEF TypeOK, Sent

\* A step that uses no identifier and settles no attempt.
Quiet ==
    /\ \A id \in Id : /\ Clear(AllK, id, Waiting) => Clear(AllK, id, Waiting)'
                      /\ SetFirst(AllK, id, Waiting) => SetFirst(AllK, id, Waiting)'
    /\ \A m \in OutMsg : \A id \in Sent(m) : Held(m, id) => Held(m, id)'
    /\ UNCHANGED <<sentAs, acked>>

LEMMA QuietAttempts ==
    ASSUME TypeOK, Attempts, Quiet
    PROVE  Attempts'
  <1>1. \A m \in OutMsg : Sent(m)' = Sent(m) /\ Sent(m) \subseteq Id
    BY SentIds DEF Quiet, Sent
  <1>2. StatusFirst' /\ AckedClear'
    BY DEF Attempts, Quiet, StatusFirst, AckedClear, TypeOK
  <1>3. ASSUME NEW m \in OutMsg, NEW id \in Sent(m), ~Clear(AllK, id, Waiting)' \/ id \in acked
        PROVE  Held(m, id)'
    <2>1. ~Clear(AllK, id, Waiting) \/ id \in acked
      BY <1>1, <1>3 DEF Quiet
    <2>2. Held(m, id)
      BY <2>1 DEF Attempts, AttemptsHeld
    <2> QED
      BY <2>2 DEF Quiet
  <1>4. AttemptsHeld'
    BY <1>1, <1>3 DEF AttemptsHeld, Quiet
  <1>5. AttemptsApart'
    BY <1>1 DEF Attempts, AttemptsApart
  <1> QED
    BY <1>2, <1>4, <1>5 DEF Attempts

LEMMA ClientPublishQuiet ==
    ASSUME Chains, Known, NEW n \in OutMsg, ClientPublish(n)
    PROVE  Quiet
  <1>1. SessionOK(AllK) /\ SessionOK(AllK)' /\ "SendPublish" \in Actor \ {"Status"}
    BY AllStays, OutActors DEF Chains, Next, OutgoingStep
  <1>2. /\ mbox' = Post(mbox, "SendPublish", Publish(n, 0))
        /\ UNCHANGED <<resends, packetStatus, answered, sentAs, acked>>
        /\ n \notin published
    BY DEF ClientPublish, statusVars
  <1>3. mbox'["Status"] = mbox["Status"] /\ BoxesOK(AllK, mbox)
    BY <1>1, <1>2, OutActors DEF SessionOK, BoxesOK, Post
  <1>4. Publish(n, 0) \in AllK.messages["SendPublish"]
    <2>1. Publish(n, 0) \in MessagesTo("SendPublish")
      BY StatusAssumption DEF Publish, MessagesTo, PublishMessages, Retry
    <2>2. \A sent, tk : KnownMessage("SendPublish", Publish(n, 0), sent, tk)
      BY DEF KnownMessage, Answering
    <2> QED
      BY <2>1, <2>2, KnownFields, OutActors DEF AllK
  <1>5. ASSUME NEW m \in OutMsg, NEW id \in Sent(m), Held(m, id)
        PROVE  Held(m, id)'
    <2>1. n # m
      <3>1. sentAs[m] # <<>>
        BY DEF Sent
      <3> QED
        BY <1>2, <3>1 DEF Chains, ChainOf
    <2>2. PICK A : A = AttemptK(AllK, "SendPublish", PublishesOf(m), id)
      OBVIOUS
    <2>3. SessionOK(A) /\ A.messages["SendPublish"] = AllK.messages["SendPublish"]
      BY <1>1, <1>5, <2>2, AttemptFields DEF Held, HeldTo
    <2>4. SessionOK(A)'
      BY <1>4, <2>3, ClientPublishTyped
    <2>5. Publish(n, 0) \notin PublishesOf(m)
      BY <2>1 DEF PublishesOf, Publish
    <2>6. Grown(mbox["SendPublish"], mbox'["SendPublish"], PublishesOf(m))
      BY <1>1, <1>2, <1>3, <2>5, PostGrown
    <2>7. BagKeeps(resends, resends', ResendsFor(AllK, "SendPublish", PublishesOf(m)))
      BY <1>2, BagKeepsItself
    <2>8. HeldTo(AllK, "SendPublish", PublishesOf(m), id)'
      BY <1>1, <1>2, <1>5, <2>2, <2>4, <2>6, <2>7, HeldElsewhere DEF Held
    <2> QED
      BY <2>8 DEF Held
  <1> QED
    BY <1>2, <1>3, <1>5, StatusUntouched DEF Quiet

LEMMA ResponseHandleQuiet ==
    ASSUME TypeOK, Known, PubackHandle \/ PubcompHandle
    PROVE  Quiet
  <1>0. PICK a \in {"Puback", "Pubcomp"} : ResponseHandle(a, a) /\ UNCHANGED <<wireVars, outVars>>
    BY DEF PubackHandle, PubcompHandle
  <1>1. PICK msg : msg = Head(mbox[a])
    OBVIOUS
  <1>2. /\ SessionOK(AllK) /\ SessionOK(AllK)' /\ Wired(AllK) /\ StatusApart(AllK)
        /\ a \in Actor \ {"SendPublish"} /\ "Status" \in Actor
    BY AllStays, AllFields, OutActors DEF Next, OutgoingStep
  <1>3. /\ RemovePacketStatus(msg.packet.id) \in AllK.messages["Status"]
        /\ [to |-> a, msg |-> msg] \in AllK.resends
        /\ UNCHANGED <<packetStatus, sentAs, acked>>
    <2>1. PICK K : K = KnownK(SentIn, taken) /\ SessionOK(K)
      BY DEF Known
    <2>2. Handling(a, a) /\ a \in Answering
      BY <1>0 DEF ResponseHandle, Answering
    <2> QED
      BY <1>0, <1>1, <2>1, <2>2, KnownAnswer, KnownInAll, OutActors DEF ResponseHandle, statusVars, outVars
  <1>4. ASSUME NEW id \in Id
        PROVE  /\ Clear(AllK, id, Waiting) => Clear(AllK, id, Waiting)'
               /\ SetFirst(AllK, id, Waiting) => SetFirst(AllK, id, Waiting)'
    <2>1. /\ StopMessage \notin StatusSets(AllK, id, Waiting)
          /\ RemovePacketStatus(msg.packet.id) \notin StatusSets(AllK, id, Waiting)
      BY DEF StatusSets, StatusOps, StopMessage, RemovePacketStatus
    <2>2. Grown(mbox["Status"], mbox'["Status"], StatusSets(AllK, id, Waiting))
      BY <1>0, <1>1, <1>2, <1>3, <2>1, ResponseHandleGrows
    <2> QED
      BY <1>2, <1>3, <2>2, StatusGrows DEF Clear
  <1>5. ASSUME NEW m \in OutMsg, NEW id \in Sent(m), Held(m, id)
        PROVE  Held(m, id)'
    <2>1. HeldTo(AllK, "SendPublish", PublishesOf(m), id)'
      BY <1>0, <1>1, <1>2, <1>3, <1>5, AllFollowed, ResponseHandleHeld DEF Held
    <2> QED
      BY <2>1 DEF Held
  <1> QED
    BY <1>3, <1>4, <1>5 DEF Quiet

LEMMA PubrecHandleQuiet ==
    ASSUME TypeOK, Known, PubrecHandle
    PROVE  Quiet
  <1>1. PICK msg : msg = Head(mbox["Pubrec"])
    OBVIOUS
  <1>2. PICK id : id = msg.packet.id
    OBVIOUS
  <1>3. PICK op : op = SetPacketStatus(id, "PendingComp")
    OBVIOUS
  <1>4. /\ Handling("Pubrec", "Pubrec")
        /\ SendPacketHandle("Pubrec", msg, op, Pubrel(id), {"PendingRec"})
        /\ UNCHANGED <<wireVars, outVars>>
    BY <1>1, <1>2, <1>3 DEF PubrecHandle, Pubrel
  <1>5. /\ SessionOK(AllK) /\ SessionOK(AllK)' /\ Wired(AllK) /\ StatusApart(AllK)
        /\ "Pubrec" \in Actor \ {"SendPublish"} /\ "Status" \in Actor \ {"Send"}
    BY AllStays, AllFields, OutActors DEF Next, OutgoingStep
  <1>6. /\ RemovePacketStatus(Pubrel(id).id) \in AllK.messages["Status"]
        /\ op \in AllK.messages["Status"]
        /\ VariablePacketMessage(Pubrel(id)) \in AllK.messages["Send"]
        /\ ~RetryExhausted(msg) =>
               /\ StatusCheck("Pubrec", "Pubrec", Pubrel(id).id, Retried(msg), {"PendingRec"}) \in AllK.timers
               /\ [to |-> "Pubrec", msg |-> Retried(msg)] \in AllK.resends
    <2>1. PICK K : K = KnownK(SentIn, taken) /\ SessionOK(K)
      BY DEF Known
    <2> QED
      BY <1>1, <1>2, <1>3, <1>4, <2>1, KnownPubrec, KnownInAll, OutActors
  <1>7. UNCHANGED <<packetStatus, sentAs, acked>>
    BY <1>4 DEF SendPacketHandle, outVars
  <1>8. ASSUME NEW i \in Id
        PROVE  /\ Clear(AllK, i, Waiting) => Clear(AllK, i, Waiting)'
               /\ SetFirst(AllK, i, Waiting) => SetFirst(AllK, i, Waiting)'
    <2>1. /\ StopMessage \notin StatusSets(AllK, i, Waiting)
          /\ RemovePacketStatus(Pubrel(id).id) \notin StatusSets(AllK, i, Waiting)
          /\ op \notin StatusSets(AllK, i, Waiting)
      BY <1>3 DEF StatusSets, StatusOps, StopMessage, RemovePacketStatus, SetPacketStatus, Waiting
    <2>2. Grown(mbox["Status"], mbox'["Status"], StatusSets(AllK, i, Waiting))
      BY <1>4, <1>5, <1>6, <2>1, SendPacketHandleGrows
    <2> QED
      BY <1>5, <1>7, <2>2, StatusGrows DEF Clear
  <1>9. ASSUME NEW m \in OutMsg, NEW i \in Sent(m), Held(m, i)
        PROVE  Held(m, i)'
    <2>1. op.op \in {"Set", "Remove"}
      BY <1>3 DEF SetPacketStatus
    <2>2. HeldTo(AllK, "SendPublish", PublishesOf(m), i)'
      BY <1>4, <1>5, <1>6, <1>9, <2>1, AllFollowed, SendPacketHandleHeld DEF Held
    <2> QED
      BY <2>2 DEF Held
  <1> QED
    BY <1>7, <1>8, <1>9 DEF Quiet

LEMMA BrokerReadQuiet ==
    ASSUME TypeOK, Known, BrokerRead
    PROVE  Quiet
  <1>1. UNCHANGED <<mbox, resends, packetStatus, answered, sentAs, acked>>
    BY DEF BrokerRead, actorVars, statusVars
  <1>2. Head(toBroker) \in AllK.client => BrokerAnswer(Head(toBroker)) \in Seq(AllK.server)
    <2>1. PICK packet : packet = Head(toBroker)
      OBVIOUS
    <2>2. PICK sent, tk : /\ sent = [m \in OutMsg |-> Id] /\ tk = [m : OutMsg, id : Id]
                          /\ AllK = KnownK(sent, tk)
      BY DEF AllK
    <2>3. ASSUME packet \in AllK.client
          PROVE  BrokerAnswer(packet) \in Seq(AllK.server)
      <3>1. packet \in ClientPackets /\ SentOK(packet, sent, tk)
        BY <2>2, <2>3, KnownFields
      <3>2. packet.type \in {"Publish", "Pubrel"}
        BY <2>1 DEF BrokerRead
      <3>3. packet.type = "Publish" => [m |-> packet.m, id |-> packet.id] \in tk
        BY <2>2, <3>1 DEF ClientPackets, AnswerPackets
      <3> QED
        BY <2>2, <3>1, <3>2, <3>3, KnownBrokerAnswer
    <2> QED
      BY <2>1, <2>3
  <1>3. ASSUME NEW m \in OutMsg, NEW id \in Sent(m), Held(m, id)
        PROVE  Held(m, id)'
    <2>1. PICK A : A = AttemptK(AllK, "SendPublish", PublishesOf(m), id)
      OBVIOUS
    <2>2. SessionOK(A) /\ A.client = AllK.client /\ A.server = AllK.server
      BY <1>3, <2>1, AttemptFields DEF Held, HeldTo
    <2>3. SessionOK(A)'
      BY <1>2, <2>2, BrokerReadTyped
    <2>4. Silent(AllK, "SendPublish", PublishesOf(m))'
      BY <1>1, <1>3 DEF Held, HeldTo, Silent
    <2> QED
      BY <2>1, <2>3, <2>4 DEF Held, HeldTo
  <1> QED
    BY <1>1, <1>3, StatusUntouched DEF Quiet

LEMMA BackgroundQuiet ==
    ASSUME TypeOK, Known, Background, UNCHANGED outVars
    PROVE  Quiet
  <1>1. /\ SessionOK(AllK) /\ Wired(AllK) /\ StatusApart(AllK)
        /\ \A t \in AllK.tasks : "Closed" \notin t.expect
    BY AllTyped, AllFields
  <1>2. \A id \in Id : /\ Clear(AllK, id, Waiting) => Clear(AllK, id, Waiting)'
                       /\ SetFirst(AllK, id, Waiting) => SetFirst(AllK, id, Waiting)'
    BY <1>1, BackgroundClear
  <1>3. ASSUME NEW m \in OutMsg, NEW id \in Sent(m), Held(m, id)
        PROVE  Held(m, id)'
    <2>1. HeldTo(AllK, "SendPublish", PublishesOf(m), id)'
      BY <1>1, <1>3, AllFollowed, BackgroundHeld DEF Held
    <2> QED
      BY <2>1 DEF Held
  <1> QED
    BY <1>2, <1>3 DEF Quiet, outVars

\* The status actor.  The check of an attempt that an answer has settled does
\* not find what it expects, and no other check of the message asks about it.
LEMMA PublishStatusHandleAttempts ==
    ASSUME TypeOK, Known, Attempts, PublishStatusHandle
    PROVE  Attempts'
  <1>1. PICK op : op = Head(mbox["Status"])
    OBVIOUS
  <1>2. /\ SessionOK(AllK) /\ Wired(AllK) /\ StatusApart(AllK)
        /\ StatusHandle /\ UNCHANGED <<wireVars, sentAs>>
        /\ acked' = acked \cup Settled(op)
    BY <1>1, AllTyped, AllFields DEF PublishStatusHandle
  <1>3. op.id \in Id
    BY <1>1, <1>2, StatusHandleTyped
  <1>4. ASSUME NEW id \in Id
        PROVE  /\ SetFirst(AllK, id, Waiting)'
               /\ Clear(AllK, id, Waiting) => Clear(AllK, id, Waiting)'
               /\ op.id = id /\ (op.op = "Set" => op.payload \notin Waiting)
                      => Clear(AllK, id, Waiting)'
    BY <1>1, <1>2, StatusHandleClear DEF Attempts, StatusFirst, NoStatus, Waiting
  <1>5. /\ Settled(op) \subseteq {op.id}
        /\ Settled(op) # {} => /\ packetStatus[op.id] \in Waiting
                               /\ op.op # "GetAndRemove"
                               /\ op.op = "Set" => op.payload \notin Waiting
    BY DEF Settled, Waiting
  <1>6. StatusFirst'
    BY <1>4 DEF StatusFirst
  <1>7. AckedClear'
    BY <1>2, <1>3, <1>4, <1>5 DEF AckedClear, Attempts, TypeOK
  <1>8. \A m \in OutMsg : Sent(m)' = Sent(m) /\ Sent(m) \subseteq Id
    BY <1>2, SentIds DEF Sent
  <1>9. ASSUME NEW m \in OutMsg, NEW id \in Sent(m), ~Clear(AllK, id, Waiting)' \/ id \in acked'
        PROVE  Held(m, id)'
    <2>1. id \in Id
      BY <1>8
    <2>2. ~Clear(AllK, id, Waiting) \/ id \in acked
      BY <1>2, <1>4, <1>5, <1>9, <2>1 DEF Clear
    <2>3. Held(m, id)
      BY <2>2 DEF Attempts, AttemptsHeld
    <2>4. ASSUME op.op = "GetAndRemove", op.id = id,
                 op.task \in TasksFor(AllK, "SendPublish", PublishesOf(m))
          PROVE  packetStatus[id] \notin op.task.expect
      <3>1. Clear(AllK, id, Waiting)' /\ acked' = acked
        BY <1>2, <1>4, <1>5, <2>1, <2>4
      <3>2. packetStatus[id] \notin Waiting
        BY <1>9, <3>1 DEF Attempts, AckedClear, Clear
      <3>3. op.task.expect = Unanswered(m)
        BY <2>4, AllFields DEF TasksFor, PublishesOf
      <3>4. CASE QoS[m] # 1
        BY <3>2, <3>3, <3>4 DEF Unanswered, Waiting
      <3>5. CASE QoS[m] = 1
        <4>1. ASSUME id \in RecIds(taken)
              PROVE  FALSE
          <5>1. PICK p \in taken : QoS[p.m] = 2 /\ p.id = id
            BY <4>1 DEF RecIds
          <5>2. PICK n : n = p.m
            OBVIOUS
          <5>3. n \in OutMsg /\ id \in Sent(n)
            BY <5>1, <5>2 DEF TypeOK, Known
          <5> QED
            BY <3>5, <5>1, <5>2, <5>3 DEF Attempts, AttemptsApart
        <4>2. packetStatus[id] = NoStatus
          BY <2>1, <3>2, <4>1 DEF Known
        <4> QED
          BY <3>3, <3>5, <4>2 DEF Unanswered, PublishPacketStatus, NoStatus
      <3> QED
        BY <3>4, <3>5
    <2>5. HeldTo(AllK, "SendPublish", PublishesOf(m), id)'
      BY <1>1, <1>2, <2>3, <2>4, AllFollowed, StatusHandleHeld DEF Held
    <2> QED
      BY <2>5 DEF Held
  <1>10. AttemptsHeld'
    BY <1>8, <1>9 DEF AttemptsHeld
  <1>11. AttemptsApart'
    BY <1>8 DEF Attempts, AttemptsApart
  <1> QED
    BY <1>6, <1>7, <1>10, <1>11 DEF Attempts

\* A message of m in the mailbox: no attempt at m is settled or waited for.
LEMMA HeldNotHandled ==
    ASSUME TypeOK, NEW m, NEW id, Held(m, id)
    PROVE  mbox["SendPublish"] # <<>> => Head(mbox["SendPublish"]) \notin PublishesOf(m)
  <1>1. mbox["SendPublish"] \in Seq(OutK.messages["SendPublish"])
    BY TypeParts, OutActors DEF SessionOK
  <1>2. mbox["SendPublish"] # <<>> =>
            1 \in DOMAIN mbox["SendPublish"] /\ mbox["SendPublish"][1] = Head(mbox["SendPublish"])
    BY <1>1
  <1>3. NoneIn(mbox["SendPublish"], PublishesOf(m))
    BY DEF Held, HeldTo, Silent
  <1> QED
    BY <1>2, <1>3 DEF NoneIn

\* What SendPublishActor puts into the mailboxes.
LEMMA PublishPosts ==
    ASSUME TypeOK, SendPublishHandle
    PROVE  LET msg == Head(mbox["SendPublish"])
           IN  /\ mbox'["SendPublish"] = Tail(mbox["SendPublish"])
               /\ \/ mbox'["Status"] = mbox["Status"]
                  \/ mbox'["Status"] = Append(mbox["Status"], RemovePacketStatus(0))
                  \/ /\ NeedsId(msg)
                     /\ mbox'["Status"] =
                            Append(mbox["Status"], SetPacketStatus(NextId, FirstStatus(msg.m)))
  <1> DEFINE msg    == Head(mbox["SendPublish"])
             h      == PublishHandled(msg)
             box    == Take("SendPublish")
             remove == RemovePacketStatus(0)
             packet == VariablePacketMessage(h.packet)
             Same(b, c) == b["SendPublish"] = c["SendPublish"] /\ b["Status"] = c["Status"]
  <1>1. /\ DOMAIN mbox = Actor /\ DOMAIN box = Actor
        /\ box["SendPublish"] = Tail(mbox["SendPublish"]) /\ box["Status"] = mbox["Status"]
    BY OutActors DEF TypeOK, MailboxesOK, Take
  <1>2. \/ mbox' = box
        \/ GiveUp(box, 0)
        \/ mbox' = Post(box, "Send", packet) \/ HandleSendError("Send", box)
        \/ NeedsId(msg) /\ SetSendSchedule(box, "SendPublish", h.op, h.packet, h.check, Retried(msg))
    BY SendPublishCases
  <1>3. NeedsId(msg) => h.op = SetPacketStatus(NextId, FirstStatus(msg.m))
    BY DEF NeedsId, PublishHandled
  <1> HIDE DEF box, msg, h, remove
  <1>4. ASSUME NEW b, DOMAIN b = Actor, NEW m
        PROVE  /\ \A a \in {"Stop", "Send"} : Same(Post(b, a, m), b)
               /\ DOMAIN Post(b, "Status", m) = Actor
               /\ Post(b, "Status", m)["SendPublish"] = b["SendPublish"]
               /\ Post(b, "Status", m)["Status"] \in {b["Status"], Append(b["Status"], m)}
    BY <1>4, OutActors DEF Post
  <1>5. CASE mbox' = box
    BY <1>1, <1>5
  <1>6. CASE GiveUp(box, 0)
    <2>1. mbox' = Post(box, "Stop", StopMessage) \/ mbox' = Post(box, "Status", remove)
      BY <1>6 DEF GiveUp, remove
    <2> QED
      BY <1>1, <1>4, <2>1 DEF remove
  <1>7. CASE mbox' = Post(box, "Send", packet) \/ HandleSendError("Send", box)
    <2>1. mbox' \in {box, Post(box, "Stop", StopMessage), Post(box, "Send", packet)}
      BY <1>7 DEF HandleSendError
    <2> HIDE DEF packet
    <2> QED
      BY <1>1, <1>4, <2>1
  <1>8. CASE NeedsId(msg) /\ SetSendSchedule(box, "SendPublish", h.op, h.packet, h.check, Retried(msg))
    <2> DEFINE set == Post(box, "Status", h.op)
    <2>1. \/ mbox' \in {box, Post(box, "Stop", StopMessage)}
          \/ mbox' \in {set, Post(set, "Stop", StopMessage), Post(set, "Send", packet)}
      BY <1>8 DEF SetSendSchedule, HandleSendErrorWithResend
    <2>2. /\ DOMAIN set = Actor /\ set["SendPublish"] = box["SendPublish"]
          /\ set["Status"] \in {box["Status"], Append(box["Status"], h.op)}
      BY <1>1, <1>4
    <2> HIDE DEF set, packet
    <2>3. Same(mbox', box) \/ Same(mbox', set)
      BY <2>1, <1>4, <1>1, <2>2
    <2> QED
      BY <1>1, <1>3, <1>8, <2>2, <2>3 DEF msg
  <1> QED
    BY <1>2, <1>5, <1>6, <1>7, <1>8

\* What SendPublishActor makes is in AllK.
LEMMA AllPublish ==
    ASSUME TypeOK, SendPublishHandle
    PROVE  LET msg == Head(mbox["SendPublish"])
               h   == PublishHandled(msg)
           IN  /\ RemovePacketStatus(0) \in AllK.messages["Status"]
               /\ VariablePacketMessage(DisconnectPacket) \in AllK.messages["Send"]
               /\ QoS[msg.m] = 0 \/ (NeedsId(msg) /\ Accepts("Status") /\ Accepts("Send"))
                      => VariablePacketMessage(h.packet) \in AllK.messages["Send"]
               /\ h.op \in AllK.messages["Status"]
               /\ ~RetryExhausted(msg) =>
                      /\ h.check \in AllK.timers
                      /\ [to |-> "SendPublish", msg |-> Retried(msg)] \in AllK.resends
  <1>1. PICK all, tk : all = [m \in OutMsg |-> Id] /\ AllK = KnownK(all, tk)
    BY DEF AllK
  <1>2. \A m : m = Head(mbox["SendPublish"]).m => NextId \in all[m]
    BY <1>1, SendPublishTakes, NextIdOK
  <1>3. PICK K : K = KnownK(all, tk)
    OBVIOUS
  <1> QED
    BY <1>1, <1>2, <1>3, KnownPublish

\* The handler of another message leaves the attempts at m alone.
LEMMA SendPublishHandleHeld ==
    ASSUME TypeOK, Known, SendPublishHandle, NEW m, NEW id, Held(m, id),
           Head(mbox["SendPublish"]).m # m
    PROVE  Held(m, id)'
  <1> DEFINE msg   == Head(mbox["SendPublish"])
             h     == PublishHandled(msg)
             retry == [to |-> "SendPublish", msg |-> Retried(msg)]
             S     == PublishesOf(m)
  <1>1. /\ SessionOK(AllK) /\ SessionOK(AllK)' /\ Wired(AllK) /\ StatusApart(AllK)
        /\ "SendPublish" \in Actor \ {"Status"} /\ "Send" \in Actor \ {"Status"}
    BY AllStays, AllFields, OutActors DEF Next, OutgoingStep
  <1>2. PICK A : A = AttemptK(AllK, "SendPublish", S, id)
    OBVIOUS
  <1>3. /\ A.messages["Send"] = AllK.messages["Send"]
        /\ A.messages["Status"] = AllK.messages["Status"] \ OtherAsks(AllK, "SendPublish", S, id)
        /\ A.resends = AllK.resends
        /\ A.timers = AllK.timers \ OtherTasks(AllK, "SendPublish", S, id)
    BY <1>1, <1>2, AttemptFields
  <1>4. SessionOK(A) /\ Wired(A)
    BY <1>1, <1>2, AttemptWired DEF Held, HeldTo
  <1>5. /\ msg \in PublishMessages /\ mbox["SendPublish"] # <<>>
        /\ h.check.msg = Retried(msg) /\ h.op.op = "Set"
    BY SendPublishTakes
  <1>6. ~RetryExhausted(msg) => Retried(msg) \notin S
    <2>1. ~RetryExhausted(msg) => Retried(msg).m # m
      BY <1>5, RetriedOK
    <2> QED
      BY <2>1 DEF PublishesOf
  <1>7. /\ RemovePacketStatus(0) \in AllK.messages["Status"]
        /\ VariablePacketMessage(DisconnectPacket) \in AllK.messages["Send"]
        /\ QoS[msg.m] = 0 \/ (NeedsId(msg) /\ Accepts("Status") /\ Accepts("Send"))
               => VariablePacketMessage(h.packet) \in AllK.messages["Send"]
        /\ h.op \in AllK.messages["Status"]
        /\ ~RetryExhausted(msg) => h.check \in AllK.timers /\ retry \in AllK.resends
    BY AllPublish
  <1> HIDE DEF h, msg
  <1>8. RemovePacketStatus(0) \in A.messages["Status"] /\ h.op \in A.messages["Status"]
    <2>1. \A op \in OtherAsks(AllK, "SendPublish", S, id) : op.op = "GetAndRemove"
      BY DEF OtherAsks, GetAndRemovePacketStatus
    <2>2. RemovePacketStatus(0).op = "Remove"
      BY DEF RemovePacketStatus
    <2> QED
      BY <1>3, <1>5, <1>7, <2>1, <2>2
  <1>9. ~RetryExhausted(msg) => h.check \in A.timers /\ retry \in A.resends
    BY <1>3, <1>5, <1>6, <1>7 DEF OtherTasks, TasksFor
  <1>10. SessionOK(A)'
    BY <1>3, <1>4, <1>7, <1>8, <1>9, SendPublishTyped DEF msg, h
  <1>11. Grown(mbox["SendPublish"], mbox'["SendPublish"], S)
    <2>1. mbox["SendPublish"] \in Seq(AllK.messages["SendPublish"])
      BY <1>1 DEF SessionOK
    <2> QED
      BY <1>5, <2>1, PublishPosts, GrownTail
  <1>12. BagKeeps(resends, resends', ResendsFor(AllK, "SendPublish", S))
    <2>1. UNCHANGED resends \/ (~RetryExhausted(msg) /\ resends' = BagAdd(resends, retry))
      BY SendPublishCases DEF GiveUp, SetSendSchedule, HandleSendErrorWithResend, msg
    <2>2. ~RetryExhausted(msg) => retry \notin ResendsFor(AllK, "SendPublish", S)
      BY <1>6 DEF ResendsFor
    <2> HIDE DEF retry
    <2> QED
      BY <2>1, <2>2, BagAddKeeps, BagKeepsItself
  <1>13. UNCHANGED answered
    BY DEF SendPublishHandle
  <1>14. HeldTo(AllK, "SendPublish", S, id)'
    BY <1>1, <1>2, <1>10, <1>11, <1>12, <1>13, HeldElsewhere DEF Held
  <1> QED
    BY <1>14 DEF Held

\* What SendPublishActor does with an identifier that nobody has used: setting
\* its status is the first that is done with it, and the check of the attempt
\* the only question about it.
LEMMA SendPublishHandleAttempts ==
    ASSUME Chains, Known, Attempts, SendPublishHandle,
           NeedsId(Head(mbox["SendPublish"])) => Unused(NextId)
    PROVE  Attempts'
  <1>0. PICK msg, n, h : /\ msg = Head(mbox["SendPublish"]) /\ n = NextId
                         /\ h = PublishHandled(Head(mbox["SendPublish"]))
    OBVIOUS
  <1> DEFINE new == NeedsId(msg)
                    /\ mbox'["Status"] = Append(mbox["Status"], SetPacketStatus(n, FirstStatus(msg.m)))
  <1>1. /\ TypeOK /\ SessionOK(AllK) /\ SessionOK(AllK)' /\ Wired(AllK) /\ StatusApart(AllK)
        /\ mbox["Status"] \in Seq(AllK.messages["Status"])
    <2>1. SessionOK(AllK) /\ SessionOK(AllK)' /\ TypeOK
      BY AllStays DEF Chains, Next, OutgoingStep
    <2> QED
      BY <2>1, AllFields, OutActors DEF SessionOK
  <1>2. /\ msg \in PublishMessages /\ msg.m \in OutMsg /\ n \in Id /\ mbox["SendPublish"] # <<>>
        /\ h.check.msg = Retried(msg) /\ h.op.op = "Set"
    BY <1>0, <1>1, SendPublishTakes, NextIdOK DEF TypeOK
  <1>3. new \/ mbox'["Status"] = mbox["Status"]
            \/ mbox'["Status"] = Append(mbox["Status"], RemovePacketStatus(0))
    BY <1>0, <1>1, PublishPosts
  <1>4. UNCHANGED <<acked, packetStatus, asking, answered, wireVars, alive>>
    BY DEF SendPublishHandle
  <1>5. NeedsId(msg) => Unused(n)
    BY <1>0
  <1>6. /\ \/ UNCHANGED sentAs
           \/ /\ NeedsId(msg) /\ Accepts("Status") /\ Accepts("Send")
              /\ SetSendSchedule(Take("SendPublish"), "SendPublish", h.op, h.packet, h.check,
                     Retried(msg))
        /\ \A m \in OutMsg :
               \/ Sent(m)' = Sent(m)
               \/ m = msg.m /\ sentAs' # sentAs /\ Sent(m)' = Sent(m) \cup {n}
    BY <1>0, <1>1, Transmission
  <1>7. NeedsId(msg) => h.check.id = n /\ h.op = SetPacketStatus(n, FirstStatus(msg.m))
    BY <1>0 DEF PublishHandled, NeedsId, StatusCheck
  <1>8. ASSUME NEW id \in Id, id # n \/ ~new
        PROVE  /\ Clear(AllK, id, Waiting) => Clear(AllK, id, Waiting)'
               /\ SetFirst(AllK, id, Waiting) => SetFirst(AllK, id, Waiting)'
    <2>1. Grown(mbox["Status"], mbox'["Status"], StatusSets(AllK, id, Waiting))
      <3>1. CASE mbox'["Status"] = mbox["Status"]
        BY <1>1, <3>1, GrownItself
      <3>2. CASE mbox'["Status"] = Append(mbox["Status"], RemovePacketStatus(0))
        <4>1. RemovePacketStatus(0) \notin StatusSets(AllK, id, Waiting)
          BY DEF StatusSets, StatusOps, RemovePacketStatus
        <4> QED
          BY <1>1, <3>2, <4>1, GrownAppend
      <3>3. CASE id # n /\ new
        <4>1. SetPacketStatus(n, FirstStatus(msg.m)) \notin StatusSets(AllK, id, Waiting)
          BY <3>3 DEF StatusSets, StatusOps, SetPacketStatus
        <4> QED
          BY <1>1, <3>3, <4>1, GrownAppend
      <3> QED
        BY <1>3, <1>8, <3>1, <3>2, <3>3
    <2> QED
      BY <1>1, <1>4, <2>1, StatusGrows DEF Clear
  <1>9. StatusFirst'
    <2>1. ASSUME new PROVE SetFirst(AllK, n, Waiting)'
      <3> DEFINE op == SetPacketStatus(n, FirstStatus(msg.m))
      <3>1. NoneIn(mbox["Status"], StatusOps(AllK, n))
        BY <1>5, <2>1 DEF Unused, NoneIn, StatusOps
      <3>2. StatusSets(AllK, n, Waiting) \subseteq StatusOps(AllK, n)
        BY DEF StatusSets
      <3> HIDE DEF op
      <3>3. FirstOf(Append(mbox["Status"], op), StatusSets(AllK, n, Waiting), StatusOps(AllK, n))
        BY <1>1, <3>1, <3>2, FirstAppended
      <3> QED
        BY <2>1, <3>3 DEF SetFirst, op
    <2>2. ASSUME NEW id \in Id PROVE SetFirst(AllK, id, Waiting)'
      <3>1. CASE id # n \/ ~new
        BY <1>8, <3>1 DEF Attempts, StatusFirst
      <3>2. CASE id = n /\ new
        BY <2>1, <3>2
      <3> QED
        BY <3>1, <3>2
    <2> QED
      BY <2>2 DEF StatusFirst
  <1>10. AckedClear'
    <2>1. ASSUME NEW id \in acked PROVE Clear(AllK, id, Waiting)'
      <3>1. id \in Id /\ Clear(AllK, id, Waiting)
        BY <1>1 DEF Attempts, AckedClear, TypeOK
      <3>2. id # n \/ ~new
        BY <1>5, <2>1 DEF Unused
      <3> QED
        BY <1>8, <3>1, <3>2
    <2> QED
      BY <1>4, <2>1 DEF AckedClear
  <1>11. \A m \in OutMsg : Sent(m) \subseteq Id
    BY <1>1, SentIds
  <1>12. \A m \in OutMsg : NeedsId(msg) => n \notin Sent(m)
    BY <1>5 DEF Unused, Sent
  <1>13. ASSUME NEW m \in OutMsg, NEW id \in Sent(m), ~Clear(AllK, id, Waiting)' \/ id \in acked
         PROVE  Held(m, id)'
    <2>1. id \in Id /\ (id # n \/ ~new)
      BY <1>11, <1>12
    <2>2. ~Clear(AllK, id, Waiting) \/ id \in acked
      BY <1>8, <1>13, <2>1
    <2>3. Held(m, id)
      BY <2>2 DEF Attempts, AttemptsHeld
    <2>4. msg \notin PublishesOf(m)
      BY <1>0, <1>1, <1>2, <2>3, HeldNotHandled
    <2>5. msg.m # m
      BY <1>2, <2>4 DEF PublishesOf
    <2> QED
      BY <1>0, <1>1, <2>3, <2>5, SendPublishHandleHeld
  <1>14. ASSUME sentAs' # sentAs
         PROVE  Held(msg.m, n)'
    <2> DEFINE m   == msg.m
               S   == PublishesOf(m)
               box == Take("SendPublish")
    <2>1. /\ NeedsId(msg) /\ Accepts("Status") /\ Accepts("Send") /\ ~RetryExhausted(msg)
          /\ SetSendSchedule(box, "SendPublish", h.op, h.packet, h.check, Retried(msg))
      BY <1>6, <1>14 DEF NeedsId
    <2>2. /\ h.op \in AllK.messages["Status"] /\ h.check \in AllK.timers
          /\ VariablePacketMessage(h.packet) \in AllK.messages["Send"]
          /\ [to |-> "SendPublish", msg |-> Retried(msg)] \in AllK.resends
      BY <1>0, <1>1, <2>1, AllPublish
    <2>3. BoxesOK(AllK, box) /\ box["Status"] = mbox["Status"]
      <3>1. Handling("SendPublish", "Publish")
        BY DEF SendPublishHandle
      <3>2. BoxesOK(AllK, box)
        BY <1>1, <3>1, OutActors, TakeTyped
      <3> QED
        BY <1>1, <3>2, OutActors DEF Take, SessionOK
    <2>4. msg \in S
      BY <1>2 DEF PublishesOf
    <2>5. AbsentWith(box, OutK, "SendPublish", S)
      <3>1. SessionOK(OutK) /\ "SendPublish" \in Actor \ {"Status"}
        BY <1>1, TypeParts, OutActors
      <3>2. AtMostOne(OutK, "SendPublish", S)
        BY <1>2 DEF Chains, ChainOf
      <3> QED
        BY <1>0, <1>2, <2>4, <3>1, <3>2, TakenOnce
    <2>6. AbsentWith(box, AllK, "SendPublish", S)
      <3>1. /\ TasksFor(AllK, "SendPublish", S) \subseteq TasksFor(OutK, "SendPublish", S)
            /\ ResendsFor(AllK, "SendPublish", S) \subseteq ResendsFor(OutK, "SendPublish", S)
        BY AllFields DEF TasksFor, ResendsFor
      <3>2. Asks(AllK, "SendPublish", S) \subseteq Asks(OutK, "SendPublish", S)
        BY <3>1 DEF Asks
      <3>3. AnswersFor(AllK, "SendPublish", S) \subseteq AnswersFor(OutK, "SendPublish", S)
        <4>1. [task : AllK.tasks, answer : Answer] \subseteq [task : OutK.tasks, answer : Answer]
          BY AllFields
        <4> QED
          BY <3>1, <4>1 DEF AnswersFor
      <3> HIDE DEF S, box
      <3> QED
        BY <2>5, <3>1, <3>2, <3>3 DEF AbsentWith, NoneIn, NoneInBag
    <2>7. Followed(AllK, "SendPublish", S)
      BY AllFollowed
    <2>8. alive' \subseteq Actor
      BY <1>1, <1>4 DEF SessionOK
    <2>9. h.op.op \in {"Set", "Remove"}
      BY <1>2
    <2> HIDE DEF box, S, m
    <2>10. HeldTo(AllK, "SendPublish", S, h.check.id)'
      BY <1>1, <1>4, <2>1, <2>2, <2>3, <2>6, <2>7, <2>8, <2>9, AttemptHeld
    <2>11. HeldTo(AllK, "SendPublish", S, n)'
      BY <1>7, <2>1, <2>10
    <2> QED
      BY <2>11 DEF Held, S, m
  <1>15. AttemptsHeld'
    <2>1. ASSUME NEW m \in OutMsg, NEW id \in Sent(m)', (~Clear(AllK, id, Waiting) \/ id \in acked)'
          PROVE  Held(m, id)'
      <3>1. id \in Sent(m) \/ (sentAs' # sentAs /\ m = msg.m /\ id = n)
        BY <1>6, <2>1
      <3>2. CASE id \in Sent(m)
        BY <1>4, <1>13, <2>1, <3>2
      <3>3. CASE sentAs' # sentAs /\ m = msg.m /\ id = n
        BY <1>14, <3>3
      <3> QED
        BY <3>1, <3>2, <3>3
    <2> QED
      BY <2>1 DEF AttemptsHeld
  <1>16. AttemptsApart'
    <2>1. ASSUME NEW m \in OutMsg, NEW q \in OutMsg, m # q
          PROVE  Sent(m)' \cap Sent(q)' = {}
      <3>1. Sent(m) \cap Sent(q) = {}
        BY <2>1 DEF Attempts, AttemptsApart
      <3>2. sentAs' # sentAs => n \notin Sent(m) /\ n \notin Sent(q)
        BY <1>6, <1>12
      <3>3. ~(m = msg.m /\ q = msg.m)
        BY <2>1
      <3> QED
        BY <1>6, <3>1, <3>2, <3>3
    <2> QED
      BY <2>1 DEF AttemptsApart
  <1> QED
    BY <1>9, <1>10, <1>15, <1>16 DEF Attempts

-----------------------------------------------------------------------------
(* The whole invariant.  A step keeps it when next_id gives it an          *)
(* identifier that nobody has used.                                        *)

Fresh == SendPublishHandle /\ NeedsId(Head(mbox["SendPublish"])) => Unused(NextId)

Inv == Chains /\ Known /\ Attempts

LEMMA InvInit == Init => Inv
  <1> SUFFICES ASSUME Init PROVE Attempts
    BY ChainsInit, KnownInit DEF Inv
  <1>1. /\ mbox = [a \in Actor |-> <<>>] /\ sentAs = [m \in OutMsg |-> <<>>] /\ acked = {}
    BY DEF Init, SessionInit, ActorsInit, OutgoingInit
  <1>2. mbox["Status"] = <<>> /\ \A m \in OutMsg : Sent(m) = {}
    BY <1>1, OutActors DEF Sent
  <1>3. StatusFirst
    BY <1>2 DEF StatusFirst, SetFirst, FirstOf
  <1> QED
    BY <1>1, <1>2, <1>3 DEF Attempts, AckedClear, AttemptsHeld, AttemptsApart

LEMMA InvStep == Inv /\ [Next]_outgoingVars /\ [Fresh]_outgoingVars => Inv'
  <1> SUFFICES ASSUME Inv, [Next]_outgoingVars, [Fresh]_outgoingVars PROVE Attempts'
    BY ChainsStep, KnownStep DEF Inv, Chains
  <1>1. Chains /\ Known /\ Attempts /\ TypeOK
    BY DEF Inv, Chains
  <1>2. Quiet => Attempts'
    BY <1>1, QuietAttempts
  <1>3. CASE \E m \in OutMsg : ClientPublish(m)
    BY <1>1, <1>2, <1>3, ClientPublishQuiet
  <1>4. CASE SendPublishHandle /\ Fresh
    BY <1>1, <1>4, SendPublishHandleAttempts DEF Fresh
  <1>5. CASE PubackHandle \/ PubcompHandle
    BY <1>1, <1>2, <1>5, ResponseHandleQuiet
  <1>6. CASE PubrecHandle
    BY <1>1, <1>2, <1>6, PubrecHandleQuiet
  <1>7. CASE PublishStatusHandle
    BY <1>1, <1>7, PublishStatusHandleAttempts
  <1>8. CASE BrokerRead
    BY <1>1, <1>2, <1>8, BrokerReadQuiet
  <1>9. CASE Background /\ UNCHANGED outVars
    BY <1>1, <1>2, <1>9, BackgroundQuiet
  <1>10. CASE UNCHANGED outgoingVars
    <2>1. UNCHANGED <<mbox, packetStatus, resends, timers, asking, answered, alive,
                      toBroker, fromBroker, sentAs, acked>>
      BY <1>10 DEF outgoingVars, sessionVars, actorVars, statusVars, wireVars, outVars
    <2>2. ASSUME NEW m, NEW id, Held(m, id)
          PROVE  Held(m, id)'
      <3>1. PICK A : A = AttemptK(AllK, "SendPublish", PublishesOf(m), id)
        OBVIOUS
      <3>2. SessionOK(A)'
        BY <2>1, <2>2, <3>1 DEF Held, HeldTo, SessionOK
      <3>3. Silent(AllK, "SendPublish", PublishesOf(m))'
        BY <2>1, <2>2 DEF Held, HeldTo, Silent
      <3> QED
        BY <3>1, <3>2, <3>3 DEF Held, HeldTo
    <2> QED
      BY <1>2, <2>1, <2>2, StatusUntouched DEF Quiet
  <1> QED
    BY <1>3, <1>4, <1>5, <1>6, <1>7, <1>8, <1>9, <1>10 DEF Next, OutgoingStep

\* Once the answer to an attempt has found the status of that attempt, the
\* message is not transmitted again (publish.rs:104-165), as long as next_id
\* gives every attempt an identifier of its own.
THEOREM AckedNotResent == Spec /\ FreshIdentifiers => AckStopsRetry
  <1> DEFINE Stops == \A m \in OutMsg :
                          sentAs'[m] # sentAs[m] => \A i \in DOMAIN sentAs[m] : sentAs[m][i] \notin acked
  <1>1. ASSUME Inv, [Next]_outgoingVars
        PROVE  [Stops]_outgoingVars
    <2> SUFFICES ASSUME NEW m \in OutMsg, sentAs'[m] # sentAs[m],
                        NEW i \in DOMAIN sentAs[m], sentAs[m][i] \in acked
                 PROVE  FALSE
      OBVIOUS
    <2>1. TypeOK /\ Known /\ Attempts
      BY <1>1 DEF Inv, Chains
    <2>2. SendPublishHandle
      BY <1>1 DEF Next, OutgoingStep, ClientPublish, PubackHandle, PubrecHandle, PubcompHandle,
                  PublishStatusHandle, BrokerRead, outVars, outgoingVars
    <2>3. PICK id : id = sentAs[m][i]
      OBVIOUS
    <2>4. Held(m, id)
      BY <2>1, <2>3 DEF Attempts, AttemptsHeld, Sent
    <2>5. Head(mbox["SendPublish"]).m = m
      BY <2>1, <2>2, Transmission
    <2>6. mbox["SendPublish"] # <<>> /\ Head(mbox["SendPublish"]) \in PublishesOf(m)
      BY <2>1, <2>2, <2>5, SendPublishTakes DEF PublishesOf
    <2> QED
      BY <2>1, <2>4, <2>6, HeldNotHandled
  <1>2. Init => Inv
    BY InvInit
  <1>3. Inv /\ [Next]_outgoingVars /\ [Fresh]_outgoingVars => Inv'
    BY InvStep
  <1>4. FreshIdentifiers <=> [][Fresh]_outgoingVars
    BY PTL DEF FreshIdentifiers, Fresh
  <1>5. AckStopsRetry <=> [][Stops]_outgoingVars
    BY PTL DEF AckStopsRetry
  <1> HIDE DEF Stops
  <1> QED
    BY <1>1, <1>2, <1>3, <1>4, <1>5, PTL DEF Spec

\* An attempt is settled only if the server took a message with its identifier,
\* wherever identifiers repeat (utils.rs:13-15): every PUBACK and PUBREC carries
\* one that was read, and identifier 0, whose status is removed when a message is
\* given up (publish.rs:104), is no attempt's.
THEOREM SettledWasTaken == Spec => []AckedWasTaken
  <1>1. Init => TypeOK /\ Known
    BY InitOK, KnownInit
  <1>2. TypeOK /\ Known /\ [Next]_outgoingVars => (TypeOK /\ Known)'
    BY StepOK, KnownStep
  <1>3. TypeOK /\ Known => AckedWasTaken
    <2> SUFFICES ASSUME Known, NEW m \in OutMsg, NEW i \in DOMAIN sentAs[m],
                        sentAs[m][i] \in acked
                 PROVE  \E p \in taken : p.id = sentAs[m][i]
      BY DEF AckedWasTaken
    <2>1. sentAs[m][i] # 0
      BY DEF Known, Sent
    <2>2. sentAs[m][i] \in TakenIds(taken)
      BY <2>1 DEF Known
    <2> QED
      BY <2>2 DEF TakenIds
  <1> QED
    BY <1>1, <1>2, <1>3, PTL DEF Spec

\* An answer settles an attempt only if the server took the message: PUBACK and
\* PUBREC carry the identifier of a message that it read (publish.rs:171-220),
\* and as long as next_id does not repeat itself only one message has it.
LEMMA SettledIsTaken == TypeOK /\ Known /\ Attempts => AckMeansTaken
  <1> SUFFICES ASSUME TypeOK, Known, Attempts, NEW m \in OutMsg,
                      NEW i \in DOMAIN sentAs[m], sentAs[m][i] \in acked
               PROVE  \E p \in taken : p.m = m
    BY DEF AckMeansTaken
  <1>1. PICK id : id = sentAs[m][i] /\ id \in Sent(m)
    BY DEF Sent
  <1>2. id # 0 /\ id \in TakenIds(taken) \cup {0}
    BY <1>1 DEF Known
  <1>3. PICK p \in taken : p.id = id
    BY <1>2 DEF TakenIds
  <1>4. p.m \in OutMsg
    BY <1>3 DEF TypeOK
  <1>5. id \in Sent(p.m)
    BY <1>2, <1>3 DEF Known
  <1>6. p.m = m
    BY <1>1, <1>4, <1>5 DEF Attempts, AttemptsApart
  <1> QED
    BY <1>3, <1>6

\* See SettledIsTaken.
THEOREM AnsweredIsTaken == Spec /\ FreshIdentifiers => []AckMeansTaken
  <1>1. Inv => AckMeansTaken
    BY SettledIsTaken DEF Inv, Chains
  <1>2. FreshIdentifiers <=> [][Fresh]_outgoingVars
    BY PTL DEF FreshIdentifiers, Fresh
  <1> QED
    BY <1>1, <1>2, InvInit, InvStep, PTL DEF Spec

-----------------------------------------------------------------------------
(* The refinement.  What a step does to the phase of a message.            *)

Repeated        == {m \in OutMsg : QoS[m] # 0}
Gone(m)         == Absent(OutK, "SendPublish", PublishesOf(m))
Acknowledged(m) == Sent(m) \cap acked # {}

PhaseOf(m) ==
    IF m \notin published THEN "idle"
    ELSE IF Gone(m) THEN "over"
    ELSE IF Acknowledged(m) THEN "answered"
    ELSE "open"

LEMMA Continuing ==
    TypeOK => \A m \in OutMsg : PublishContinues(m) <=> ~Gone(m)
  <1> SUFFICES ASSUME TypeOK, NEW m \in OutMsg
               PROVE  PublishContinues(m) <=> ~Gone(m)
    OBVIOUS
  <1> DEFINE S == PublishesOf(m)
  <1>1. \A msg \in S : IsPublishOf(msg, m)
    BY DEF PublishesOf, PublishMessages, IsPublishOf
  <1>2. (\E i \in DOMAIN mbox["SendPublish"] : IsPublishOf(mbox["SendPublish"][i], m))
            <=> ~NoneIn(mbox["SendPublish"], S)
    BY <1>1, WhereMessagesOf DEF NoneIn
  <1>3. (\E t \in BagToSet(timers) \cup BagToSet(asking) :
             t.actor = "SendPublish" /\ IsPublishOf(t.msg, m))
            <=> ~(/\ NoneInBag(timers, TasksFor(OutK, "SendPublish", S))
                  /\ NoneInBag(asking, TasksFor(OutK, "SendPublish", S)))
    BY <1>1, WhereMessagesOf DEF NoneInBag, TasksFor
  <1>4. (\E x \in BagToSet(answered) : x.task.actor = "SendPublish" /\ IsPublishOf(x.task.msg, m))
            <=> ~NoneInBag(answered, AnswersFor(OutK, "SendPublish", S))
    BY <1>1, WhereMessagesOf DEF NoneInBag, AnswersFor, TasksFor
  <1>5. (\E x \in BagToSet(resends) : x.to = "SendPublish" /\ IsPublishOf(x.msg, m))
            <=> ~NoneInBag(resends, ResendsFor(OutK, "SendPublish", S))
    BY <1>1, WhereMessagesOf DEF NoneInBag, ResendsFor
  <1>6. {i \in DOMAIN mbox["Status"] :
            /\ mbox["Status"][i].type = "Status"
            /\ mbox["Status"][i].op = "GetAndRemove"
            /\ mbox["Status"][i].task.actor = "SendPublish"
            /\ IsPublishOf(mbox["Status"][i].task.msg, m)} # {}
            <=> ~NoneIn(mbox["Status"], Asks(OutK, "SendPublish", S))
    <2>1. \A op \in Asks(OutK, "SendPublish", S) :
              /\ op.type = "Status" /\ op.op = "GetAndRemove"
              /\ op.task.actor = "SendPublish" /\ IsPublishOf(op.task.msg, m)
      BY <1>1 DEF Asks, TasksFor, GetAndRemovePacketStatus
    <2> QED
      BY <2>1, WhereMessagesOf DEF NoneIn
  <1> QED
    BY <1>2, <1>3, <1>4, <1>5, <1>6
       DEF PublishContinues, Continues, QuestionsFor, Gone, Absent, NoneButAt

LEMMA PhaseNow == TypeOK => \A m \in OutMsg : Phase(m) = PhaseOf(m)
  <1> SUFFICES ASSUME TypeOK, NEW m \in OutMsg
               PROVE  Phase(m) = PhaseOf(m)
    OBVIOUS
  <1>1. PublishContinues(m) <=> ~Gone(m)
    BY Continuing
  <1>2. (\E i \in DOMAIN sentAs[m] : sentAs[m][i] \in acked) <=> Acknowledged(m)
    BY DEF Acknowledged, Sent
  <1> QED
    BY <1>1, <1>2 DEF Phase, PhaseOf

LEMMA PhaseNext == (TypeOK => \A m \in OutMsg : Phase(m) = PhaseOf(m))'
  BY PhaseNow, PTL

\* What a step is to the specification of a retransmission.
LEMMA PromiseVars ==
    /\ Promise!retransmissionVars =
           <<[m \in Repeated |-> Phase(m)], [m \in Repeated |-> Len(sentAs[m])]>>
    /\ Promise!retransmissionVars' =
           <<[m \in Repeated |-> Phase(m)'], [m \in Repeated |-> Len(sentAs'[m])]>>
  BY DEF Promise!retransmissionVars, Repeated

Promised == [Promise!Next]_(Promise!retransmissionVars)

\* A message that may not be handled again never will: at most some end.
LEMMA OnlyEnds ==
    ASSUME TypeOK, TypeOK', UNCHANGED <<published, sentAs, acked>>,
           \A m \in OutMsg : m \in published /\ Gone(m) => Gone(m)'
    PROVE  Promised
  <1> DEFINE ended == {m \in Repeated : Phase(m)' # Phase(m)}
  <1>1. \A m \in Repeated : Phase(m) = PhaseOf(m) /\ Phase(m)' = PhaseOf(m)'
    BY PhaseNow, PhaseNext DEF Repeated
  <1>2. \A m : Acknowledged(m)' = Acknowledged(m)
    BY DEF Acknowledged, Sent
  <1>3. \A m \in Repeated : \/ PhaseOf(m)' = PhaseOf(m)
                            \/ PhaseOf(m)' = "over" /\ PhaseOf(m) \in {"open", "answered"}
    BY <1>2 DEF PhaseOf, Repeated
  <1>4. CASE ended = {}
    <2>1. \A m \in Repeated : Phase(m)' = Phase(m)
      BY <1>4
    <2> QED
      BY <2>1, PromiseVars DEF Promised
  <1>5. CASE ended # {}
    <2>1. PICK requests : requests = ended
      OBVIOUS
    <2>2. requests \in SUBSET {m \in Repeated : Phase(m) \in {"open", "answered"}}
      BY <1>1, <1>3, <2>1
    <2>3. \A m \in Repeated : Phase(m)' = IF m \in requests THEN "over" ELSE Phase(m)
      BY <1>1, <1>3, <2>1
    <2> HIDE DEF ended
    <2>4. Promise!End(requests)
      BY <1>5, <2>1, <2>3 DEF Promise!End, Repeated
    <2>5. requests \in SUBSET {m \in Repeated : [q \in Repeated |-> Phase(q)][m] \in {"open", "answered"}}
      BY <2>2
    <2> QED
      BY <2>4, <2>5 DEF Promised, Promise!Next, Repeated
  <1> QED
    BY <1>4, <1>5

\* publish(): the message is in the mailbox.
LEMMA ClientPublishPromised ==
    ASSUME Chains, TypeOK', NEW q \in OutMsg, ClientPublish(q)
    PROVE  Promised
  <1>1. /\ TypeOK /\ SessionOK(OutK) /\ "SendPublish" \in Actor \ {"Status"} /\ "Status" \in Actor
        /\ mbox["SendPublish"] \in Seq(OutK.messages["SendPublish"])
    BY TypeParts, OutActors DEF Chains, SessionOK
  <1>2. /\ q \notin published /\ published' = published \cup {q}
        /\ UNCHANGED <<resends, timers, asking, answered, sentAs, acked>>
    BY DEF ClientPublish, statusVars
  <1>3. /\ mbox'["SendPublish"] = Append(mbox["SendPublish"], Publish(q, 0))
        /\ mbox'["Status"] = mbox["Status"]
    BY <1>1, OutActors DEF ClientPublish, Post, Accepts, SessionOK
  <1>4. \A m \in Repeated : Phase(m) = PhaseOf(m) /\ Phase(m)' = PhaseOf(m)'
    BY <1>1, PhaseNow, PhaseNext DEF Repeated
  <1>5. ASSUME NEW m \in OutMsg, m # q
        PROVE  PhaseOf(m)' = PhaseOf(m)
    <2>1. Publish(q, 0) \notin PublishesOf(m)
      BY <1>5 DEF Publish, PublishesOf
    <2>2. NoneIn(mbox'["SendPublish"], PublishesOf(m)) <=> NoneIn(mbox["SendPublish"], PublishesOf(m))
      BY <1>1, <1>3, <2>1, NoneInAppend, StaysThere
    <2>3. Gone(m)' <=> Gone(m)
      BY <1>2, <1>3, <2>2 DEF Gone, Absent, NoneButAt
    <2> QED
      BY <1>2, <1>5, <2>3 DEF PhaseOf, Acknowledged, Sent
  <1>6. PhaseOf(q) = "idle"
    BY <1>2 DEF PhaseOf
  <1>7. PhaseOf(q)' = "open"
    <2>1. ~Gone(q)'
      <3>1. LET n == Len(mbox["SendPublish"]) + 1
            IN  n \in DOMAIN mbox'["SendPublish"] /\ mbox'["SendPublish"][n] = Publish(q, 0)
        BY <1>1, <1>3, AppendProperties, LenProperties
      <3>2. Publish(q, 0) \in PublishesOf(q)
        BY StatusAssumption DEF PublishesOf, PublishMessages, Publish, Retry
      <3> QED
        BY <3>1, <3>2 DEF Gone, Absent, NoneButAt, NoneIn
    <2>2. sentAs'[q] = <<>>
      BY <1>2 DEF Chains, ChainOf
    <2>3. ~Acknowledged(q)'
      BY <2>2 DEF Acknowledged, Sent
    <2> QED
      BY <1>2, <2>1, <2>3 DEF PhaseOf
  <1>8. CASE q \in Repeated
    <2>1. [m \in Repeated |-> Phase(m)][q] = "idle"
      BY <1>4, <1>6, <1>8
    <2>2. [m \in Repeated |-> Phase(m)'] = [[m \in Repeated |-> Phase(m)] EXCEPT ![q] = "open"]
      BY <1>4, <1>5, <1>7 DEF Repeated
    <2>3. [m \in Repeated |-> Len(sentAs'[m])] = [m \in Repeated |-> Len(sentAs[m])]
      BY <1>2
    <2>4. Promise!Issue(q)
      BY <2>1, <2>2, <2>3 DEF Promise!Issue, Repeated
    <2> QED
      BY <1>8, <2>4 DEF Promised, Promise!Next, Repeated
  <1>9. CASE q \notin Repeated
    <2>1. \A m \in Repeated : Phase(m)' = Phase(m)
      BY <1>4, <1>5, <1>9 DEF Repeated
    <2> QED
      BY <1>2, <2>1, PromiseVars DEF Promised
  <1> QED
    BY <1>8, <1>9

\* What a message at the head of the mailbox says of its phase.
LEMMA OwnPublish ==
    ASSUME Chains, SendPublishHandle
    PROVE  LET msg == Head(mbox["SendPublish"])
           IN  /\ mbox["SendPublish"] # <<>>
               /\ msg \in PublishesOf(msg.m) /\ msg.m \in published
               /\ ~Gone(msg.m)
               /\ ~(msg.retry < Len(sentAs[msg.m]))
  <1>1. PICK msg, m : msg = Head(mbox["SendPublish"]) /\ m = msg.m
    OBVIOUS
  <1>2. TypeOK /\ SessionOK(OutK) /\ "SendPublish" \in Actor
    BY TypeParts, OutActors DEF Chains
  <1>3. /\ mbox["SendPublish"] # <<>> /\ msg \in PublishMessages /\ m \in OutMsg
        /\ mbox["SendPublish"] \in Seq(OutK.messages["SendPublish"])
    BY <1>1, <1>2, SendPublishTakes DEF SessionOK
  <1>4. msg \in PublishesOf(m)
    BY <1>1, <1>3 DEF PublishesOf
  <1>5. 1 \in DOMAIN mbox["SendPublish"] /\ mbox["SendPublish"][1] = msg
    BY <1>1, <1>3
  <1>6. ~Gone(m) /\ ~Absent(OutK, "SendPublish", {msg})
    BY <1>4, <1>5 DEF Gone, Absent, NoneButAt, NoneIn
  <1>7. ChainOf(m)
    BY <1>3 DEF Chains
  <1>8. m \in published /\ ~(msg.retry < Len(sentAs[m]))
    BY <1>4, <1>6, <1>7 DEF ChainOf, Gone
  <1> QED
    BY <1>1, <1>3, <1>4, <1>6, <1>8

\* The message that is sent.
LEMMA Transmits ==
    ASSUME Chains, Known, Attempts, TypeOK', SendPublishHandle, sentAs' # sentAs,
           NeedsId(Head(mbox["SendPublish"])) => Unused(NextId)
    PROVE  Promised
  <1>0. PICK msg, q, n, h : /\ msg = Head(mbox["SendPublish"]) /\ n = NextId
                            /\ h = PublishHandled(Head(mbox["SendPublish"])) /\ q = msg.m
    OBVIOUS
  <1>1. /\ TypeOK /\ SessionOK(OutK) /\ "SendPublish" \in Actor \ {"Status"} /\ "Status" \in Actor
        /\ mbox["SendPublish"] \in Seq(OutK.messages["SendPublish"])
        /\ mbox["Status"] \in Seq(OutK.messages["Status"])
        /\ mbox["SendPublish"] # <<>>
    BY TypeParts, OutActors, OwnPublish DEF Chains, SessionOK
  <1>2. /\ msg \in PublishMessages /\ q \in OutMsg /\ n \in Id
        /\ h.check.actor = "SendPublish" /\ h.check.msg = Retried(msg)
        /\ h.op.op = "Set"
    BY <1>0, <1>1, SendPublishTakes, NextIdOK DEF TypeOK
  <1>3. /\ NeedsId(msg) /\ ~RetryExhausted(msg)
        /\ Accepts("Status") /\ Accepts("Send")
        /\ SetSendSchedule(Take("SendPublish"), "SendPublish", h.op, h.packet, h.check, Retried(msg))
        /\ sentAs' = [sentAs EXCEPT ![q] = Append(@, n)]
        /\ Sent(q)' = Sent(q) \cup {n}
    <2>1. /\ NeedsId(msg) /\ Accepts("Status") /\ Accepts("Send")
          /\ SetSendSchedule(Take("SendPublish"), "SendPublish", h.op, h.packet, h.check, Retried(msg))
          /\ sentAs' = [sentAs EXCEPT ![q] = Append(@, n)]
      BY <1>0, <1>1, Transmission
    <2>2. sentAs'[q] # sentAs[q]
      BY <1>0, <1>1, Transmission DEF TypeOK
    <2>3. Sent(q)' = Sent(q) \cup {n}
      BY <1>0, <1>1, <1>2, <2>2, Transmission
    <2> QED
      BY <2>1, <2>3 DEF NeedsId
  <1>4. Unused(n)
    BY <1>0, <1>3
  <1>5. UNCHANGED <<asking, answered, published, acked>>
    BY DEF SendPublishHandle
  <1>6. timers' = BagAdd(timers, h.check) /\ UNCHANGED resends
    BY <1>3 DEF SetSendSchedule
  <1>7. /\ mbox'["SendPublish"] = Tail(mbox["SendPublish"])
        /\ \/ mbox'["Status"] = mbox["Status"]
           \/ \E x : x.op \in {"Set", "Remove"} /\ mbox'["Status"] = Append(mbox["Status"], x)
    BY <1>1, PublishPosts DEF RemovePacketStatus, SetPacketStatus
  <1>8. \A m \in OutMsg : Phase(m) = PhaseOf(m) /\ Phase(m)' = PhaseOf(m)'
    BY <1>1, PhaseNow, PhaseNext
  <1>9. h.check \in Tasks /\ Retried(msg) \in PublishesOf(q) /\ Retried(msg).m = q
    BY <1>0, <1>1, <1>2, <1>3, SendPublishTakes, RetriedOK DEF PublishesOf
  <1>10. sentAs \in [OutMsg -> Seq(Id)]
    BY <1>1 DEF TypeOK
  <1>11. /\ msg \in PublishesOf(q) /\ q \in published /\ ~Gone(q)
         /\ ~(msg.retry < Len(sentAs[q]))
    BY <1>0, OwnPublish
  <1>12. ASSUME NEW m \in OutMsg, m # q
         PROVE  PhaseOf(m)' = PhaseOf(m)
    <2> DEFINE S == PublishesOf(m)
    <2>1. msg \notin S /\ Retried(msg) \notin S
      BY <1>0, <1>9, <1>12 DEF PublishesOf
    <2> HIDE DEF S
    <2>2. NoneIn(mbox'["SendPublish"], S) <=> NoneIn(mbox["SendPublish"], S)
      BY <1>0, <1>1, <1>7, <2>1, InTail, StaysThere
    <2>3. NoneIn(mbox'["Status"], Asks(OutK, "SendPublish", S))
              <=> NoneIn(mbox["Status"], Asks(OutK, "SendPublish", S))
      <3>1. CASE mbox'["Status"] = mbox["Status"]
        BY <3>1
      <3>2. CASE \E x : x.op \in {"Set", "Remove"} /\ mbox'["Status"] = Append(mbox["Status"], x)
        <4>1. PICK x : x.op \in {"Set", "Remove"} /\ mbox'["Status"] = Append(mbox["Status"], x)
          BY <3>2
        <4>2. x \notin Asks(OutK, "SendPublish", S)
          BY <4>1, NotAsked
        <4> QED
          BY <1>1, <4>1, <4>2, NoneInAppend, StaysThere
      <3> QED
        BY <1>7, <3>1, <3>2
    <2>4. NoneInBag(timers', TasksFor(OutK, "SendPublish", S))
              <=> NoneInBag(timers, TasksFor(OutK, "SendPublish", S))
      <3>1. h.check \notin TasksFor(OutK, "SendPublish", S)
        BY <1>2, <2>1 DEF TasksFor
      <3> QED
        BY <1>6, <3>1, NoneInBagAdd, StaysThere
    <2>5. Gone(m)' <=> Gone(m)
      BY <1>5, <1>6, <2>2, <2>3, <2>4 DEF Gone, Absent, NoneButAt, S
    <2>6. sentAs'[m] = sentAs[m]
      BY <1>2, <1>3, <1>10, <1>12
    <2> QED
      BY <1>5, <2>5, <2>6 DEF PhaseOf, Acknowledged, Sent
  <1>13. ~Acknowledged(q)
    <2>1. ASSUME NEW id \in Sent(q), id \in acked PROVE FALSE
      <3>1. Held(q, id)
        BY <1>2, <2>1 DEF Attempts, AttemptsHeld
      <3> QED
        BY <1>0, <1>1, <1>11, <3>1, HeldNotHandled
    <2> QED
      BY <2>1 DEF Acknowledged
  <1>14. ~Acknowledged(q)'
    <2>1. n \notin acked
      BY <1>4 DEF Unused
    <2> QED
      BY <1>3, <1>5, <1>13, <2>1 DEF Acknowledged
  <1>15. ~Gone(q)'
    <2>1. h.check \in TasksFor(OutK, "SendPublish", PublishesOf(q))
      BY <1>2, <1>9, OutKFields DEF TasksFor
    <2>2. h.check \in BagToSet(timers')
      BY <1>6, BagAddElements
    <2> QED
      BY <2>1, <2>2 DEF Gone, Absent, NoneButAt, NoneInBag
  <1>16. PhaseOf(q) = "open" /\ PhaseOf(q)' = "open"
    BY <1>5, <1>11, <1>13, <1>14, <1>15 DEF PhaseOf
  <1>17. Len(sentAs[q]) < MaxRetryCount + 1 /\ Len(sentAs'[q]) = Len(sentAs[q]) + 1
    <2>1. Len(sentAs[q]) \in Nat /\ msg.retry \in Nat /\ msg.retry <= MaxRetryCount
      BY <1>2, <1>3, <1>10, StatusAssumption DEF PublishMessages, Retry, RetryExhausted
    <2>2. Len(sentAs[q]) < MaxRetryCount + 1
      BY <1>11, <2>1, StatusAssumption
    <2>3. Len(sentAs'[q]) = Len(sentAs[q]) + 1
      BY <1>2, <1>3, <1>10, AppendProperties
    <2> QED
      BY <2>2, <2>3
  <1>18. q \in Repeated
    BY <1>0, <1>2, <1>3 DEF Repeated, NeedsId
  <1>19. Promise!Transmit(q)
    <2> DEFINE now  == [m \in Repeated |-> Phase(m)]
               sent == [m \in Repeated |-> Len(sentAs[m])]
    <2>1. now[q] = "open" /\ sent[q] < MaxRetryCount + 1
      BY <1>2, <1>8, <1>16, <1>17, <1>18
    <2>2. [m \in Repeated |-> Phase(m)'] = now
      BY <1>8, <1>12, <1>16 DEF Repeated
    <2>3. [m \in Repeated |-> Len(sentAs'[m])] = [sent EXCEPT ![q] = @ + 1]
      <3>1. \A m \in Repeated : m # q => sentAs'[m] = sentAs[m]
        BY <1>2, <1>3, <1>10 DEF Repeated
      <3> QED
        BY <1>17, <1>18, <3>1
    <2> QED
      BY <2>1, <2>2, <2>3 DEF Promise!Transmit, Repeated
  <1> QED
    BY <1>18, <1>19 DEF Promised, Promise!Next, Repeated

LEMMA SendPublishPromised ==
    ASSUME Chains, Known, Attempts, TypeOK', SendPublishHandle,
           NeedsId(Head(mbox["SendPublish"])) => Unused(NextId)
    PROVE  Promised
  <1>1. CASE sentAs' # sentAs
    BY <1>1, Transmits
  <1>2. CASE sentAs' = sentAs
    <2>1. TypeOK /\ UNCHANGED <<published, sentAs, acked>>
      BY <1>2 DEF Chains, SendPublishHandle
    <2>2. ASSUME NEW m \in OutMsg, Gone(m)
          PROVE  Gone(m)'
      <3>1. Head(mbox["SendPublish"]).m # m
        BY <2>2, OwnPublish
      <3>2. CarriesAll(m)
        BY <2>1, <3>1, OtherPublishCarries
      <3> QED
        BY <2>2, <3>2 DEF CarriesAll, Carries, Gone
    <2> QED
      BY <2>1, <2>2, OnlyEnds
  <1> QED
    BY <1>1, <1>2

\* Steps that carry every message along and settle no attempt.
LEMMA ElsewherePromised ==
    ASSUME TypeOK, TypeOK', UNCHANGED <<published, sentAs, acked>>,
           \/ PubackHandle \/ PubrecHandle \/ PubcompHandle \/ PublishStatusHandle \/ BrokerRead
           \/ Background
    PROVE  Promised
  <1>1. ASSUME NEW m \in OutMsg, Gone(m)
        PROVE  Gone(m)'
    <2>1. CarriesAll(m)
      BY ElsewhereCarries
    <2> QED
      BY <1>1, <2>1 DEF CarriesAll, Carries, Gone
  <1> QED
    BY <1>1, OnlyEnds

\* The status actor finds the status of an attempt.  It is an attempt at one
\* message, which is answered unless it was already.
LEMMA PublishStatusPromised ==
    ASSUME TypeOK, Attempts, TypeOK', PublishStatusHandle
    PROVE  Promised
  <1> DEFINE op == Head(mbox["Status"])
  <1>1. StatusHandle /\ UNCHANGED <<published, sentAs>>
    BY DEF PublishStatusHandle
  <1>2. CASE acked' = acked
    BY <1>1, <1>2, ElsewherePromised
  <1>3. CASE acked' # acked
    <2>1. PICK n : op.id = n /\ op.op \in {"Set", "Remove"} /\ acked' = acked \cup {n}
      <3>1. acked' = acked \cup Settled(op)
        BY DEF PublishStatusHandle
      <3> HIDE DEF op
      <3> QED
        BY <1>3, <3>1 DEF Settled
    <2>2. /\ "Status" \in Actor /\ "SendPublish" \in Actor \ {"Status"} /\ DOMAIN mbox = Actor
          /\ mbox["Status"] \in Seq(OutK.messages["Status"]) /\ mbox["Status"] # <<>>
      BY <1>1, TypeParts, OutActors DEF SessionOK, StatusHandle, Handling
    <2>3. UNCHANGED <<resends, timers, asking, answered>>
      BY <1>1, <2>1 DEF StatusHandle
    <2>4. mbox'["SendPublish"] = mbox["SendPublish"] /\ mbox'["Status"] = Tail(mbox["Status"])
      BY <1>1, <2>2, OutActors DEF StatusHandle, Take
    <2>5. \A m \in OutMsg : Phase(m) = PhaseOf(m) /\ Phase(m)' = PhaseOf(m)'
      BY PhaseNow, PhaseNext
    <2>6. ASSUME NEW m \in OutMsg
          PROVE  /\ Gone(m)' <=> Gone(m)
                 /\ Acknowledged(m)' <=> Acknowledged(m) \/ n \in Sent(m)
      <3>1. op \notin Asks(OutK, "SendPublish", PublishesOf(m))
        BY <2>1, NotAsked
      <3>2. NoneIn(mbox'["Status"], Asks(OutK, "SendPublish", PublishesOf(m)))
                <=> NoneIn(mbox["Status"], Asks(OutK, "SendPublish", PublishesOf(m)))
        BY <2>2, <2>4, <3>1, InTail, StaysThere
      <3>3. Gone(m)' <=> Gone(m)
        BY <2>3, <2>4, <3>2 DEF Gone, Absent, NoneButAt
      <3>4. Sent(m)' = Sent(m)
        BY <1>1 DEF Sent
      <3>5. Acknowledged(m)' <=> Acknowledged(m) \/ n \in Sent(m)
        BY <2>1, <3>4 DEF Acknowledged
      <3> QED
        BY <3>3, <3>5
    <2> HIDE DEF op
    <2>7. CASE \E q \in Repeated : n \in Sent(q) /\ PhaseOf(q) = "open"
      <3>1. PICK q \in Repeated : n \in Sent(q) /\ PhaseOf(q) = "open"
        BY <2>7
      <3>2. PhaseOf(q)' = "answered"
        BY <1>1, <2>6, <3>1 DEF PhaseOf, Repeated
      <3>3. ASSUME NEW m \in Repeated, m # q
            PROVE  PhaseOf(m)' = PhaseOf(m)
        <4>1. n \notin Sent(m)
          BY <3>1, <3>3 DEF Attempts, AttemptsApart, Repeated
        <4> QED
          BY <1>1, <2>6, <4>1 DEF PhaseOf, Repeated
      <3>4. Promise!Answer(q)
        <4>1. [m \in Repeated |-> Phase(m)][q] = "open"
          BY <2>5, <3>1 DEF Repeated
        <4>2. [m \in Repeated |-> Phase(m)'] = [[m \in Repeated |-> Phase(m)] EXCEPT ![q] = "answered"]
          BY <2>5, <3>2, <3>3 DEF Repeated
        <4>3. [m \in Repeated |-> Len(sentAs'[m])] = [m \in Repeated |-> Len(sentAs[m])]
          BY <1>1
        <4> QED
          BY <4>1, <4>2, <4>3 DEF Promise!Answer, Repeated
      <3> QED
        BY <3>4 DEF Promised, Promise!Next, Repeated
    <2>8. CASE \A q \in Repeated : n \in Sent(q) => PhaseOf(q) # "open"
      <3>1. \A m \in Repeated : PhaseOf(m)' = PhaseOf(m)
        BY <1>1, <2>6, <2>8 DEF PhaseOf, Repeated
      <3>2. \A m \in Repeated : Phase(m)' = Phase(m)
        BY <2>5, <3>1 DEF Repeated
      <3> QED
        BY <1>1, <3>2, PromiseVars DEF Promised
    <2> QED
      BY <2>7, <2>8
  <1> QED
    BY <1>2, <1>3

LEMMA PromisedInit == Init => Promise!Init
  <1> SUFFICES ASSUME Init PROVE Promise!Init
    OBVIOUS
  <1>1. published = {} /\ sentAs = [m \in OutMsg |-> <<>>]
    BY DEF Init, OutgoingInit
  <1>2. \A m \in OutMsg : Phase(m) = "idle" /\ Len(sentAs[m]) = 0
    BY <1>1 DEF Phase
  <1> QED
    BY <1>2 DEF Promise!Init

LEMMA PromisedStep ==
    Inv /\ TypeOK' /\ [Next]_outgoingVars /\ [Fresh]_outgoingVars => Promised
  <1> SUFFICES ASSUME Inv, TypeOK', [Next]_outgoingVars, [Fresh]_outgoingVars
               PROVE  Promised
    OBVIOUS
  <1>1. Chains /\ Known /\ Attempts /\ TypeOK
    BY DEF Inv, Chains
  <1>2. CASE \E m \in OutMsg : ClientPublish(m)
    BY <1>1, <1>2, ClientPublishPromised
  <1>3. CASE SendPublishHandle /\ Fresh
    BY <1>1, <1>3, SendPublishPromised DEF Fresh
  <1>4. CASE PubackHandle \/ PubrecHandle \/ PubcompHandle
    BY <1>1, <1>4, ElsewherePromised DEF PubackHandle, PubrecHandle, PubcompHandle, outVars
  <1>5. CASE PublishStatusHandle
    BY <1>1, <1>5, PublishStatusPromised
  <1>6. CASE BrokerRead
    BY <1>1, <1>6, ElsewherePromised DEF BrokerRead
  <1>7. CASE Background /\ UNCHANGED outVars
    BY <1>1, <1>7, ElsewherePromised DEF outVars
  <1>8. CASE UNCHANGED outgoingVars
    <2>1. UNCHANGED <<mbox, resends, statusVars, published, sentAs, acked>>
      BY <1>8 DEF outgoingVars, sessionVars, actorVars, outVars
    <2>2. \A m \in OutMsg : Gone(m) => Gone(m)'
      BY <2>1 DEF Gone, Absent, NoneButAt, statusVars
    <2> QED
      BY <1>1, <2>1, <2>2, OnlyEnds
  <1> QED
    BY <1>2, <1>3, <1>4, <1>5, <1>6, <1>7, <1>8 DEF Next, OutgoingStep

\* As long as next_id gives every attempt an identifier of its own, publishing
\* with QoS 1 or 2 implements Retransmission: a message is transmitted at most
\* MAX_RETRY_COUNT + 1 times (publish.rs:104-165), never after an answer has
\* found the status of an attempt, and never again once nothing is left that
\* could repeat it.
THEOREM PublishRefines == Spec /\ FreshIdentifiers => PublishKeepsPromise
  <1>1. Init => Inv /\ Promise!Init
    BY InvInit, PromisedInit
  <1>2. Inv /\ [Next]_outgoingVars /\ [Fresh]_outgoingVars => Inv'
    BY InvStep
  <1>3. Inv' => TypeOK'
    BY DEF Inv, Chains
  <1>4. Inv /\ TypeOK' /\ [Next]_outgoingVars /\ [Fresh]_outgoingVars
            => [Promise!Next]_(Promise!retransmissionVars)
    BY PromisedStep DEF Promised
  <1>5. FreshIdentifiers <=> [][Fresh]_outgoingVars
    BY PTL DEF FreshIdentifiers, Fresh
  <1> QED
    BY <1>1, <1>2, <1>3, <1>4, <1>5, PTL DEF Spec, PublishKeepsPromise, Promise!Spec

=============================================================================
