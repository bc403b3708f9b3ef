--------------------------- MODULE KeepAlive_proofs ---------------------------
(***************************************************************************)
(* Proofs about KeepAlive, for every number of ticks, retries and mailbox  *)
(* places: its type invariant; that the client does not ping before the    *)
(* server has accepted it; that the timeout of connecting stops nobody who *)
(* has been answered; that a ping that waits is watched, although all      *)
(* pings share one status; and that no more pings are sent than the ticks  *)
(* and the retry_count allow.                                              *)
(***************************************************************************)
EXTENDS KeepAlive, Chain_proofs

(* Connecting and pinging as Session_proofs sees them. *)

KeepK ==
    [messages |-> [a \in Actor |-> MessagesTo[a] \cup {StopMessage}],
     resends |-> [to : {"Pingreq"}, msg : SendPings] \cup [to : {"Pingresp"}, msg : Pingresps],
     tasks |-> PingTasksOrChecks, timers |-> PingChecks,
     payload |-> {"Unit"}, client |-> ClientPackets, server |-> ServerPackets]

KeepVarsOK ==
    /\ held \subseteq {"Connect", "ConnectStatus"}
    /\ connectCall \in {"none", "pending", "returned"}
    /\ connectStatus \subseteq {0, 1}
    /\ connectCheck \in {"none", "timer", "asking", "asked", "found", "absent", "over"}
    /\ connack \in {"none", "Accepted", "Refused"}
    /\ ticks \in 0 .. MaxTicks
    /\ {inquiries, pings} \subseteq Nat

LEMMA ActorsOfPing ==
    /\ {"Stop", "Send", "Recv", "Dispatch", "Status", "Connect", "Connack", "ConnectStatus",
        "Pingreq", "Pingresp"} \subseteq Actor
    /\ {"Connect", "Connack", "ConnectStatus"} \cap Registered = {}
  BY ActorAssumption, ConnectingAssumption, KeepAliveAssumption

LEMMA KeepKFields ==
    /\ KeepK.resends = [to : {"Pingreq"}, msg : SendPings] \cup [to : {"Pingresp"}, msg : Pingresps]
    /\ KeepK.tasks = PingTasksOrChecks /\ KeepK.timers = PingChecks
    /\ KeepK.payload = {"Unit"}
    /\ KeepK.client = ClientPackets /\ KeepK.server = ServerPackets
  BY DEF KeepK

ConnectStatusMessages ==
    {SetPacketStatus(0, "Unit"), SetPacketStatus(1, "Unit"), RemovePacketStatus(0),
     ConnectQuestion, ConnectedQuestion}
PingStatusMessages ==
    {SetPacketStatus(0, "Unit"), RemovePacketStatus(0)}
    \cup {GetAndRemovePacketStatus(task) : task \in PingTasksOrChecks}

\* What is in each mailbox.
LEMMA KeepMessages ==
    /\ \A a \in Actor : KeepK.messages[a] = MessagesTo[a] \cup {StopMessage}
    /\ KeepK.messages["Pingreq"] = SendPings \cup {PingreqMessage, StopMessage}
    /\ KeepK.messages["Pingresp"] = Pingresps \cup {StopMessage}
    /\ KeepK.messages["Connect"] = {ConnectMessage, StopMessage}
    /\ KeepK.messages["Connack"] = Connacks \cup {StopMessage}
    /\ KeepK.messages["ConnectStatus"] = ConnectStatusMessages \cup {StopMessage}
    /\ KeepK.messages["Status"] = PingStatusMessages \cup {StopMessage}
    /\ KeepK.messages["Send"] =
           {VariablePacketMessage(packet) : packet \in ClientPackets} \cup {StopMessage}
    /\ KeepK.messages["Dispatch"] =
           {VariablePacketMessage(packet) : packet \in ServerPackets} \cup {StopMessage}
  <1> USE ActorsOfPing
  <1>1. \A a \in Actor : KeepK.messages[a] = MessagesTo[a] \cup {StopMessage}
    BY DEF KeepK
  <1>2. /\ MessagesTo["Pingreq"] = SendPings \cup {PingreqMessage}
        /\ MessagesTo["Pingresp"] = Pingresps
        /\ MessagesTo["Connect"] = {ConnectMessage}
        /\ MessagesTo["Connack"] = Connacks
        /\ MessagesTo["Status"] = PingStatusMessages
        /\ MessagesTo["Send"] = {VariablePacketMessage(packet) : packet \in ClientPackets}
        /\ MessagesTo["Dispatch"] = {VariablePacketMessage(packet) : packet \in ServerPackets}
    BY DEF MessagesTo, PingStatusMessages
  <1>3. MessagesTo["ConnectStatus"] = ConnectStatusMessages
    <2>1. MessagesTo["ConnectStatus"] =
              {SetPacketStatus(id, "Unit") : id \in {0, 1}}
              \cup {RemovePacketStatus(0), ConnectQuestion, ConnectedQuestion}
      BY DEF MessagesTo
    <2>2. {SetPacketStatus(id, "Unit") : id \in {0, 1}}
              = {SetPacketStatus(0, "Unit"), SetPacketStatus(1, "Unit")}
      OBVIOUS
    <2> QED
      BY <2>1, <2>2 DEF ConnectStatusMessages
  <1> QED
    BY <1>1, <1>2, <1>3

LEMMA KeepTypeParts ==
    /\ TypeOK <=> SessionOK(KeepK) /\ KeepVarsOK
    /\ TypeOK' <=> SessionOK(KeepK)' /\ KeepVarsOK'
  <1> USE KeepKFields, KeepMessages
  <1>1. TypeOK <=> SessionOK(KeepK) /\ KeepVarsOK
    BY DEF TypeOK, SessionOK, KeepVarsOK
  <1>2. TypeOK' <=> SessionOK(KeepK)' /\ KeepVarsOK'
    BY DEF TypeOK, SessionOK, KeepVarsOK
  <1> QED
    BY <1>1, <1>2

LEMMA SendPingRetried ==
    ASSUME NEW msg \in SendPings, ~RetryExhausted(msg)
    PROVE  Retried(msg) \in SendPings
  <1>1. PICK retry \in Retry : msg = SendPing(retry)
    BY DEF SendPings
  <1>2. Retried(msg) = SendPing(retry + 1)
    BY <1>1 DEF Retried, SendPing
  <1>3. retry + 1 \in Retry
    BY <1>1, StatusAssumption DEF Retry, RetryExhausted, SendPing
  <1> QED
    BY <1>2, <1>3 DEF SendPings

\* A task of a ping, and what it asks and hands on.
LEMMA PingTasksTyped ==
    ASSUME NEW t \in PingTasksOrChecks
    PROVE  /\ t.id = 0 /\ t.actor = "Pingreq" /\ t.msg \in SendPings
           /\ t \in PingChecks <=> t.kind = "check"
           /\ t \in PingChecks => t.owner = "Pingreq" /\ t.expect = {"Unit"}
           /\ t = PingTask <=> t.kind = "ping"
  <1>1. CASE t \in PingChecks
    <2>1. PICK msg \in SendPings : t = StatusCheck("Pingreq", "Pingreq", 0, msg, {"Unit"})
      BY <1>1 DEF PingChecks
    <2> QED
      BY <1>1, <2>1 DEF StatusCheck, PingTask
  <1>2. CASE t = PingTask
    <2>1. SendPing(0) \in SendPings
      BY StatusAssumption DEF SendPings, Retry
    <2>2. PingTask.kind = "ping"
      BY DEF PingTask
    <2>3. PingTask \notin PingChecks
      BY <2>2 DEF PingChecks, StatusCheck
    <2> QED
      BY <1>2, <2>1, <2>2, <2>3 DEF PingTask
  <1> QED
    BY <1>1, <1>2 DEF PingTasksOrChecks

LEMMA PingStatusOperations ==
    ASSUME NEW op \in PingStatusMessages
    PROVE  /\ op.type = "Status" /\ op.id = 0 /\ op.op \in {"Set", "Remove", "GetAndRemove"}
           /\ op.op = "Set" <=> op = SetPacketStatus(0, "Unit")
           /\ op.op = "Set" => op.payload = "Unit"
           /\ op.op = "Remove" <=> op = RemovePacketStatus(0)
           /\ op.op = "GetAndRemove" =>
                  op = GetAndRemovePacketStatus(op.task) /\ op.task \in PingTasksOrChecks
  <1>1. CASE op \in {SetPacketStatus(0, "Unit"), RemovePacketStatus(0)}
    BY <1>1 DEF SetPacketStatus, RemovePacketStatus
  <1>2. CASE op \in {GetAndRemovePacketStatus(task) : task \in PingTasksOrChecks}
    <2>1. PICK t \in PingTasksOrChecks : op = GetAndRemovePacketStatus(t)
      BY <1>2
    <2>2. t.id = 0
      BY PingTasksTyped
    <2> QED
      BY <2>1, <2>2 DEF GetAndRemovePacketStatus, SetPacketStatus, RemovePacketStatus
  <1> QED
    BY <1>1, <1>2 DEF PingStatusMessages

LEMMA KeepWired == Wired(KeepK)
  <1>1. \A a \in Actor : StopMessage \in KeepK.messages[a]
    BY KeepMessages
  <1>2. \A r \in KeepK.resends : r.msg \in KeepK.messages[r.to]
    BY KeepKFields, KeepMessages
  <1>3. KeepK.timers \subseteq KeepK.tasks
    BY KeepKFields DEF PingTasksOrChecks
  <1>4. \A t \in KeepK.tasks : /\ GetAndRemovePacketStatus(t) \in KeepK.messages["Status"]
                               /\ t.kind = "check" => t.msg \in KeepK.messages[t.actor]
    BY KeepKFields, KeepMessages, PingTasksTyped DEF PingStatusMessages
  <1>5. \A op \in KeepK.messages["Status"] :
            op.type = "Status" =>
                /\ op.id \in Id
                /\ op.op = "Set" => op.payload \in KeepK.payload
                /\ op.op = "GetAndRemove" =>
                       op = GetAndRemovePacketStatus(op.task) /\ op.task \in KeepK.tasks
    <2> SUFFICES ASSUME NEW op \in KeepK.messages["Status"], op.type = "Status"
                 PROVE  /\ op.id \in Id
                        /\ op.op = "Set" => op.payload \in KeepK.payload
                        /\ op.op = "GetAndRemove" =>
                               op = GetAndRemovePacketStatus(op.task) /\ op.task \in KeepK.tasks
      OBVIOUS
    <2>1. op \in PingStatusMessages
      BY KeepMessages DEF StopMessage
    <2>2. 0 \in Id
      BY StatusAssumption DEF Id
    <2> QED
      BY <2>1, <2>2, KeepKFields, PingStatusOperations
  <1>6. KeepK.payload \subseteq Payload
    BY KeepKFields, KeepAliveAssumption
  <1>7. \A a \in SendStatusRecipient : \A f \in BOOLEAN :
            [type |-> "PacketSendStatus", finished |-> f] \in KeepK.messages[a]
    <2>1. SendStatusRecipient = {}
      BY KeepAliveAssumption
    <2> QED
      BY <2>1
  <1>8. \A msg \in KeepK.messages["Send"] : msg.type = "Packet" => msg.packet \in KeepK.client
    BY KeepKFields, KeepMessages DEF StopMessage, VariablePacketMessage
  <1>9. \A packet \in KeepK.server : VariablePacketMessage(packet) \in KeepK.messages["Dispatch"]
    BY KeepKFields, KeepMessages
  <1>10. \A msg \in KeepK.messages["Dispatch"] :
             msg.type = "Packet" =>
                 PacketMessage(msg.packet, 0) \in KeepK.messages[Target[msg.packet.type]]
    <2> SUFFICES ASSUME NEW msg \in KeepK.messages["Dispatch"], msg.type = "Packet"
                 PROVE  PacketMessage(msg.packet, 0) \in KeepK.messages[Target[msg.packet.type]]
      OBVIOUS
    <2>1. PICK packet \in ServerPackets : msg = VariablePacketMessage(packet)
      BY KeepMessages DEF StopMessage
    <2>2. msg.packet = packet /\ 0 \in Retry
      BY <2>1, StatusAssumption DEF VariablePacketMessage, Retry
    <2>3. CASE packet = PingrespPacket
      <3>1. packet.type = "Pingresp" /\ Target["Pingresp"] = "Pingresp"
        BY <2>3, KeepAliveAssumption DEF PingrespPacket
      <3>2. PacketMessage(packet, 0) \in Pingresps
        BY <2>2, <2>3, <3>1 DEF PacketMessage, Pingresps
      <3> QED
        BY <2>2, <3>1, <3>2, KeepMessages
    <2>4. CASE packet \in {ConnackPacket("Accepted"), ConnackPacket("Refused")}
      <3>1. packet.type = "Connack" /\ Target["Connack"] = "Connack"
        BY <2>4, ConnectingAssumption DEF ConnackPacket
      <3>2. PacketMessage(packet, 0) \in Connacks
        BY <2>2, <2>4, <3>1 DEF PacketMessage, Connacks
      <3> QED
        BY <2>2, <3>1, <3>2, KeepMessages
    <2> QED
      BY <2>3, <2>4 DEF ServerPackets
  <1> QED
    BY <1>1, <1>2, <1>3, <1>4, <1>5, <1>6, <1>7, <1>8, <1>9, <1>10 DEF Wired

-----------------------------------------------------------------------------
(* The type invariant.  One lemma per action. *)

\* What a step has to show that changes mailboxes and stops actors only.
LEMMA OnlyBoxesTyped ==
    ASSUME NEW K, SessionOK(K), BoxesOK(K, mbox'), alive' \subseteq alive,
           UNCHANGED <<resends, statusVars, wireVars>>
    PROVE  SessionOK(K)'
  BY DEF SessionOK, BoxesOK, statusVars, wireVars

\* The context of every lemma below.
LEMMA KeepContext ==
    ASSUME TypeOK
    PROVE  SessionOK(KeepK) /\ BoxesOK(KeepK, mbox) /\ KeepVarsOK
  BY KeepTypeParts DEF SessionOK, BoxesOK

\* What an actor finds at the head of its mailbox.
LEMMA PingHeads ==
    ASSUME TypeOK
    PROVE  /\ Handling("Pingreq", "SendPing") => Head(mbox["Pingreq"]) \in SendPings
           /\ Handling("Pingresp", "Pingresp") => Head(mbox["Pingresp"]) \in Pingresps
           /\ Handling("Status", "Status") => Head(mbox["Status"]) \in PingStatusMessages
           /\ Handling("Connack", "Connack") => Head(mbox["Connack"]) \in Connacks
           /\ Handling("ConnectStatus", "Status") =>
                  Head(mbox["ConnectStatus"])
                      \in {SetPacketStatus(0, "Unit"), SetPacketStatus(1, "Unit"),
                           RemovePacketStatus(0), ConnectQuestion}
  <1> USE ActorsOfPing, KeepContext, KeepMessages, TakeTyped
  <1>1. ASSUME Handling("Pingreq", "SendPing")
        PROVE  Head(mbox["Pingreq"]) \in SendPings
    BY <1>1 DEF PingreqMessage, StopMessage
  <1>2. ASSUME Handling("Pingresp", "Pingresp")
        PROVE  Head(mbox["Pingresp"]) \in Pingresps
    BY <1>2 DEF StopMessage
  <1>3. ASSUME Handling("Status", "Status")
        PROVE  Head(mbox["Status"]) \in PingStatusMessages
    BY <1>3 DEF StopMessage
  <1>4. ASSUME Handling("Connack", "Connack")
        PROVE  Head(mbox["Connack"]) \in Connacks
    BY <1>4 DEF StopMessage
  <1>5. ASSUME Handling("ConnectStatus", "Status")
        PROVE  Head(mbox["ConnectStatus"])
                   \in {SetPacketStatus(0, "Unit"), SetPacketStatus(1, "Unit"),
                        RemovePacketStatus(0), ConnectQuestion}
    BY <1>5 DEF StopMessage, ConnectedQuestion, ConnectStatusMessages
  <1> QED
    BY <1>1, <1>2, <1>3, <1>4, <1>5

LEMMA TickTyped ==
    ASSUME TypeOK, Tick
    PROVE  TypeOK'
  <1>1. BoxesOK(KeepK, mbox')
    BY KeepContext, KeepMessages, PostTyped DEF Tick
  <1>2. SessionOK(KeepK)'
    BY <1>1, KeepContext, OnlyBoxesTyped DEF Tick
  <1>3. KeepVarsOK'
    BY KeepContext, KeepAliveAssumption DEF Tick, KeepVarsOK, connectVars
  <1> QED
    BY <1>2, <1>3, KeepTypeParts

LEMMA PingreqHandleTyped ==
    ASSUME TypeOK, PingreqHandle
    PROVE  TypeOK'
  <1>1. BoxesOK(KeepK, mbox')
    BY ActorsOfPing, KeepContext, TakeTyped DEF PingreqHandle
  <1>2. SessionOK(KeepK)'
    BY <1>1, KeepContext, OnlyBoxesTyped DEF PingreqHandle
  <1>3. KeepVarsOK'
    BY KeepContext DEF PingreqHandle, KeepVarsOK, connectVars
  <1> QED
    BY <1>2, <1>3, KeepTypeParts

LEMMA AskConnectedTyped ==
    ASSUME TypeOK, AskConnected
    PROVE  TypeOK'
  <1>1. ConnectedQuestion \in KeepK.messages["ConnectStatus"]
    BY KeepMessages DEF ConnectStatusMessages
  <1>2. BoxesOK(KeepK, mbox')
    BY <1>1, KeepContext, PostTyped DEF AskConnected
  <1>3. SessionOK(KeepK)'
    BY <1>2, KeepContext, OnlyBoxesTyped DEF AskConnected
  <1>4. KeepVarsOK'
    BY KeepContext DEF AskConnected, KeepVarsOK, connectVars
  <1> QED
    BY <1>3, <1>4, KeepTypeParts

LEMMA ExistsHandleTyped ==
    ASSUME TypeOK, ExistsHandle
    PROVE  TypeOK'
  <1>1. BoxesOK(KeepK, mbox')
    BY ActorsOfPing, KeepContext, TakeTyped DEF ExistsHandle
  <1>2. BagToSet(asking') \subseteq KeepK.tasks
    <2>1. BagToSet(BagAdd(asking, PingTask)) = BagToSet(asking) \cup {PingTask}
      BY BagAddElements
    <2>2. BagToSet(asking) \subseteq KeepK.tasks /\ PingTask \in KeepK.tasks
      BY KeepContext, KeepKFields DEF SessionOK, PingTasksOrChecks
    <2> QED
      BY <2>1, <2>2 DEF ExistsHandle
  <1>3. SessionOK(KeepK)'
    BY <1>1, <1>2, KeepContext DEF ExistsHandle, SessionOK, BoxesOK, wireVars
  <1>4. KeepVarsOK'
    BY KeepContext DEF ExistsHandle, KeepVarsOK, connectVars, pingVars
  <1> QED
    BY <1>3, <1>4, KeepTypeParts

LEMMA PingAnsweredTyped ==
    ASSUME TypeOK, PingAnswered
    PROVE  TypeOK'
  <1>1. PICK r \in BagToSet(answered) :
            /\ answered' = BagRemove(answered, r)
            /\ \/ mbox' = Post(mbox, "Pingreq", SendPing(0))
               \/ mbox' = Post(mbox, "Stop", StopMessage)
               \/ mbox' = mbox
            /\ UNCHANGED <<alive, resends, packetStatus, timers, asking, wireVars,
                           connectVars, pingVars>>
    BY DEF PingAnswered
  <1>2. SendPing(0) \in KeepK.messages["Pingreq"]
    BY KeepMessages, StatusAssumption DEF SendPings, Retry
  <1>3. BoxesOK(KeepK, mbox')
    BY <1>1, <1>2, KeepContext, KeepWired, PostTyped, PostStopTyped
  <1>4. BagToSet(answered') \subseteq [task : KeepK.tasks, answer : Answer]
    BY <1>1, KeepContext, BagRemoveElements DEF SessionOK
  <1>5. SessionOK(KeepK)'
    BY <1>1, <1>3, <1>4, KeepContext DEF SessionOK, BoxesOK, wireVars
  <1>6. KeepVarsOK'
    BY <1>1, KeepContext DEF KeepVarsOK, connectVars, pingVars
  <1> QED
    BY <1>5, <1>6, KeepTypeParts

LEMMA SendPingHandleTyped ==
    ASSUME TypeOK, SendPingHandle
    PROVE  TypeOK'
  <1> DEFINE msg == Head(mbox["Pingreq"])
  <1>1. Handling("Pingreq", "SendPing") /\ msg \in SendPings
    BY PingHeads DEF SendPingHandle
  <1>2. /\ SetPacketStatus(0, "Unit") \in KeepK.messages["Status"]
        /\ RemovePacketStatus(PingreqPacket.id) \in KeepK.messages["Status"]
        /\ VariablePacketMessage(PingreqPacket) \in KeepK.messages["Send"]
    BY KeepMessages DEF PingStatusMessages, PingreqPacket, ClientPackets
  <1>3. ~RetryExhausted(msg) =>
            /\ StatusCheck("Pingreq", "Pingreq", PingreqPacket.id, Retried(msg), {"Unit"})
                   \in KeepK.timers
            /\ [to |-> "Pingreq", msg |-> Retried(msg)] \in KeepK.resends
    BY <1>1, SendPingRetried, KeepKFields DEF PingChecks, PingreqPacket
  <1>4. /\ SendPacketHandle("Pingreq", msg, SetPacketStatus(0, "Unit"), PingreqPacket, {"Unit"})
        /\ pings' \in {pings, pings + 1}
        /\ UNCHANGED <<wireVars, connectVars, ticks, inquiries>>
    BY DEF SendPingHandle
  <1> HIDE DEF msg
  <1>5. SessionOK(KeepK)'
    BY <1>1, <1>2, <1>3, <1>4, ActorsOfPing, KeepContext, KeepWired, SendPacketHandleTyped
  <1>6. KeepVarsOK'
    BY <1>4, KeepContext DEF KeepVarsOK, connectVars
  <1> QED
    BY <1>5, <1>6, KeepTypeParts

LEMMA PingrespHandleTyped ==
    ASSUME TypeOK, PingrespHandle
    PROVE  TypeOK'
  <1>1. Head(mbox["Pingresp"]) \in Pingresps
    BY PingHeads DEF PingrespHandle, ResponseHandle
  <1>2. /\ RemovePacketStatus(Head(mbox["Pingresp"]).packet.id) \in KeepK.messages["Status"]
        /\ [to |-> "Pingresp", msg |-> Head(mbox["Pingresp"])] \in KeepK.resends
    BY <1>1, KeepKFields, KeepMessages DEF Pingresps, PingrespPacket, PingStatusMessages
  <1>3. SessionOK(KeepK)'
    BY <1>2, ActorsOfPing, KeepContext, KeepWired, ResponseHandleTyped DEF PingrespHandle
  <1>4. KeepVarsOK'
    BY KeepContext DEF PingrespHandle, KeepVarsOK, connectVars, pingVars
  <1> QED
    BY <1>3, <1>4, KeepTypeParts

LEMMA BrokerPingTyped ==
    ASSUME TypeOK, BrokerPing
    PROVE  TypeOK'
  <1>1. toBroker' \in Seq(KeepK.client)
    BY KeepContext, HeadTailProperties DEF BrokerPing, SessionOK
  <1>2. PingrespPacket \in KeepK.server /\ fromBroker \in Seq(KeepK.server)
    BY KeepContext, KeepKFields DEF SessionOK, ServerPackets
  <1>3. fromBroker' \in Seq(KeepK.server)
    BY <1>2, AppendProperties DEF BrokerPing
  <1>4. SessionOK(KeepK)'
    BY <1>1, <1>3, KeepContext DEF BrokerPing, SessionOK, actorVars, statusVars
  <1>5. KeepVarsOK'
    BY KeepContext DEF BrokerPing, KeepVarsOK, connectVars, pingVars
  <1> QED
    BY <1>4, <1>5, KeepTypeParts

\* The messages of connecting are where their actors find them.
LEMMA ConnectingMessages ==
    /\ ConnectMessage \in KeepK.messages["Connect"]
    /\ {SetPacketStatus(0, "Unit"), SetPacketStatus(1, "Unit"), RemovePacketStatus(0),
        ConnectQuestion} \subseteq KeepK.messages["ConnectStatus"]
    /\ VariablePacketMessage(ConnectPacket) \in KeepK.messages["Send"]
    /\ \A a \in Actor : StopMessage \in KeepK.messages[a]
  BY KeepMessages DEF ConnectStatusMessages, ClientPackets

\* A step of ConnectingStep that only posts, takes or stops.
LEMMA ConnectingTyped ==
    ASSUME TypeOK, BoxesOK(KeepK, mbox'), alive' \subseteq alive,
           UNCHANGED <<resends, statusVars, wireVars, pingVars>>,
           held' \subseteq held, connectStatus' \subseteq {0, 1},
           connectCall' \in {"none", "pending", "returned"},
           connectCheck' \in {"none", "timer", "asking", "asked", "found", "absent", "over"},
           connack' \in {"none", "Accepted", "Refused"}
    PROVE  TypeOK'
  <1>1. SessionOK(KeepK)'
    BY KeepContext, OnlyBoxesTyped
  <1>2. KeepVarsOK'
    BY KeepContext DEF KeepVarsOK, pingVars
  <1> QED
    BY <1>1, <1>2, KeepTypeParts

LEMMA ConnectHandleTyped ==
    ASSUME TypeOK, ConnectHandle, UNCHANGED <<wireVars, statusVars, pingVars>>
    PROVE  TypeOK'
  <1> DEFINE box == Post(Take("Connect"), "ConnectStatus", SetPacketStatus(0, "Unit"))
  <1>1. BoxesOK(KeepK, box)
    BY ActorsOfPing, KeepContext, TakeTyped, PostTyped, ConnectingMessages DEF ConnectHandle
  <1>2. /\ \/ mbox' = Post(box, "Stop", StopMessage)
           \/ mbox' = Post(box, "Send", VariablePacketMessage(ConnectPacket))
        /\ connectCheck' \in {connectCheck, "timer"}
        /\ UNCHANGED <<alive, resends, held, connectCall, connectStatus, connack>>
    BY DEF ConnectHandle
  <1> HIDE DEF box
  <1>3. BoxesOK(KeepK, mbox')
    BY <1>1, <1>2, KeepContext, PostTyped, ConnectingMessages
  <1> QED
    BY <1>2, <1>3, KeepContext, ConnectingTyped DEF KeepVarsOK

LEMMA ConnackHandleTyped ==
    ASSUME TypeOK, ConnackHandle, UNCHANGED <<wireVars, statusVars, pingVars>>
    PROVE  TypeOK'
  <1> DEFINE box == Take("Connack")
             none == [box EXCEPT !["Connack"] = <<>>]
  <1> USE ActorsOfPing, KeepContext, ConnectingMessages
  <1>1. BoxesOK(KeepK, box) /\ BoxesOK(KeepK, none)
    BY TakeTyped, EmptiedTyped DEF ConnackHandle
  <1>2. /\ \/ mbox' = Post(box, "Stop", StopMessage)
           \/ mbox' = AcceptedBox(none)
           \/ mbox' = Post(Post(box, "ConnectStatus", RemovePacketStatus(0)), "Stop", StopMessage)
        /\ alive' \subseteq alive
        /\ connack' \in {connack, Head(mbox["Connack"]).packet.code}
        /\ UNCHANGED <<resends, held, connectCall, connectStatus, connectCheck>>
    BY DEF ConnackHandle
  <1> HIDE DEF box, none
  <1>3. BoxesOK(KeepK, AcceptedBox(none))
    BY <1>1, PostTyped DEF AcceptedBox
  <1>4. BoxesOK(KeepK, Post(box, "Stop", StopMessage))
    BY <1>1, PostTyped
  <1>5. BoxesOK(KeepK, Post(Post(box, "ConnectStatus", RemovePacketStatus(0)), "Stop", StopMessage))
    BY <1>1, PostTyped
  <1>6. BoxesOK(KeepK, mbox')
    BY <1>2, <1>3, <1>4, <1>5
  <1>7. Head(mbox["Connack"]).packet.code \in {"Accepted", "Refused"}
    BY PingHeads DEF ConnackHandle, Connacks, ConnackPacket
  <1> QED
    BY <1>2, <1>6, <1>7, ConnectingTyped DEF KeepVarsOK

LEMMA ConnectStatusHandleTyped ==
    ASSUME TypeOK, ConnectStatusHandle, UNCHANGED <<wireVars, statusVars, pingVars>>
    PROVE  TypeOK'
  <1>1. BoxesOK(KeepK, mbox')
    BY ActorsOfPing, KeepContext, TakeTyped DEF ConnectStatusHandle
  <1>2. Head(mbox["ConnectStatus"]).id \in {0, 1}
    BY PingHeads
       DEF ConnectStatusHandle, SetPacketStatus, RemovePacketStatus, ConnectQuestion,
           GetAndRemovePacketStatus
  <1>3. connectStatus' \subseteq {0, 1}
    BY <1>2, KeepContext DEF ConnectStatusHandle, KeepVarsOK
  <1>4. connectCheck' \in {connectCheck, "found", "absent"}
    BY DEF ConnectStatusHandle
  <1> QED
    BY <1>1, <1>3, <1>4, KeepContext, ConnectingTyped DEF ConnectStatusHandle, KeepVarsOK

LEMMA BrokerConnectTyped ==
    ASSUME TypeOK, BrokerConnect, UNCHANGED <<statusVars, pingVars>>
    PROVE  TypeOK'
  <1>1. toBroker' \in Seq(KeepK.client)
    BY KeepContext, HeadTailProperties DEF BrokerConnect, SessionOK
  <1>2. PICK code \in {"Accepted", "Refused"} : fromBroker' = Append(fromBroker, ConnackPacket(code))
    BY DEF BrokerConnect
  <1>3. ConnackPacket(code) \in KeepK.server /\ fromBroker \in Seq(KeepK.server)
    BY KeepContext, KeepKFields DEF SessionOK, ServerPackets
  <1>4. fromBroker' \in Seq(KeepK.server)
    BY <1>2, <1>3, AppendProperties
  <1>5. SessionOK(KeepK)'
    BY <1>1, <1>4, KeepContext DEF BrokerConnect, SessionOK, actorVars, statusVars
  <1>6. KeepVarsOK'
    BY KeepContext DEF BrokerConnect, KeepVarsOK, connectVars, pingVars
  <1> QED
    BY <1>5, <1>6, KeepTypeParts

LEMMA ConnectingStepTyped ==
    ASSUME TypeOK, ConnectingStep, UNCHANGED <<statusVars, pingVars>>
    PROVE  TypeOK'
  <1> USE ActorsOfPing, KeepContext, ConnectingMessages DEF KeepVarsOK
  <1>1. CASE ClientConnect /\ UNCHANGED wireVars
    <2>1. BoxesOK(KeepK, mbox')
      BY <1>1, PostTyped DEF ClientConnect
    <2> QED
      BY <1>1, <2>1, ConnectingTyped DEF ClientConnect
  <1>2. CASE ConnectReturns /\ UNCHANGED wireVars
    BY <1>2, ConnectingTyped DEF ConnectReturns, actorVars, BoxesOK
  <1>3. CASE ClientLetsGo /\ UNCHANGED wireVars
    BY <1>3, ConnectingTyped DEF ClientLetsGo, actorVars, BoxesOK
  <1>4. CASE ConnectHandle /\ UNCHANGED wireVars
    BY <1>4, ConnectHandleTyped
  <1>5. CASE ConnectStop /\ UNCHANGED wireVars
    <2>1. BoxesOK(KeepK, mbox')
      BY <1>5, EmptiedTyped DEF ConnectStop
    <2> QED
      BY <1>5, <2>1, ConnectingTyped DEF ConnectStop
  <1>6. CASE TimeoutFires /\ UNCHANGED wireVars
    BY <1>6, ConnectingTyped DEF TimeoutFires, actorVars, BoxesOK
  <1>7. CASE TimeoutAsks /\ UNCHANGED wireVars
    <2>1. BoxesOK(KeepK, mbox')
      BY <1>7, PostTyped DEF TimeoutAsks
    <2> QED
      BY <1>7, <2>1, ConnectingTyped DEF TimeoutAsks
  <1>8. CASE TimeoutAnswered /\ UNCHANGED wireVars
    <2>1. TimeoutStops \in Actor
      BY DEF TimeoutStops
    <2>2. BoxesOK(KeepK, mbox')
      BY <1>8, <2>1, PostTyped DEF TimeoutAnswered
    <2> QED
      BY <1>8, <2>2, ConnectingTyped DEF TimeoutAnswered
  <1>9. CASE ConnackHandle /\ UNCHANGED wireVars
    BY <1>9, ConnackHandleTyped
  <1>10. CASE ConnectStatusHandle /\ UNCHANGED wireVars
    BY <1>10, ConnectStatusHandleTyped
  <1>11. CASE (ConnackOrphaned \/ ConnectOrphaned) /\ UNCHANGED wireVars
    BY <1>11, ConnectingTyped DEF ConnackOrphaned, ConnectOrphaned, Orphaned, connectVars, BoxesOK
  <1>12. CASE BrokerConnect
    BY <1>12, BrokerConnectTyped
  <1> QED
    BY <1>1, <1>2, <1>3, <1>4, <1>5, <1>6, <1>7, <1>8, <1>9, <1>10, <1>11, <1>12
       DEF ConnectingStep

LEMMA KeepInitTyped == Init => TypeOK
  <1> SUFFICES ASSUME Init PROVE TypeOK
    OBVIOUS
  <1>1. SessionOK(KeepK)
    BY SessionInitTyped DEF Init
  <1>2. KeepVarsOK
    BY KeepAliveAssumption DEF Init, ConnectingInit, KeepAliveInit, KeepVarsOK
  <1> QED
    BY <1>1, <1>2, KeepTypeParts

LEMMA KeepNextTyped ==
    ASSUME TypeOK, Next
    PROVE  TypeOK'
  <1>1. CASE PingStatusHandle
    <2>1. SessionOK(KeepK)'
      BY <1>1, KeepContext, KeepWired, StatusHandleTyped DEF PingStatusHandle
    <2>2. KeepVarsOK'
      BY <1>1, KeepContext DEF PingStatusHandle, KeepVarsOK, connectVars, pingVars
    <2> QED
      BY <2>1, <2>2, KeepTypeParts
  <1>2. CASE ConnectStatusOrphaned /\ Elsewhere
    BY <1>2, KeepContext, ConnectingTyped
       DEF ConnectStatusOrphaned, Orphaned, Elsewhere, connectVars, KeepVarsOK, BoxesOK
  <1>3. CASE Background /\ UNCHANGED <<connectVars, pingVars>>
    <2>1. SessionOK(KeepK)'
      BY <1>3, KeepContext, KeepWired, BackgroundTyped
    <2>2. KeepVarsOK'
      BY <1>3, KeepContext DEF KeepVarsOK, connectVars, pingVars
    <2> QED
      BY <2>1, <2>2, KeepTypeParts
  <1> QED
    BY <1>1, <1>2, <1>3, TickTyped, PingreqHandleTyped, AskConnectedTyped, ExistsHandleTyped,
       PingAnsweredTyped, SendPingHandleTyped, PingrespHandleTyped, BrokerPingTyped,
       ConnectingStepTyped
       DEF Next

LEMMA KeepStepTyped == TypeOK /\ [Next]_keepAliveVars => TypeOK'
  <1> SUFFICES ASSUME TypeOK, UNCHANGED keepAliveVars PROVE TypeOK'
    BY KeepNextTyped
  <1> QED
    BY DEF TypeOK, keepAliveVars, sessionVars, actorVars, statusVars, wireVars, connectVars, pingVars

\* KeepAlive.tla, TypeOK: every mailbox holds only what its actor handles, and
\* no SendPing counts more attempts than assert_valid_retry_count
\* (src/actors/packets/macros.rs:1-19) lets through, for any number of retries.
THEOREM KeepAliveTypeCorrect == Spec => []TypeOK
  BY KeepStepTyped, KeepInitTyped, PTL DEF Spec

-----------------------------------------------------------------------------
(* Before the server has accepted the client there is nothing that could    *)
(* make it ping: no SendPing, no task that leads to one, nor a word to the  *)
(* connect status actor that the client is connected.                       *)

Connected == SetPacketStatus(1, "Unit")

NothingPings ==
    /\ Absent(KeepK, "Pingreq", SendPings)
    /\ Absent(KeepK, "ConnectStatus", {Connected})
    /\ pings = 0
    /\ 1 \notin connectStatus

NoPings ==
    /\ connack # "Accepted" => NothingPings
    /\ connack = "Accepted" => "Connack" \notin alive

\* The two sets of messages that NothingPings is about, and the one message
\* that makes ConnectActor connect.
Ahead(a, S) ==
    \/ a = "Pingreq" /\ S = SendPings
    \/ a = "ConnectStatus" /\ S = {Connected}
    \/ a = "Connect" /\ S = {ConnectMessage}

LEMMA AheadFollowed ==
    ASSUME NEW a, NEW S, Ahead(a, S)
    PROVE  /\ Followed(KeepK, a, S)
           /\ S \cap {PingreqMessage, ConnectedQuestion, ConnectQuestion,
                      RemovePacketStatus(0), SetPacketStatus(0, "Unit"), StopMessage} = {}
  <1>1. \A msg \in S : msg.type \in {"SendPing", "Status", "Connect"}
    BY DEF Ahead, SendPings, SendPing, Connected, SetPacketStatus, ConnectMessage
  <1>2. a \in Actor \ {"Status", "Send", "Dispatch"}
    BY ActorsOfPing DEF Ahead
  <1>3. /\ StopMessage \notin S
        /\ \A f \in BOOLEAN : [type |-> "PacketSendStatus", finished |-> f] \notin S
    BY <1>1 DEF StopMessage
  <1>4. ASSUME NEW msg \in KeepK.messages["Dispatch"], msg.type = "Packet"
        PROVE  PacketMessage(msg.packet, 0) \notin S \cup Asks(KeepK, a, S)
    <2>1. PICK packet \in ServerPackets : msg = VariablePacketMessage(packet)
      BY <1>4, KeepMessages DEF StopMessage
    <2>2. packet.type \in {"Connack", "Pingresp"} /\ msg.packet = packet
      BY <2>1 DEF ServerPackets, ConnackPacket, PingrespPacket, VariablePacketMessage
    <2>3. PacketMessage(msg.packet, 0).type \in {"Connack", "Pingresp"}
      BY <2>2 DEF PacketMessage
    <2>4. \A e \in Asks(KeepK, a, S) : e.type = "Status"
      BY DEF Asks, GetAndRemovePacketStatus
    <2> QED
      BY <1>1, <2>3, <2>4
  <1>5. \A r \in KeepK.resends : r.to # "Status"
    BY KeepKFields
  <1>6. \A t \in KeepK.tasks : t.actor # "Status"
    BY KeepKFields, PingTasksTyped
  <1>7. Followed(KeepK, a, S)
    BY <1>2, <1>3, <1>4, <1>5, <1>6 DEF Followed
  <1>8. S \cap {PingreqMessage, ConnectedQuestion, ConnectQuestion,
                RemovePacketStatus(0), SetPacketStatus(0, "Unit"), StopMessage} = {}
    BY DEF Ahead, SendPings, SendPing, Connected, PingreqMessage, ConnectedQuestion,
           ConnectQuestion, ConnectMessage, GetAndRemovePacketStatus, SetPacketStatus,
           RemovePacketStatus, StopMessage
  <1> QED
    BY <1>7, <1>8

\* A message that is not one of them goes to an actor.
LEMMA PostAside ==
    ASSUME TypeOK, NEW a, NEW S, Ahead(a, S), NEW box, BoxesOK(KeepK, box),
           NEW b, b # "Status", NEW m, b = a => m \notin S
    PROVE  BoxKeeps(box, Post(box, b, m), KeepK, a, S)
  BY KeepContext, AheadFollowed, PostKeeps DEF Followed

LEMMA TakeAside ==
    ASSUME TypeOK, NEW a, NEW S, Ahead(a, S), NEW b \in Actor, NEW type, Handling(b, type)
    PROVE  BoxKeeps(mbox, Take(b), KeepK, a, S)
  BY KeepContext, AheadFollowed, TakeKeeps DEF Followed, Handling

ConnackStep     == ConnackHandle /\ UNCHANGED <<wireVars, statusVars, pingVars>>
ClientConnected == ClientConnect /\ UNCHANGED <<wireVars, statusVars, pingVars>>

\* The steps of connecting.
LEMMA ConnectingCarries ==
    ASSUME TypeOK, NEW a, NEW S, Ahead(a, S), ConnectingStep, ~ConnackStep,
           a = "Connect" => ~ClientConnected, UNCHANGED <<statusVars, pingVars>>
    PROVE  Carries(KeepK, a, S)
  <1> USE ActorsOfPing, KeepContext, AheadFollowed DEF ConnackStep, ClientConnected
  <1>1. UNCHANGED resends /\ UNCHANGED statusVars
    BY DEF ConnectingStep, ClientConnect, ConnectReturns, ClientLetsGo, ConnectHandle, ConnectStop,
           TimeoutFires, TimeoutAsks, TimeoutAnswered, ConnectStatusHandle, ConnackOrphaned,
           ConnectOrphaned, Orphaned, BrokerConnect, actorVars
  <1>2. BoxKeeps(mbox, mbox', KeepK, a, S)
    <2>1. CASE ClientConnect /\ UNCHANGED wireVars
      BY <2>1, PostAside DEF ClientConnect, Ahead
    <2>2. CASE mbox' = mbox
      BY <2>2, BoxKeepsItself
    <2>3. CASE ConnectHandle
      <3> DEFINE box == Take("Connect")
                 told == Post(box, "ConnectStatus", SetPacketStatus(0, "Unit"))
      <3>1. BoxesOK(KeepK, box) /\ BoxKeeps(mbox, box, KeepK, a, S)
        BY <2>3, TakeTyped, TakeAside DEF ConnectHandle
      <3>2. \/ mbox' = Post(told, "Stop", StopMessage)
            \/ mbox' = Post(told, "Send", VariablePacketMessage(ConnectPacket))
        BY <2>3 DEF ConnectHandle
      <3> HIDE DEF box
      <3>3. BoxesOK(KeepK, told) /\ BoxKeeps(box, told, KeepK, a, S)
        BY <3>1, PostTyped, PostAside, ConnectingMessages
      <3> HIDE DEF told
      <3>4. BoxKeeps(told, mbox', KeepK, a, S)
        BY <3>2, <3>3, PostAside DEF Followed
      <3> QED
        BY <3>1, <3>3, <3>4, BoxKeepsOn
    <2>4. CASE ConnectStop
      BY <2>4, EmptiedKeeps DEF ConnectStop, Followed
    <2>5. CASE TimeoutAsks
      BY <2>5, PostAside DEF TimeoutAsks
    <2>6. CASE TimeoutAnswered
      <3>1. TimeoutStops \in {"Stop", "Connect"}
        BY DEF TimeoutStops
      <3> QED
        BY <2>6, <3>1, PostAside DEF TimeoutAnswered
    <2>7. CASE ConnectStatusHandle
      BY <2>7, TakeAside DEF ConnectStatusHandle
    <2> QED
      BY <2>1, <2>2, <2>3, <2>4, <2>5, <2>6, <2>7
         DEF ConnectingStep, ConnectReturns, ClientLetsGo, TimeoutFires, ConnackOrphaned,
             ConnectOrphaned, Orphaned, BrokerConnect, actorVars
  <1> QED
    BY <1>1, <1>2, OnlyBoxes

\* The other steps, but for those of a ping that has begun.
LEMMA ElsewhereCarries ==
    ASSUME TypeOK, NEW a, NEW S, Ahead(a, S),
           \/ Tick \/ PingreqHandle \/ AskConnected
           \/ ExistsHandle /\ ~ConnectedToPing
           \/ PingrespHandle \/ PingStatusHandle \/ BrokerPing
           \/ ConnectStatusOrphaned /\ Elsewhere
           \/ Background /\ UNCHANGED <<connectVars, pingVars>>
    PROVE  Carries(KeepK, a, S)
  <1> USE ActorsOfPing, KeepContext, AheadFollowed
  <1>1. CASE Tick
    BY <1>1, PostAside, OnlyBoxes DEF Tick
  <1>2. CASE PingreqHandle
    BY <1>2, TakeAside, OnlyBoxes DEF PingreqHandle
  <1>3. CASE AskConnected
    BY <1>3, PostAside, OnlyBoxes DEF AskConnected
  <1>4. CASE ExistsHandle /\ ~ConnectedToPing
    BY <1>4, TakeAside, OnlyBoxes DEF ExistsHandle, statusVars
  <1>5. CASE PingrespHandle
    <2>1. a # "Pingresp"
      BY DEF Ahead
    <2> QED
      BY <1>5, <2>1, KeepWired, ResponseHandleCarries DEF PingrespHandle
  <1>6. CASE PingStatusHandle
    BY <1>6, KeepWired, StatusHandleCarries DEF PingStatusHandle
  <1>7. CASE BrokerPing
    BY <1>7, BoxKeepsItself, OnlyBoxes DEF BrokerPing, actorVars
  <1>8. CASE ConnectStatusOrphaned /\ Elsewhere
    BY <1>8, BoxKeepsItself, OnlyBoxes DEF ConnectStatusOrphaned, Orphaned, Elsewhere
  <1>9. CASE Background
    BY <1>9, KeepWired, BackgroundCarries
  <1> QED
    BY <1>1, <1>2, <1>3, <1>4, <1>5, <1>6, <1>7, <1>8, <1>9

\* No actor starts again, and only ConnackActor changes connack.
LEMMA ActorsOnlyStop ==
    ASSUME Next
    PROVE  alive' \subseteq alive /\ (ConnackStep \/ connack' = connack)
  <1>1. CASE Background /\ UNCHANGED <<connectVars, pingVars>>
    <2>1. alive' \subseteq alive
      BY <1>1 DEF Background, Resend, BroadcastStop, TaskNext, TimerFires, AskStatus, StatusChecked,
                  TransportNext, SendHandle, RecvPacket, DispatchHandle, RecvError, RecvFails,
                  WriteError, DispatchOrphaned, StopHandle, HandleStop, actorVars
    <2> QED
      BY <1>1, <2>1 DEF connectVars
  <1>2. CASE ConnectingStep /\ UNCHANGED <<statusVars, pingVars>>
    BY <1>2 DEF ConnackStep, ConnectingStep, ClientConnect, ConnectReturns, ClientLetsGo, ConnectHandle,
           ConnectStop, TimeoutFires, TimeoutAsks, TimeoutAnswered, ConnackHandle,
           ConnectStatusHandle, ConnackOrphaned, ConnectOrphaned, Orphaned, BrokerConnect,
           actorVars, connectVars
  <1>3. CASE ConnectStatusOrphaned
    BY <1>3 DEF ConnectStatusOrphaned, Orphaned, connectVars
  <1> QED
    BY <1>1, <1>2, <1>3
       DEF Next, Tick, PingreqHandle, AskConnected, ExistsHandle, PingAnswered, SendPingHandle,
           SendPacketHandle, PingrespHandle, ResponseHandle, PingStatusHandle, StatusHandle,
           BrokerPing, actorVars, connectVars

\* A ping has begun where there is a SendPing or its task.
LEMMA PingNeedsMessage ==
    ASSUME TypeOK, Absent(KeepK, "Pingreq", SendPings)
    PROVE  ~PingAnswered /\ ~SendPingHandle
  <1>1. ASSUME PingAnswered PROVE FALSE
    <2>1. PICK r \in BagToSet(answered) : r.task.kind = "ping"
      BY <1>1 DEF PingAnswered
    <2>2. r \in [task : KeepK.tasks, answer : Answer] /\ r.task \in PingTasksOrChecks
      BY KeepContext, KeepKFields DEF SessionOK
    <2>3. r.task.actor = "Pingreq" /\ r.task.msg \in SendPings
      BY <2>2, PingTasksTyped
    <2>4. r \in AnswersFor(KeepK, "Pingreq", SendPings)
      BY <2>2, <2>3 DEF AnswersFor, TasksFor
    <2> QED
      BY <2>4 DEF Absent, NoneButAt, NoneInBag
  <1>2. ASSUME SendPingHandle PROVE FALSE
    <2>1. mbox["Pingreq"] # <<>> /\ Head(mbox["Pingreq"]) \in SendPings
      BY <1>2, PingHeads DEF SendPingHandle, Handling
    <2>2. mbox["Pingreq"] \in Seq(KeepK.messages["Pingreq"])
      BY KeepContext, ActorsOfPing DEF SessionOK
    <2>3. 1 \in DOMAIN mbox["Pingreq"] /\ Head(mbox["Pingreq"]) = mbox["Pingreq"][1]
      BY <2>1, <2>2
    <2> QED
      BY <2>1, <2>3 DEF Absent, NoneButAt, NoneIn
  <1> QED
    BY <1>1, <1>2

\* Nobody tells the connect status actor that the client is connected.
LEMMA StatusStaysUnconnected ==
    ASSUME TypeOK, NothingPings, ConnectStatusHandle
    PROVE  1 \notin connectStatus'
  <1>1. mbox["ConnectStatus"] # <<>> /\ mbox["ConnectStatus"] \in Seq(KeepK.messages["ConnectStatus"])
    BY KeepContext, ActorsOfPing DEF SessionOK, ConnectStatusHandle, Handling
  <1>2. 1 \in DOMAIN mbox["ConnectStatus"] /\ Head(mbox["ConnectStatus"]) = mbox["ConnectStatus"][1]
    BY <1>1
  <1>3. Head(mbox["ConnectStatus"]) # Connected
    BY <1>2 DEF NothingPings, Absent, NoneButAt, NoneIn
  <1>4. Head(mbox["ConnectStatus"]) \in {SetPacketStatus(0, "Unit"), RemovePacketStatus(0), ConnectQuestion}
    BY <1>3, PingHeads DEF ConnectStatusHandle, Connected
  <1>5. Head(mbox["ConnectStatus"]).op = "Set" => Head(mbox["ConnectStatus"]).id = 0
    BY <1>4 DEF SetPacketStatus, RemovePacketStatus, ConnectQuestion, GetAndRemovePacketStatus
  <1> QED
    BY <1>5 DEF ConnectStatusHandle, NothingPings

\* ConnackActor itself: what it says unless the server has accepted.
LEMMA RefusedCarries ==
    ASSUME TypeOK, NEW a, NEW S, Ahead(a, S), ConnackStep, connack' # "Accepted",
           connack # "Accepted"
    PROVE  Carries(KeepK, a, S)
  <1> DEFINE box == Take("Connack")
             told == Post(box, "ConnectStatus", RemovePacketStatus(0))
  <1> USE ActorsOfPing, KeepContext, AheadFollowed DEF ConnackStep
  <1>1. BoxesOK(KeepK, box) /\ BoxKeeps(mbox, box, KeepK, a, S)
    BY TakeTyped, TakeAside DEF ConnackHandle
  <1>2. mbox' = Post(box, "Stop", StopMessage) \/ mbox' = Post(told, "Stop", StopMessage)
    BY DEF ConnackHandle
  <1> HIDE DEF box
  <1>3. BoxesOK(KeepK, told) /\ BoxKeeps(box, told, KeepK, a, S)
    BY <1>1, PostTyped, PostAside, ConnectingMessages
  <1>4. BoxKeeps(box, Post(box, "Stop", StopMessage), KeepK, a, S)
    BY <1>1, PostAside
  <1> HIDE DEF told
  <1>5. BoxKeeps(told, Post(told, "Stop", StopMessage), KeepK, a, S)
    BY <1>3, PostAside
  <1>6. BoxKeeps(mbox, told, KeepK, a, S)
    BY <1>1, <1>3, BoxKeepsOn
  <1>7. BoxKeeps(mbox, mbox', KeepK, a, S)
    BY <1>1, <1>2, <1>4, <1>5, <1>6, BoxKeepsOn
  <1> QED
    BY <1>7, OnlyBoxes DEF ConnackHandle

LEMMA NoPingsStep ==
    ASSUME TypeOK, NoPings, Next
    PROVE  NoPings'
  <1>1. CASE connack = "Accepted"
    <2>1. ~ConnackStep
      BY <1>1 DEF NoPings, ConnackStep, ConnackHandle, Handling
    <2> QED
      BY <1>1, <2>1, ActorsOnlyStop DEF NoPings
  <1>2. CASE connack # "Accepted" /\ ConnackStep
    <2>1. CASE connack' = "Accepted"
      BY <1>2, <2>1 DEF ConnackStep, ConnackHandle, NoPings
    <2>2. CASE connack' # "Accepted"
      <3>1. \A a, S : Ahead(a, S) => Carries(KeepK, a, S)
        BY <1>2, <2>2, RefusedCarries
      <3>2. Carries(KeepK, "Pingreq", SendPings) /\ Carries(KeepK, "ConnectStatus", {Connected})
        BY <3>1 DEF Ahead
      <3>3. pings' = pings /\ connectStatus' = connectStatus
        BY <1>2 DEF ConnackStep, ConnackHandle, pingVars
      <3> QED
        BY <1>2, <2>2, <3>2, <3>3 DEF NoPings, NothingPings, Carries
    <2> QED
      BY <2>1, <2>2
  <1>3. CASE connack # "Accepted" /\ ~ConnackStep
    <2>1. NothingPings /\ connack' = connack
      BY <1>3, ActorsOnlyStop DEF NoPings
    <2>2. ~PingAnswered /\ ~SendPingHandle /\ ~ConnectedToPing
      BY <2>1, PingNeedsMessage DEF NothingPings, ConnectedToPing
    <2>3. \A a, S : Ahead(a, S) /\ a # "Connect" => Carries(KeepK, a, S)
      BY <1>3, <2>2, ConnectingCarries, ElsewhereCarries DEF Next
    <2>4. Carries(KeepK, "Pingreq", SendPings) /\ Carries(KeepK, "ConnectStatus", {Connected})
      BY <2>3 DEF Ahead
    <2>5. pings' = pings
      BY <2>2 DEF Next, Tick, PingreqHandle, AskConnected, ExistsHandle, PingrespHandle,
                  PingStatusHandle, BrokerPing, Elsewhere, pingVars
    <2>6. ConnectStatusHandle \/ connectStatus' = connectStatus
      BY <1>3, <2>2
         DEF Next, Tick, PingreqHandle, AskConnected, ExistsHandle, PingrespHandle,
             PingStatusHandle, BrokerPing, ConnectStatusOrphaned, ConnectingStep, ClientConnect,
             ConnectReturns, ClientLetsGo, ConnectHandle, ConnectStop, TimeoutFires, TimeoutAsks,
             TimeoutAnswered, ConnackHandle, ConnackOrphaned, ConnectOrphaned, Orphaned,
             BrokerConnect, connectVars
    <2>7. 1 \notin connectStatus'
      BY <2>1, <2>6, StatusStaysUnconnected DEF NothingPings
    <2> QED
      BY <1>3, <2>1, <2>4, <2>5, <2>7 DEF NoPings, NothingPings, Carries
  <1> QED
    BY <1>1, <1>2, <1>3

\* KeepAlive.tla, PingAfterAccept: no PINGREQ before the server has accepted the
\* connection (src/actors/packets/pingreq.rs:81-96), however many intervals,
\* tasks and retries there are, and whatever mailbox is full.
THEOREM PingsAfterAccept == Spec => []PingAfterAccept
  <1>1. Init => NoPings
    <2>1. ASSUME NEW a \in Actor, NEW S, Init PROVE Absent(KeepK, a, S)
      BY <2>1, EmptyBagElements, ActorsOfPing
         DEF Init, SessionInit, ActorsInit, StatusInit, Absent, NoneButAt, NoneIn, NoneInBag
    <2> QED
      BY <2>1, ActorsOfPing DEF Init, ConnectingInit, KeepAliveInit, NoPings, NothingPings
  <1>2. TypeOK /\ NoPings /\ [Next]_keepAliveVars => NoPings'
    <2> SUFFICES ASSUME TypeOK, NoPings, UNCHANGED keepAliveVars PROVE NoPings'
      BY NoPingsStep
    <2> QED
      BY DEF keepAliveVars, sessionVars, actorVars, statusVars, connectVars, pingVars,
             NoPings, NothingPings, Absent, NoneButAt, NoneIn, NoneInBag
  <1>3. NoPings => PingAfterAccept
    BY DEF NoPings, NothingPings, PingAfterAccept
  <1> QED
    BY <1>1, <1>2, <1>3, KeepAliveTypeCorrect, PTL DEF Spec

-----------------------------------------------------------------------------
(* The timeout of connecting.  CONNECT is sent once; until then, nothing is *)
(* under way that could end up as its answer.                               *)

ConnectSent     == VariablePacketMessage(ConnectPacket)
ConnackPackets  == {ConnackPacket("Accepted"), ConnackPacket("Refused")}
ConnackReceived == {VariablePacketMessage(packet) : packet \in ConnackPackets}

Quiet(box) ==
    /\ NoneIn(box["Send"], {ConnectSent})
    /\ NoneIn(box["Dispatch"], ConnackReceived)
    /\ NoneIn(box["Connack"], Connacks)

NotAnswered ==
    /\ connack = "none"
    /\ Quiet(mbox)
    /\ NoneIn(toBroker, {ConnectPacket})
    /\ NoneIn(fromBroker, ConnackPackets)

\* Message m for actor a breaks no silence.
Harmless(a, m) ==
    /\ a = "Send" => m # ConnectSent
    /\ a = "Dispatch" => m \notin ConnackReceived
    /\ a = "Connack" => m \notin Connacks

LEMMA QuietPost ==
    ASSUME TypeOK, NEW box, BoxesOK(KeepK, box), Quiet(box), NEW a, NEW m, Harmless(a, m)
    PROVE  Quiet(Post(box, a, m))
  <1>1. CASE a \notin alive
    BY <1>1 DEF Post
  <1>2. CASE a \in alive
    <2>1. Post(box, a, m) = [box EXCEPT ![a] = Append(@, m)] /\ DOMAIN box = Actor
      BY <1>2 DEF Post, BoxesOK
    <2>2. \A b \in Actor : \A E : NoneIn(box[b], E) /\ m \notin E => NoneIn(Append(box[b], m), E)
      BY NoneInAppend DEF BoxesOK
    <2> QED
      BY <2>1, <2>2, ActorsOfPing DEF Quiet, Harmless
  <1> QED
    BY <1>1, <1>2

LEMMA QuietPostStop ==
    ASSUME TypeOK, NEW box, BoxesOK(KeepK, box), Quiet(box), NEW a
    PROVE  Quiet(Post(box, a, StopMessage))
  <1>1. Harmless(a, StopMessage)
    BY DEF Harmless, StopMessage, ConnectSent, ConnackReceived, VariablePacketMessage, Connacks
  <1> QED
    BY <1>1, QuietPost

LEMMA QuietTake ==
    ASSUME TypeOK, Quiet(mbox), NEW a \in Actor, NEW type, Handling(a, type)
    PROVE  Quiet(Take(a))
  <1>1. mbox[a] # <<>> /\ mbox[a] \in Seq(KeepK.messages[a]) /\ DOMAIN mbox = Actor
    BY KeepContext DEF SessionOK, Handling
  <1>2. \A E : NoneIn(mbox[a], E) => NoneIn(Tail(mbox[a]), E)
    BY <1>1, InTail
  <1> QED
    BY <1>1, <1>2, ActorsOfPing DEF Take, Quiet

LEMMA QuietEmptied ==
    ASSUME NEW box, BoxesOK(KeepK, box), Quiet(box), NEW a
    PROVE  Quiet([box EXCEPT ![a] = <<>>])
  <1>1. \A E : NoneIn(<<>>, E)
    BY DEF NoneIn
  <1> QED
    BY <1>1, ActorsOfPing DEF Quiet, BoxesOK

\* What a step has to show that leaves the connection alone.
LEMMA QuietEnough ==
    ASSUME NotAnswered, Quiet(mbox'), UNCHANGED <<connack, wireVars>>
    PROVE  NotAnswered'
  BY DEF NotAnswered, Quiet, wireVars

\* The handlers and tasks of this module.
LEMMA PingingIsQuiet ==
    ASSUME TypeOK, NotAnswered,
           \/ Tick \/ PingreqHandle \/ AskConnected \/ ExistsHandle \/ PingAnswered
           \/ PingrespHandle \/ PingStatusHandle
           \/ ConnectStatusOrphaned /\ Elsewhere
    PROVE  NotAnswered'
  <1> USE ActorsOfPing, KeepContext
  <1>1. Quiet(mbox) /\ \A a : a \notin {"Send", "Dispatch", "Connack"} => \A m : Harmless(a, m)
    BY DEF NotAnswered, Harmless
  <1>2. CASE Tick \/ AskConnected
    <2>1. Quiet(mbox')
      BY <1>1, <1>2, QuietPost DEF Tick, AskConnected
    <2> QED
      BY <1>2, <2>1, QuietEnough DEF Tick, AskConnected, connectVars
  <1>3. CASE PingreqHandle \/ ExistsHandle
    <2>1. Quiet(mbox')
      BY <1>1, <1>3, QuietTake DEF PingreqHandle, ExistsHandle
    <2> QED
      BY <1>3, <2>1, QuietEnough DEF PingreqHandle, ExistsHandle, connectVars
  <1>4. CASE PingAnswered
    <2>1. /\ \/ mbox' = Post(mbox, "Pingreq", SendPing(0))
             \/ mbox' = Post(mbox, "Stop", StopMessage)
             \/ mbox' = mbox
          /\ UNCHANGED <<connack, wireVars>>
      BY <1>4 DEF PingAnswered, connectVars
    <2>2. Quiet(mbox')
      BY <1>1, <2>1, QuietPost
    <2> QED
      BY <2>1, <2>2, QuietEnough
  <1>5. CASE PingrespHandle
    <2> DEFINE box == Take("Pingresp")
               m == RemovePacketStatus(Head(mbox["Pingresp"]).packet.id)
    <2>1. Quiet(box) /\ BoxesOK(KeepK, box)
      BY <1>1, <1>5, QuietTake, TakeTyped DEF PingrespHandle, ResponseHandle
    <2>2. /\ mbox' \in {Post(box, "Status", m), Post(box, "Stop", StopMessage), box}
          /\ UNCHANGED <<connack, wireVars>>
      BY <1>5 DEF PingrespHandle, ResponseHandle, HandleSendErrorWithResend, connectVars
    <2> HIDE DEF box, m
    <2>3. Quiet(mbox')
      BY <1>1, <2>1, <2>2, QuietPost
    <2> QED
      BY <2>2, <2>3, QuietEnough
  <1>6. CASE PingStatusHandle
    <2>1. Quiet(Take("Status"))
      BY <1>1, <1>6, QuietTake DEF PingStatusHandle, StatusHandle
    <2>2. \A a \in Actor : mbox'[a] = Take("Status")[a]
      BY <1>6, KeepAliveAssumption DEF PingStatusHandle, StatusHandle
    <2>3. Quiet(mbox')
      BY <2>1, <2>2 DEF Quiet
    <2> QED
      BY <1>6, <2>3, QuietEnough DEF PingStatusHandle, connectVars
  <1>7. CASE ConnectStatusOrphaned /\ Elsewhere
    BY <1>1, <1>7, QuietEnough DEF ConnectStatusOrphaned, Orphaned, Elsewhere, connectVars
  <1> QED
    BY <1>2, <1>3, <1>4, <1>5, <1>6, <1>7

\* A PINGREQ is no CONNECT.
LEMMA SendPingIsQuiet ==
    ASSUME TypeOK, NotAnswered, SendPingHandle
    PROVE  NotAnswered'
  <1> DEFINE msg == Head(mbox["Pingreq"])
             box == Take("Pingreq")
             told == Post(box, "Status", SetPacketStatus(0, "Unit"))
             removed == Post(box, "Status", RemovePacketStatus(PingreqPacket.id))
             sent == Post(told, "Send", VariablePacketMessage(PingreqPacket))
  <1> USE ActorsOfPing, KeepContext
  <1>1. Quiet(mbox) /\ \A a : a \notin {"Send", "Dispatch", "Connack"} => \A m : Harmless(a, m)
    BY DEF NotAnswered, Harmless
  <1>2. Quiet(box) /\ BoxesOK(KeepK, box)
    BY <1>1, QuietTake, TakeTyped DEF SendPingHandle
  <1>3. /\ mbox' \in {box, removed, told, sent, Post(box, "Stop", StopMessage),
                      Post(told, "Stop", StopMessage)}
        /\ UNCHANGED <<connack, wireVars>>
    BY DEF SendPingHandle, SendPacketHandle, GiveUp, SetSendSchedule, HandleSendErrorWithResend,
           connectVars
  <1>4. /\ SetPacketStatus(0, "Unit") \in KeepK.messages["Status"]
        /\ RemovePacketStatus(PingreqPacket.id) \in KeepK.messages["Status"]
        /\ VariablePacketMessage(PingreqPacket) \in KeepK.messages["Send"]
        /\ Harmless("Send", VariablePacketMessage(PingreqPacket))
    BY KeepMessages
       DEF PingStatusMessages, PingreqPacket, ConnectPacket, ClientPackets, Harmless, ConnectSent,
           VariablePacketMessage
  <1> HIDE DEF box
  <1>5. Quiet(told) /\ BoxesOK(KeepK, told) /\ Quiet(removed)
    BY <1>1, <1>2, <1>4, QuietPost, PostTyped
  <1> HIDE DEF told, removed
  <1>6. Quiet(sent) /\ Quiet(Post(told, "Stop", StopMessage)) /\ Quiet(Post(box, "Stop", StopMessage))
    BY <1>2, <1>4, <1>5, QuietPost, QuietPostStop
  <1> HIDE DEF sent
  <1>7. Quiet(mbox')
    BY <1>2, <1>3, <1>5, <1>6
  <1> QED
    BY <1>3, <1>7, QuietEnough

\* An element that a sequence begins with is in it.
LEMMA HeadIsIn ==
    ASSUME NEW M, NEW s \in Seq(M), s # <<>>, NEW E, NoneIn(s, E)
    PROVE  Head(s) \notin E
  <1>1. 1 \in DOMAIN s /\ Head(s) = s[1]
    OBVIOUS
  <1> QED
    BY <1>1 DEF NoneIn

\* The server answers what it has received.
LEMMA BrokerIsQuiet ==
    ASSUME TypeOK, NotAnswered
    PROVE  ~BrokerConnect /\ (BrokerPing => NotAnswered')
  <1>1. toBroker \in Seq(KeepK.client) /\ fromBroker \in Seq(KeepK.server)
    BY KeepContext DEF SessionOK
  <1>2. ~BrokerConnect
    BY <1>1, HeadIsIn DEF NotAnswered, BrokerConnect
  <1>3. ASSUME BrokerPing PROVE NotAnswered'
    <2>1. NoneIn(toBroker', {ConnectPacket})
      BY <1>1, <1>3, InTail DEF BrokerPing, NotAnswered
    <2>2. PingrespPacket \notin ConnackPackets
      BY DEF PingrespPacket, ConnackPackets, ConnackPacket
    <2>3. NoneIn(fromBroker', ConnackPackets)
      BY <1>1, <1>3, <2>2, NoneInAppend DEF BrokerPing, NotAnswered
    <2> QED
      BY <1>3, <2>1, <2>3 DEF BrokerPing, NotAnswered, Quiet, actorVars, connectVars
  <1> QED
    BY <1>2, <1>3

ConnectHandled == ConnectHandle /\ UNCHANGED <<wireVars, statusVars, pingVars>>

LEMMA ConnectingIsQuiet ==
    ASSUME TypeOK, NotAnswered, ConnectingStep, ~ConnectHandled, UNCHANGED <<statusVars, pingVars>>
    PROVE  NotAnswered'
  <1> USE ActorsOfPing, KeepContext DEF ConnectHandled
  <1>1. Quiet(mbox) /\ \A a : a \notin {"Send", "Dispatch", "Connack"} => \A m : Harmless(a, m)
    BY DEF NotAnswered, Harmless
  <1>2. CASE (ClientConnect \/ TimeoutAsks) /\ UNCHANGED wireVars
    <2>1. Quiet(mbox')
      BY <1>1, <1>2, QuietPost DEF ClientConnect, TimeoutAsks
    <2> QED
      BY <1>2, <2>1, QuietEnough DEF ClientConnect, TimeoutAsks
  <1>3. CASE TimeoutAnswered /\ UNCHANGED wireVars
    <2>1. Quiet(mbox')
      BY <1>1, <1>3, QuietPostStop DEF TimeoutAnswered
    <2> QED
      BY <1>3, <2>1, QuietEnough DEF TimeoutAnswered
  <1>4. CASE (ConnectReturns \/ ClientLetsGo \/ TimeoutFires) /\ UNCHANGED wireVars
    BY <1>1, <1>4, QuietEnough DEF ConnectReturns, ClientLetsGo, TimeoutFires, actorVars
  <1>5. CASE ConnectStop /\ UNCHANGED wireVars
    <2>1. Quiet(mbox')
      BY <1>1, <1>5, QuietEmptied DEF ConnectStop
    <2> QED
      BY <1>5, <2>1, QuietEnough DEF ConnectStop
  <1>6. CASE ConnackHandle
    <2>1. mbox["Connack"] # <<>> /\ mbox["Connack"] \in Seq(KeepK.messages["Connack"])
      BY <1>6 DEF ConnackHandle, Handling, SessionOK
    <2> QED
      BY <1>1, <1>6, <2>1, HeadIsIn, PingHeads DEF ConnackHandle, Quiet
  <1>7. CASE ConnectStatusHandle /\ UNCHANGED wireVars
    <2>1. Quiet(mbox')
      BY <1>1, <1>7, QuietTake DEF ConnectStatusHandle
    <2> QED
      BY <1>7, <2>1, QuietEnough DEF ConnectStatusHandle
  <1>8. CASE (ConnackOrphaned \/ ConnectOrphaned) /\ UNCHANGED wireVars
    BY <1>1, <1>8, QuietEnough DEF ConnackOrphaned, ConnectOrphaned, Orphaned, connectVars
  <1> QED
    BY <1>2, <1>3, <1>4, <1>5, <1>6, <1>7, <1>8, BrokerIsQuiet DEF ConnectingStep

\* Tasks, resends and the StopActor.
LEMMA TasksAreQuiet ==
    ASSUME TypeOK, NotAnswered, UNCHANGED <<connectVars, wireVars>>,
           Resend \/ BroadcastStop \/ TaskNext
    PROVE  NotAnswered'
  <1> USE ActorsOfPing, KeepContext
  <1>1. Quiet(mbox) /\ \A a : a \notin {"Send", "Dispatch", "Connack"} => \A m : Harmless(a, m)
    BY DEF NotAnswered, Harmless
  <1>2. CASE Resend
    <2>1. PICK r \in BagToSet(resends) : mbox' = Post(mbox, r.to, r.msg)
      BY <1>2 DEF Resend
    <2>2. r.to \in {"Pingreq", "Pingresp"}
      BY KeepKFields DEF SessionOK
    <2>3. Quiet(mbox')
      BY <1>1, <2>1, <2>2, QuietPost
    <2> QED
      BY <2>3, QuietEnough DEF connectVars
  <1>3. CASE BroadcastStop
    <2>1. \A a \in Actor : mbox'[a] \in {<<>>, mbox[a], Append(mbox[a], StopMessage)}
      BY <1>3 DEF BroadcastStop
    <2>2. \A a \in Actor : mbox[a] \in Seq(KeepK.messages[a])
      BY DEF SessionOK
    <2>3. StopMessage \notin {ConnectSent} \cup ConnackReceived \cup Connacks
      BY DEF StopMessage, ConnectSent, ConnackReceived, VariablePacketMessage, Connacks
    <2>4. \A E : NoneIn(<<>>, E)
      BY DEF NoneIn
    <2>5. ASSUME NEW a \in Actor, NEW E, StopMessage \notin E, NoneIn(mbox[a], E)
          PROVE  NoneIn(mbox'[a], E)
      <3>1. NoneIn(Append(mbox[a], StopMessage), E)
        BY <2>2, <2>5, NoneInAppend
      <3> QED
        BY <2>1, <2>4, <2>5, <3>1
    <2>6. Quiet(mbox')
      BY <1>1, <2>3, <2>5 DEF Quiet
    <2> QED
      BY <2>6, QuietEnough DEF connectVars
  <1>4. CASE TimerFires
    BY <1>1, <1>4, QuietEnough DEF TimerFires, actorVars, connectVars
  <1>5. CASE AskStatus
    <2>1. PICK t : mbox' = Post(mbox, "Status", GetAndRemovePacketStatus(t)) \/ mbox' = mbox
      BY <1>5 DEF AskStatus
    <2>2. Quiet(mbox')
      BY <1>1, <2>1, QuietPost
    <2> QED
      BY <2>2, QuietEnough DEF connectVars
  <1>6. CASE StatusChecked
    <2>1. PICK r \in BagToSet(answered) :
              \/ mbox' = Post(mbox, r.task.actor, r.task.msg)
              \/ mbox' = Post(mbox, "Stop", StopMessage)
              \/ mbox' = mbox
      BY <1>6 DEF StatusChecked
    <2>2. r.task.actor = "Pingreq"
      BY KeepKFields, PingTasksTyped DEF SessionOK
    <2>3. Quiet(mbox')
      BY <1>1, <2>1, <2>2, QuietPost
    <2> QED
      BY <2>3, QuietEnough DEF connectVars
  <1> QED
    BY <1>2, <1>3, <1>4, <1>5, <1>6 DEF TaskNext

\* Packets on their way, none of which is a CONNECT or CONNACK.
LEMMA TransportIsQuiet ==
    ASSUME TypeOK, NotAnswered, UNCHANGED <<connectVars, statusVars>>, TransportNext
    PROVE  NotAnswered'
  <1> USE ActorsOfPing, KeepContext
  <1>1. /\ Quiet(mbox) /\ \A a : a \notin {"Send", "Dispatch", "Connack"} => \A m : Harmless(a, m)
        /\ connack' = connack
    BY DEF NotAnswered, Harmless, connectVars
  <1>2. toBroker \in Seq(KeepK.client) /\ fromBroker \in Seq(KeepK.server)
    BY DEF SessionOK
  <1>3. \A n \in 0 .. Len(toBroker) : NoneIn(SubSeq(toBroker, 1, n), {ConnectPacket})
    BY <1>2 DEF NotAnswered, NoneIn
  <1>4. CASE SendHandle
    <2>1. Handling("Send", "Packet") /\ mbox["Send"] \in Seq(KeepK.messages["Send"])
      BY <1>4 DEF SendHandle, SessionOK
    <2>2. Head(mbox["Send"]) # ConnectSent /\ Head(mbox["Send"]) \in KeepK.messages["Send"]
      BY <1>1, <2>1, HeadIsIn, TakeTyped DEF Quiet, Handling
    <2>3. Head(mbox["Send"]).packet # ConnectPacket
      BY <2>1, <2>2, KeepMessages DEF ConnectSent, VariablePacketMessage, Handling, StopMessage
    <2>4. NoneIn(toBroker', {ConnectPacket})
      BY <1>2, <1>4, <2>3, NoneInAppend DEF SendHandle, NotAnswered
    <2>5. Quiet(mbox')
      BY <1>1, <1>4, QuietTake DEF SendHandle
    <2> QED
      BY <1>1, <1>4, <2>4, <2>5 DEF SendHandle, NotAnswered, Quiet
  <1>5. CASE RecvPacket
    <2>1. Head(fromBroker) \notin ConnackPackets /\ NoneIn(fromBroker', ConnackPackets)
      BY <1>2, <1>5, HeadIsIn, InTail DEF RecvPacket, NotAnswered
    <2>2. Harmless("Dispatch", VariablePacketMessage(Head(fromBroker)))
      BY <2>1 DEF Harmless, ConnackReceived, VariablePacketMessage
    <2>3. Quiet(mbox')
      BY <1>1, <1>5, <2>2, QuietPost DEF RecvPacket
    <2> QED
      BY <1>1, <1>5, <2>1, <2>3 DEF RecvPacket, NotAnswered, Quiet
  <1>6. CASE DispatchHandle
    <2> DEFINE msg == Head(mbox["Dispatch"])
               box == Take("Dispatch")
    <2>1. Handling("Dispatch", "Packet") /\ mbox["Dispatch"] \in Seq(KeepK.messages["Dispatch"])
      BY <1>6 DEF DispatchHandle, SessionOK
    <2>2. msg \notin ConnackReceived /\ msg \in KeepK.messages["Dispatch"] /\ msg.type = "Packet"
      BY <1>1, <2>1, HeadIsIn, TakeTyped DEF Quiet, Handling
    <2>3. msg = VariablePacketMessage(PingrespPacket)
      BY <2>2, KeepMessages DEF ConnackReceived, StopMessage, ServerPackets, ConnackPackets
    <2>4. Target[msg.packet.type] = "Pingresp"
      BY <2>3, KeepAliveAssumption DEF VariablePacketMessage, PingrespPacket
    <2>5. Quiet(box) /\ BoxesOK(KeepK, box)
      BY <1>1, <2>1, QuietTake, TakeTyped
    <2>6. mbox' \in {Post(box, "Pingresp", PacketMessage(msg.packet, 0)),
                     Post(box, "Stop", StopMessage), box}
      BY <1>6, <2>4 DEF DispatchHandle, HandleSendError
    <2> HIDE DEF box, msg
    <2>7. Quiet(mbox')
      BY <1>1, <2>5, <2>6, QuietPost
    <2> QED
      BY <1>6, <2>7, QuietEnough DEF DispatchHandle, connectVars
  <1>7. CASE RecvFails
    <2> DEFINE box == IF Accepts("Stop") THEN Post(mbox, "Stop", StopMessage) ELSE mbox
               told == Post(box, "Stop", StopMessage)
    <2>1. Quiet(box) /\ BoxesOK(KeepK, box)
      BY <1>1, QuietPostStop, PostTyped, ConnectingMessages
    <2>2. mbox' = [told EXCEPT !["Recv"] = <<>>]
      BY <1>7 DEF RecvFails
    <2> HIDE DEF box
    <2>3. Quiet(told) /\ BoxesOK(KeepK, told)
      BY <2>1, QuietPostStop, PostTyped, ConnectingMessages
    <2> HIDE DEF told
    <2>4. Quiet(mbox')
      BY <2>2, <2>3, QuietEmptied
    <2>5. NoneIn(fromBroker', ConnackPackets) /\ toBroker' = toBroker
      BY <1>7 DEF RecvFails, NoneIn
    <2> QED
      BY <1>1, <2>4, <2>5 DEF NotAnswered, Quiet
  <1>8. CASE WriteError
    <2>1. Quiet(Post(mbox, "Stop", StopMessage)) /\ BoxesOK(KeepK, Post(mbox, "Stop", StopMessage))
      BY <1>1, QuietPostStop, PostTyped, ConnectingMessages
    <2>2. Quiet(mbox')
      BY <1>8, <2>1, QuietEmptied DEF WriteError
    <2>3. NoneIn(toBroker', {ConnectPacket}) /\ fromBroker' = fromBroker
      BY <1>3, <1>8 DEF WriteError, BufferLost
    <2> QED
      BY <1>1, <2>2, <2>3 DEF NotAnswered, Quiet
  <1>9. CASE DispatchOrphaned
    BY <1>1, <1>9, QuietEnough DEF DispatchOrphaned
  <1> QED
    BY <1>4, <1>5, <1>6, <1>7, <1>8, <1>9 DEF TransportNext, RecvError

LEMMA StopIsQuiet ==
    ASSUME TypeOK, NotAnswered, UNCHANGED connectVars, StopHandle
    PROVE  NotAnswered'
  <1>1. PICK a \in Registered :
            /\ HandleStop(a)
            /\ IF a = "Send" THEN BufferLost ELSE UNCHANGED toBroker
            /\ IF a = "Recv" THEN fromBroker' = <<>> ELSE UNCHANGED fromBroker
    BY DEF StopHandle
  <1> DEFINE box == [mbox EXCEPT ![a] = <<>>]
  <1>2. Quiet(box) /\ BoxesOK(KeepK, box)
    BY KeepContext, QuietEmptied, EmptiedTyped DEF NotAnswered
  <1>3. mbox' \in {box, Post(box, "Stop", StopMessage)}
    BY <1>1 DEF HandleStop
  <1> HIDE DEF box
  <1>4. Quiet(mbox')
    BY <1>2, <1>3, QuietPostStop
  <1>5. toBroker \in Seq(KeepK.client)
    BY KeepContext DEF SessionOK
  <1>6. NoneIn(toBroker', {ConnectPacket})
    <2>1. \A n \in 0 .. Len(toBroker) : NoneIn(SubSeq(toBroker, 1, n), {ConnectPacket})
      BY <1>5 DEF NotAnswered, NoneIn
    <2> QED
      BY <1>1, <2>1 DEF BufferLost, NotAnswered
  <1>7. NoneIn(fromBroker', ConnackPackets)
    BY <1>1 DEF NotAnswered, NoneIn
  <1> QED
    BY <1>4, <1>6, <1>7 DEF NotAnswered, Quiet, connectVars

LEMMA OnlyConnectIsHeard ==
    ASSUME TypeOK, NotAnswered, Next, ~ConnectHandled
    PROVE  NotAnswered'
  <1>1. CASE ConnectingStep /\ UNCHANGED <<statusVars, pingVars>>
    BY <1>1, ConnectingIsQuiet
  <1>2. CASE Background /\ UNCHANGED <<connectVars, pingVars>>
    BY <1>2, TasksAreQuiet, TransportIsQuiet, StopIsQuiet DEF Background
  <1>3. CASE \/ Tick \/ PingreqHandle \/ AskConnected \/ ExistsHandle \/ PingAnswered
             \/ PingrespHandle \/ PingStatusHandle
             \/ ConnectStatusOrphaned /\ Elsewhere
    BY <1>3, PingingIsQuiet
  <1>4. CASE SendPingHandle \/ BrokerPing
    BY <1>4, SendPingIsQuiet, BrokerIsQuiet
  <1> QED
    BY <1>1, <1>2, <1>3, <1>4 DEF Next

-----------------------------------------------------------------------------
(* ConnectActor is told to connect at most once. *)

ConnectOnce ==
    /\ AtMostOne(KeepK, "Connect", {ConnectMessage})
    /\ NotAnswered \/ Absent(KeepK, "Connect", {ConnectMessage})
    /\ connectCall = "none" => NotAnswered /\ Absent(KeepK, "Connect", {ConnectMessage})

\* What the handlers of other actors do to its message.
LEMMA PingsLeaveConnect ==
    ASSUME TypeOK, ExistsHandle \/ PingAnswered \/ SendPingHandle
    PROVE  Carries(KeepK, "Connect", {ConnectMessage})
  <1> USE ActorsOfPing, KeepContext
  <1>1. Ahead("Connect", {ConnectMessage}) /\ Followed(KeepK, "Connect", {ConnectMessage})
    BY AheadFollowed DEF Ahead
  <1>2. CASE ExistsHandle
    <2>1. BoxKeeps(mbox, mbox', KeepK, "Connect", {ConnectMessage})
      BY <1>1, <1>2, TakeAside DEF ExistsHandle
    <2>2. PingTask \notin TasksFor(KeepK, "Connect", {ConnectMessage})
      BY DEF TasksFor, PingTask
    <2>3. BagKeeps(asking, asking', TasksFor(KeepK, "Connect", {ConnectMessage}))
      BY <1>2, <2>2, BagAddKeeps, BagKeepsItself DEF ExistsHandle
    <2> QED
      BY <1>2, <2>1, <2>3, BagKeepsItself, UndisturbedCarries DEF ExistsHandle, Undisturbed
  <1>3. CASE PingAnswered
    <2>1. /\ \/ mbox' = Post(mbox, "Pingreq", SendPing(0))
             \/ mbox' = Post(mbox, "Stop", StopMessage)
             \/ mbox' = mbox
          /\ \E r : answered' = BagRemove(answered, r)
          /\ UNCHANGED <<resends, timers, asking>>
      BY <1>3 DEF PingAnswered
    <2>2. BoxKeeps(mbox, mbox', KeepK, "Connect", {ConnectMessage})
      BY <1>1, <2>1, PostAside, BoxKeepsItself
    <2>3. BagKeeps(answered, answered', AnswersFor(KeepK, "Connect", {ConnectMessage}))
      BY <2>1, BagRemoveKeeps
    <2> QED
      BY <2>1, <2>2, <2>3, BagKeepsItself, UndisturbedCarries DEF Undisturbed
  <1>4. CASE SendPingHandle
    <2> DEFINE msg == Head(mbox["Pingreq"])
    <2>1. SetPacketStatus(0, "Unit") \in KeepK.messages["Status"] /\ SetPacketStatus(0, "Unit").op = "Set"
      BY KeepMessages DEF PingStatusMessages, SetPacketStatus
    <2>2. /\ Handling("Pingreq", "SendPing")
          /\ SendPacketHandle("Pingreq", msg, SetPacketStatus(0, "Unit"), PingreqPacket, {"Unit"})
      BY <1>4 DEF SendPingHandle
    <2> HIDE DEF msg
    <2> QED
      BY <1>1, <2>1, <2>2, KeepWired, SendPacketHandleCarries
  <1> QED
    BY <1>2, <1>3, <1>4

LEMMA ConnackLeavesConnect ==
    ASSUME TypeOK, ConnackStep
    PROVE  Carries(KeepK, "Connect", {ConnectMessage})
  <1> DEFINE box == Take("Connack")
             none == [box EXCEPT !["Connack"] = <<>>]
             removed == Post(box, "ConnectStatus", RemovePacketStatus(0))
             removed2 == Post(none, "ConnectStatus", RemovePacketStatus(0))
             set == Post(removed2, "ConnectStatus", SetPacketStatus(1, "Unit"))
             Kept(b) == BoxesOK(KeepK, b) /\ BoxKeeps(mbox, b, KeepK, "Connect", {ConnectMessage})
  <1> USE ActorsOfPing, KeepContext, ConnectingMessages
  <1>1. Ahead("Connect", {ConnectMessage})
    BY DEF Ahead
  <1>2. StopMessage \notin {ConnectMessage}
    BY <1>1, AheadFollowed
  <1>3. ASSUME NEW b, Kept(b), NEW a \in {"Stop", "Connect"}
        PROVE  Kept(Post(b, a, StopMessage))
    <2>1. BoxKeeps(b, Post(b, a, StopMessage), KeepK, "Connect", {ConnectMessage})
      BY <1>1, <1>2, <1>3, PostAside
    <2> QED
      BY <1>3, <2>1, PostTyped, BoxKeepsOn
  <1>4. ASSUME NEW b, Kept(b), NEW m \in KeepK.messages["ConnectStatus"]
        PROVE  Kept(Post(b, "ConnectStatus", m))
    <2>1. BoxKeeps(b, Post(b, "ConnectStatus", m), KeepK, "Connect", {ConnectMessage})
      BY <1>1, <1>4, PostAside
    <2> QED
      BY <1>4, <2>1, PostTyped, BoxKeepsOn
  <1>5. Kept(box)
    BY <1>1, TakeTyped, TakeAside DEF ConnackStep, ConnackHandle
  <1>6. mbox' \in {Post(box, "Stop", StopMessage), Post(removed, "Stop", StopMessage),
                   Post(set, "Connect", StopMessage)}
    BY DEF ConnackStep, ConnackHandle, AcceptedBox
  <1> HIDE DEF box
  <1>7. Kept(none)
    <2>1. BoxKeeps(box, none, KeepK, "Connect", {ConnectMessage}) /\ BoxesOK(KeepK, none)
      BY <1>5, EmptiedKeeps, EmptiedTyped
    <2> QED
      BY <1>5, <2>1, BoxKeepsOn
  <1> HIDE DEF none, Kept
  <1>8. Kept(removed) /\ Kept(removed2)
    BY <1>4, <1>5, <1>7
  <1> HIDE DEF removed, removed2
  <1>9. Kept(set)
    BY <1>4, <1>8
  <1> HIDE DEF set
  <1>10. Kept(mbox')
    BY <1>3, <1>5, <1>6, <1>8, <1>9
  <1> USE DEF Kept
  <1> QED
    BY <1>10, OnlyBoxes DEF ConnackStep, ConnackHandle

\* connect() hands the message over.
LEMMA ClientConnectOnce ==
    ASSUME TypeOK, ConnectOnce, Next, ClientConnected
    PROVE  ConnectOnce'
  <1>1. NotAnswered /\ Absent(KeepK, "Connect", {ConnectMessage})
    BY DEF ConnectOnce, ClientConnected, ClientConnect
  <1>2. connectCall' = "pending" /\ ~ConnectHandled
    BY DEF ClientConnected, ClientConnect, ConnectHandled, ConnectHandle
  <1>3. NotAnswered'
    BY <1>1, <1>2, OnlyConnectIsHeard
  <1>4. AtMostOne(KeepK, "Connect", {ConnectMessage})'
    <2>1. Followed(KeepK, "Connect", {ConnectMessage})
      BY AheadFollowed DEF Ahead
    <2> QED
      BY <1>1, <2>1, KeepContext, PostFirst DEF ClientConnected, ClientConnect, statusVars
  <1> QED
    BY <1>2, <1>3, <1>4 DEF ConnectOnce

\* ConnectActor handles the message, and there is none any more.
LEMMA ConnectTaken ==
    ASSUME TypeOK, ConnectOnce, ConnectHandled
    PROVE  connack = "none" /\ ConnectOnce'
  <1> DEFINE box == Take("Connect")
             told == Post(box, "ConnectStatus", SetPacketStatus(0, "Unit"))
             S == {ConnectMessage}
  <1> USE ActorsOfPing, KeepContext, ConnectingMessages
  <1>1. Handling("Connect", "Connect") /\ mbox["Connect"] \in Seq(KeepK.messages["Connect"])
    BY DEF ConnectHandled, ConnectHandle, SessionOK
  <1>2. mbox["Connect"] # <<>> /\ Head(mbox["Connect"]) = ConnectMessage
    BY <1>1, KeepMessages, TakeTyped DEF Handling, StopMessage
  <1>3. ~Absent(KeepK, "Connect", S)
    BY <1>1, <1>2, HeadIsIn DEF Absent, NoneButAt
  <1>4. connack = "none" /\ connectCall # "none"
    BY <1>3 DEF ConnectOnce, NotAnswered
  <1>5. Ahead("Connect", S)
    BY DEF Ahead
  <1>6. AbsentWith(box, KeepK, "Connect", S) /\ BoxesOK(KeepK, box)
    BY <1>1, <1>2, TakenOnce, TakeTyped DEF ConnectOnce
  <1>7. /\ mbox' \in {Post(told, "Stop", StopMessage),
                      Post(told, "Send", VariablePacketMessage(ConnectPacket))}
        /\ UNCHANGED <<resends, timers, asking, answered, connectCall>>
    BY DEF ConnectHandled, ConnectHandle, statusVars
  <1> HIDE DEF box
  <1>8. BoxKeeps(box, told, KeepK, "Connect", S) /\ BoxesOK(KeepK, told)
    BY <1>5, <1>6, PostAside, PostTyped
  <1> HIDE DEF told
  <1>9. BoxKeeps(told, mbox', KeepK, "Connect", S)
    BY <1>5, <1>7, <1>8, PostAside
  <1>10. Absent(KeepK, "Connect", S)'
    BY <1>6, <1>7, <1>8, <1>9, BoxKeepsOn, BagKeepsItself, AbsentAfter
  <1> QED
    BY <1>4, <1>7, <1>10, AbsentIsAtMostOne DEF ConnectOnce

LEMMA ConnectOnceStep ==
    ASSUME TypeOK, ConnectOnce, Next
    PROVE  ConnectOnce'
  <1>1. CASE ~ClientConnected /\ ~ConnectHandled
    <2>1. Carries(KeepK, "Connect", {ConnectMessage})
      BY <1>1, ConnectingCarries, ElsewhereCarries, PingsLeaveConnect, ConnackLeavesConnect
         DEF Next, Ahead
    <2>2. NotAnswered => NotAnswered'
      BY <1>1, OnlyConnectIsHeard
    <2>3. connectCall' = "none" => connectCall = "none"
      BY <1>1
         DEF Next, Tick, PingreqHandle, AskConnected, ExistsHandle, PingAnswered, SendPingHandle,
             PingrespHandle, PingStatusHandle, BrokerPing, ConnectStatusOrphaned, ConnectingStep,
             ClientConnect, ConnectReturns, ClientLetsGo, ConnectHandle, ConnectStop,
             TimeoutFires, TimeoutAsks, TimeoutAnswered, ConnackHandle, ConnectStatusHandle,
             ConnackOrphaned, ConnectOrphaned, Orphaned, BrokerConnect, connectVars
    <2> QED
      BY <2>1, <2>2, <2>3 DEF ConnectOnce, Carries
  <1> QED
    BY <1>1, ClientConnectOnce, ConnectTaken

-----------------------------------------------------------------------------
(* The mailbox of a status actor.  The status 0, and every message that     *)
(* sets it, is followed by a message of E, which takes it back.             *)

Connecting0 == SetPacketStatus(0, "Unit")
Answered0   == RemovePacketStatus(0)

TakenBack(box, status, E) ==
    \A i \in 0 .. Len(box) :
        (IF i = 0 THEN 0 \in status ELSE box[i] = Connecting0) =>
            \E j \in i + 1 .. Len(box) : box[j] \in E

LEMMA TakenBackAppend ==
    ASSUME NEW M, NEW box \in Seq(M), NEW status, NEW E,
           NEW m, m # Connecting0, TakenBack(box, status, E)
    PROVE  TakenBack(Append(box, m), status, E)
  <1>1. /\ Len(Append(box, m)) = Len(box) + 1
        /\ \A i \in 1 .. Len(box) : Append(box, m)[i] = box[i]
        /\ Append(box, m)[Len(box) + 1] = m
        /\ Len(box) \in Nat
    OBVIOUS
  <1> QED
    BY <1>1 DEF TakenBack

LEMMA TakenBackEnds ==
    ASSUME NEW M, NEW box \in Seq(M), NEW status, NEW E, Connecting0 \notin E, NEW m \in E
    PROVE  TakenBack(Append(box, m), status, E)
  <1>1. /\ Len(Append(box, m)) = Len(box) + 1
        /\ Append(box, m)[Len(box) + 1] = m
        /\ Len(box) \in Nat
    OBVIOUS
  <1> QED
    BY <1>1 DEF TakenBack

LEMMA TakenBackTail ==
    ASSUME NEW M, NEW box \in Seq(M), box # <<>>, NEW status, NEW status2, NEW E,
           TakenBack(box, status, E),
           0 \in status2 => (0 \in status /\ box[1] \notin E) \/ box[1] = Connecting0
    PROVE  TakenBack(Tail(box), status2, E)
  <1>1. /\ Len(Tail(box)) = Len(box) - 1 /\ Len(box) \in Nat \ {0}
        /\ \A i \in 1 .. Len(box) - 1 : Tail(box)[i] = box[i + 1]
    OBVIOUS
  <1>2. ASSUME NEW i \in 0 .. Len(Tail(box)),
               IF i = 0 THEN 0 \in status2 ELSE Tail(box)[i] = Connecting0
        PROVE  \E j \in i + 1 .. Len(Tail(box)) : Tail(box)[j] \in E
    <2>1. \E j \in i + 2 .. Len(box) : box[j] \in E
      <3>1. CASE i = 0 /\ box[1] = Connecting0
        <4>1. \E j \in 2 .. Len(box) : box[j] \in E
          BY <1>1, <3>1 DEF TakenBack
        <4> QED
          BY <3>1, <4>1
      <3>2. CASE i = 0 /\ 0 \in status /\ box[1] \notin E
        <4>1. PICK j \in 1 .. Len(box) : box[j] \in E
          BY <1>1, <3>2 DEF TakenBack
        <4> QED
          BY <1>1, <3>2, <4>1
      <3>3. CASE i # 0
        <4>1. box[i + 1] = Connecting0 /\ i + 1 \in 1 .. Len(box)
          BY <1>1, <1>2, <3>3
        <4>2. \E j \in (i + 1) + 1 .. Len(box) : box[j] \in E
          BY <1>1, <4>1 DEF TakenBack
        <4> QED
          BY <4>2
      <3> QED
        BY <1>2, <3>1, <3>2, <3>3
    <2>2. PICK j \in i + 2 .. Len(box) : box[j] \in E
      BY <2>1
    <2>3. j - 1 \in i + 1 .. Len(Tail(box)) /\ Tail(box)[j - 1] \in E
      BY <1>1, <2>2
    <2> QED
      BY <2>3
  <1> QED
    BY <1>2 DEF TakenBack

\* After a CONNACK the client is, or soon will be, not connecting any more.
AnswerEndsConnecting ==
    connack # "none" => TakenBack(mbox["ConnectStatus"], connectStatus, {Answered0})

LEMMA AnsweredIsAnother == Connecting0 \notin {Answered0}
  BY DEF Answered0, Connecting0, RemovePacketStatus, SetPacketStatus

\* A message for another actor.
LEMMA PostElsewhere ==
    ASSUME NEW box, NEW a, NEW m, NEW b \in DOMAIN box, b # a
    PROVE  Post(box, a, m)[b] = box[b] /\ DOMAIN Post(box, a, m) = DOMAIN box
  BY DEF Post

\* A packet on its way goes to the actors of the transport, to ConnackActor
\* or to PingrespActor.
LEMMA TransportAside ==
    ASSUME TypeOK, TransportNext, NEW b \in {"ConnectStatus", "Pingreq", "Status"}
    PROVE  mbox'[b] = mbox[b]
  <1> USE ActorsOfPing, KeepContext, PostElsewhere
  <1>1. DOMAIN mbox = Actor
    BY DEF SessionOK
  <1>2. CASE SendHandle
    BY <1>1, <1>2 DEF SendHandle, Take
  <1>3. CASE RecvPacket
    BY <1>1, <1>3 DEF RecvPacket
  <1>4. CASE DispatchHandle
    <2> DEFINE packet == Head(mbox["Dispatch"]).packet
               box == Take("Dispatch")
    <2>1. Handling("Dispatch", "Packet") /\ Head(mbox["Dispatch"]) \in KeepK.messages["Dispatch"]
      BY <1>4, TakeTyped DEF DispatchHandle
    <2>2. packet \in ServerPackets
      BY <2>1, KeepMessages DEF Handling, StopMessage, VariablePacketMessage
    <2>3. Target[packet.type] \in {"Connack", "Pingresp"}
      BY <2>2, KeepAliveAssumption, ConnectingAssumption
         DEF ServerPackets, PingrespPacket, ConnackPacket
    <2>4. box[b] = mbox[b] /\ DOMAIN box = Actor
      BY <1>1 DEF Take
    <2>5. \/ mbox' = Post(box, Target[packet.type], PacketMessage(packet, 0))
          \/ mbox' = Post(box, "Stop", StopMessage)
          \/ mbox' = box
      BY <1>4 DEF DispatchHandle, HandleSendError
    <2> HIDE DEF packet, box
    <2> QED
      BY <2>3, <2>4, <2>5
  <1>5. CASE RecvFails
    <2>1. mbox' = [Post(IF Accepts("Stop") THEN Post(mbox, "Stop", StopMessage) ELSE mbox,
                        "Stop", StopMessage) EXCEPT !["Recv"] = <<>>]
      BY <1>5 DEF RecvFails
    <2> QED
      BY <1>1, <2>1
  <1>6. CASE WriteError
    BY <1>1, <1>6 DEF WriteError
  <1>7. CASE DispatchOrphaned
    BY <1>7 DEF DispatchOrphaned
  <1> QED
    BY <1>2, <1>3, <1>4, <1>5, <1>6, <1>7 DEF TransportNext, RecvError

\* The connect status actor hears of nobody but ConnectActor, ConnackActor and
\* the tasks that ask it.
LEMMA BackgroundAside ==
    ASSUME TypeOK, Background
    PROVE  mbox'["ConnectStatus"] = mbox["ConnectStatus"]
  <1> USE ActorsOfPing, KeepContext, PostElsewhere
  <1>1. DOMAIN mbox = Actor
    BY DEF SessionOK
  <1>2. CASE Resend
    <2>1. PICK r \in BagToSet(resends) : mbox' = Post(mbox, r.to, r.msg)
      BY <1>2 DEF Resend
    <2>2. r.to # "ConnectStatus"
      BY KeepKFields DEF SessionOK
    <2> QED
      BY <1>1, <2>1, <2>2
  <1>3. CASE BroadcastStop
    BY <1>3 DEF BroadcastStop
  <1>4. CASE TaskNext
    <2>1. CASE TimerFires
      BY <2>1 DEF TimerFires, actorVars
    <2>2. CASE AskStatus
      BY <1>1, <2>2 DEF AskStatus
    <2>3. CASE StatusChecked
      <3>1. PICK r \in BagToSet(answered) :
                \/ mbox' = Post(mbox, r.task.actor, r.task.msg)
                \/ mbox' = Post(mbox, "Stop", StopMessage)
                \/ mbox' = mbox
        BY <2>3 DEF StatusChecked
      <3>2. r.task.actor = "Pingreq"
        BY KeepKFields, PingTasksTyped DEF SessionOK
      <3> QED
        BY <1>1, <3>1, <3>2
    <2> QED
      BY <1>4, <2>1, <2>2, <2>3 DEF TaskNext
  <1>5. CASE TransportNext
    BY <1>5, TransportAside
  <1>6. CASE StopHandle
    <2>1. PICK a \in Registered : HandleStop(a)
      BY <1>6 DEF StopHandle
    <2>2. a # "ConnectStatus"
      OBVIOUS
    <2> DEFINE box == [mbox EXCEPT ![a] = <<>>]
    <2>3. box["ConnectStatus"] = mbox["ConnectStatus"] /\ DOMAIN box = Actor
      BY <1>1, <2>2
    <2>4. mbox' = box \/ mbox' = Post(box, "Stop", StopMessage)
      BY <2>1 DEF HandleStop
    <2> HIDE DEF box
    <2> QED
      BY <2>3, <2>4
  <1> QED
    BY <1>2, <1>3, <1>4, <1>5, <1>6 DEF Background

\* The messages it gets but for those of ConnectActor and ConnackActor.
Questions == {ConnectQuestion, ConnectedQuestion}

LEMMA QuestionsSayNothing == Connecting0 \notin Questions
  BY DEF Questions, Connecting0, ConnectQuestion, ConnectedQuestion, SetPacketStatus,
         GetAndRemovePacketStatus

StatusHandled == ConnectStatusHandle /\ UNCHANGED <<wireVars, statusVars, pingVars>>

LEMMA OnlyAsked ==
    ASSUME TypeOK, Next, ~ConnackStep, ~ConnectHandled, ~StatusHandled, ~ExistsHandle
    PROVE  /\ \/ mbox'["ConnectStatus"] = mbox["ConnectStatus"]
              \/ \E m \in Questions : mbox'["ConnectStatus"] = Append(mbox["ConnectStatus"], m)
           /\ connectStatus' = connectStatus
  <1> USE ActorsOfPing, KeepContext, PostElsewhere
  <1>1. DOMAIN mbox = Actor
    BY DEF SessionOK
  <1>2. CASE Tick \/ PingreqHandle
    BY <1>1, <1>2 DEF Tick, PingreqHandle, Take, connectVars
  <1>3. CASE AskConnected
    BY <1>1, <1>3 DEF AskConnected, Post, Accepts, Questions, connectVars
  <1>4. CASE PingAnswered
    <2>1. /\ \/ mbox' = Post(mbox, "Pingreq", SendPing(0))
             \/ mbox' = Post(mbox, "Stop", StopMessage)
             \/ mbox' = mbox
          /\ connectStatus' = connectStatus
      BY <1>4 DEF PingAnswered, connectVars
    <2> QED
      BY <1>1, <2>1
  <1>5. CASE SendPingHandle
    <2> DEFINE box == Take("Pingreq")
               told == Post(box, "Status", SetPacketStatus(0, "Unit"))
    <2>1. box["ConnectStatus"] = mbox["ConnectStatus"] /\ DOMAIN box = Actor
      BY <1>1 DEF Take
    <2>2. /\ \/ mbox' = box
             \/ mbox' = told
             \/ mbox' = Post(box, "Status", RemovePacketStatus(PingreqPacket.id))
             \/ mbox' = Post(told, "Send", VariablePacketMessage(PingreqPacket))
             \/ mbox' = Post(box, "Stop", StopMessage)
             \/ mbox' = Post(told, "Stop", StopMessage)
          /\ connectStatus' = connectStatus
      BY <1>5 DEF SendPingHandle, SendPacketHandle, GiveUp, SetSendSchedule,
                  HandleSendErrorWithResend, connectVars
    <2> HIDE DEF box
    <2>3. told["ConnectStatus"] = mbox["ConnectStatus"] /\ DOMAIN told = Actor
      BY <2>1
    <2> HIDE DEF told
    <2> QED
      BY <2>1, <2>2, <2>3
  <1>6. CASE PingrespHandle
    <2> DEFINE box == Take("Pingresp")
    <2>1. box["ConnectStatus"] = mbox["ConnectStatus"] /\ DOMAIN box = Actor
      BY <1>1 DEF Take
    <2>2. /\ \/ mbox' = box
             \/ \E m : mbox' = Post(box, "Status", m)
             \/ mbox' = Post(box, "Stop", StopMessage)
          /\ connectStatus' = connectStatus
      BY <1>6 DEF PingrespHandle, ResponseHandle, HandleSendErrorWithResend, connectVars
    <2> HIDE DEF box
    <2> QED
      BY <2>1, <2>2
  <1>7. CASE PingStatusHandle
    BY <1>1, <1>7, KeepAliveAssumption DEF PingStatusHandle, StatusHandle, Take, connectVars
  <1>8. CASE BrokerPing \/ ConnectStatusOrphaned
    BY <1>8 DEF BrokerPing, ConnectStatusOrphaned, Orphaned, actorVars, connectVars
  <1>9. CASE ConnectingStep /\ UNCHANGED <<statusVars, pingVars>> /\ ~TimeoutAsks
    <2>1. TimeoutStops \in {"Stop", "Connect"}
      BY DEF TimeoutStops
    <2> QED
      BY <1>1, <1>9, <2>1
         DEF ConnectingStep, ClientConnect, ConnectReturns, ClientLetsGo, ConnectStop, TimeoutFires,
             TimeoutAnswered, ConnackOrphaned, ConnectOrphaned, Orphaned, BrokerConnect,
             ConnackStep, ConnectHandled, StatusHandled, actorVars, connectVars
  <1>10. CASE ConnectingStep /\ UNCHANGED <<statusVars, pingVars>> /\ TimeoutAsks
    <2>1. TimeoutAsks /\ mbox' = Post(mbox, "ConnectStatus", ConnectQuestion)
      BY <1>10 DEF TimeoutAsks
    <2> QED
      BY <1>1, <2>1 DEF TimeoutAsks, Post, Accepts, Questions
  <1>11. CASE Background /\ UNCHANGED <<connectVars, pingVars>>
    BY <1>11, BackgroundAside DEF connectVars
  <1> QED
    BY <1>2, <1>3, <1>4, <1>5, <1>6, <1>7, <1>8, <1>9, <1>10, <1>11 DEF Next

\* ConnackActor takes the status back.
LEMMA ConnackTakesBack ==
    ASSUME TypeOK, AnswerEndsConnecting, ConnackStep
    PROVE  AnswerEndsConnecting'
  <1> DEFINE C == mbox["ConnectStatus"]
             box == Take("Connack")
             none == [box EXCEPT !["Connack"] = <<>>]
             removed == Post(box, "ConnectStatus", Answered0)
             removed2 == Post(none, "ConnectStatus", Answered0)
             set == Post(removed2, "ConnectStatus", Connected)
             Other(b) == DOMAIN b = Actor /\ b["ConnectStatus"] = C
             Told(b) == DOMAIN b = Actor /\ b["ConnectStatus"] = Append(C, Answered0)
  <1> USE ActorsOfPing, KeepContext, PostElsewhere
  <1>1. DOMAIN mbox = Actor /\ C \in Seq(KeepK.messages["ConnectStatus"])
        /\ Append(C, Answered0) \in Seq(KeepK.messages["ConnectStatus"])
    BY AppendProperties, ConnectingMessages DEF SessionOK, Answered0
  <1>2. /\ \/ mbox' = Post(box, "Stop", StopMessage) /\ connack' = connack
           \/ mbox' = Post(removed, "Stop", StopMessage) /\ "ConnectStatus" \in alive
           \/ mbox' = Post(set, "Connect", StopMessage) /\ "ConnectStatus" \in alive
        /\ connectStatus' = connectStatus
    BY DEF ConnackStep, ConnackHandle, AcceptedBox, Answered0, Connected, Accepts
  <1>3. Other(box) /\ Other(none)
    BY <1>1 DEF Take
  <1>4. CASE mbox' = Post(box, "Stop", StopMessage) /\ connack' = connack
    <2> HIDE DEF box
    <2>1. mbox'["ConnectStatus"] = C
      BY <1>3, <1>4
    <2> QED
      BY <1>2, <1>4, <2>1 DEF AnswerEndsConnecting
  <1>5. CASE mbox' = Post(removed, "Stop", StopMessage) /\ "ConnectStatus" \in alive
    <2> HIDE DEF box
    <2>1. removed["ConnectStatus"] = Append(C, Answered0) /\ DOMAIN removed = Actor
      BY <1>3, <1>5 DEF Post
    <2> HIDE DEF removed
    <2>2. mbox'["ConnectStatus"] = Append(C, Answered0)
      BY <1>5, <2>1
    <2> QED
      BY <1>1, <2>2, AnsweredIsAnother, TakenBackEnds DEF AnswerEndsConnecting
  <1>6. CASE mbox' = Post(set, "Connect", StopMessage) /\ "ConnectStatus" \in alive
    <2> HIDE DEF box, none
    <2>1. removed2["ConnectStatus"] = Append(C, Answered0) /\ DOMAIN removed2 = Actor
      BY <1>3, <1>6 DEF Post
    <2> HIDE DEF removed2
    <2>2. set["ConnectStatus"] = Append(Append(C, Answered0), Connected) /\ DOMAIN set = Actor
      BY <1>6, <2>1 DEF Post
    <2> HIDE DEF set
    <2>3. mbox'["ConnectStatus"] = Append(Append(C, Answered0), Connected)
      BY <1>6, <2>2
    <2>4. Connected # Connecting0
      BY DEF Connected, Connecting0, SetPacketStatus
    <2>5. TakenBack(Append(C, Answered0), connectStatus', {Answered0})
      BY <1>1, AnsweredIsAnother, TakenBackEnds
    <2>6. TakenBack(Append(Append(C, Answered0), Connected), connectStatus', {Answered0})
      BY <1>1, <2>4, <2>5, TakenBackAppend
    <2> QED
      BY <2>3, <2>6 DEF AnswerEndsConnecting
  <1> QED
    BY <1>2, <1>4, <1>5, <1>6

LEMMA StatusTakesBack ==
    ASSUME TypeOK, AnswerEndsConnecting, StatusHandled
    PROVE  AnswerEndsConnecting'
  <1> DEFINE C == mbox["ConnectStatus"]
  <1> USE ActorsOfPing, KeepContext
  <1>1. C \in Seq(KeepK.messages["ConnectStatus"]) /\ C # <<>> /\ DOMAIN mbox = Actor
    BY DEF SessionOK, StatusHandled, ConnectStatusHandle, Handling
  <1>2. mbox'["ConnectStatus"] = Tail(C) /\ connack' = connack /\ Head(C) = C[1]
    BY <1>1 DEF StatusHandled, ConnectStatusHandle, Take
  <1>3. C[1] \in {Connecting0, Connected, Answered0, ConnectQuestion}
    BY <1>2, PingHeads DEF StatusHandled, ConnectStatusHandle, Connecting0, Connected, Answered0
  <1>4. connectStatus' = IF C[1].op = "Set" THEN connectStatus \cup {C[1].id}
                         ELSE connectStatus \ {C[1].id}
    BY <1>2 DEF StatusHandled, ConnectStatusHandle
  <1>5. 0 \in connectStatus' => (0 \in connectStatus /\ C[1] # Answered0) \/ C[1] = Connecting0
    BY <1>3, <1>4 DEF Connecting0, Connected, Answered0, SetPacketStatus, RemovePacketStatus,
                      ConnectQuestion, GetAndRemovePacketStatus
  <1>6. TakenBack(C, connectStatus, {Answered0}) => TakenBack(Tail(C), connectStatus', {Answered0})
    BY <1>1, <1>5, TakenBackTail
  <1> QED
    BY <1>2, <1>6 DEF AnswerEndsConnecting

\* The question of a ping says nothing.
LEMMA ExistsTakesNothingBack ==
    ASSUME TypeOK, AnswerEndsConnecting, ExistsHandle
    PROVE  AnswerEndsConnecting'
  <1> DEFINE C == mbox["ConnectStatus"]
  <1> USE ActorsOfPing, KeepContext
  <1>1. /\ C \in Seq(KeepK.messages["ConnectStatus"]) /\ C # <<>> /\ DOMAIN mbox = Actor
        /\ C[1].type = "Exists"
    BY DEF SessionOK, ExistsHandle, Handling
  <1>2. mbox'["ConnectStatus"] = Tail(C) /\ UNCHANGED connectVars
    BY <1>1 DEF ExistsHandle, Take
  <1>3. C[1] # Answered0
    BY <1>1 DEF Answered0, RemovePacketStatus
  <1>4. TakenBack(C, connectStatus, {Answered0}) => TakenBack(Tail(C), connectStatus, {Answered0})
    BY <1>1, <1>3, TakenBackTail
  <1> QED
    BY <1>2, <1>4 DEF AnswerEndsConnecting, connectVars

LEMMA AnswerEndsConnectingStep ==
    ASSUME TypeOK, ConnectOnce, AnswerEndsConnecting, Next
    PROVE  AnswerEndsConnecting'
  <1>1. CASE ConnectHandled
    <2>1. connack = "none" /\ connack' = connack
      BY <1>1, ConnectTaken DEF ConnectHandled, ConnectHandle
    <2> QED
      BY <2>1 DEF AnswerEndsConnecting
  <1>2. CASE ~ConnackStep /\ ~ConnectHandled /\ ~StatusHandled /\ ~ExistsHandle
    <2> DEFINE C == mbox["ConnectStatus"]
    <2>1. /\ mbox'["ConnectStatus"] = C
             \/ \E m \in Questions : mbox'["ConnectStatus"] = Append(C, m)
          /\ connectStatus' = connectStatus /\ connack' = connack
      BY <1>2, OnlyAsked, ActorsOnlyStop
    <2>2. C \in Seq(KeepK.messages["ConnectStatus"])
      BY KeepContext, ActorsOfPing DEF SessionOK
    <2>3. \A m \in Questions :
              TakenBack(C, connectStatus, {Answered0})
                  => TakenBack(Append(C, m), connectStatus, {Answered0})
      BY <2>2, QuestionsSayNothing, TakenBackAppend
    <2> QED
      BY <2>1, <2>3 DEF AnswerEndsConnecting
  <1> QED
    BY <1>1, <1>2, ConnackTakesBack, StatusTakesBack, ExistsTakesNothingBack

\* KeepAlive.tla, TimeoutJustified: when the timeout of connecting asks
\* (src/actors/packets/connect.rs:102-138) after ConnackActor has handled a
\* CONNACK (connack.rs:47-75), the status it would find is about to be removed.
THEOREM TimeoutIsJustified == Spec => []TimeoutJustified
  <1>1. Init => ConnectOnce /\ AnswerEndsConnecting
    <2> SUFFICES ASSUME Init PROVE ConnectOnce /\ AnswerEndsConnecting
      OBVIOUS
    <2>1. Absent(KeepK, "Connect", {ConnectMessage}) /\ NotAnswered
      BY EmptyBagElements, ActorsOfPing
         DEF Init, SessionInit, ActorsInit, StatusInit, TransportInit, ConnectingInit, Absent,
             NoneButAt, NoneIn, NoneInBag, NotAnswered, Quiet
    <2> QED
      BY <2>1, AbsentIsAtMostOne DEF ConnectOnce, AnswerEndsConnecting, NotAnswered
  <1>2. TypeOK /\ ConnectOnce /\ AnswerEndsConnecting /\ [Next]_keepAliveVars
            => ConnectOnce' /\ AnswerEndsConnecting'
    <2> SUFFICES ASSUME ConnectOnce, AnswerEndsConnecting, UNCHANGED keepAliveVars
                 PROVE  ConnectOnce' /\ AnswerEndsConnecting'
      BY ConnectOnceStep, AnswerEndsConnectingStep
    <2> USE DEF keepAliveVars, sessionVars, actorVars, statusVars, wireVars, connectVars
    <2>1. AnswerEndsConnecting' /\ (NotAnswered => NotAnswered')
      BY DEF AnswerEndsConnecting, NotAnswered, Quiet
    <2>2. UNCHANGED resends /\ BoxKeeps(mbox, mbox', KeepK, "Connect", {ConnectMessage})
      BY BoxKeepsItself
    <2>3. Carries(KeepK, "Connect", {ConnectMessage})
      BY <2>2, OnlyBoxes
    <2> QED
      BY <2>1, <2>3 DEF ConnectOnce, Carries
  <1>3. TypeOK /\ AnswerEndsConnecting => TimeoutJustified
    <2> SUFFICES ASSUME TypeOK, AnswerEndsConnecting, connack # "none", 0 \in connectStatus
                 PROVE  \E i \in DOMAIN mbox["ConnectStatus"] :
                            mbox["ConnectStatus"][i] = RemovePacketStatus(0)
      BY DEF TimeoutJustified
    <2>1. mbox["ConnectStatus"] \in Seq(KeepK.messages["ConnectStatus"])
      BY KeepContext, ActorsOfPing DEF SessionOK
    <2>2. \E j \in 0 + 1 .. Len(mbox["ConnectStatus"]) : mbox["ConnectStatus"][j] \in {Answered0}
      BY <2>1 DEF AnswerEndsConnecting, TakenBack
    <2> QED
      BY <2>1, <2>2 DEF Answered0
  <1> QED
    BY <1>1, <1>2, <1>3, KeepAliveTypeCorrect, PTL DEF Spec

-----------------------------------------------------------------------------
(* Somebody watches every ping that waits.  If no SendPing is left that will *)
(* ask about it, the status actor is about to hear a message that ends it,   *)
(* behind the last one that sets the status.                                 *)

PingWaits == {id \in {0} : packetStatus[id] # NoStatus}
PingEnds  == {RemovePacketStatus(0)} \cup {GetAndRemovePacketStatus(t) : t \in PingChecks}

PingInMailbox(box) == \E i \in DOMAIN box["Pingreq"] : box["Pingreq"][i] \in SendPings
PingAside ==
    \/ \E r \in BagToSet(resends) : r.to = "Pingreq"
    \/ BagToSet(timers) # {}
    \/ BagToSet(asking) \cap PingChecks # {}
SomeoneWatches == PingInMailbox(mbox) \/ PingAside

PingEnding == TakenBack(mbox["Status"], PingWaits, PingEnds)

Watching == {"Pingreq", "Status", "Send"} \subseteq alive => SomeoneWatches \/ PingEnding

LEMMA PingEndsAreOthers == Connecting0 \notin PingEnds
  BY DEF PingEnds, Connecting0, SetPacketStatus, RemovePacketStatus, GetAndRemovePacketStatus

LEMMA BagRemoveOthers ==
    ASSUME NEW B, NEW x, NEW e \in BagToSet(B), e # x
    PROVE  e \in BagToSet(BagRemove(B, x))
  BY DEF BagRemove, BagToSet

\* A mailbox a step leaves alone or appends to.
Grows(box, b) == \/ mbox'[b] = box[b]
                 \/ \E m : m # Connecting0 /\ mbox'[b] = Append(box[b], m)

LEMMA PingInMailboxGrows ==
    ASSUME NEW M, NEW box, box["Pingreq"] \in Seq(M), Grows(box, "Pingreq"), PingInMailbox(box)
    PROVE  PingInMailbox(mbox')
  <1>1. CASE mbox'["Pingreq"] = box["Pingreq"]
    BY <1>1 DEF PingInMailbox
  <1>2. CASE mbox'["Pingreq"] # box["Pingreq"]
    <2>1. PICK m : mbox'["Pingreq"] = Append(box["Pingreq"], m)
      BY <1>2 DEF Grows
    <2>2. PICK i \in DOMAIN box["Pingreq"] : box["Pingreq"][i] \in SendPings
      BY DEF PingInMailbox
    <2>3. i \in DOMAIN Append(box["Pingreq"], m) /\ Append(box["Pingreq"], m)[i] = box["Pingreq"][i]
      BY <2>2
    <2> QED
      BY <2>1, <2>2, <2>3 DEF PingInMailbox
  <1> QED
    BY <1>1, <1>2

LEMMA PingEndingGrows ==
    ASSUME TypeOK, Grows(mbox, "Status"), packetStatus' = packetStatus, PingEnding
    PROVE  PingEnding'
  <1>1. mbox["Status"] \in Seq(KeepK.messages["Status"]) /\ PingWaits' = PingWaits
    BY KeepContext, ActorsOfPing DEF SessionOK, PingWaits
  <1>2. CASE mbox'["Status"] = mbox["Status"]
    BY <1>1, <1>2 DEF PingEnding
  <1>3. CASE mbox'["Status"] # mbox["Status"]
    <2>1. PICK m : m # Connecting0 /\ mbox'["Status"] = Append(mbox["Status"], m)
      BY <1>3 DEF Grows
    <2>2. TakenBack(Append(mbox["Status"], m), PingWaits, PingEnds)
      BY <1>1, <2>1, TakenBackAppend DEF PingEnding
    <2> QED
      BY <1>1, <2>1, <2>2 DEF PingEnding
  <1> QED
    BY <1>2, <1>3

\* A step that only adds to what watches.
LEMMA StillWatching ==
    ASSUME TypeOK, Watching, Next, packetStatus' = packetStatus,
           Grows(mbox, "Pingreq"), Grows(mbox, "Status"),
           PingAside => SomeoneWatches'
    PROVE  Watching'
  <1>1. alive' \subseteq alive
    BY ActorsOnlyStop
  <1>2. PingInMailbox(mbox) => PingInMailbox(mbox')
    BY KeepContext, ActorsOfPing, PingInMailboxGrows DEF SessionOK
  <1> QED
    BY <1>1, <1>2, PingEndingGrows DEF Watching, SomeoneWatches

LEMMA PostGrows ==
    ASSUME TypeOK, NEW a, NEW m, m # Connecting0, mbox' = Post(mbox, a, m)
    PROVE  Grows(mbox, "Pingreq") /\ Grows(mbox, "Status")
  BY KeepContext, ActorsOfPing DEF SessionOK, Post, Grows

LEMMA GrowsItself ==
    ASSUME NEW b, mbox'[b] = mbox[b]
    PROVE  Grows(mbox, b)
  BY DEF Grows

\* The messages for PingreqActor, and StopMessage, set no status.
LEMMA NoneSets ==
    /\ StopMessage # Connecting0 /\ PingreqMessage # Connecting0
    /\ \A m \in SendPings : m # Connecting0
    /\ \A m \in Pingresps : m # Connecting0
    /\ RemovePacketStatus(0) # Connecting0
    /\ \A t : GetAndRemovePacketStatus(t) # Connecting0
  BY DEF StopMessage, PingreqMessage, SendPings, SendPing, Pingresps, RemovePacketStatus,
         GetAndRemovePacketStatus, Connecting0, SetPacketStatus

\* Nobody who connects sends anything to PingreqActor or the status actor.
LEMMA ConnectingElsewhere ==
    ASSUME TypeOK, ConnectingStep, NEW b \in {"Pingreq", "Status"}
    PROVE  mbox'[b] = mbox[b]
  <1> DEFINE Same(box) == DOMAIN box = Actor /\ box[b] = mbox[b]
  <1>1. Same(mbox) /\ b \in Actor
    BY KeepContext, ActorsOfPing DEF SessionOK
  <1>2. ASSUME NEW box, Same(box), NEW a, a # b, NEW m
        PROVE  Same(Post(box, a, m))
    BY <1>1, <1>2, PostElsewhere
  <1>3. ASSUME NEW box, Same(box), NEW a, a # b, NEW s
        PROVE  Same([box EXCEPT ![a] = s])
    BY <1>1, <1>3
  <1>4. ASSUME NEW a, a # b
        PROVE  Same(Take(a))
    BY <1>1, <1>4 DEF Take
  <1> HIDE DEF Same
  <1>5. CASE ConnectHandle
    <2> DEFINE told == Post(Take("Connect"), "ConnectStatus", SetPacketStatus(0, "Unit"))
    <2>1. mbox' \in {Post(told, "Stop", StopMessage),
                     Post(told, "Send", VariablePacketMessage(ConnectPacket))}
      BY <1>5 DEF ConnectHandle
    <2>2. Same(told)
      BY <1>2, <1>4
    <2> HIDE DEF told
    <2>3. Same(mbox')
      BY <1>2, <2>1, <2>2
    <2> QED
      BY <2>3 DEF Same
  <1>6. CASE ConnackHandle
    <2> DEFINE box == Take("Connack")
               none == [box EXCEPT !["Connack"] = <<>>]
               removed == Post(box, "ConnectStatus", RemovePacketStatus(0))
               removed2 == Post(none, "ConnectStatus", RemovePacketStatus(0))
               set == Post(removed2, "ConnectStatus", SetPacketStatus(1, "Unit"))
    <2>1. mbox' \in {Post(box, "Stop", StopMessage), Post(removed, "Stop", StopMessage),
                     Post(set, "Connect", StopMessage)}
      BY <1>6 DEF ConnackHandle, AcceptedBox
    <2>2. Same(box)
      BY <1>4
    <2> HIDE DEF box
    <2>3. Same(none) /\ Same(removed)
      BY <1>2, <1>3, <2>2
    <2> HIDE DEF none, removed
    <2>4. Same(removed2)
      BY <1>2, <2>3
    <2> HIDE DEF removed2
    <2>5. Same(set)
      BY <1>2, <2>4
    <2> HIDE DEF set
    <2>6. Same(mbox')
      BY <1>2, <2>1, <2>2, <2>3, <2>5
    <2> QED
      BY <2>6 DEF Same
  <1>7. CASE ConnectStop
    <2>1. Same(mbox')
      BY <1>1, <1>3, <1>7 DEF ConnectStop
    <2> QED
      BY <2>1 DEF Same
  <1>8. CASE ClientConnect \/ TimeoutAsks \/ TimeoutAnswered
    <2>1. TimeoutStops \in {"Stop", "Connect"}
      BY DEF TimeoutStops
    <2>2. Same(mbox')
      BY <1>1, <1>2, <1>8, <2>1 DEF ClientConnect, TimeoutAsks, TimeoutAnswered
    <2> QED
      BY <2>2 DEF Same
  <1>9. CASE ConnectStatusHandle
    <2>1. Same(mbox')
      BY <1>4, <1>9 DEF ConnectStatusHandle
    <2> QED
      BY <2>1 DEF Same
  <1>10. CASE ConnectReturns \/ ClientLetsGo \/ TimeoutFires \/ ConnackOrphaned
              \/ ConnectOrphaned \/ BrokerConnect
    BY <1>10 DEF ConnectReturns, ClientLetsGo, TimeoutFires, ConnackOrphaned, ConnectOrphaned,
                 Orphaned, BrokerConnect, actorVars
  <1> QED
    BY <1>5, <1>6, <1>7, <1>8, <1>9, <1>10 DEF ConnectingStep

LEMMA ConnectingResends ==
    ASSUME ConnectingStep
    PROVE  resends' = resends
  BY DEF ConnectingStep, ClientConnect, ConnectReturns, ClientLetsGo, ConnectHandle, ConnectStop,
         TimeoutFires, TimeoutAsks, TimeoutAnswered, ConnackHandle, ConnectStatusHandle,
         ConnackOrphaned, ConnectOrphaned, Orphaned, BrokerConnect, actorVars

\* The steps that leave the watching to others.
LEMMA WatchedMeanwhile ==
    ASSUME TypeOK, Watching, Next,
           \/ Tick \/ AskConnected \/ PingAnswered \/ BrokerPing
           \/ ConnectStatusOrphaned /\ Elsewhere
           \/ ConnectingStep /\ UNCHANGED <<statusVars, pingVars>>
    PROVE  Watching'
  <1>1. CASE UNCHANGED <<resends, packetStatus, timers, asking>> /\ Grows(mbox, "Pingreq")
             /\ Grows(mbox, "Status")
    BY <1>1, StillWatching DEF PingAside, SomeoneWatches
  <1>2. CASE Tick \/ AskConnected
    <2>1. ConnectedQuestion # Connecting0
      BY DEF ConnectedQuestion, Connecting0, SetPacketStatus
    <2>2. Grows(mbox, "Pingreq") /\ Grows(mbox, "Status")
      BY <1>2, <2>1, NoneSets, PostGrows DEF Tick, AskConnected
    <2> QED
      BY <1>1, <1>2, <2>2 DEF Tick, AskConnected, statusVars
  <1>3. CASE PingAnswered
    <2>1. /\ \/ mbox' = Post(mbox, "Pingreq", SendPing(0))
             \/ mbox' = Post(mbox, "Stop", StopMessage)
             \/ mbox' = mbox
          /\ UNCHANGED <<resends, packetStatus, timers, asking>>
      BY <1>3 DEF PingAnswered
    <2>2. SendPing(0) \in SendPings
      BY StatusAssumption DEF SendPings, Retry
    <2>3. Grows(mbox, "Pingreq") /\ Grows(mbox, "Status")
      BY <2>1, <2>2, NoneSets, PostGrows, GrowsItself
    <2> QED
      BY <1>1, <2>1, <2>3
  <1>4. CASE BrokerPing \/ (ConnectStatusOrphaned /\ Elsewhere)
    BY <1>1, <1>4, GrowsItself
       DEF BrokerPing, ConnectStatusOrphaned, Orphaned, Elsewhere, actorVars, statusVars
  <1>5. CASE ConnectingStep /\ UNCHANGED <<statusVars, pingVars>>
    <2>1. mbox'["Pingreq"] = mbox["Pingreq"] /\ mbox'["Status"] = mbox["Status"]
      BY <1>5, ConnectingElsewhere
    <2> QED
      BY <1>1, <1>5, <2>1, ConnectingResends, GrowsItself DEF statusVars
  <1> QED
    BY <1>2, <1>3, <1>4, <1>5

\* The steps of PingreqActor, the connect status actor and PingrespActor that
\* neither start nor end a ping.
LEMMA QuestionWatched ==
    ASSUME TypeOK, Watching, Next, PingreqHandle \/ ExistsHandle
    PROVE  Watching'
  <1> USE ActorsOfPing, KeepContext
  <1>1. DOMAIN mbox = Actor /\ mbox["Pingreq"] \in Seq(KeepK.messages["Pingreq"])
    BY DEF SessionOK
  <1>2. CASE PingreqHandle
    <2>1. /\ mbox["Pingreq"] # <<>> /\ mbox["Pingreq"][1].type = "Pingreq"
          /\ mbox'["Pingreq"] = Tail(mbox["Pingreq"]) /\ mbox'["Status"] = mbox["Status"]
      BY <1>1, <1>2 DEF PingreqHandle, Handling, Take
    <2>2. ASSUME PingInMailbox(mbox)
          PROVE  PingInMailbox(mbox')
      <3>1. PICK i \in DOMAIN mbox["Pingreq"] : mbox["Pingreq"][i] \in SendPings
        BY <2>2 DEF PingInMailbox
      <3>2. i # 1
        BY <2>1, <3>1 DEF SendPings, SendPing
      <3>3. i - 1 \in DOMAIN Tail(mbox["Pingreq"]) /\ Tail(mbox["Pingreq"])[i - 1] = mbox["Pingreq"][i]
        BY <1>1, <2>1, <3>1, <3>2
      <3> QED
        BY <2>1, <3>1, <3>3 DEF PingInMailbox
    <2>3. SomeoneWatches => SomeoneWatches'
      BY <1>2, <2>2 DEF SomeoneWatches, PingAside, PingreqHandle, statusVars
    <2>4. PingEnding => PingEnding'
      BY <1>2, <2>1, GrowsItself, PingEndingGrows DEF PingreqHandle, statusVars
    <2> QED
      BY <1>2, <2>3, <2>4 DEF Watching, PingreqHandle
  <1>3. CASE ExistsHandle
    <2>1. /\ mbox'["Pingreq"] = mbox["Pingreq"] /\ mbox'["Status"] = mbox["Status"]
          /\ UNCHANGED <<alive, resends, packetStatus, timers>>
      BY <1>1, <1>3 DEF ExistsHandle, Take
    <2>2. BagToSet(asking) \subseteq BagToSet(asking')
      BY <1>3, BagAddElements DEF ExistsHandle
    <2> QED
      BY <2>1, <2>2, GrowsItself, StillWatching DEF PingAside, SomeoneWatches
  <1> QED
    BY <1>2, <1>3

LEMMA PingrespWatched ==
    ASSUME TypeOK, Watching, Next, PingrespHandle
    PROVE  Watching'
  <1> DEFINE box == Take("Pingresp")
             msg == Head(mbox["Pingresp"])
  <1> USE ActorsOfPing, KeepContext
  <1>1. DOMAIN mbox = Actor
    BY DEF SessionOK
  <1>2. msg \in Pingresps
    BY PingHeads DEF PingrespHandle, ResponseHandle
  <1>3. RemovePacketStatus(msg.packet.id) = RemovePacketStatus(0)
    BY <1>2 DEF Pingresps, PingrespPacket
  <1>4. /\ \/ mbox' = Post(box, "Status", RemovePacketStatus(0)) /\ resends' = resends
           \/ mbox' = Post(box, "Stop", StopMessage) /\ resends' = resends
           \/ mbox' = box /\ resends' = BagAdd(resends, [to |-> "Pingresp", msg |-> msg])
        /\ UNCHANGED <<packetStatus, timers, asking>>
    BY <1>3 DEF PingrespHandle, ResponseHandle, HandleSendErrorWithResend, statusVars
  <1>5. DOMAIN box = Actor /\ box["Pingreq"] = mbox["Pingreq"] /\ box["Status"] = mbox["Status"]
    BY <1>1 DEF Take
  <1> HIDE DEF box
  <1>6. Grows(mbox, "Pingreq") /\ Grows(mbox, "Status")
    BY <1>4, <1>5, NoneSets DEF Grows, Post
  <1>7. BagToSet(resends) \subseteq BagToSet(resends')
    BY <1>4, BagAddElements
  <1> QED
    BY <1>4, <1>6, <1>7, StillWatching DEF PingAside, SomeoneWatches

\* A SendPing is handled: it is to be handled again, it is watched by its
\* status check, or it was the last one and its status is removed.
LEMMA SendPingWatched ==
    ASSUME TypeOK, Watching, SendPingHandle
    PROVE  Watching'
  <1> DEFINE msg == Head(mbox["Pingreq"])
             box == Take("Pingreq")
             check == StatusCheck("Pingreq", "Pingreq", PingreqPacket.id, Retried(msg), {"Unit"})
             again == [to |-> "Pingreq", msg |-> Retried(msg)]
  <1> USE ActorsOfPing, KeepContext
  <1>1. DOMAIN mbox = Actor /\ mbox["Status"] \in Seq(KeepK.messages["Status"])
    BY DEF SessionOK
  <1>2. box["Status"] = mbox["Status"]
    BY <1>1 DEF Take
  <1>3. /\ SendPacketHandle("Pingreq", msg, SetPacketStatus(0, "Unit"), PingreqPacket, {"Unit"})
        /\ UNCHANGED <<alive, packetStatus>>
    BY DEF SendPingHandle, SendPacketHandle
  <1>4. SUFFICES ASSUME "Status" \in alive, "Send" \in alive
                 PROVE  SomeoneWatches' \/ PingEnding'
    BY <1>3 DEF Watching
  <1>5. \/ mbox' = Post(box, "Status", RemovePacketStatus(0))
        \/ resends' = BagAdd(resends, again)
        \/ timers' = BagAdd(timers, check)
    BY <1>3, <1>4
       DEF SendPacketHandle, GiveUp, SetSendSchedule, HandleSendErrorWithResend, Closed, Accepts,
           Full, PingreqPacket
  <1> HIDE DEF box, check, msg
  <1>6. CASE mbox' = Post(box, "Status", RemovePacketStatus(0))
    <2>1. box = Take("Pingreq") /\ DOMAIN box = Actor
      BY <1>1 DEF box, Take
    <2>2. mbox'["Status"] = Append(mbox["Status"], RemovePacketStatus(0))
      BY <1>2, <1>4, <1>6, <2>1 DEF Post
    <2>3. RemovePacketStatus(0) \in PingEnds
      BY DEF PingEnds
    <2>4. TakenBack(Append(mbox["Status"], RemovePacketStatus(0)), PingWaits', PingEnds)
      <3>1. PICK waits : waits = PingWaits'
        OBVIOUS
      <3>2. TakenBack(Append(mbox["Status"], RemovePacketStatus(0)), waits, PingEnds)
        BY <1>1, <2>3, PingEndsAreOthers, TakenBackEnds
      <3> QED
        BY <3>1, <3>2
    <2> QED
      BY <2>2, <2>4 DEF PingEnding
  <1>7. CASE resends' = BagAdd(resends, again)
    <2>1. again \in BagToSet(resends') /\ again.to = "Pingreq"
      BY <1>7, BagAddElements
    <2> HIDE DEF again
    <2> QED
      BY <2>1 DEF SomeoneWatches, PingAside
  <1>8. CASE timers' = BagAdd(timers, check)
    <2>1. check \in BagToSet(timers')
      BY <1>8, BagAddElements
    <2> QED
      BY <2>1 DEF SomeoneWatches, PingAside
  <1> QED
    BY <1>5, <1>6, <1>7, <1>8

\* The status actor does what it is told, in the order it is told.
LEMMA PingStatusWatched ==
    ASSUME TypeOK, Watching, PingStatusHandle
    PROVE  Watching'
  <1> DEFINE S == mbox["Status"]
  <1> USE ActorsOfPing, KeepContext
  <1>1. S \in Seq(KeepK.messages["Status"]) /\ S # <<>> /\ DOMAIN mbox = Actor /\ Head(S) = S[1]
    BY DEF SessionOK, PingStatusHandle, StatusHandle, Handling
  <1>2. S[1] \in PingStatusMessages
    BY <1>1, PingHeads DEF PingStatusHandle, StatusHandle
  <1>3. /\ mbox'["Status"] = Tail(S) /\ mbox'["Pingreq"] = mbox["Pingreq"]
        /\ UNCHANGED <<alive, resends, timers, asking>>
    BY <1>1, KeepAliveAssumption DEF PingStatusHandle, StatusHandle, Take
  <1>4. packetStatus' = Apply(S[1]) /\ S[1].id = 0
    BY <1>1, <1>2, PingStatusOperations DEF PingStatusHandle, StatusHandle
  <1>5. 0 \in DOMAIN packetStatus
    BY StatusAssumption DEF SessionOK, Id
  <1>6. 0 \in PingWaits' => S[1] = Connecting0
    <2>1. packetStatus'[0] = IF S[1].op = "Set" THEN S[1].payload ELSE NoStatus
      BY <1>4, <1>5 DEF Apply
    <2> QED
      BY <1>2, <2>1, PingStatusOperations DEF PingWaits, Connecting0
  <1>7. ASSUME PingEnding
        PROVE  PingEnding'
    <2>1. PICK waits : waits = PingWaits'
      OBVIOUS
    <2>2. TakenBack(Tail(S), waits, PingEnds)
      BY <1>1, <1>6, <1>7, <2>1, TakenBackTail DEF PingEnding
    <2> QED
      BY <1>3, <2>1, <2>2 DEF PingEnding
  <1>8. SomeoneWatches => SomeoneWatches'
    BY <1>3 DEF SomeoneWatches, PingInMailbox, PingAside
  <1> QED
    BY <1>3, <1>7, <1>8 DEF Watching

\* The tasks, the transport and the StopActor.
LEMMA BackgroundWatched ==
    ASSUME TypeOK, Watching, Next, Background
    PROVE  Watching'
  <1> USE ActorsOfPing, KeepContext
  <1>1. DOMAIN mbox = Actor /\ \A a \in Actor : mbox[a] \in Seq(KeepK.messages[a])
    BY DEF SessionOK
  <1>2. CASE Resend /\ UNCHANGED statusVars
    <2>1. PICK r \in BagToSet(resends) :
              mbox' = Post(mbox, r.to, r.msg) /\ resends' = BagRemove(resends, r)
      BY <1>2 DEF Resend
    <2>2. \/ r.to = "Pingreq" /\ r.msg \in SendPings
          \/ r.to = "Pingresp" /\ r.msg \in Pingresps
      BY KeepKFields DEF SessionOK
    <2>3. Grows(mbox, "Pingreq") /\ Grows(mbox, "Status")
      BY <2>1, <2>2, NoneSets, PostGrows
    <2>4. CASE r.to = "Pingreq" /\ "Pingreq" \in alive
      <3>1. mbox'["Pingreq"] = Append(mbox["Pingreq"], r.msg) /\ r.msg \in SendPings
        BY <1>1, <2>1, <2>2, <2>4 DEF Post
      <3>2. PICK box : box = mbox["Pingreq"] /\ box \in Seq(KeepK.messages["Pingreq"])
        BY <1>1
      <3>3. /\ Len(box) + 1 \in DOMAIN Append(box, r.msg)
            /\ Append(box, r.msg)[Len(box) + 1] = r.msg
        BY <3>2
      <3>4. PingInMailbox(mbox')
        BY <3>1, <3>2, <3>3 DEF PingInMailbox
      <3> QED
        BY <1>2, <2>3, <3>4, StillWatching DEF SomeoneWatches, statusVars
    <2>5. CASE r.to # "Pingreq"
      <3>1. \A q \in BagToSet(resends) : q.to = "Pingreq" => q \in BagToSet(resends')
        BY <2>1, <2>5, BagRemoveOthers
      <3> QED
        BY <1>2, <2>3, <3>1, StillWatching DEF SomeoneWatches, PingAside, statusVars
    <2>6. CASE "Pingreq" \notin alive
      BY <2>6, ActorsOnlyStop DEF Watching
    <2> QED
      BY <2>4, <2>5, <2>6
  <1>3. CASE BroadcastStop /\ UNCHANGED statusVars
    <2>1. Grows(mbox, "Pingreq") /\ Grows(mbox, "Status") /\ resends' = resends
      BY <1>3, NoneSets DEF BroadcastStop, Grows
    <2> QED
      BY <1>3, <2>1, StillWatching DEF SomeoneWatches, PingAside, statusVars
  <1>4. CASE TimerFires
    <2>1. PICK t \in BagToSet(timers) :
              asking' = BagAdd(asking, t) /\ UNCHANGED <<actorVars, packetStatus>>
      BY <1>4 DEF TimerFires
    <2>2. t \in BagToSet(asking') \cap PingChecks
      BY <2>1, BagAddElements, KeepKFields DEF SessionOK
    <2> QED
      BY <2>1, <2>2, GrowsItself, StillWatching DEF SomeoneWatches, PingAside, actorVars
  <1>5. CASE AskStatus
    <2>1. PICK t \in BagToSet(asking) :
              /\ asking' = BagRemove(asking, t)
              /\ \/ Accepts("Status") /\ mbox' = Post(mbox, "Status", GetAndRemovePacketStatus(t))
                 \/ Closed("Status") /\ mbox' = mbox
              /\ UNCHANGED <<alive, resends, packetStatus, timers>>
      BY <1>5 DEF AskStatus
    <2>2. CASE Closed("Status")
      BY <2>1, <2>2 DEF Watching, Closed
    <2>3. CASE ~Closed("Status") /\ t \in PingChecks
      <3>1. mbox'["Status"] = Append(mbox["Status"], GetAndRemovePacketStatus(t))
        BY <1>1, <2>1, <2>3 DEF Post, Accepts
      <3>2. GetAndRemovePacketStatus(t) \in PingEnds
        BY <2>3 DEF PingEnds
      <3>3. TakenBack(Append(mbox["Status"], GetAndRemovePacketStatus(t)), PingWaits, PingEnds)
        BY <1>1, <3>2, PingEndsAreOthers, TakenBackEnds
      <3>4. PingWaits' = PingWaits
        BY <2>1 DEF PingWaits
      <3> QED
        BY <3>1, <3>3, <3>4 DEF Watching, PingEnding
    <2>4. CASE ~Closed("Status") /\ t \notin PingChecks
      <3>1. Grows(mbox, "Pingreq") /\ Grows(mbox, "Status")
        BY <2>1, <2>4, NoneSets, PostGrows
      <3>2. \A u \in BagToSet(asking) : u \in PingChecks => u \in BagToSet(asking')
        BY <2>1, <2>4, BagRemoveOthers
      <3> QED
        BY <2>1, <3>1, <3>2, StillWatching DEF SomeoneWatches, PingAside
    <2> QED
      BY <2>2, <2>3, <2>4
  <1>6. CASE StatusChecked
    <2>1. PICK r \in BagToSet(answered) :
              /\ \/ mbox' = Post(mbox, r.task.actor, r.task.msg)
                 \/ mbox' = Post(mbox, "Stop", StopMessage)
                 \/ mbox' = mbox
              /\ UNCHANGED <<alive, resends, packetStatus, timers, asking>>
      BY <1>6 DEF StatusChecked
    <2>2. r.task.msg \in SendPings
      BY KeepKFields, PingTasksTyped DEF SessionOK
    <2>3. Grows(mbox, "Pingreq") /\ Grows(mbox, "Status")
      BY <2>1, <2>2, NoneSets, PostGrows, GrowsItself
    <2> QED
      BY <2>1, <2>3, StillWatching DEF SomeoneWatches, PingAside
  <1>7. CASE TransportNext /\ UNCHANGED statusVars
    <2>1. Grows(mbox, "Pingreq") /\ Grows(mbox, "Status")
      BY <1>7, TransportAside, GrowsItself
    <2>2. resends' = resends
      BY <1>7 DEF TransportNext, SendHandle, RecvPacket, DispatchHandle, RecvError, RecvFails,
                  WriteError, DispatchOrphaned
    <2> QED
      BY <1>7, <2>1, <2>2, StillWatching DEF SomeoneWatches, PingAside, statusVars
  <1>8. CASE StopHandle
    <2>1. PICK a \in Registered : HandleStop(a)
      BY <1>8 DEF StopHandle
    <2>2. CASE a \in {"Pingreq", "Status", "Send"}
      BY <2>1, <2>2 DEF HandleStop, Watching
    <2>3. CASE a \notin {"Pingreq", "Status", "Send"}
      <3> DEFINE box == [mbox EXCEPT ![a] = <<>>]
      <3>1. \A b \in {"Pingreq", "Status"} : b \in DOMAIN box /\ box[b] = mbox[b]
        BY <1>1, <2>3
      <3>2. mbox' = box \/ mbox' = Post(box, "Stop", StopMessage)
        BY <2>1 DEF HandleStop
      <3> HIDE DEF box
      <3>3. Grows(mbox, "Pingreq") /\ Grows(mbox, "Status")
        BY <3>1, <3>2, PostElsewhere DEF Grows
      <3>4. \A t \in BagToSet(timers) : t.owner = "Pingreq"
        BY KeepKFields, PingTasksTyped DEF SessionOK, PingTasksOrChecks
      <3>5. BagToSet(timers') = BagToSet(timers)
        BY <2>1, <2>3, <3>4 DEF HandleStop, BagToSet
      <3>6. UNCHANGED <<resends, packetStatus, asking>>
        BY <2>1 DEF HandleStop
      <3> QED
        BY <3>3, <3>5, <3>6, StillWatching DEF SomeoneWatches, PingAside
    <2> QED
      BY <2>2, <2>3
  <1> QED
    BY <1>2, <1>3, <1>4, <1>5, <1>6, <1>7, <1>8 DEF Background, TaskNext

LEMMA WatchingStep ==
    ASSUME TypeOK, Watching, Next
    PROVE  Watching'
  <1>1. CASE \/ Tick \/ AskConnected \/ PingAnswered \/ BrokerPing
             \/ ConnectStatusOrphaned /\ Elsewhere
             \/ ConnectingStep /\ UNCHANGED <<statusVars, pingVars>>
    BY <1>1, WatchedMeanwhile
  <1>2. CASE PingreqHandle \/ ExistsHandle
    BY <1>2, QuestionWatched
  <1>3. CASE PingrespHandle
    BY <1>3, PingrespWatched
  <1>4. CASE SendPingHandle
    BY <1>4, SendPingWatched
  <1>5. CASE PingStatusHandle
    BY <1>5, PingStatusWatched
  <1>6. CASE Background
    BY <1>6, BackgroundWatched
  <1> QED
    BY <1>1, <1>2, <1>3, <1>4, <1>5, <1>6 DEF Next

\* KeepAlive.tla, PingWatched: while SendActor lives, a ping that waits for its
\* answer has a SendPing that will ask about it, or is being given up, although
\* every SendPing and every question of the interval uses status 0
\* (src/actors/packets/pingreq.rs:98-106, macros.rs:163-203).
THEOREM PingsAreWatched == Spec => []PingWatched
  <1>1. Init => Watching
    <2> SUFFICES ASSUME Init PROVE PingEnding
      BY DEF Watching
    <2>1. mbox["Status"] = <<>> /\ packetStatus[0] = NoStatus
      BY ActorsOfPing, StatusAssumption
         DEF Init, SessionInit, ActorsInit, StatusInit, Id
    <2> QED
      BY <2>1 DEF PingEnding, PingWaits, TakenBack
  <1>2. TypeOK /\ Watching /\ [Next]_keepAliveVars => Watching'
    <2> SUFFICES ASSUME Watching, UNCHANGED keepAliveVars
                 PROVE  Watching'
      BY WatchingStep
    <2> QED
      BY DEF Watching, SomeoneWatches, PingInMailbox, PingAside, PingEnding, PingWaits,
             keepAliveVars, sessionVars, actorVars, statusVars
  <1>3. TypeOK /\ Watching => PingWatched
    <2> SUFFICES ASSUME TypeOK, SomeoneWatches \/ PingEnding, packetStatus[0] # NoStatus
                 PROVE  \/ Continues("Pingreq", IsSendPing)
                        \/ \E i \in DOMAIN mbox["Status"] :
                               mbox["Status"][i] = RemovePacketStatus(0)
      BY DEF PingWatched, Watching
    <2>1. \A m \in SendPings : IsSendPing(m)
      BY DEF SendPings, SendPing, IsSendPing
    <2>2. \A t \in PingChecks : t.actor = "Pingreq" /\ IsSendPing(t.msg)
      BY <2>1, PingTasksTyped DEF PingTasksOrChecks
    <2>3. CASE PingInMailbox(mbox)
      BY <2>1, <2>3 DEF PingInMailbox, Continues
    <2>4. CASE PingAside
      <3>1. BagToSet(timers) \subseteq PingChecks
            /\ \A r \in BagToSet(resends) : r.to = "Pingreq" => IsSendPing(r.msg)
        BY <2>1, KeepContext, KeepKFields DEF SessionOK
      <3> QED
        BY <2>2, <2>4, <3>1 DEF PingAside, Continues
    <2>5. CASE PingEnding
      <3>1. mbox["Status"] \in Seq(KeepK.messages["Status"])
        BY KeepContext, ActorsOfPing DEF SessionOK
      <3>2. PICK j \in 1 .. Len(mbox["Status"]) : mbox["Status"][j] \in PingEnds
        BY <2>5 DEF PingEnding, TakenBack, PingWaits
      <3>3. j \in DOMAIN mbox["Status"]
        BY <3>1
      <3>4. CASE mbox["Status"][j] = RemovePacketStatus(0)
        BY <3>3, <3>4
      <3>5. CASE \E t \in PingChecks : mbox["Status"][j] = GetAndRemovePacketStatus(t)
        <4>1. j \in QuestionsFor("Pingreq", IsSendPing)
          BY <2>2, <3>3, <3>5 DEF QuestionsFor, GetAndRemovePacketStatus
        <4> QED
          BY <4>1 DEF Continues
      <3> QED
        BY <3>2, <3>4, <3>5 DEF PingEnds
    <2> QED
      BY <2>3, <2>4, <2>5 DEF SomeoneWatches
  <1> QED
    BY <1>1, <1>2, <1>3, KeepAliveTypeCorrect, PTL DEF Spec

-----------------------------------------------------------------------------
(* How many PINGREQ what is on its way may still become.  A tick, and the   *)
(* questions of its task, may become as many as the retry_count allows, a   *)
(* SendPing one for every attempt it has left.                             *)

Attempts == MaxRetryCount + 1

PingsLeft(a, m) ==
    CASE a = "Pingreq" /\ m = PingreqMessage -> Attempts
      [] a = "Pingreq" /\ m \in SendPings -> Attempts - m.retry
      [] a = "ConnectStatus" /\ m = ConnectedQuestion -> Attempts
      [] a = "Status" /\ m.type = "Status" /\ m.op = "GetAndRemove" -> Attempts - m.task.msg.retry
      [] OTHER -> 0

PingWorth == [a \in Actor |-> [m \in KeepK.messages[a] |-> PingsLeft(a, m)]]

LEMMA PingWorthIs ==
    \A a \in Actor : \A m \in KeepK.messages[a] : PingWorth[a][m] = PingsLeft(a, m)
  BY DEF PingWorth

LEMMA AttemptsLeft ==
    ASSUME NEW msg \in SendPings
    PROVE  /\ Attempts \in Nat /\ msg.retry \in Nat
           /\ Attempts - msg.retry \in Nat
           /\ ~RetryExhausted(msg) => /\ Retried(msg) \in SendPings
                                      /\ Retried(msg).retry = msg.retry + 1
                                      /\ 1 <= Attempts - msg.retry
           /\ msg = SendPing(0) => msg.retry = 0
  <1>1. PICK retry \in Retry : msg = SendPing(retry)
    BY DEF SendPings
  <1>2. msg.retry = retry /\ Retried(msg) = SendPing(retry + 1) /\ Retried(msg).retry = retry + 1
    BY <1>1 DEF SendPing, Retried
  <1>3. MaxRetryCount \in Nat /\ retry \in 0 .. MaxRetryCount + 1
    BY StatusAssumption DEF Retry
  <1>4. msg = SendPing(0) => msg.retry = 0
    BY DEF SendPing
  <1> QED
    BY <1>2, <1>3, <1>4, SendPingRetried DEF Attempts, RetryExhausted

LEMMA WorthOfTick ==
    /\ PingWorth["Pingreq"][PingreqMessage] = Attempts
    /\ PingWorth["ConnectStatus"][ConnectedQuestion] = Attempts
  <1>1. /\ PingreqMessage \in KeepK.messages["Pingreq"]
        /\ ConnectedQuestion \in KeepK.messages["ConnectStatus"]
    BY KeepMessages DEF ConnectStatusMessages
  <1>2. PingreqMessage \notin SendPings
    BY DEF PingreqMessage, SendPings, SendPing
  <1>3. PingsLeft("Pingreq", PingreqMessage) = Attempts
    BY <1>2 DEF PingsLeft
  <1>4. PingsLeft("ConnectStatus", ConnectedQuestion) = Attempts
    BY DEF PingsLeft
  <1> QED
    BY <1>1, <1>3, <1>4, PingWorthIs, ActorsOfPing

LEMMA WorthOfSendPing ==
    ASSUME NEW msg \in SendPings
    PROVE  PingWorth["Pingreq"][msg] = Attempts - msg.retry
  <1>1. msg \in KeepK.messages["Pingreq"] /\ msg # PingreqMessage
    BY KeepMessages DEF PingreqMessage, SendPings, SendPing
  <1>2. PingsLeft("Pingreq", msg) = Attempts - msg.retry
    BY <1>1 DEF PingsLeft
  <1> QED
    BY <1>1, <1>2, PingWorthIs, ActorsOfPing

LEMMA WorthOfPingTask ==
    ASSUME NEW t \in PingTasksOrChecks
    PROVE  PingWorth["Status"][GetAndRemovePacketStatus(t)] = Attempts - t.msg.retry
  <1>1. GetAndRemovePacketStatus(t) \in KeepK.messages["Status"]
    BY KeepMessages DEF PingStatusMessages
  <1>2. PingsLeft("Status", GetAndRemovePacketStatus(t)) = Attempts - t.msg.retry
    BY DEF PingsLeft, GetAndRemovePacketStatus
  <1> QED
    BY <1>1, <1>2, PingWorthIs, ActorsOfPing

LEMMA WorthNothing ==
    /\ \A a \in Actor : PingWorth[a][StopMessage] = 0
    /\ \A msg \in Pingresps : PingWorth["Pingresp"][msg] = 0
    /\ \A msg \in Connacks : PingWorth["Connack"][msg] = 0
    /\ \A packet \in ClientPackets : PingWorth["Send"][VariablePacketMessage(packet)] = 0
    /\ \A packet \in ServerPackets : PingWorth["Dispatch"][VariablePacketMessage(packet)] = 0
    /\ PingWorth["Connect"][ConnectMessage] = 0
    /\ \A op \in {SetPacketStatus(0, "Unit"), RemovePacketStatus(0)} :
           PingWorth["Status"][op] = 0 /\ PingWorth["ConnectStatus"][op] = 0
    /\ PingWorth["ConnectStatus"][SetPacketStatus(1, "Unit")] = 0
    /\ PingWorth["ConnectStatus"][ConnectQuestion] = 0
  <1> USE ActorsOfPing, KeepMessages
  <1>1. \A a \in Actor : PingWorth[a][StopMessage] = 0
    <2>1. ASSUME NEW a \in Actor PROVE PingsLeft(a, StopMessage) = 0
      BY DEF PingsLeft, StopMessage, PingreqMessage, SendPings, SendPing, ConnectedQuestion
    <2> QED
      BY <2>1, PingWorthIs
  <1>2. \A msg \in Pingresps : PingWorth["Pingresp"][msg] = 0
    <2>1. \A msg : PingsLeft("Pingresp", msg) = 0
      BY DEF PingsLeft
    <2> QED
      BY <2>1, PingWorthIs
  <1>3. \A msg \in Connacks : PingWorth["Connack"][msg] = 0
    <2>1. \A msg : PingsLeft("Connack", msg) = 0
      BY DEF PingsLeft
    <2> QED
      BY <2>1, PingWorthIs
  <1>4. \A packet \in ClientPackets : PingWorth["Send"][VariablePacketMessage(packet)] = 0
    <2>1. \A msg : PingsLeft("Send", msg) = 0
      BY DEF PingsLeft
    <2> QED
      BY <2>1, PingWorthIs
  <1>5. \A packet \in ServerPackets : PingWorth["Dispatch"][VariablePacketMessage(packet)] = 0
    <2>1. \A msg : PingsLeft("Dispatch", msg) = 0
      BY DEF PingsLeft
    <2> QED
      BY <2>1, PingWorthIs
  <1>6. PingWorth["Connect"][ConnectMessage] = 0
    <2>1. PingsLeft("Connect", ConnectMessage) = 0
      BY DEF PingsLeft
    <2> QED
      BY <2>1, PingWorthIs
  <1>7. ASSUME NEW op \in {SetPacketStatus(0, "Unit"), RemovePacketStatus(0)}
        PROVE  PingWorth["Status"][op] = 0 /\ PingWorth["ConnectStatus"][op] = 0
    <2>1. op \in KeepK.messages["Status"] /\ op \in KeepK.messages["ConnectStatus"]
      BY DEF PingStatusMessages, ConnectStatusMessages
    <2>2. op # ConnectedQuestion /\ op.op # "GetAndRemove"
      BY DEF ConnectedQuestion, SetPacketStatus, RemovePacketStatus
    <2>3. PingsLeft("Status", op) = 0 /\ PingsLeft("ConnectStatus", op) = 0
      BY <2>2 DEF PingsLeft
    <2> QED
      BY <2>1, <2>3, PingWorthIs
  <1>8. ASSUME NEW op \in {SetPacketStatus(1, "Unit"), ConnectQuestion}
        PROVE  PingWorth["ConnectStatus"][op] = 0
    <2>1. op \in KeepK.messages["ConnectStatus"]
      BY DEF ConnectStatusMessages
    <2>2. op # ConnectedQuestion
      BY DEF ConnectedQuestion, SetPacketStatus, ConnectQuestion, GetAndRemovePacketStatus
    <2>3. PingsLeft("ConnectStatus", op) = 0
      BY <2>2 DEF PingsLeft
    <2> QED
      BY <2>1, <2>3, PingWorthIs
  <1> QED
    BY <1>1, <1>2, <1>3, <1>4, <1>5, <1>6, <1>7, <1>8

LEMMA PingWorthNat ==
    ASSUME NEW a \in Actor, NEW m \in KeepK.messages[a]
    PROVE  PingWorth[a][m] \in Nat
  <1>1. Attempts \in Nat
    BY StatusAssumption DEF Attempts
  <1>2. CASE a = "Pingreq"
    <2>1. m = PingreqMessage \/ m = StopMessage \/ m \in SendPings
      BY <1>2, KeepMessages
    <2> QED
      BY <1>1, <1>2, <2>1, WorthOfTick, WorthNothing, WorthOfSendPing, AttemptsLeft
  <1>3. CASE a = "Status"
    <2>1. m = StopMessage \/ m \in {SetPacketStatus(0, "Unit"), RemovePacketStatus(0)}
          \/ \E t \in PingTasksOrChecks : m = GetAndRemovePacketStatus(t)
      BY <1>3, KeepMessages DEF PingStatusMessages
    <2>2. \A t \in PingTasksOrChecks : PingWorth["Status"][GetAndRemovePacketStatus(t)] \in Nat
      BY WorthOfPingTask, PingTasksTyped, AttemptsLeft
    <2> QED
      BY <1>3, <2>1, <2>2, WorthNothing
  <1>4. CASE a = "ConnectStatus"
    <2>1. PingsLeft(a, m) \in {0, Attempts}
      BY <1>4 DEF PingsLeft
    <2> QED
      BY <1>1, <2>1, PingWorthIs
  <1>5. CASE a \notin {"Pingreq", "Status", "ConnectStatus"}
    <2>1. PingsLeft(a, m) = 0
      BY <1>5 DEF PingsLeft
    <2> QED
      BY <2>1, PingWorthIs
  <1> QED
    BY <1>2, <1>3, <1>4, <1>5

LEMMA PingWorthWeighed == Weighed(KeepK, PingWorth)
  <1> USE KeepKFields, ActorsOfPing
  <1>1. \A r \in KeepK.resends : r.to \in Actor
    OBVIOUS
  <1>2. \A a \in Actor : \A m \in KeepK.messages[a] : PingWorth[a][m] \in Nat
    BY PingWorthNat
  <1>3. \A a \in Actor : PingWorth[a][StopMessage] = 0
    BY WorthNothing
  <1>4. \A a \in SendStatusRecipient : \A f \in BOOLEAN :
            PingWorth[a][[type |-> "PacketSendStatus", finished |-> f]] = 0
    BY KeepAliveAssumption
  <1>5. \A t \in KeepK.tasks : "Closed" \notin t.expect
    <2>1. ASSUME NEW t \in PingTasksOrChecks PROVE t.expect \subseteq {"Unit"}
      <3>1. CASE t \in PingChecks
        BY <3>1, PingTasksTyped
      <3>2. CASE t = PingTask
        BY <3>2 DEF PingTask
      <3> QED
        BY <3>1, <3>2 DEF PingTasksOrChecks
    <2> QED
      BY <2>1
  <1>6. ASSUME NEW t \in KeepK.tasks
        PROVE  PingWorth[t.actor][t.msg] <= PingWorth["Status"][GetAndRemovePacketStatus(t)]
    <2>1. t \in PingTasksOrChecks /\ t.actor = "Pingreq" /\ t.msg \in SendPings
      BY PingTasksTyped
    <2>2. /\ PingWorth["Pingreq"][t.msg] = Attempts - t.msg.retry
          /\ PingWorth["Status"][GetAndRemovePacketStatus(t)] = Attempts - t.msg.retry
          /\ Attempts - t.msg.retry \in Nat
      BY <2>1, WorthOfSendPing, WorthOfPingTask, AttemptsLeft
    <2> QED
      BY <2>1, <2>2
  <1>7. ASSUME NEW msg \in KeepK.messages["Dispatch"], msg.type = "Packet"
        PROVE  PingWorth[Target[msg.packet.type]][PacketMessage(msg.packet, 0)] <= PingWorth["Dispatch"][msg]
    <2>1. PICK packet \in ServerPackets : msg = VariablePacketMessage(packet)
      BY <1>7, KeepMessages DEF StopMessage
    <2>2. msg.packet = packet /\ PingWorth["Dispatch"][msg] = 0 /\ 0 \in Retry
      BY <2>1, WorthNothing, StatusAssumption DEF VariablePacketMessage, Retry
    <2>3. CASE packet = PingrespPacket
      <3>1. Target[packet.type] = "Pingresp" /\ PacketMessage(packet, 0) \in Pingresps
        BY <2>2, <2>3, KeepAliveAssumption DEF PingrespPacket, PacketMessage, Pingresps
      <3> QED
        BY <2>2, <3>1, WorthNothing
    <2>4. CASE packet \in {ConnackPacket("Accepted"), ConnackPacket("Refused")}
      <3>1. packet.type = "Connack" /\ Target["Connack"] = "Connack"
        BY <2>4, ConnectingAssumption DEF ConnackPacket
      <3>2. PacketMessage(packet, 0) \in Connacks
        BY <2>2, <2>4, <3>1 DEF PacketMessage, Connacks
      <3> QED
        BY <2>2, <3>1, <3>2, WorthNothing
    <2> QED
      BY <2>3, <2>4 DEF ServerPackets
  <1> QED
    BY <1>1, <1>2, <1>3, <1>4, <1>5, <1>6, <1>7 DEF Weighed

-----------------------------------------------------------------------------
(* The pings sent, those the tasks that have not asked yet may become and   *)
(* those that are on their way never exceed what the ticks allow.          *)

TicksPay ==
    /\ Counted(KeepK, PingWorth)
    /\ pings + inquiries * Attempts + Load(KeepK, PingWorth) <= ticks * Attempts

LEMMA OneMore ==
    ASSUME NEW x \in Nat, NEW c \in Nat
    PROVE  x * c \in Nat /\ (x + 1) * c = x * c + c
  OBVIOUS

LEMMA PaidContext ==
    ASSUME TypeOK, TicksPay
    PROVE  /\ SessionOK(KeepK) /\ Wired(KeepK) /\ Weighed(KeepK, PingWorth)
           /\ Counted(KeepK, PingWorth) /\ BoxesOK(KeepK, mbox) /\ BoxCountable(mbox, PingWorth)
           /\ BoxLoad(mbox, PingWorth) \in Nat /\ Load(KeepK, PingWorth) \in Nat
           /\ pings \in Nat /\ inquiries \in Nat /\ ticks \in Nat /\ Attempts \in Nat
           /\ inquiries * Attempts \in Nat /\ ticks * Attempts \in Nat
           /\ pings + inquiries * Attempts + Load(KeepK, PingWorth) <= ticks * Attempts
  <1>1. SessionOK(KeepK) /\ BoxesOK(KeepK, mbox) /\ KeepVarsOK
    BY KeepContext
  <1>2. Counted(KeepK, PingWorth) /\ BoxCountable(mbox, PingWorth)
        /\ pings + inquiries * Attempts + Load(KeepK, PingWorth) <= ticks * Attempts
    BY DEF TicksPay, Counted
  <1>3. BoxLoad(mbox, PingWorth) \in Nat /\ Load(KeepK, PingWorth) \in Nat
    BY <1>2, LoadsAreNat
  <1>4. pings \in Nat /\ inquiries \in Nat /\ ticks \in Nat /\ Attempts \in Nat
    BY <1>1, StatusAssumption, KeepAliveAssumption DEF KeepVarsOK, Attempts
  <1>5. inquiries * Attempts \in Nat /\ ticks * Attempts \in Nat
    BY <1>4, OneMore
  <1> QED
    BY <1>1, <1>2, <1>3, <1>4, <1>5, KeepWired, PingWorthWeighed

LEMMA QuietPays ==
    ASSUME TypeOK, TicksPay, Lightens(KeepK, PingWorth), UNCHANGED pingVars
    PROVE  TicksPay'
  <1>1. Load(KeepK, PingWorth)' \in Nat /\ Load(KeepK, PingWorth)' <= Load(KeepK, PingWorth)
    BY LoadIsNatNext DEF Lightens
  <1>2. pings + inquiries * Attempts + Load(KeepK, PingWorth)' <= ticks * Attempts
    BY <1>1, PaidContext
  <1>3. ticks' = ticks /\ inquiries' = inquiries /\ pings' = pings
    BY DEF pingVars
  <1>4. pings' + inquiries' * Attempts + Load(KeepK, PingWorth)' <= ticks' * Attempts
    BY <1>2, <1>3
  <1>5. Counted(KeepK, PingWorth)'
    BY DEF Lightens
  <1> QED
    BY <1>4, <1>5 DEF TicksPay

\* A step that changes mailboxes only, and makes them no heavier.
LEMMA BoxesPay ==
    ASSUME TypeOK, TicksPay, BoxCountable(mbox', PingWorth), BoxLoad(mbox', PingWorth) \in Nat,
           BoxLoad(mbox', PingWorth) <= BoxLoad(mbox, PingWorth),
           UNCHANGED <<resends, statusVars, fromBroker, pingVars>>
    PROVE  TicksPay'
  <1>1. UNCHANGED <<resends, timers, asking, answered>> /\ fromBroker' \in {fromBroker, <<>>}
    BY DEF statusVars
  <1>2. Lightens(KeepK, PingWorth)
    BY <1>1, PaidContext, OnlyLess
  <1> QED
    BY <1>2, QuietPays

LEMMA TickPays ==
    ASSUME TypeOK, TicksPay, Tick
    PROVE  TicksPay'
  <1>1. /\ mbox' = Post(mbox, "Pingreq", PingreqMessage) /\ ticks' = ticks + 1
        /\ UNCHANGED <<resends, timers, asking, answered, fromBroker>>
        /\ inquiries' = inquiries /\ pings' = pings
    BY DEF Tick, statusVars, wireVars
  <1>2. PingWorth["Pingreq"][PingreqMessage] \in Nat /\ PingWorth["Pingreq"][PingreqMessage] <= Attempts
    BY PaidContext, WorthOfTick
  <1>3. /\ BoxCountable(mbox', PingWorth) /\ BoxLoad(mbox', PingWorth) \in Nat
        /\ BoxLoad(mbox', PingWorth) <= BoxLoad(mbox, PingWorth) + Attempts
    BY <1>1, <1>2, PaidContext, PostLoad
  <1>4. Counted(KeepK, PingWorth)' /\ Load(KeepK, PingWorth)' <= Load(KeepK, PingWorth) + Attempts
    BY <1>1, <1>3, PaidContext, MailboxGains
  <1>5. Load(KeepK, PingWorth)' \in Nat
    BY <1>4, LoadIsNatNext
  <1>6. (ticks + 1) * Attempts = ticks * Attempts + Attempts
    BY PaidContext, OneMore
  <1>7. pings + inquiries * Attempts + Load(KeepK, PingWorth)' <= (ticks + 1) * Attempts
    BY <1>4, <1>5, <1>6, PaidContext
  <1>8. pings' + inquiries' * Attempts + Load(KeepK, PingWorth)' <= ticks' * Attempts
    BY <1>1, <1>7
  <1> QED
    BY <1>4, <1>8 DEF TicksPay

LEMMA PingreqHandlePays ==
    ASSUME TypeOK, TicksPay, PingreqHandle
    PROVE  TicksPay'
  <1>1. /\ mbox' = Take("Pingreq") /\ inquiries' = inquiries + 1
        /\ UNCHANGED <<resends, timers, asking, answered, fromBroker>>
        /\ ticks' = ticks /\ pings' = pings /\ mbox["Pingreq"] # <<>>
    BY DEF PingreqHandle, statusVars, wireVars, Handling
  <1>2. Head(mbox["Pingreq"]) = PingreqMessage
    <2>1. Head(mbox["Pingreq"]) \in KeepK.messages["Pingreq"]
          /\ Head(mbox["Pingreq"]).type = "Pingreq"
      BY ActorsOfPing, KeepContext, TakeTyped DEF PingreqHandle
    <2> QED
      BY <2>1, KeepMessages DEF SendPings, SendPing, StopMessage
  <1>3. PingWorth["Pingreq"][Head(mbox["Pingreq"])] = Attempts
    BY <1>2, WorthOfTick
  <1>4. /\ BoxCountable(mbox', PingWorth) /\ BoxLoad(mbox', PingWorth) \in Nat
        /\ BoxLoad(mbox', PingWorth) + Attempts <= BoxLoad(mbox, PingWorth)
    BY <1>1, <1>3, ActorsOfPing, PaidContext, TakeLoad
  <1>5. Counted(KeepK, PingWorth)' /\ Load(KeepK, PingWorth)' + Attempts <= Load(KeepK, PingWorth)
    BY <1>1, <1>4, PaidContext, TakenAway
  <1>6. Load(KeepK, PingWorth)' \in Nat
    BY <1>5, LoadIsNatNext
  <1>7. (inquiries + 1) * Attempts = inquiries * Attempts + Attempts
    BY PaidContext, OneMore
  <1>8. pings + (inquiries + 1) * Attempts + Load(KeepK, PingWorth)' <= ticks * Attempts
    BY <1>5, <1>6, <1>7, PaidContext
  <1>9. pings' + inquiries' * Attempts + Load(KeepK, PingWorth)' <= ticks' * Attempts
    BY <1>1, <1>8
  <1> QED
    BY <1>5, <1>9 DEF TicksPay

LEMMA AskConnectedPays ==
    ASSUME TypeOK, TicksPay, AskConnected
    PROVE  TicksPay'
  <1>1. /\ mbox' = Post(mbox, "ConnectStatus", ConnectedQuestion)
        /\ inquiries > 0 /\ inquiries' = inquiries - 1
        /\ UNCHANGED <<resends, timers, asking, answered, fromBroker>>
        /\ ticks' = ticks /\ pings' = pings
    BY DEF AskConnected, statusVars, wireVars
  <1>2. /\ PingWorth["ConnectStatus"][ConnectedQuestion] \in Nat
        /\ PingWorth["ConnectStatus"][ConnectedQuestion] <= Attempts
    BY PaidContext, WorthOfTick
  <1>3. /\ BoxCountable(mbox', PingWorth) /\ BoxLoad(mbox', PingWorth) \in Nat
        /\ BoxLoad(mbox', PingWorth) <= BoxLoad(mbox, PingWorth) + Attempts
    BY <1>1, <1>2, PaidContext, PostLoad
  <1>4. Counted(KeepK, PingWorth)' /\ Load(KeepK, PingWorth)' <= Load(KeepK, PingWorth) + Attempts
    BY <1>1, <1>3, PaidContext, MailboxGains
  <1>5. Load(KeepK, PingWorth)' \in Nat
    BY <1>4, LoadIsNatNext
  <1>6. PICK left \in Nat : inquiries = left + 1
    <2>1. inquiries - 1 \in Nat /\ inquiries = (inquiries - 1) + 1
      BY <1>1, PaidContext
    <2> QED
      BY <2>1
  <1>7. inquiries * Attempts = left * Attempts + Attempts /\ left * Attempts \in Nat
    BY <1>6, PaidContext, OneMore
  <1>8. pings + left * Attempts + Load(KeepK, PingWorth)' <= ticks * Attempts
    BY <1>4, <1>5, <1>7, PaidContext
  <1>9. inquiries' = left
    BY <1>1, <1>6
  <1>10. pings' + inquiries' * Attempts + Load(KeepK, PingWorth)' <= ticks' * Attempts
    BY <1>1, <1>8, <1>9
  <1> QED
    BY <1>4, <1>10 DEF TicksPay

LEMMA ExistsHandlePays ==
    ASSUME TypeOK, TicksPay, ExistsHandle
    PROVE  TicksPay'
  <1>1. /\ mbox' = Take("ConnectStatus") /\ mbox["ConnectStatus"] # <<>>
        /\ asking' = asking \/ asking' = BagAdd(asking, PingTask)
        /\ UNCHANGED <<resends, timers, answered, fromBroker, pingVars>>
    BY DEF ExistsHandle, wireVars, Handling
  <1>2. Head(mbox["ConnectStatus"]) = ConnectedQuestion
    <2>1. Head(mbox["ConnectStatus"]) \in KeepK.messages["ConnectStatus"]
          /\ Head(mbox["ConnectStatus"]).type = "Exists"
      BY ActorsOfPing, KeepContext, TakeTyped DEF ExistsHandle
    <2> QED
      BY <2>1, KeepMessages DEF ConnectStatusMessages, SetPacketStatus, RemovePacketStatus,
         ConnectQuestion, GetAndRemovePacketStatus, StopMessage
  <1>3. PingWorth["ConnectStatus"][Head(mbox["ConnectStatus"])] = Attempts
    BY <1>2, WorthOfTick
  <1> SUFFICES Lightens(KeepK, PingWorth)
    BY <1>1, QuietPays
  <1>4. CASE asking' = asking
    <2>1. /\ BoxCountable(mbox', PingWorth) /\ BoxLoad(mbox', PingWorth) \in Nat
          /\ BoxLoad(mbox', PingWorth) + Attempts <= BoxLoad(mbox, PingWorth)
      BY <1>1, <1>3, ActorsOfPing, PaidContext, TakeLoad
    <2>2. BoxLoad(mbox', PingWorth) <= BoxLoad(mbox, PingWorth)
      BY <2>1, PaidContext
    <2> QED
      BY <1>1, <1>4, <2>1, <2>2, PaidContext, OnlyLess
  <1>5. CASE asking' = BagAdd(asking, PingTask)
    <2>1. PingTask \in PingTasksOrChecks /\ PingTask.msg = SendPing(0) /\ SendPing(0) \in SendPings
      BY StatusAssumption DEF PingTasksOrChecks, PingTask, SendPings, Retry
    <2>2. PingWorth["Status"][GetAndRemovePacketStatus(PingTask)] = Attempts - SendPing(0).retry
      BY <2>1, WorthOfPingTask
    <2>3. PingWorth["Status"][GetAndRemovePacketStatus(PingTask)] <= Attempts
      BY <2>1, <2>2, AttemptsLeft
    <2> QED
      BY <1>1, <1>3, <1>5, <2>1, <2>3, ActorsOfPing, KeepKFields, PaidContext, TaskStarts
  <1> QED
    BY <1>1, <1>4, <1>5

LEMMA PingAnsweredPays ==
    ASSUME TypeOK, TicksPay, PingAnswered
    PROVE  TicksPay'
  <1>1. PICK r \in BagToSet(answered) :
            /\ r.task.kind = "ping"
            /\ answered' = BagRemove(answered, r)
            /\ mbox' = CASE r.answer = NoStatus -> Post(mbox, "Pingreq", SendPing(0))
                         [] r.answer = "Closed" -> Post(mbox, "Stop", StopMessage)
                         [] OTHER -> mbox
            /\ UNCHANGED <<alive, resends, packetStatus, timers, asking, wireVars, connectVars, pingVars>>
    BY DEF PingAnswered
  <1>2. UNCHANGED <<resends, timers, asking, fromBroker, pingVars>>
    BY <1>1 DEF wireVars
  <1>3. r \in [task : PingTasksOrChecks, answer : Answer]
    BY KeepContext, KeepKFields DEF SessionOK
  <1>4. r.task = PingTask /\ PingTask.msg = SendPing(0) /\ PingTask \in PingTasksOrChecks
    BY <1>1, <1>3, PingTasksTyped DEF PingTask
  <1>5. SendPing(0) \in SendPings
    BY StatusAssumption DEF SendPings, Retry
  <1>6. /\ PingWorth["Pingreq"][SendPing(0)] = Attempts
        /\ PingWorth["Status"][GetAndRemovePacketStatus(PingTask)] = Attempts
    BY <1>4, <1>5, WorthOfPingTask, WorthOfSendPing, AttemptsLeft, PaidContext
  <1>7. AnswerWeight(KeepK, PingWorth)[r] = IF r.answer = "Closed" THEN 0 ELSE Attempts
    BY <1>3, <1>4, <1>6, KeepKFields DEF AnswerWeight
  <1>8. NoStatus # "Closed"
    BY DEF NoStatus
  <1> SUFFICES Lightens(KeepK, PingWorth)
    BY <1>2, QuietPays
  <1>9. ASSUME NEW k \in Nat, k <= AnswerWeight(KeepK, PingWorth)[r],
               BoxCountable(mbox', PingWorth), BoxLoad(mbox', PingWorth) \in Nat,
               BoxLoad(mbox', PingWorth) <= BoxLoad(mbox, PingWorth) + k
        PROVE  Lightens(KeepK, PingWorth)
    <2>1. Adds(KeepK, PingWorth, mbox, k)
      BY <1>2, <1>9, PaidContext, AddsToBox
    <2> QED
      BY <1>1, <1>2, <1>9, <2>1, PaidContext, TaskEnds
  <1>10. CASE r.answer = NoStatus
    <2>1. mbox' = Post(mbox, "Pingreq", SendPing(0))
      BY <1>1, <1>8, <1>10
    <2>2. /\ PingWorth["Pingreq"][SendPing(0)] \in Nat
          /\ PingWorth["Pingreq"][SendPing(0)] <= Attempts /\ Attempts \in Nat
      BY <1>6, PaidContext
    <2>3. /\ BoxCountable(mbox', PingWorth) /\ BoxLoad(mbox', PingWorth) \in Nat
          /\ BoxLoad(mbox', PingWorth) <= BoxLoad(mbox, PingWorth) + Attempts
      BY <2>1, <2>2, PaidContext, PostLoad
    <2>4. Attempts <= AnswerWeight(KeepK, PingWorth)[r]
      BY <1>7, <1>8, <1>10, <2>2
    <2> QED
      BY <1>9, <2>2, <2>3, <2>4
  <1>11. CASE r.answer # NoStatus
    <2>1. mbox' = mbox \/ mbox' = Post(mbox, "Stop", StopMessage)
      BY <1>1, <1>11
    <2>2. /\ BoxCountable(mbox', PingWorth) /\ BoxLoad(mbox', PingWorth) \in Nat
          /\ BoxLoad(mbox', PingWorth) <= BoxLoad(mbox, PingWorth)
      <3>1. CASE mbox' = mbox
        BY <3>1, PaidContext
      <3>2. CASE mbox' = Post(mbox, "Stop", StopMessage)
        BY <3>2, PaidContext, PostStopLoad
      <3> QED
        BY <2>1, <3>1, <3>2
    <2>3. 0 \in Nat /\ 0 <= AnswerWeight(KeepK, PingWorth)[r]
      BY <1>7, PaidContext
    <2>4. BoxLoad(mbox', PingWorth) <= BoxLoad(mbox, PingWorth) + 0
      BY <2>2, PaidContext
    <2> QED
      BY <1>9, <2>2, <2>3, <2>4
  <1> QED
    BY <1>10, <1>11

\* An attempt is taken away and becomes a PINGREQ, or is made again later.
LEMMA SendPingHandlePays ==
    ASSUME TypeOK, TicksPay, SendPingHandle
    PROVE  TicksPay'
  <1> DEFINE w      == PingWorth
             msg    == Head(mbox["Pingreq"])
             n      == w["Pingreq"][msg]
             op     == SetPacketStatus(0, "Unit")
             check  == StatusCheck("Pingreq", "Pingreq", PingreqPacket.id, Retried(msg), {"Unit"})
  <1>1. /\ Handling("Pingreq", "SendPing") /\ mbox["Pingreq"] # <<>>
        /\ SendPacketHandle("Pingreq", msg, op, PingreqPacket, {"Unit"})
        /\ pings' \in {pings, pings + 1}
        /\ RetryExhausted(msg) => pings' = pings
        /\ inquiries' = inquiries /\ ticks' = ticks
        /\ UNCHANGED <<asking, answered, fromBroker>>
    BY DEF SendPingHandle, SendPacketHandle, Handling, wireVars
  <1>2. /\ SessionOK(KeepK) /\ Wired(KeepK) /\ Weighed(KeepK, w) /\ Counted(KeepK, w)
        /\ BoxCountable(mbox, w) /\ "Pingreq" \in Actor
    BY PaidContext, ActorsOfPing
  <1>3. msg \in SendPings
    BY <1>1, PingHeads
  <1>4. n = Attempts - msg.retry /\ n \in Nat /\ msg.retry \in Nat /\ Attempts \in Nat
    BY <1>3, WorthOfSendPing, AttemptsLeft
  <1>5. BoxesOK(KeepK, Take("Pingreq")) /\ BoxCountable(Take("Pingreq"), w)
    BY <1>1, <1>2, TakeTyped, TakeLoad
  <1>6. /\ op \in KeepK.messages["Status"] /\ w["Status"][op] = 0
        /\ PingreqPacket.id = 0 /\ w["Status"][RemovePacketStatus(0)] = 0
        /\ w["Send"][VariablePacketMessage(PingreqPacket)] = 0
    BY KeepMessages, WorthNothing DEF PingStatusMessages, PingreqPacket, ClientPackets
  <1>7. SendPacketHandle("Pingreq", msg, op, PingreqPacket, {"Unit"}) =>
            IF RetryExhausted(msg)
            THEN GiveUp(Take("Pingreq"), 0)
            ELSE SetSendSchedule(Take("Pingreq"), "Pingreq", op, PingreqPacket, check, Retried(msg))
    BY <1>6 DEF SendPacketHandle
  <1>8. ASSUME ~RetryExhausted(msg)
        PROVE  /\ n - 1 \in Nat /\ (n - 1) + 1 <= n
               /\ [to |-> "Pingreq", msg |-> Retried(msg)] \in KeepK.resends
               /\ w["Pingreq"][Retried(msg)] <= n - 1
               /\ check \in KeepK.tasks
               /\ w["Status"][GetAndRemovePacketStatus(check)] <= n - 1
    <2>1. Retried(msg) \in SendPings /\ Retried(msg).retry = msg.retry + 1 /\ 1 <= Attempts - msg.retry
      BY <1>3, <1>8, AttemptsLeft
    <2>2. n - 1 \in Nat /\ (n - 1) + 1 <= n /\ Attempts - Retried(msg).retry <= n - 1
      BY <1>4, <2>1
    <2>3. check \in PingTasksOrChecks /\ check.msg = Retried(msg)
      BY <1>6, <2>1 DEF PingTasksOrChecks, PingChecks, StatusCheck
    <2>4. /\ w["Pingreq"][Retried(msg)] = Attempts - Retried(msg).retry
          /\ w["Status"][GetAndRemovePacketStatus(check)] = Attempts - Retried(msg).retry
      BY <2>1, <2>3, WorthOfSendPing, WorthOfPingTask
    <2>5. [to |-> "Pingreq", msg |-> Retried(msg)] \in KeepK.resends
      BY <2>1, KeepKFields
    <2> QED
      BY <2>2, <2>3, <2>4, <2>5, KeepKFields
  <1>9. n = w["Pingreq"][Head(mbox["Pingreq"])]
    OBVIOUS
  <1> HIDE DEF w, msg, n, op, check
  <1>10. PICK k \in {0, 1} : /\ pings' <= pings + k /\ pings' \in Nat
                             /\ Counted(KeepK, w)' /\ Load(KeepK, w)' + k <= Load(KeepK, w)
    <2>1. pings \in Nat
      BY PaidContext
    <2>2. CASE RetryExhausted(msg)
      <3>1. 0 \in Nat /\ 0 + 0 <= n
        BY <1>4
      <3>2. Adds(KeepK, w, Take("Pingreq"), 0)
        BY <1>1, <1>2, <1>5, <1>6, <1>7, <2>2, <3>1, GiveUpAdds
      <3>3. Counted(KeepK, w)' /\ Load(KeepK, w)' + 0 <= Load(KeepK, w)
        BY <1>1, <1>2, <1>9, <3>1, <3>2, HandlerSpends
      <3>4. pings' <= pings + 0 /\ pings' \in Nat
        BY <1>1, <2>1, <2>2
      <3> QED
        BY <3>3, <3>4
    <2>3. CASE ~RetryExhausted(msg)
      <3> DEFINE p == n - 1
      <3>1. /\ p \in Nat /\ p + 1 <= n /\ 1 \in Nat
            /\ [to |-> "Pingreq", msg |-> Retried(msg)] \in KeepK.resends
            /\ w["Pingreq"][Retried(msg)] <= p
            /\ check \in KeepK.tasks
            /\ w["Status"][GetAndRemovePacketStatus(check)] <= p
        BY <1>8, <2>3
      <3> HIDE DEF p
      <3>2. SetSendSchedule(Take("Pingreq"), "Pingreq", op, PingreqPacket, check, Retried(msg))
        BY <1>1, <1>7, <2>3
      <3>3. Adds(KeepK, w, Take("Pingreq"), p)
        BY <1>2, <1>5, <1>6, <3>1, <3>2, SetSendScheduleAdds
      <3>4. Counted(KeepK, w)' /\ Load(KeepK, w)' + 1 <= Load(KeepK, w)
        BY <1>1, <1>2, <1>9, <3>1, <3>3, HandlerSpends
      <3>5. pings' <= pings + 1 /\ pings' \in Nat
        BY <1>1, <2>1
      <3> QED
        BY <3>4, <3>5
    <2> QED
      BY <2>2, <2>3
  <1>11. Load(KeepK, w)' \in Nat
    BY <1>10, LoadIsNatNext
  <1>12. pings' + inquiries * Attempts + Load(KeepK, w)' <= ticks * Attempts
    BY <1>10, <1>11, PaidContext DEF w
  <1>13. pings' + inquiries' * Attempts + Load(KeepK, w)' <= ticks' * Attempts
    BY <1>1, <1>12
  <1> QED
    BY <1>10, <1>13 DEF TicksPay, w

LEMMA PingrespHandlePays ==
    ASSUME TypeOK, TicksPay, PingrespHandle
    PROVE  TicksPay'
  <1> DEFINE msg == Head(mbox["Pingresp"])
  <1>1. ResponseHandle("Pingresp", "Pingresp") /\ UNCHANGED <<fromBroker, pingVars>>
    BY DEF PingrespHandle, wireVars
  <1>2. msg \in Pingresps
    BY <1>1, PingHeads DEF ResponseHandle
  <1>3. msg.packet.id = 0
    BY <1>2 DEF Pingresps, PingrespPacket
  <1>4. /\ PingWorth["Status"][RemovePacketStatus(msg.packet.id)] = 0
        /\ [to |-> "Pingresp", msg |-> msg] \in KeepK.resends
    BY <1>2, <1>3, WorthNothing, KeepKFields
  <1>5. Lightens(KeepK, PingWorth)
    BY <1>1, <1>4, PaidContext, ActorsOfPing, ResponseHandleLightens
  <1> QED
    BY <1>1, <1>5, QuietPays

LEMMA PingStatusHandlePays ==
    ASSUME TypeOK, TicksPay, PingStatusHandle
    PROVE  TicksPay'
  <1>1. StatusHandle /\ UNCHANGED <<fromBroker, pingVars>>
    BY DEF PingStatusHandle, wireVars
  <1>2. Lightens(KeepK, PingWorth)
    BY <1>1, PaidContext, StatusHandleLightens
  <1> QED
    BY <1>1, <1>2, QuietPays

LEMMA BackgroundPays ==
    ASSUME TypeOK, TicksPay, Background, UNCHANGED pingVars
    PROVE  TicksPay'
  <1>1. Lightens(KeepK, PingWorth)
    BY PaidContext, BackgroundLightens
  <1> QED
    BY <1>1, QuietPays

\* A packet from the server is worth nothing here.
LEMMA ServerPays ==
    ASSUME TypeOK, TicksPay, NEW packet \in ServerPackets, fromBroker' = Append(fromBroker, packet),
           UNCHANGED <<mbox, resends, timers, asking, answered, pingVars>>
    PROVE  TicksPay'
  <1>1. PingWorth["Dispatch"][VariablePacketMessage(packet)] = 0
    BY WorthNothing
  <1>2. /\ Counted(KeepK, PingWorth)'
        /\ Load(KeepK, PingWorth)'
               <= Load(KeepK, PingWorth) + PingWorth["Dispatch"][VariablePacketMessage(packet)]
    BY PaidContext, ServerSends, KeepKFields
  <1>3. Load(KeepK, PingWorth)' \in Nat
    BY <1>2, LoadIsNatNext
  <1>4. Lightens(KeepK, PingWorth)
    BY <1>1, <1>2, <1>3, PaidContext DEF Lightens
  <1> QED
    BY <1>4, QuietPays

LEMMA BrokerPingPays ==
    ASSUME TypeOK, TicksPay, BrokerPing
    PROVE  TicksPay'
  <1>1. PingrespPacket \in ServerPackets /\ fromBroker' = Append(fromBroker, PingrespPacket)
    BY DEF BrokerPing, ServerPackets
  <1>2. UNCHANGED <<mbox, resends, timers, asking, answered, pingVars>>
    BY DEF BrokerPing, actorVars, statusVars
  <1> QED
    BY <1>1, <1>2, ServerPays

LEMMA BrokerConnectPays ==
    ASSUME TypeOK, TicksPay, BrokerConnect, UNCHANGED <<statusVars, pingVars>>
    PROVE  TicksPay'
  <1>1. PICK packet \in ServerPackets : fromBroker' = Append(fromBroker, packet)
    BY DEF BrokerConnect, ServerPackets
  <1>2. UNCHANGED <<mbox, resends, timers, asking, answered, pingVars>>
    BY DEF BrokerConnect, actorVars, statusVars
  <1> QED
    BY <1>1, <1>2, ServerPays

\* Nothing that connecting does is worth a ping.
LEMMA ConnackPays ==
    ASSUME TypeOK, TicksPay, ConnackHandle, UNCHANGED <<statusVars, wireVars, pingVars>>
    PROVE  TicksPay'
  <1> DEFINE w    == PingWorth
             box  == Take("Connack")
             less == [box EXCEPT !["Connack"] = <<>>]
  <1>1. /\ SessionOK(KeepK) /\ Weighed(KeepK, w) /\ BoxCountable(mbox, w)
        /\ "Connack" \in Actor /\ mbox["Connack"] # <<>> /\ BoxLoad(mbox, w) \in Nat
    BY PaidContext, ActorsOfPing DEF ConnackHandle, Handling
  <1>2. /\ BoxesOK(KeepK, box) /\ BoxCountable(box, w) /\ BoxLoad(box, w) \in Nat
        /\ BoxLoad(box, w) <= BoxLoad(mbox, w)
    <2>1. BoxesOK(KeepK, box)
      BY <1>1, TakeTyped DEF ConnackHandle
    <2>2. /\ BoxCountable(box, w) /\ BoxLoad(box, w) \in Nat
          /\ w["Connack"][Head(mbox["Connack"])] \in Nat
          /\ BoxLoad(box, w) + w["Connack"][Head(mbox["Connack"])] <= BoxLoad(mbox, w)
      BY <1>1, TakeLoad
    <2> QED
      BY <1>1, <2>1, <2>2
  <1>3. /\ UNCHANGED <<resends, fromBroker>>
        /\ \/ mbox' = Post(box, "Stop", StopMessage)
           \/ mbox' = AcceptedBox(less)
           \/ mbox' = Post(Post(box, "ConnectStatus", RemovePacketStatus(0)), "Stop", StopMessage)
    BY DEF ConnackHandle, wireVars
  <1> HIDE DEF box
  <1>4. /\ BoxesOK(KeepK, less) /\ BoxCountable(less, w) /\ BoxLoad(less, w) \in Nat
        /\ BoxLoad(less, w) <= BoxLoad(box, w)
    BY <1>2, EmptiedTyped, EmptiedLoad
  <1> HIDE DEF less, w
  <1>5. ASSUME NEW new, BoxesOK(KeepK, new), BoxCountable(new, w), BoxLoad(new, w) <= BoxLoad(mbox, w),
               BoxLoad(new, w) \in Nat, NEW c \in {"ConnectStatus", "Connect", "Stop"}, NEW m,
               c = "ConnectStatus" => m \in {RemovePacketStatus(0), SetPacketStatus(1, "Unit")},
               c # "ConnectStatus" => m = StopMessage
        PROVE  /\ BoxesOK(KeepK, Post(new, c, m)) /\ BoxCountable(Post(new, c, m), w)
               /\ BoxLoad(Post(new, c, m), w) \in Nat /\ BoxLoad(Post(new, c, m), w) <= BoxLoad(mbox, w)
    <2>1. c \in Actor /\ m \in KeepK.messages[c] /\ w[c][m] = 0
      BY <1>5, ActorsOfPing, KeepMessages, WorthNothing DEF ConnectStatusMessages, w
    <2>2. BoxesOK(KeepK, Post(new, c, m))
      BY <1>1, <1>5, <2>1, PostTyped
    <2>3. /\ BoxCountable(Post(new, c, m), w)
          /\ BoxLoad(Post(new, c, m), w) \in Nat /\ BoxLoad(Post(new, c, m), w) <= BoxLoad(new, w)
      BY <1>1, <1>5, <2>1, PostNothing
    <2> QED
      BY <1>1, <1>5, <2>2, <2>3
  <1>6. BoxLoad(less, w) <= BoxLoad(mbox, w)
    BY <1>1, <1>2, <1>4
  <1>7. /\ BoxCountable(mbox', w) /\ BoxLoad(mbox', w) \in Nat /\ BoxLoad(mbox', w) <= BoxLoad(mbox, w)
    <2>1. CASE mbox' = Post(box, "Stop", StopMessage)
      BY <1>2, <1>5, <2>1
    <2>2. CASE mbox' = AcceptedBox(less)
      <3> DEFINE one == Post(less, "ConnectStatus", RemovePacketStatus(0))
                 two == Post(one, "ConnectStatus", SetPacketStatus(1, "Unit"))
      <3>1. /\ BoxesOK(KeepK, one) /\ BoxCountable(one, w)
            /\ BoxLoad(one, w) \in Nat /\ BoxLoad(one, w) <= BoxLoad(mbox, w)
        BY <1>4, <1>5, <1>6
      <3>2. mbox' = Post(two, "Connect", StopMessage)
        BY <2>2 DEF AcceptedBox
      <3> HIDE DEF one
      <3>3. /\ BoxesOK(KeepK, two) /\ BoxCountable(two, w)
            /\ BoxLoad(two, w) \in Nat /\ BoxLoad(two, w) <= BoxLoad(mbox, w)
        BY <1>5, <3>1
      <3> HIDE DEF two
      <3> QED
        BY <1>5, <3>2, <3>3
    <2>3. CASE mbox' = Post(Post(box, "ConnectStatus", RemovePacketStatus(0)), "Stop", StopMessage)
      <3> DEFINE one == Post(box, "ConnectStatus", RemovePacketStatus(0))
      <3>1. /\ BoxesOK(KeepK, one) /\ BoxCountable(one, w)
            /\ BoxLoad(one, w) \in Nat /\ BoxLoad(one, w) <= BoxLoad(mbox, w)
        BY <1>2, <1>5
      <3>2. mbox' = Post(one, "Stop", StopMessage)
        BY <2>3
      <3> HIDE DEF one
      <3> QED
        BY <1>5, <3>1, <3>2
    <2> QED
      BY <1>3, <2>1, <2>2, <2>3
  <1> QED
    BY <1>3, <1>7, BoxesPay DEF w

LEMMA ConnectingPays ==
    ASSUME TypeOK, TicksPay, ConnectingStep, UNCHANGED <<statusVars, pingVars>>
    PROVE  TicksPay'
  <1> DEFINE w == PingWorth
             lighter == /\ BoxCountable(mbox', w) /\ BoxLoad(mbox', w) \in Nat
                        /\ BoxLoad(mbox', w) <= BoxLoad(mbox, w)
  <1>1. /\ SessionOK(KeepK) /\ Weighed(KeepK, w) /\ BoxCountable(mbox, w) /\ BoxesOK(KeepK, mbox)
        /\ BoxLoad(mbox, w) \in Nat
    BY PaidContext
  <1>2. CASE ConnackHandle /\ UNCHANGED wireVars
    BY <1>2, ConnackPays
  <1>3. CASE BrokerConnect
    BY <1>3, BrokerConnectPays
  <1>4. ASSUME lighter, UNCHANGED <<resends, fromBroker>>
        PROVE  TicksPay'
    BY <1>4, BoxesPay
  <1>5. /\ w["Connect"][ConnectMessage] = 0 /\ w["ConnectStatus"][ConnectQuestion] = 0
        /\ w["ConnectStatus"][SetPacketStatus(0, "Unit")] = 0
        /\ w["Send"][VariablePacketMessage(ConnectPacket)] = 0
        /\ w["Stop"][StopMessage] = 0 /\ w["Connect"][StopMessage] = 0
    BY WorthNothing, ActorsOfPing DEF ClientPackets
  <1>6. SetPacketStatus(0, "Unit") \in KeepK.messages["ConnectStatus"]
    BY KeepMessages DEF ConnectStatusMessages
  <1> HIDE DEF w
  <1>7. CASE mbox' = mbox /\ UNCHANGED <<resends, fromBroker>>
    BY <1>1, <1>4, <1>7
  <1>8. CASE ClientConnect /\ UNCHANGED wireVars
    BY <1>1, <1>4, <1>5, <1>8, PostNothing DEF ClientConnect, wireVars
  <1>9. CASE ConnectHandle /\ UNCHANGED wireVars
    <2> DEFINE box  == Take("Connect")
               told == Post(box, "ConnectStatus", SetPacketStatus(0, "Unit"))
    <2>1. /\ BoxesOK(KeepK, box) /\ BoxCountable(box, w) /\ BoxLoad(box, w) \in Nat
          /\ BoxLoad(box, w) <= BoxLoad(mbox, w)
      <3>1. Handling("Connect", "Connect") /\ mbox["Connect"] # <<>> /\ "Connect" \in Actor
        BY <1>9, ActorsOfPing DEF ConnectHandle, Handling
      <3>2. BoxesOK(KeepK, box)
        BY <1>1, <3>1, TakeTyped
      <3>3. /\ BoxCountable(box, w) /\ BoxLoad(box, w) \in Nat
            /\ w["Connect"][Head(mbox["Connect"])] \in Nat
            /\ BoxLoad(box, w) + w["Connect"][Head(mbox["Connect"])] <= BoxLoad(mbox, w)
        BY <1>1, <3>1, TakeLoad
      <3> QED
        BY <1>1, <3>2, <3>3
    <2>2. /\ UNCHANGED <<resends, fromBroker>>
          /\ \/ mbox' = Post(told, "Stop", StopMessage)
             \/ mbox' = Post(told, "Send", VariablePacketMessage(ConnectPacket))
      BY <1>9 DEF ConnectHandle, wireVars
    <2> HIDE DEF box
    <2>3. /\ BoxesOK(KeepK, told) /\ BoxCountable(told, w) /\ BoxLoad(told, w) \in Nat
          /\ BoxLoad(told, w) <= BoxLoad(box, w)
      BY <1>1, <1>5, <1>6, <2>1, PostTyped, PostNothing
    <2> HIDE DEF told
    <2>4. /\ BoxCountable(mbox', w) /\ BoxLoad(mbox', w) \in Nat
          /\ BoxLoad(mbox', w) <= BoxLoad(told, w)
      <3>1. CASE mbox' = Post(told, "Stop", StopMessage)
        BY <1>1, <1>5, <2>3, <3>1, PostNothing
      <3>2. CASE mbox' = Post(told, "Send", VariablePacketMessage(ConnectPacket))
        BY <1>1, <1>5, <2>3, <3>2, PostNothing
      <3> QED
        BY <2>2, <3>1, <3>2
    <2>5. lighter
      BY <1>1, <2>1, <2>3, <2>4
    <2> QED
      BY <1>4, <2>2, <2>5
  <1>10. CASE ConnectStop /\ UNCHANGED wireVars
    BY <1>1, <1>4, <1>10, EmptiedLoad DEF ConnectStop, wireVars
  <1>11. CASE TimeoutAsks /\ UNCHANGED wireVars
    BY <1>1, <1>4, <1>5, <1>11, PostNothing DEF TimeoutAsks, wireVars
  <1>12. CASE TimeoutAnswered /\ UNCHANGED wireVars
    <2>1. /\ mbox' = Post(mbox, "Stop", StopMessage) \/ mbox' = Post(mbox, "Connect", StopMessage)
          /\ UNCHANGED <<resends, fromBroker>>
      BY <1>12 DEF TimeoutAnswered, TimeoutStops, wireVars
    <2>2. CASE mbox' = Post(mbox, "Stop", StopMessage)
      BY <1>1, <1>4, <1>5, <2>1, <2>2, PostNothing
    <2>3. CASE mbox' = Post(mbox, "Connect", StopMessage)
      BY <1>1, <1>4, <1>5, <2>1, <2>3, PostNothing
    <2> QED
      BY <2>1, <2>2, <2>3
  <1>13. CASE ConnectStatusHandle /\ UNCHANGED wireVars
    <2>1. /\ mbox["ConnectStatus"] # <<>> /\ mbox' = Take("ConnectStatus")
          /\ UNCHANGED <<resends, fromBroker>>
      BY <1>13 DEF ConnectStatusHandle, Handling, wireVars
    <2>2. /\ BoxCountable(mbox', w) /\ BoxLoad(mbox', w) \in Nat
          /\ w["ConnectStatus"][Head(mbox["ConnectStatus"])] \in Nat
          /\ BoxLoad(mbox', w) + w["ConnectStatus"][Head(mbox["ConnectStatus"])] <= BoxLoad(mbox, w)
      BY <1>1, <2>1, ActorsOfPing, TakeLoad
    <2>3. lighter
      BY <1>1, <2>2
    <2> QED
      BY <1>4, <2>1, <2>3
  <1>14. \/ ClientConnect /\ UNCHANGED wireVars
         \/ ConnectHandle /\ UNCHANGED wireVars
         \/ ConnectStop /\ UNCHANGED wireVars
         \/ TimeoutAsks /\ UNCHANGED wireVars
         \/ TimeoutAnswered /\ UNCHANGED wireVars
         \/ ConnackHandle /\ UNCHANGED wireVars
         \/ ConnectStatusHandle /\ UNCHANGED wireVars
         \/ mbox' = mbox /\ UNCHANGED <<resends, fromBroker>>
         \/ BrokerConnect
    BY DEF ConnectingStep, ConnectReturns, ClientLetsGo, TimeoutFires, ConnackOrphaned,
           ConnectOrphaned, Orphaned, actorVars, wireVars
  <1> QED
    BY <1>2, <1>3, <1>7, <1>8, <1>9, <1>10, <1>11, <1>12, <1>13, <1>14

-----------------------------------------------------------------------------

Paid == TypeOK /\ TicksPay

LEMMA InitPaid == Init => Paid
  <1> SUFFICES ASSUME Init PROVE TicksPay
    BY KeepInitTyped DEF Paid
  <1>1. Counted(KeepK, PingWorth) /\ Load(KeepK, PingWorth) = 0
    BY InitLoad DEF Init
  <1>2. ticks = 0 /\ inquiries = 0 /\ pings = 0 /\ Attempts \in Nat
    BY StatusAssumption DEF Init, KeepAliveInit, Attempts
  <1>3. pings + inquiries * Attempts + Load(KeepK, PingWorth) <= ticks * Attempts
    BY <1>1, <1>2
  <1> QED
    BY <1>1, <1>3 DEF TicksPay

LEMMA StepPaid == Paid /\ [Next]_keepAliveVars => Paid'
  <1> SUFFICES ASSUME TypeOK, TicksPay, [Next]_keepAliveVars PROVE TicksPay'
    BY KeepStepTyped DEF Paid
  <1>1. CASE mbox' = mbox /\ UNCHANGED <<resends, statusVars, fromBroker, pingVars>>
    BY <1>1, PaidContext, BoxesPay
  <1>2. CASE UNCHANGED keepAliveVars
    BY <1>1, <1>2 DEF keepAliveVars, sessionVars, actorVars, wireVars
  <1>3. CASE ConnectStatusOrphaned /\ Elsewhere
    BY <1>1, <1>3 DEF ConnectStatusOrphaned, Orphaned, Elsewhere, wireVars
  <1>4. CASE \/ Tick \/ PingreqHandle \/ AskConnected \/ ExistsHandle \/ PingAnswered
             \/ SendPingHandle \/ PingrespHandle \/ PingStatusHandle
    BY <1>4, TickPays, PingreqHandlePays, AskConnectedPays, ExistsHandlePays, PingAnsweredPays,
       SendPingHandlePays, PingrespHandlePays, PingStatusHandlePays
  <1>5. CASE BrokerPing
    BY <1>5, BrokerPingPays
  <1>6. CASE ConnectingStep /\ UNCHANGED <<statusVars, pingVars>>
    BY <1>6, ConnectingPays
  <1>7. CASE Background /\ UNCHANGED <<connectVars, pingVars>>
    BY <1>7, BackgroundPays
  <1> QED
    BY <1>2, <1>3, <1>4, <1>5, <1>6, <1>7 DEF Next

\* Each tick pays for at most one chain of attempts, although all chains share
\* one status and remove it from each other, and although a full mailbox makes
\* an attempt begin again (pingreq.rs:81-106, macros.rs:163-203).
THEOREM PingsAreBounded == Spec => []PingsBounded
  <1>1. Paid => PingsBounded
    <2> SUFFICES ASSUME TypeOK, TicksPay PROVE pings <= ticks * Attempts
      BY DEF Paid, PingsBounded, Attempts
    <2> QED
      BY PaidContext
  <1> QED
    BY InitPaid, StepPaid, <1>1, PTL DEF Spec

=============================================================================
