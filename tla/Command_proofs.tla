--------------------------- MODULE Command_proofs ---------------------------
(***************************************************************************)
(* Proofs about Command, for every number of requests, identifiers,        *)
(* retries and mailbox places.                                             *)
(*                                                                         *)
(* Chains: a request is followed by one thread of retries only, which      *)
(* MAX_RETRY_COUNT bounds.  It needs nothing of the identifiers.           *)
(*                                                                         *)
(* Attempts: while the status of an attempt is there its check is all that *)
(* may repeat the request, and when an answer has removed the status that  *)
(* check finds nothing.  It needs identifiers that nobody else uses, which *)
(* next_id gives until it repeats itself (FreshIdentifiers).               *)
(*                                                                         *)
(* Chains and Attempts show that Command implements Retransmission, and    *)
(* Removals that a status is only removed when the server took the packet. *)
(***************************************************************************)
EXTENDS Command, Chain_proofs

(* The exchange as Session_proofs sees it. *)

CmdResends ==
    [to : {CommandActor}, msg : BatchMessages] \cup [to : {AnswerType}, msg : AnswerMessages]

CmdK ==
    [messages |-> [a \in Actor |-> MessagesTo(a)],
     resends |-> CmdResends, tasks |-> Tasks, timers |-> Tasks,
     payload |-> {"Unit"}, client |-> CommandPackets, server |-> AnswerPackets]

CmdVarsOK ==
    /\ requested \subseteq Request
    /\ idCounter \in 0 .. UsizeRange - 1
    /\ sentAs \in [Request -> Seq(Id)]
    /\ acked \subseteq Id
    /\ taken \subseteq Id

LEMMA CmdKFields ==
    /\ \A a \in Actor : CmdK.messages[a] = MessagesTo(a)
    /\ CmdK.resends = CmdResends
    /\ CmdK.tasks = Tasks /\ CmdK.timers = Tasks
    /\ CmdK.payload = {"Unit"}
    /\ CmdK.client = CommandPackets /\ CmdK.server = AnswerPackets
  BY DEF CmdK

LEMMA TypeParts ==
    /\ TypeOK <=> SessionOK(CmdK) /\ CmdVarsOK
    /\ TypeOK' <=> SessionOK(CmdK)' /\ CmdVarsOK'
  <1>1. {"Unit"} \cup {NoStatus} = {"Unit", NoStatus}
    OBVIOUS
  <1>2. TypeOK <=> SessionOK(CmdK) /\ CmdVarsOK
    BY <1>1, CmdKFields DEF TypeOK, SessionOK, CmdVarsOK, CmdResends
  <1>3. TypeOK' <=> SessionOK(CmdK)' /\ CmdVarsOK'
    BY <1>1, CmdKFields DEF TypeOK, SessionOK, CmdVarsOK, CmdResends
  <1> QED
    BY <1>2, <1>3

LEMMA CommandActors ==
    /\ {"Stop", "Send", "Recv", "Dispatch", "Status", CommandActor, AnswerType} \subseteq Actor
    /\ CommandActor \notin {"Stop", "Send", "Recv", "Dispatch", "Status", AnswerType}
    /\ AnswerType \notin {"Stop", "Send", "Recv", "Dispatch", "Status", CommandActor}
  BY ActorAssumption, CommandAssumption

-----------------------------------------------------------------------------
(* What each actor finds at the head of its mailbox. *)

LEMMA HeadOfCommand ==
    ASSUME NEW msg \in MessagesTo(CommandActor), msg.type # "Stop"
    PROVE  /\ msg \in BatchMessages \/ \E r \in Request : msg = RequestMessage(r)
           /\ msg.type = "Batch" => msg \in BatchMessages
           /\ msg.type = "Request" => msg.r \in Request
  BY CommandActors DEF MessagesTo, StopMessage, RequestMessage, BatchMessages

LEMMA HeadOfAnswer ==
    ASSUME NEW msg \in MessagesTo(AnswerType), msg.type = AnswerType
    PROVE  msg \in AnswerMessages
  BY CommandActors DEF MessagesTo, StopMessage

LEMMA HeadOfStatus ==
    ASSUME NEW msg \in MessagesTo("Status"), msg.type = "Status"
    PROVE  msg \in StatusMessages
  BY CommandActors DEF MessagesTo, StopMessage

LEMMA HeadOfSend ==
    ASSUME NEW msg \in MessagesTo("Send"), msg.type = "Packet"
    PROVE  msg.packet \in CommandPackets
  BY CommandActors DEF MessagesTo, StopMessage

LEMMA HeadOfDispatch ==
    ASSUME NEW msg \in MessagesTo("Dispatch"), msg.type = "Packet"
    PROVE  msg.packet \in AnswerPackets
  BY CommandActors DEF MessagesTo, StopMessage

LEMMA Dispatched ==
    ASSUME NEW packet \in AnswerPackets
    PROVE  /\ Target[packet.type] = AnswerType
           /\ PacketMessage(packet, 0) \in AnswerMessages
           /\ PacketMessage(packet, 0) \in MessagesTo(AnswerType)
  <1>1. 0 \in Retry
    BY StatusAssumption DEF Retry
  <1>2. packet.type = AnswerType
    BY DEF AnswerPackets
  <1>3. PacketMessage(packet, 0) \in AnswerMessages
    BY <1>1, <1>2 DEF PacketMessage, AnswerMessages
  <1> QED
    BY <1>2, <1>3, CommandAssumption DEF MessagesTo

LEMMA TaskFields ==
    ASSUME NEW t \in Tasks
    PROVE  t.id \in Id /\ t.actor = CommandActor /\ t.msg \in BatchMessages /\ t.expect = {"Unit"}
  BY DEF Tasks

LEMMA CmdWired == Wired(CmdK)
  <1> USE CmdKFields, CommandActors
  <1>1. \A a \in Actor : StopMessage \in CmdK.messages[a]
    BY DEF MessagesTo
  <1>2. \A r \in CmdK.resends : r.msg \in CmdK.messages[r.to]
    <2>1. \A r \in CmdResends : r.to \in Actor /\ r.msg \in MessagesTo(r.to)
      BY DEF CmdResends, MessagesTo
    <2> QED
      BY <2>1
  <1>3. \A t \in CmdK.tasks : /\ GetAndRemovePacketStatus(t) \in CmdK.messages["Status"]
                              /\ t.kind = "check" => t.msg \in CmdK.messages[t.actor]
    <2>1. \A t \in Tasks : GetAndRemovePacketStatus(t) \in MessagesTo("Status")
      BY DEF StatusMessages, MessagesTo
    <2>2. \A t \in Tasks : t.actor \in Actor /\ t.msg \in MessagesTo(t.actor)
      BY TaskFields DEF MessagesTo
    <2> QED
      BY <2>1, <2>2
  <1>4. ASSUME NEW op \in CmdK.messages["Status"], op.type = "Status"
        PROVE  /\ op.id \in Id
               /\ op.op = "Set" => op.payload \in CmdK.payload
               /\ op.op = "GetAndRemove" =>
                      op = GetAndRemovePacketStatus(op.task) /\ op.task \in CmdK.tasks
    <2>1. op \in StatusMessages
      BY <1>4, HeadOfStatus
    <2>2. CASE op \in [type : {"Status"}, op : {"Set"}, id : Id, payload : {"Unit"}]
               \/ op \in [type : {"Status"}, op : {"Remove"}, id : Id]
      BY <2>2
    <2>3. CASE op \in {GetAndRemovePacketStatus(t) : t \in Tasks}
      <3>1. PICK t \in Tasks : op = GetAndRemovePacketStatus(t)
        BY <2>3
      <3> QED
        BY <3>1, TaskFields DEF GetAndRemovePacketStatus
    <2> QED
      BY <2>1, <2>2, <2>3 DEF StatusMessages
  <1>5. CmdK.payload \subseteq Payload
    BY CommandAssumption
  <1>6. SendStatusRecipient = {}
    BY CommandAssumption
  <1>7. \A msg \in CmdK.messages["Send"] : msg.type = "Packet" => msg.packet \in CmdK.client
    BY HeadOfSend
  <1>8. \A packet \in CmdK.server : VariablePacketMessage(packet) \in CmdK.messages["Dispatch"]
    BY DEF MessagesTo, VariablePacketMessage
  <1>9. ASSUME NEW msg \in CmdK.messages["Dispatch"], msg.type = "Packet"
        PROVE  PacketMessage(msg.packet, 0) \in CmdK.messages[Target[msg.packet.type]]
    BY <1>9, HeadOfDispatch, Dispatched
  <1> QED
    BY <1>1, <1>2, <1>3, <1>4, <1>5, <1>6, <1>7, <1>8, <1>9 DEF Wired

-----------------------------------------------------------------------------
(* What the handlers are made of. *)

LEMMA RetriedOK ==
    /\ \A msg \in BatchMessages :
           ~RetryExhausted(msg) => /\ Retried(msg) \in BatchMessages
                                   /\ Retried(msg).r = msg.r
                                   /\ Retried(msg).retry = msg.retry + 1
    /\ \A msg \in AnswerMessages : ~RetryExhausted(msg) => Retried(msg) \in AnswerMessages
  BY StatusAssumption DEF Retried, RetryExhausted, BatchMessages, AnswerMessages, Retry

LEMMA NextIdOK == TypeOK => NextId \in 1 .. MaxId /\ NextId \in Id
  <1> SUFFICES ASSUME TypeOK PROVE NextId \in 1 .. MaxId /\ NextId \in Id
    OBVIOUS
  <1>1. idCounter \in Nat /\ MaxId \in Nat \ {0}
    BY StatusAssumption, IdentifierAssumption DEF TypeOK
  <1>2. idCounter % MaxId \in 0 .. MaxId - 1
    BY <1>1, ModRange
  <1> QED
    BY <1>1, <1>2 DEF NextId, Id

LEMMA TakeIdOK == TypeOK /\ TakeId => idCounter' \in 0 .. UsizeRange - 1
  <1> SUFFICES ASSUME TypeOK, TakeId PROVE idCounter' \in 0 .. UsizeRange - 1
    OBVIOUS
  <1>1. idCounter + 1 \in Nat /\ UsizeRange \in Nat \ {0}
    BY IdentifierAssumption DEF TypeOK
  <1> QED
    BY <1>1, ModRange DEF TakeId

\* What the status actor and the SendActor are sent.
LEMMA OpsToStatus ==
    \A id \in Id : /\ RemovePacketStatus(id) \in CmdK.messages["Status"]
                   /\ SetPacketStatus(id, "Unit") \in CmdK.messages["Status"]
  BY CmdKFields, CommandActors
     DEF RemovePacketStatus, SetPacketStatus, MessagesTo, StatusMessages

LEMMA PacketToSend ==
    \A id \in Id : VariablePacketMessage(CommandPacket(id)) \in CmdK.messages["Send"]
  BY CmdKFields, CommandActors
     DEF VariablePacketMessage, CommandPacket, CommandPackets, MessagesTo

-----------------------------------------------------------------------------
(* One lemma per action of the component. *)

LEMMA InitOK == Init => TypeOK
  <1> SUFFICES ASSUME Init PROVE TypeOK
    OBVIOUS
  <1>1. SessionOK(CmdK)
    BY SessionInitTyped DEF Init
  <1>2. CmdVarsOK
    BY IdentifierAssumption DEF Init, CommandInit, CmdVarsOK
  <1> QED
    BY <1>1, <1>2, TypeParts

LEMMA ClientRequestTyped ==
    ASSUME NEW K, SessionOK(K), NEW r, ClientRequest(r),
           RequestMessage(r) \in K.messages[CommandActor]
    PROVE  SessionOK(K)'
  <1>1. BoxesOK(K, mbox)
    BY DEF SessionOK, BoxesOK
  <1>2. BoxesOK(K, mbox')
    BY <1>1, PostTyped DEF ClientRequest
  <1> QED
    BY <1>2 DEF ClientRequest, SessionOK, BoxesOK, statusVars, wireVars

LEMMA ClientRequestOK ==
    ASSUME TypeOK, NEW r \in Request, ClientRequest(r)
    PROVE  TypeOK'
  <1>1. SessionOK(CmdK) /\ CmdVarsOK
    BY TypeParts
  <1>2. RequestMessage(r) \in CmdK.messages[CommandActor]
    BY CmdKFields, CommandActors DEF MessagesTo
  <1>3. SessionOK(CmdK)'
    BY <1>1, <1>2, ClientRequestTyped
  <1>4. CmdVarsOK'
    BY <1>1 DEF ClientRequest, CmdVarsOK
  <1> QED
    BY <1>3, <1>4, TypeParts

LEMMA RequestHandleTyped ==
    ASSUME NEW K, SessionOK(K), RequestHandle,
           Batch(Head(mbox[CommandActor]).r, 0) \in K.messages[CommandActor]
    PROVE  SessionOK(K)'
  <1>1. CommandActor \in Actor /\ Handling(CommandActor, "Request")
    BY CommandActors DEF RequestHandle
  <1>2. BoxesOK(K, Take(CommandActor))
    BY <1>1, TakeTyped
  <1>3. BoxesOK(K, mbox')
    BY <1>2, PostTyped DEF RequestHandle
  <1> QED
    BY <1>3 DEF RequestHandle, SessionOK, BoxesOK, statusVars, wireVars

LEMMA RequestHandleOK ==
    ASSUME TypeOK, RequestHandle
    PROVE  TypeOK'
  <1> DEFINE msg == Head(mbox[CommandActor])
  <1>1. SessionOK(CmdK) /\ CmdVarsOK /\ CommandActor \in Actor /\ Handling(CommandActor, "Request")
    BY TypeParts, CommandActors DEF RequestHandle
  <1>2. msg.r \in Request
    BY <1>1, TakeTyped, HeadOfCommand, CmdKFields
  <1>3. Batch(msg.r, 0) \in CmdK.messages[CommandActor]
    BY <1>2, CmdKFields, CommandActors, StatusAssumption DEF Batch, MessagesTo, BatchMessages, Retry
  <1>4. SessionOK(CmdK)'
    BY <1>1, <1>3, RequestHandleTyped
  <1>5. CmdVarsOK'
    BY <1>1 DEF RequestHandle, CmdVarsOK, cmdVars
  <1> QED
    BY <1>4, <1>5, TypeParts

\* The check of an attempt.
AttemptCheck(msg, id) ==
    StatusCheck(CommandActor, CommandActor, id, Retried(msg), {"Unit"})

LEMMA BatchTakes ==
    ASSUME TypeOK, BatchHandle
    PROVE  LET msg == Head(mbox[CommandActor])
           IN  /\ BoxesOK(CmdK, Take(CommandActor))
               /\ mbox[CommandActor] # <<>>
               /\ msg \in BatchMessages /\ msg.r \in Request
               /\ NextId \in Id
               /\ ~RetryExhausted(msg) =>
                      /\ AttemptCheck(msg, NextId) \in Tasks
                      /\ [to |-> CommandActor, msg |-> Retried(msg)] \in CmdResends
  <1> DEFINE msg == Head(mbox[CommandActor])
  <1>1. SessionOK(CmdK) /\ CommandActor \in Actor /\ Handling(CommandActor, "Batch")
    BY TypeParts, CommandActors DEF BatchHandle
  <1>2. /\ BoxesOK(CmdK, Take(CommandActor))
        /\ mbox[CommandActor] # <<>>
        /\ msg \in BatchMessages
    BY <1>1, TakeTyped, HeadOfCommand, CmdKFields
  <1>3. msg.r \in Request /\ NextId \in Id
    BY <1>2, NextIdOK DEF BatchMessages
  <1>4. ASSUME ~RetryExhausted(msg)
        PROVE  /\ AttemptCheck(msg, NextId) \in Tasks
               /\ [to |-> CommandActor, msg |-> Retried(msg)] \in CmdResends
    <2>1. Retried(msg) \in BatchMessages
      BY <1>2, <1>4, RetriedOK
    <2> QED
      BY <2>1, <1>3 DEF AttemptCheck, StatusCheck, Tasks, CmdResends
  <1> QED
    BY <1>2, <1>3, <1>4

\* Its three cases: refused, given up, and sent to be answered.
LEMMA BatchCases ==
    ASSUME BatchHandle
    PROVE  LET msg == Head(mbox[CommandActor])
               box == Take(CommandActor)
           IN  \/ /\ mbox' = box
                  /\ UNCHANGED <<resends, timers, idCounter, sentAs>>
               \/ /\ RetryExhausted(msg) /\ msg.r \notin BadRequest
                  /\ TakeId
                  /\ GiveUp(box, NextId)
                  /\ UNCHANGED sentAs
               \/ /\ ~RetryExhausted(msg) /\ msg.r \notin BadRequest
                  /\ TakeId
                  /\ SetSendSchedule(box, CommandActor, SetPacketStatus(NextId, "Unit"),
                         CommandPacket(NextId), AttemptCheck(msg, NextId), Retried(msg))
                  /\ sentAs' = IF Accepts("Status") /\ Accepts("Send")
                               THEN [sentAs EXCEPT ![msg.r] = Append(@, NextId)] ELSE sentAs
  BY DEF BatchHandle, AttemptCheck

LEMMA BatchHandleTyped ==
    ASSUME TypeOK, BatchHandle, NEW K, SessionOK(K), Wired(K),
           SetPacketStatus(NextId, "Unit") \in K.messages["Status"],
           RemovePacketStatus(NextId) \in K.messages["Status"],
           VariablePacketMessage(CommandPacket(NextId)) \in K.messages["Send"],
           ~RetryExhausted(Head(mbox[CommandActor])) =>
               /\ AttemptCheck(Head(mbox[CommandActor]), NextId) \in K.timers
               /\ [to |-> CommandActor, msg |-> Retried(Head(mbox[CommandActor]))] \in K.resends
    PROVE  SessionOK(K)'
  <1> DEFINE msg    == Head(mbox[CommandActor])
             box    == Take(CommandActor)
             op     == SetPacketStatus(NextId, "Unit")
             packet == CommandPacket(NextId)
             check  == AttemptCheck(msg, NextId)
  <1>1. BoxesOK(K, box)
    BY TakeTyped, CommandActors DEF BatchHandle
  <1>2. BagToSet(resends) \subseteq K.resends /\ BagToSet(timers) \subseteq K.timers
    BY DEF SessionOK
  <1>3. \/ mbox' = box /\ UNCHANGED <<resends, timers>>
        \/ GiveUp(box, NextId)
        \/ /\ ~RetryExhausted(msg)
           /\ SetSendSchedule(box, CommandActor, op, packet, check, Retried(msg))
    BY BatchCases
  <1> HIDE DEF box, msg, op, packet, check
  <1>4. /\ BoxesOK(K, mbox')
        /\ BagToSet(resends') \subseteq K.resends
        /\ BagToSet(timers') \subseteq K.timers
    <2>1. CASE mbox' = box /\ UNCHANGED <<resends, timers>>
      BY <1>1, <1>2, <2>1
    <2>2. CASE GiveUp(box, NextId)
      <3>1. BoxesOK(K, mbox')
        BY <1>1, <2>2, GiveUpTyped
      <3> QED
        BY <1>2, <2>2, <3>1 DEF GiveUp
    <2>3. CASE /\ ~RetryExhausted(msg)
               /\ SetSendSchedule(box, CommandActor, op, packet, check, Retried(msg))
      BY <1>1, <2>3, SetSendScheduleTyped DEF msg, op, packet, check
    <2> QED
      BY <1>3, <2>1, <2>2, <2>3
  <1> QED
    BY <1>4 DEF BatchHandle, SessionOK, BoxesOK, wireVars

LEMMA BatchHandleOK ==
    ASSUME TypeOK, BatchHandle
    PROVE  TypeOK'
  <1> DEFINE msg == Head(mbox[CommandActor])
  <1>1. SessionOK(CmdK) /\ Wired(CmdK) /\ CmdVarsOK
    BY TypeParts, CmdWired
  <1>2. /\ msg.r \in Request /\ NextId \in Id
        /\ ~RetryExhausted(msg) =>
               /\ AttemptCheck(msg, NextId) \in Tasks
               /\ [to |-> CommandActor, msg |-> Retried(msg)] \in CmdResends
    BY BatchTakes
  <1>3. SessionOK(CmdK)'
    BY <1>1, <1>2, BatchHandleTyped, OpsToStatus, PacketToSend, CmdKFields
  <1>4. idCounter \in 0 .. UsizeRange - 1 /\ sentAs \in [Request -> Seq(Id)]
    BY <1>1 DEF CmdVarsOK
  <1>5. UNCHANGED idCounter \/ TakeId
    BY BatchCases
  <1>6. UNCHANGED sentAs \/ sentAs' = [sentAs EXCEPT ![msg.r] = Append(@, NextId)]
    BY BatchCases
  <1> HIDE DEF msg
  <1>7. idCounter' \in 0 .. UsizeRange - 1
    BY <1>4, <1>5, TakeIdOK
  <1>8. sentAs' \in [Request -> Seq(Id)]
    <2>1. Append(sentAs[msg.r], NextId) \in Seq(Id)
      BY <1>2, <1>4, AppendProperties
    <2> QED
      BY <1>2, <1>4, <1>6, <2>1
  <1>9. CmdVarsOK'
    BY <1>1, <1>7, <1>8 DEF BatchHandle, CmdVarsOK
  <1> QED
    BY <1>3, <1>9, TypeParts

LEMMA AnswerHandleOK ==
    ASSUME TypeOK, AnswerHandle
    PROVE  TypeOK'
  <1> DEFINE msg == Head(mbox[AnswerType])
  <1>1. SessionOK(CmdK) /\ Wired(CmdK) /\ CmdVarsOK /\ AnswerType \in Actor
    BY TypeParts, CmdWired, CommandActors
  <1>2. ResponseHandle(AnswerType, AnswerType) /\ UNCHANGED <<wireVars, cmdVars>>
    BY DEF AnswerHandle
  <1>3. Handling(AnswerType, AnswerType)
    BY <1>2 DEF ResponseHandle
  <1>4. msg \in AnswerMessages
    BY <1>1, <1>3, TakeTyped, HeadOfAnswer, CmdKFields
  <1>5. /\ RemovePacketStatus(msg.packet.id) \in CmdK.messages["Status"]
        /\ [to |-> AnswerType, msg |-> msg] \in CmdK.resends
    BY <1>4, OpsToStatus, CmdKFields DEF AnswerMessages, AnswerPackets, CmdResends
  <1>6. SessionOK(CmdK)'
    BY <1>1, <1>2, <1>5, ResponseHandleTyped
  <1>7. CmdVarsOK'
    BY <1>1, <1>2 DEF CmdVarsOK, cmdVars
  <1> QED
    BY <1>6, <1>7, TypeParts

LEMMA CommandStatusHandleOK ==
    ASSUME TypeOK, CommandStatusHandle
    PROVE  TypeOK'
  <1>1. SessionOK(CmdK)' /\ Head(mbox["Status"]).id \in Id
    BY TypeParts, CmdWired, StatusHandleTyped DEF CommandStatusHandle
  <1>2. CmdVarsOK'
    BY <1>1, TypeParts DEF CommandStatusHandle, CmdVarsOK
  <1> QED
    BY <1>1, <1>2, TypeParts

LEMMA BrokerReadTyped ==
    ASSUME NEW K, SessionOK(K), K.client = CommandPackets, K.server = AnswerPackets, BrokerRead
    PROVE  SessionOK(K)' /\ Head(toBroker).id \in Id
  <1> DEFINE packet == Head(toBroker)
  <1>1. toBroker \in Seq(CommandPackets) /\ toBroker # <<>> /\ fromBroker \in Seq(AnswerPackets)
    BY DEF SessionOK, BrokerRead
  <1>2. packet \in CommandPackets /\ toBroker' \in Seq(CommandPackets)
    BY <1>1, HeadTailProperties DEF BrokerRead
  <1>3. packet.id \in Id /\ [type |-> AnswerType, id |-> packet.id] \in AnswerPackets
    BY <1>2 DEF CommandPackets, AnswerPackets
  <1>4. fromBroker' \in Seq(AnswerPackets)
    BY <1>1, <1>3, AppendProperties DEF BrokerRead
  <1> QED
    BY <1>2, <1>3, <1>4 DEF BrokerRead, SessionOK, actorVars, statusVars

LEMMA BrokerReadOK ==
    ASSUME TypeOK, BrokerRead
    PROVE  TypeOK'
  <1>1. SessionOK(CmdK)' /\ Head(toBroker).id \in Id
    BY TypeParts, BrokerReadTyped, CmdKFields
  <1>2. CmdVarsOK'
    BY <1>1, TypeParts DEF BrokerRead, CmdVarsOK
  <1> QED
    BY <1>1, <1>2, TypeParts

LEMMA BackgroundOK ==
    ASSUME TypeOK, Background, UNCHANGED cmdVars
    PROVE  TypeOK'
  <1>1. SessionOK(CmdK)'
    BY TypeParts, CmdWired, BackgroundTyped
  <1>2. CmdVarsOK'
    BY TypeParts DEF CmdVarsOK, cmdVars
  <1> QED
    BY <1>1, <1>2, TypeParts

LEMMA StepOK == TypeOK /\ [Next]_commandVars => TypeOK'
  <1> SUFFICES ASSUME TypeOK, [Next]_commandVars PROVE TypeOK'
    OBVIOUS
  <1>1. CASE \E r \in Request : ClientRequest(r)
    BY <1>1, ClientRequestOK
  <1>2. CASE RequestHandle \/ BatchHandle \/ AnswerHandle \/ CommandStatusHandle \/ BrokerRead
    BY <1>2, RequestHandleOK, BatchHandleOK, AnswerHandleOK, CommandStatusHandleOK, BrokerReadOK
  <1>3. CASE Background /\ UNCHANGED cmdVars
    BY <1>3, BackgroundOK
  <1>4. CASE UNCHANGED commandVars
    BY <1>4 DEF TypeOK, commandVars, sessionVars, actorVars, statusVars, wireVars, cmdVars
  <1> QED
    BY <1>1, <1>2, <1>3, <1>4 DEF Next

\* In every execution a mailbox holds only messages its actor has a handler
\* for, and no message or task carries a retry_count above MaxRetryCount + 1
\* (assert_valid_retry_count, src/actors/packets/macros.rs:1-19), although the
\* identifiers wrap around (src/actors/utils.rs).
THEOREM CommandTypeCorrect == Spec => []TypeOK
  <1>1. Init => TypeOK
    BY InitOK
  <1>2. TypeOK /\ [Next]_commandVars => TypeOK'
    BY StepOK
  <1> QED
    BY <1>1, <1>2, PTL DEF Spec


-----------------------------------------------------------------------------
(* The messages that make the actor handle r (again). *)

RequestsOf(r) == {RequestMessage(r)} \cup {msg \in BatchMessages : msg.r = r}

\* The transmissions a message has counted.
RepeatOf(msg) == IF msg.type = "Request" THEN 0 ELSE msg.retry

LEMMA RequestsFields ==
    ASSUME NEW r, NEW msg \in RequestsOf(r)
    PROVE  msg.type \in {"Request", "Batch"} /\ msg.r = r /\ RepeatOf(msg) \in Nat
  <1>1. CASE msg = RequestMessage(r)
    BY <1>1 DEF RequestMessage, RepeatOf
  <1>2. CASE msg \in BatchMessages /\ msg.r = r
    BY <1>2, StatusAssumption DEF BatchMessages, RepeatOf, Retry
  <1> QED
    BY <1>1, <1>2 DEF RequestsOf

LEMMA RequestsFollowed ==
    ASSUME NEW r, NEW S \in SUBSET RequestsOf(r)
    PROVE  Followed(CmdK, CommandActor, S)
  <1>1. \A msg \in S : msg.type \in {"Request", "Batch"}
    BY RequestsFields
  <1>2. CommandActor \in Actor \ {"Status", "Send", "Dispatch"}
    BY CommandActors
  <1>3. StopMessage \notin S /\ \A f \in BOOLEAN : [type |-> "PacketSendStatus", finished |-> f] \notin S
    BY <1>1 DEF StopMessage
  <1>4. ASSUME NEW msg \in CmdK.messages["Dispatch"], msg.type = "Packet"
        PROVE  PacketMessage(msg.packet, 0) \notin S \cup Asks(CmdK, CommandActor, S)
    <2>1. PacketMessage(msg.packet, 0).type = AnswerType
      BY <1>4, HeadOfDispatch, CmdKFields, CommandActors DEF AnswerPackets, PacketMessage
    <2>2. \A e \in Asks(CmdK, CommandActor, S) : e.type = "Status"
      BY DEF Asks, GetAndRemovePacketStatus
    <2>3. AnswerType \notin {"Request", "Batch", "Status"}
      BY CommandAssumption
    <2> QED
      BY <1>1, <2>1, <2>2, <2>3
  <1>5. \A x \in CmdK.resends : x.to # "Status"
    BY CmdKFields, CommandActors DEF CmdResends
  <1>6. \A t \in CmdK.tasks : t.actor # "Status"
    BY CmdKFields, CommandActors DEF Tasks
  <1> QED
    BY <1>2, <1>3, <1>4, <1>5, <1>6 DEF Followed

\* There is at most one of them; it has counted every transmission of r; there
\* is none before the application asks; and MAX_RETRY_COUNT has not been passed.
ChainOf(r) ==
    /\ AtMostOne(CmdK, CommandActor, RequestsOf(r))
    /\ \A msg \in RequestsOf(r) :
           RepeatOf(msg) < Len(sentAs[r]) => Absent(CmdK, CommandActor, {msg})
    /\ r \notin requested => Absent(CmdK, CommandActor, RequestsOf(r)) /\ sentAs[r] = <<>>
    /\ Len(sentAs[r]) <= MaxRetryCount + 1

Chains == TypeOK /\ \A r \in Request : ChainOf(r)

\* A step that carries every message of r along, and does not transmit it.
CarriesAll(r) == \A S \in SUBSET RequestsOf(r) : Carries(CmdK, CommandActor, S)

LEMMA CarriedChain ==
    ASSUME NEW r, ChainOf(r), CarriesAll(r), r \in requested => r \in requested',
           sentAs'[r] = sentAs[r]
    PROVE  ChainOf(r)'
  <1>1. AtMostOne(CmdK, CommandActor, RequestsOf(r))'
    BY DEF ChainOf, CarriesAll, Carries
  <1>2. ASSUME NEW msg \in RequestsOf(r), RepeatOf(msg) < Len(sentAs'[r])
        PROVE  Absent(CmdK, CommandActor, {msg})'
    <2>1. {msg} \in SUBSET RequestsOf(r) /\ Absent(CmdK, CommandActor, {msg})
      BY <1>2 DEF ChainOf
    <2> QED
      BY <2>1 DEF CarriesAll, Carries
  <1>3. r \notin requested' => Absent(CmdK, CommandActor, RequestsOf(r))' /\ sentAs'[r] = <<>>
    BY DEF ChainOf, CarriesAll, Carries
  <1>4. Len(sentAs'[r]) <= MaxRetryCount + 1
    BY DEF ChainOf
  <1> QED
    BY <1>1, <1>2, <1>3, <1>4 DEF ChainOf

\* subscribe() and unsubscribe() hand r over once.
LEMMA ClientRequestCarries ==
    ASSUME TypeOK, NEW r, NEW q, q # r, ClientRequest(q)
    PROVE  CarriesAll(r)
  <1>1. SessionOK(CmdK) /\ BoxesOK(CmdK, mbox) /\ CommandActor \in Actor \ {"Status"}
    BY TypeParts, CommandActors DEF SessionOK, BoxesOK
  <1>2. /\ mbox' = Post(mbox, CommandActor, RequestMessage(q))
        /\ UNCHANGED <<resends, timers, asking, answered>>
    BY DEF ClientRequest, statusVars
  <1>3. ASSUME NEW S \in SUBSET RequestsOf(r)
        PROVE  Carries(CmdK, CommandActor, S)
    <2>1. RequestMessage(q) \notin S
      BY RequestsFields DEF RequestMessage
    <2>2. BoxKeeps(mbox, mbox', CmdK, CommandActor, S)
      BY <1>1, <1>2, <2>1, PostKeeps
    <2> QED
      BY <1>2, <2>2, BagKeepsItself, UndisturbedCarries DEF Undisturbed
  <1> QED
    BY <1>3 DEF CarriesAll

LEMMA ClientRequestChain ==
    ASSUME Chains, NEW r \in Request, NEW q \in Request, ClientRequest(q)
    PROVE  ChainOf(r)'
  <1>1. SessionOK(CmdK) /\ TypeOK
    BY TypeParts DEF Chains
  <1>2. /\ mbox' = Post(mbox, CommandActor, RequestMessage(q))
        /\ UNCHANGED <<resends, timers, asking, answered, sentAs>>
        /\ q \notin requested /\ requested' = requested \cup {q}
    BY DEF ClientRequest, statusVars
  <1>3. CASE q = r
    <2>1. Absent(CmdK, CommandActor, RequestsOf(r)) /\ sentAs[r] = <<>>
      BY <1>2, <1>3 DEF Chains, ChainOf
    <2>2. Followed(CmdK, CommandActor, RequestsOf(r))
      BY RequestsFollowed
    <2>3. AtMostOne(CmdK, CommandActor, RequestsOf(r))'
      BY <1>1, <1>2, <2>1, <2>2, PostFirst
    <2>4. sentAs'[r] = <<>> /\ r \in requested'
      BY <1>2, <1>3, <2>1
    <2>5. \A msg \in RequestsOf(r) : ~(RepeatOf(msg) < Len(sentAs'[r]))
      BY <2>4, RequestsFields
    <2> QED
      BY <2>3, <2>4, <2>5, StatusAssumption DEF ChainOf
  <1>4. CASE q # r
    <2>1. CarriesAll(r)
      BY <1>1, <1>4, ClientRequestCarries
    <2> QED
      BY <1>2, <2>1, CarriedChain DEF Chains
  <1> QED
    BY <1>3, <1>4

\* The actor makes a batch of the request.
LEMMA RequestTakes ==
    ASSUME TypeOK, RequestHandle
    PROVE  LET q == Head(mbox[CommandActor]).r
           IN  /\ BoxesOK(CmdK, Take(CommandActor)) /\ mbox[CommandActor] # <<>>
               /\ q \in Request /\ Head(mbox[CommandActor]) = RequestMessage(q)
               /\ Batch(q, 0) \in BatchMessages
               /\ mbox' = Post(Take(CommandActor), CommandActor, Batch(q, 0))
               /\ UNCHANGED <<resends, timers, asking, answered>>
  <1> DEFINE msg == Head(mbox[CommandActor])
  <1>1. SessionOK(CmdK) /\ CommandActor \in Actor /\ Handling(CommandActor, "Request")
    BY TypeParts, CommandActors DEF RequestHandle
  <1>2. /\ BoxesOK(CmdK, Take(CommandActor)) /\ mbox[CommandActor] # <<>>
        /\ msg \in MessagesTo(CommandActor) /\ msg.type = "Request"
    BY <1>1, TakeTyped, CmdKFields
  <1>3. msg.r \in Request /\ msg = RequestMessage(msg.r)
    <2>1. msg \in BatchMessages \/ \E q \in Request : msg = RequestMessage(q)
      BY <1>2, HeadOfCommand
    <2>2. PICK q \in Request : msg = RequestMessage(q)
      BY <1>2, <2>1 DEF BatchMessages
    <2> HIDE DEF msg
    <2> QED
      BY <2>2 DEF RequestMessage
  <1>4. Batch(msg.r, 0) \in BatchMessages
    BY <1>3, StatusAssumption DEF Batch, BatchMessages, Retry
  <1> QED
    BY <1>2, <1>3, <1>4 DEF RequestHandle, statusVars

LEMMA RequestHandleCarries ==
    ASSUME TypeOK, NEW r, RequestHandle, Head(mbox[CommandActor]).r # r
    PROVE  CarriesAll(r)
  <1> DEFINE q   == Head(mbox[CommandActor]).r
             box == Take(CommandActor)
  <1>1. SessionOK(CmdK) /\ CommandActor \in Actor \ {"Status"}
    BY TypeParts, CommandActors
  <1>2. /\ BoxesOK(CmdK, box) /\ mbox[CommandActor] # <<>>
        /\ mbox' = Post(box, CommandActor, Batch(q, 0))
        /\ UNCHANGED <<resends, timers, asking, answered>>
    BY RequestTakes
  <1>3. ASSUME NEW S \in SUBSET RequestsOf(r)
        PROVE  Carries(CmdK, CommandActor, S)
    <2>1. Batch(q, 0) \notin S
      BY RequestsFields DEF Batch
    <2>2. BoxKeeps(mbox, box, CmdK, CommandActor, S)
      BY <1>1, <1>2, TakeKeeps
    <2> HIDE DEF q, box
    <2>3. BoxKeeps(box, mbox', CmdK, CommandActor, S)
      BY <1>1, <1>2, <2>1, PostKeeps
    <2>4. BoxKeeps(mbox, mbox', CmdK, CommandActor, S)
      BY <2>2, <2>3, BoxKeepsOn
    <2> QED
      BY <1>2, <2>4, BagKeepsItself, UndisturbedCarries DEF Undisturbed
  <1> QED
    BY <1>3 DEF CarriesAll

\* A message of r at the head of the mailbox is the only one, and has counted.
LEMMA OwnHead ==
    ASSUME Chains, NEW r \in Request, mbox[CommandActor] # <<>>,
           Head(mbox[CommandActor]) \in RequestsOf(r)
    PROVE  /\ AbsentWith(Take(CommandActor), CmdK, CommandActor, RequestsOf(r))
           /\ ~Absent(CmdK, CommandActor, RequestsOf(r))
           /\ r \in requested
           /\ ~(RepeatOf(Head(mbox[CommandActor])) < Len(sentAs[r]))
  <1> DEFINE msg == Head(mbox[CommandActor])
             S   == RequestsOf(r)
  <1>1. SessionOK(CmdK) /\ ChainOf(r) /\ CommandActor \in Actor \ {"Status"}
    BY TypeParts, CommandActors DEF Chains
  <1>2. AbsentWith(Take(CommandActor), CmdK, CommandActor, S)
    BY <1>1, TakenOnce DEF ChainOf
  <1>3. 1 \in DOMAIN mbox[CommandActor] /\ mbox[CommandActor][1] = msg
    <2>1. mbox[CommandActor] \in Seq(CmdK.messages[CommandActor])
      BY <1>1 DEF SessionOK
    <2> QED
      BY <2>1
  <1>4. ~Absent(CmdK, CommandActor, S) /\ ~Absent(CmdK, CommandActor, {msg})
    BY <1>3 DEF Absent, NoneButAt, NoneIn
  <1> QED
    BY <1>1, <1>2, <1>4 DEF ChainOf

LEMMA RequestHandleChain ==
    ASSUME Chains, NEW r \in Request, RequestHandle
    PROVE  ChainOf(r)'
  <1> DEFINE q   == Head(mbox[CommandActor]).r
             box == Take(CommandActor)
             S   == RequestsOf(r)
  <1>1. SessionOK(CmdK) /\ TypeOK /\ ChainOf(r) /\ UNCHANGED <<requested, sentAs>>
    BY TypeParts DEF Chains, RequestHandle, cmdVars
  <1>2. /\ BoxesOK(CmdK, box) /\ mbox[CommandActor] # <<>>
        /\ Head(mbox[CommandActor]) = RequestMessage(q)
        /\ mbox' = Post(box, CommandActor, Batch(q, 0))
        /\ UNCHANGED <<resends, timers, asking, answered>>
    BY <1>1, RequestTakes
  <1>3. CASE q = r
    <2>1. Head(mbox[CommandActor]) \in S
      BY <1>2, <1>3 DEF RequestsOf
    <2>2. /\ AbsentWith(box, CmdK, CommandActor, S)
          /\ r \in requested
          /\ ~(RepeatOf(Head(mbox[CommandActor])) < Len(sentAs[r]))
      BY <1>2, <2>1, OwnHead
    <2>3. RepeatOf(Head(mbox[CommandActor])) = 0
      BY <1>2 DEF RepeatOf, RequestMessage
    <2>4. Len(sentAs[r]) = 0
      <3>1. Len(sentAs[r]) \in Nat
        BY <1>1 DEF TypeOK
      <3> QED
        BY <2>2, <2>3, <3>1
    <2> HIDE DEF q, box
    <2>5. Followed(CmdK, CommandActor, S)
      BY RequestsFollowed
    <2>6. AtMostOne(CmdK, CommandActor, S)'
      BY <1>1, <1>2, <2>2, <2>5, PostNext
    <2>7. \A msg \in S : ~(RepeatOf(msg) < Len(sentAs'[r]))
      BY <1>1, <2>4, RequestsFields
    <2> QED
      BY <1>1, <2>2, <2>6, <2>7 DEF ChainOf
  <1>4. CASE q # r
    <2>1. CarriesAll(r)
      BY <1>1, <1>4, RequestHandleCarries
    <2> QED
      BY <1>1, <2>1, CarriedChain
  <1> QED
    BY <1>3, <1>4


\* The batch of another request.
LEMMA BatchHandleCarries ==
    ASSUME TypeOK, NEW r, BatchHandle, Head(mbox[CommandActor]).r # r
    PROVE  CarriesAll(r)
  <1> DEFINE msg    == Head(mbox[CommandActor])
             box    == Take(CommandActor)
             op     == SetPacketStatus(NextId, "Unit")
             packet == CommandPacket(NextId)
             check  == AttemptCheck(msg, NextId)
             retry  == Retried(msg)
  <1>1. SessionOK(CmdK) /\ Wired(CmdK) /\ CommandActor \in Actor \ {"Status"}
    BY TypeParts, CmdWired, CommandActors
  <1>2. /\ BoxesOK(CmdK, box) /\ mbox[CommandActor] # <<>> /\ msg \in BatchMessages
        /\ op \in CmdK.messages["Status"] /\ op.op \in {"Set", "Remove"}
        /\ check.msg = retry
    BY BatchTakes, OpsToStatus DEF SetPacketStatus, AttemptCheck, StatusCheck
  <1>3. ~RetryExhausted(msg) => retry.r # r
    BY <1>2, RetriedOK
  <1>4. UNCHANGED <<asking, answered>>
    BY DEF BatchHandle
  <1>5. \/ mbox' = box /\ UNCHANGED <<resends, timers>>
        \/ GiveUp(box, NextId)
        \/ /\ ~RetryExhausted(msg)
           /\ SetSendSchedule(box, CommandActor, op, packet, check, retry)
    BY BatchCases
  <1>6. ASSUME NEW S \in SUBSET RequestsOf(r)
        PROVE  BoxKeeps(mbox, box, CmdK, CommandActor, S)
    BY <1>1, <1>2, TakeKeeps
  <1> HIDE DEF msg, box, op, packet, check, retry
  <1>7. ASSUME NEW S \in SUBSET RequestsOf(r)
        PROVE  Carries(CmdK, CommandActor, S)
    <2>1. Followed(CmdK, CommandActor, S)
      BY RequestsFollowed
    <2>2. /\ BoxKeeps(box, mbox', CmdK, CommandActor, S)
          /\ BagKeeps(resends, resends', ResendsFor(CmdK, CommandActor, S))
          /\ BagKeeps(timers, timers', TasksFor(CmdK, CommandActor, S))
      <3>1. CASE mbox' = box /\ UNCHANGED <<resends, timers>>
        BY <3>1, BoxKeepsItself, BagKeepsItself
      <3>2. CASE GiveUp(box, NextId)
        <4>1. BoxKeeps(box, mbox', CmdK, CommandActor, S)
          BY <1>1, <1>2, <2>1, <3>2, GiveUpKeeps
        <4>2. UNCHANGED <<resends, timers>>
          BY <3>2 DEF GiveUp
        <4> QED
          BY <4>1, <4>2, BagKeepsItself
      <3>3. CASE /\ ~RetryExhausted(msg)
                 /\ SetSendSchedule(box, CommandActor, op, packet, check, retry)
        <4>1. retry \notin S
          BY <1>3, <3>3, RequestsFields
        <4>2. /\ [to |-> CommandActor, msg |-> retry] \notin ResendsFor(CmdK, CommandActor, S)
              /\ check \notin TasksFor(CmdK, CommandActor, S)
          BY <1>2, <4>1 DEF ResendsFor, TasksFor
        <4> QED
          BY <1>1, <1>2, <2>1, <3>3, <4>2, SetSendScheduleKeeps
      <3> QED
        BY <1>5, <3>1, <3>2, <3>3
    <2>3. BoxKeeps(mbox, mbox', CmdK, CommandActor, S)
      BY <1>6, <2>2, BoxKeepsOn
    <2>4. Undisturbed(CmdK, CommandActor, S)
      BY <1>4, <2>2, <2>3, BagKeepsItself DEF Undisturbed
    <2> QED
      BY <2>4, UndisturbedCarries
  <1> QED
    BY <1>7 DEF CarriesAll

\* Its own batch: the handler takes the only message of r there is, and makes at
\* most one, which has counted the transmission.
LEMMA OwnBatchChain ==
    ASSUME Chains, NEW r \in Request, BatchHandle, Head(mbox[CommandActor]).r = r
    PROVE  ChainOf(r)'
  <1> DEFINE msg    == Head(mbox[CommandActor])
             box    == Take(CommandActor)
             op     == SetPacketStatus(NextId, "Unit")
             packet == CommandPacket(NextId)
             check  == AttemptCheck(msg, NextId)
             S      == RequestsOf(r)
  <1>1. /\ SessionOK(CmdK) /\ Wired(CmdK) /\ TypeOK
        /\ Followed(CmdK, CommandActor, S)
    BY TypeParts, CmdWired, RequestsFollowed DEF Chains
  <1>2. /\ BoxesOK(CmdK, box) /\ mbox[CommandActor] # <<>> /\ msg \in BatchMessages
        /\ msg.r = r /\ NextId \in Id
        /\ op \in CmdK.messages["Status"] /\ op.op \in {"Set", "Remove"}
        /\ check.msg = Retried(msg)
    BY <1>1, BatchTakes, OpsToStatus DEF SetPacketStatus, AttemptCheck, StatusCheck
  <1>3. UNCHANGED <<asking, answered, requested>>
    BY DEF BatchHandle
  <1>4. msg \in S /\ RepeatOf(msg) = msg.retry
    BY <1>2 DEF RequestsOf, RepeatOf, BatchMessages
  <1>5. /\ AbsentWith(box, CmdK, CommandActor, S)
        /\ r \in requested /\ ~(msg.retry < Len(sentAs[r]))
    BY <1>2, <1>4, OwnHead
  <1>6. sentAs \in [Request -> Seq(Id)] /\ Len(sentAs[r]) \in Nat /\ msg.retry \in Nat
        /\ Len(sentAs[r]) <= MaxRetryCount + 1
    <2>1. sentAs \in [Request -> Seq(Id)]
      BY <1>1 DEF TypeOK
    <2> QED
      BY <1>2, <2>1, StatusAssumption DEF BatchMessages, Retry, Chains, ChainOf
  <1>7. \/ mbox' = box /\ UNCHANGED <<resends, timers, sentAs>>
        \/ GiveUp(box, NextId) /\ UNCHANGED sentAs
        \/ /\ ~RetryExhausted(msg)
           /\ SetSendSchedule(box, CommandActor, op, packet, check, Retried(msg))
           /\ sentAs' = IF Accepts("Status") /\ Accepts("Send")
                        THEN [sentAs EXCEPT ![r] = Append(@, NextId)] ELSE sentAs
    BY <1>2, BatchCases
  <1> HIDE DEF msg, box, op, packet, check, S
  <1>8. ASSUME BoxKeeps(box, mbox', CmdK, CommandActor, S), UNCHANGED <<resends, timers, sentAs>>
        PROVE  ChainOf(r)'
    <2>1. Absent(CmdK, CommandActor, S)'
      BY <1>3, <1>5, <1>8, AbsentAfter, BagKeepsItself
    <2>2. AtMostOne(CmdK, CommandActor, S)'
      BY <2>1, AbsentIsAtMostOne
    <2>3. \A x \in S : Absent(CmdK, CommandActor, {x})'
      BY <2>1, AbsentFromPart
    <2> QED
      BY <1>3, <1>5, <1>6, <1>8, <2>2, <2>3 DEF ChainOf, S
  <1>9. CASE mbox' = box /\ UNCHANGED <<resends, timers, sentAs>>
    BY <1>8, <1>9, BoxKeepsItself
  <1>10. CASE GiveUp(box, NextId) /\ UNCHANGED sentAs
    <2>1. BoxKeeps(box, mbox', CmdK, CommandActor, S)
      BY <1>1, <1>2, <1>10, GiveUpKeeps
    <2> QED
      BY <1>8, <1>10, <2>1 DEF GiveUp
  <1>11. CASE /\ ~RetryExhausted(msg)
              /\ SetSendSchedule(box, CommandActor, op, packet, check, Retried(msg))
              /\ sentAs' = IF Accepts("Status") /\ Accepts("Send")
                           THEN [sentAs EXCEPT ![r] = Append(@, NextId)] ELSE sentAs
    <2>0. PICK retry : retry = Retried(msg)
      OBVIOUS
    <2>1. AtMostOne(CmdK, CommandActor, S)' /\ Absent(CmdK, CommandActor, S \ {retry})'
      BY <2>0, <1>1, <1>2, <1>3, <1>5, <1>11, SetSendScheduleMoves
    <2>2. Len(sentAs'[r]) \in Nat /\ Len(sentAs'[r]) <= Len(sentAs[r]) + 1
      BY <1>2, <1>6, <1>11, AppendProperties
    <2>3. Len(sentAs'[r]) <= msg.retry + 1 /\ msg.retry <= MaxRetryCount
      BY <1>5, <1>6, <1>11, <2>2, StatusAssumption DEF RetryExhausted
    <2>4. ASSUME NEW x \in S, RepeatOf(x) < Len(sentAs'[r])
          PROVE  Absent(CmdK, CommandActor, {x})'
      <3>1. RepeatOf(retry) = msg.retry + 1
        <4>1. Retried(msg) \in BatchMessages /\ Retried(msg).retry = msg.retry + 1
          BY <1>2, <1>11, RetriedOK
        <4> QED
          BY <2>0, <4>1 DEF RepeatOf, BatchMessages
      <3>2. RepeatOf(x) \in Nat
        BY RequestsFields DEF S
      <3>3. x # retry
        BY <1>6, <2>2, <2>3, <2>4, <3>1, <3>2
      <3>4. {x} \subseteq S \ {retry}
        BY <3>3
      <3> QED
        BY <2>1, <3>4, AbsentFromPart
    <2>5. Len(sentAs'[r]) <= MaxRetryCount + 1
      BY <1>6, <2>2, <2>3, StatusAssumption
    <2> QED
      BY <1>3, <1>5, <2>1, <2>4, <2>5 DEF ChainOf, S
  <1> QED
    BY <1>7, <1>9, <1>10, <1>11

LEMMA BatchHandleChain ==
    ASSUME Chains, NEW r \in Request, BatchHandle
    PROVE  ChainOf(r)'
  <1>1. CASE Head(mbox[CommandActor]).r = r
    BY <1>1, OwnBatchChain
  <1>2. CASE Head(mbox[CommandActor]).r # r
    <2>1. CarriesAll(r) /\ TypeOK
      BY <1>2, BatchHandleCarries DEF Chains
    <2>2. sentAs'[r] = sentAs[r] /\ UNCHANGED requested
      <3>1. sentAs \in [Request -> Seq(Id)] /\ Head(mbox[CommandActor]).r \in Request
        BY <2>1, BatchTakes DEF TypeOK
      <3>2. \/ UNCHANGED sentAs
            \/ sentAs' = [sentAs EXCEPT ![Head(mbox[CommandActor]).r] = Append(@, NextId)]
        BY BatchCases
      <3> QED
        BY <1>2, <3>1, <3>2 DEF BatchHandle
    <2> QED
      BY <2>1, <2>2, CarriedChain DEF Chains
  <1> QED
    BY <1>1, <1>2

LEMMA AnswerTakes ==
    ASSUME TypeOK, AnswerHandle
    PROVE  LET msg == Head(mbox[AnswerType])
           IN  /\ ResponseHandle(AnswerType, AnswerType)
               /\ UNCHANGED <<wireVars, cmdVars>>
               /\ msg.packet.id \in Id
               /\ RemovePacketStatus(msg.packet.id) \in CmdK.messages["Status"]
               /\ [to |-> AnswerType, msg |-> msg] \in CmdK.resends
  <1> DEFINE msg == Head(mbox[AnswerType])
  <1>1. SessionOK(CmdK) /\ AnswerType \in Actor
    BY TypeParts, CommandActors
  <1>2. ResponseHandle(AnswerType, AnswerType) /\ UNCHANGED <<wireVars, cmdVars>>
    BY DEF AnswerHandle
  <1>3. Handling(AnswerType, AnswerType)
    BY <1>2 DEF ResponseHandle
  <1>4. msg \in AnswerMessages
    BY <1>1, <1>3, TakeTyped, HeadOfAnswer, CmdKFields
  <1>5. /\ msg.packet.id \in Id
        /\ RemovePacketStatus(msg.packet.id) \in CmdK.messages["Status"]
        /\ [to |-> AnswerType, msg |-> msg] \in CmdK.resends
    BY <1>4, OpsToStatus, CmdKFields DEF AnswerMessages, AnswerPackets, CmdResends
  <1> QED
    BY <1>2, <1>5

\* Whatever else goes on only carries the messages of r along.
LEMMA ElsewhereCarries ==
    ASSUME TypeOK, NEW r, AnswerHandle \/ CommandStatusHandle \/ BrokerRead \/ Background
    PROVE  CarriesAll(r)
  <1> SUFFICES ASSUME NEW S \in SUBSET RequestsOf(r)
               PROVE  Carries(CmdK, CommandActor, S)
    BY DEF CarriesAll
  <1>1. /\ SessionOK(CmdK) /\ Wired(CmdK)
        /\ AnswerType \in Actor \ {CommandActor}
        /\ Followed(CmdK, CommandActor, S)
    BY TypeParts, CmdWired, CommandActors, RequestsFollowed
  <1>2. CASE AnswerHandle
    BY <1>1, <1>2, ResponseHandleCarries DEF AnswerHandle
  <1>3. CASE CommandStatusHandle
    BY <1>1, <1>3, StatusHandleCarries DEF CommandStatusHandle
  <1>4. CASE BrokerRead
    <2>1. UNCHANGED <<mbox, resends, statusVars>>
      BY <1>4 DEF BrokerRead, actorVars
    <2>2. BoxKeeps(mbox, mbox', CmdK, CommandActor, S)
      BY <2>1, BoxKeepsItself
    <2> QED
      BY <2>1, <2>2, OnlyBoxes
  <1>5. CASE Background
    BY <1>1, <1>5, BackgroundCarries
  <1> QED
    BY <1>2, <1>3, <1>4, <1>5

LEMMA ChainsInit == Init => Chains
  <1> SUFFICES ASSUME Init PROVE Chains
    OBVIOUS
  <1>1. TypeOK
    BY InitOK
  <1>2. /\ mbox = [a \in Actor |-> <<>>] /\ sentAs = [r \in Request |-> <<>>]
        /\ BagToSet(resends) = {} /\ BagToSet(timers) = {}
        /\ BagToSet(asking) = {} /\ BagToSet(answered) = {}
    BY EmptyBagElements DEF Init, SessionInit, ActorsInit, StatusInit, CommandInit
  <1>3. ASSUME NEW S PROVE Absent(CmdK, CommandActor, S)
    BY <1>2, CommandActors DEF Absent, NoneButAt, NoneIn, NoneInBag
  <1>4. ASSUME NEW r \in Request PROVE ChainOf(r)
    <2>1. sentAs[r] = <<>>
      BY <1>2
    <2>2. AtMostOne(CmdK, CommandActor, RequestsOf(r))
      BY <1>3, AbsentIsAtMostOne
    <2> QED
      BY <1>3, <2>1, <2>2, StatusAssumption DEF ChainOf
  <1> QED
    BY <1>1, <1>4 DEF Chains

LEMMA StutterCarries ==
    ASSUME NEW r, UNCHANGED commandVars
    PROVE  CarriesAll(r)
  <1>1. UNCHANGED <<mbox, resends, statusVars>>
    BY DEF commandVars, sessionVars, actorVars
  <1>2. ASSUME NEW S PROVE Carries(CmdK, CommandActor, S)
    BY <1>1, BoxKeepsItself, OnlyBoxes
  <1> QED
    BY <1>2 DEF CarriesAll

LEMMA ChainsStep == Chains /\ [Next]_commandVars => Chains'
  <1> SUFFICES ASSUME Chains, [Next]_commandVars PROVE Chains'
    OBVIOUS
  <1>1. TypeOK /\ TypeOK'
    BY StepOK DEF Chains
  <1>2. ASSUME NEW r \in Request PROVE ChainOf(r)'
    <2>1. CASE \E q \in Request : ClientRequest(q)
      BY <2>1, ClientRequestChain
    <2>2. CASE RequestHandle
      BY <2>2, RequestHandleChain
    <2>3. CASE BatchHandle
      BY <2>3, BatchHandleChain
    <2>4. ASSUME CarriesAll(r), UNCHANGED <<requested, sentAs>>
          PROVE  ChainOf(r)'
      BY <2>4, CarriedChain DEF Chains
    <2>5. CASE AnswerHandle \/ CommandStatusHandle \/ BrokerRead
      BY <1>1, <2>4, <2>5, ElsewhereCarries DEF AnswerHandle, CommandStatusHandle, BrokerRead, cmdVars
    <2>6. CASE Background /\ UNCHANGED cmdVars
      BY <1>1, <2>4, <2>6, ElsewhereCarries DEF cmdVars
    <2>7. CASE UNCHANGED commandVars
      BY <2>4, <2>7, StutterCarries DEF commandVars, cmdVars
    <2> QED
      BY <2>1, <2>2, <2>3, <2>5, <2>6, <2>7 DEF Next
  <1> QED
    BY <1>1, <1>2 DEF Chains


-----------------------------------------------------------------------------
(* Attempts whose identifiers nobody else uses.  While the status of an     *)
(* attempt is there, its check is all that may repeat the request; once an  *)
(* answer has removed it, the check finds nothing.                          *)

Sent(r)     == {sentAs[r][i] : i \in DOMAIN sentAs[r]}
Held(r, id) == HeldTo(CmdK, CommandActor, RequestsOf(r), id)

StatusFirst   == \A id \in Id : SetFirst(CmdK, id, {"Unit"})
AckedClear    == \A id \in acked : Clear(CmdK, id, {"Unit"})
AttemptsHeld  == \A r \in Request : \A id \in Sent(r) :
                     ~Clear(CmdK, id, {"Unit"}) \/ id \in acked => Held(r, id)
AttemptsApart == \A r, q \in Request : r # q => Sent(r) \cap Sent(q) = {}

Attempts == StatusFirst /\ AckedClear /\ AttemptsHeld /\ AttemptsApart

LEMMA CmdApart == StatusApart(CmdK) /\ \A t \in CmdK.tasks : "Closed" \notin t.expect
  <1>1. \A x \in CmdK.resends : x.to \in Actor \ {"Status"}
    BY CmdKFields, CommandActors DEF CmdResends
  <1>2. \A t \in CmdK.tasks : t.actor \in Actor \ {"Status"} /\ "Closed" \notin t.expect
    BY CmdKFields, CommandActors, TaskFields
  <1>3. ASSUME NEW msg \in CmdK.messages["Dispatch"], msg.type = "Packet"
        PROVE  Target[msg.packet.type] \in Actor \ {"Status"}
    BY <1>3, HeadOfDispatch, Dispatched, CmdKFields, CommandActors
  <1>4. SendStatusRecipient \subseteq Actor \ {"Status"}
    BY CommandAssumption
  <1> QED
    BY <1>1, <1>2, <1>3, <1>4 DEF StatusApart

\* What a handler that leaves the status actor alone does to its statuses.
LEMMA StatusUntouched ==
    ASSUME mbox'["Status"] = mbox["Status"], UNCHANGED packetStatus
    PROVE  \A id \in Id : /\ Clear(CmdK, id, {"Unit"})' <=> Clear(CmdK, id, {"Unit"})
                          /\ SetFirst(CmdK, id, {"Unit"})' <=> SetFirst(CmdK, id, {"Unit"})
  BY DEF Clear, SetFirst

LEMMA SentIds ==
    ASSUME TypeOK, NEW r \in Request
    PROVE  Sent(r) \subseteq Id
  BY DEF TypeOK, Sent

\* A step that uses no identifier and settles no attempt.
Quiet ==
    /\ \A id \in Id : /\ Clear(CmdK, id, {"Unit"}) => Clear(CmdK, id, {"Unit"})'
                      /\ SetFirst(CmdK, id, {"Unit"}) => SetFirst(CmdK, id, {"Unit"})'
    /\ \A r \in Request : \A id \in Sent(r) : Held(r, id) => Held(r, id)'
    /\ UNCHANGED <<sentAs, acked>>

LEMMA QuietAttempts ==
    ASSUME TypeOK, Attempts, Quiet
    PROVE  Attempts'
  <1>1. \A r \in Request : Sent(r)' = Sent(r) /\ Sent(r) \subseteq Id
    BY SentIds DEF Quiet, Sent
  <1>2. StatusFirst' /\ AckedClear'
    BY DEF Attempts, Quiet, StatusFirst, AckedClear, TypeOK
  <1>3. ASSUME NEW r \in Request, NEW id \in Sent(r), ~Clear(CmdK, id, {"Unit"})' \/ id \in acked
        PROVE  Held(r, id)'
    <2>1. ~Clear(CmdK, id, {"Unit"}) \/ id \in acked
      BY <1>1, <1>3 DEF Quiet
    <2>2. Held(r, id)
      BY <2>1 DEF Attempts, AttemptsHeld
    <2> QED
      BY <2>2 DEF Quiet
  <1>4. AttemptsHeld'
    BY <1>1, <1>3 DEF AttemptsHeld, Quiet
  <1>5. AttemptsApart'
    BY <1>1 DEF Attempts, AttemptsApart
  <1> QED
    BY <1>2, <1>4, <1>5 DEF Attempts

LEMMA ClientRequestQuiet ==
    ASSUME Chains, NEW q \in Request, ClientRequest(q)
    PROVE  Quiet
  <1>1. SessionOK(CmdK) /\ SessionOK(CmdK)' /\ CommandActor \in Actor \ {"Status"}
    BY TypeParts, ClientRequestOK, CommandActors DEF Chains
  <1>2. /\ mbox' = Post(mbox, CommandActor, RequestMessage(q))
        /\ UNCHANGED <<resends, packetStatus, answered, sentAs, acked>>
        /\ q \notin requested
    BY DEF ClientRequest, statusVars
  <1>3. mbox'["Status"] = mbox["Status"] /\ BoxesOK(CmdK, mbox)
    BY <1>1, <1>2, CommandActors DEF SessionOK, BoxesOK, Post
  <1>4. ASSUME NEW r \in Request, NEW id \in Sent(r), Held(r, id)
        PROVE  Held(r, id)'
    <2>1. q # r
      <3>1. sentAs[r] # <<>>
        BY DEF Sent
      <3> QED
        BY <1>2, <3>1 DEF Chains, ChainOf
    <2>2. PICK A : A = AttemptK(CmdK, CommandActor, RequestsOf(r), id)
      OBVIOUS
    <2>3. SessionOK(A) /\ A.messages[CommandActor] = CmdK.messages[CommandActor]
      BY <1>1, <1>4, <2>2, AttemptFields DEF Held, HeldTo
    <2>4. RequestMessage(q) \in A.messages[CommandActor]
      BY <2>3, CmdKFields, CommandActors DEF MessagesTo
    <2>5. SessionOK(A)'
      BY <2>3, <2>4, ClientRequestTyped
    <2>6. RequestMessage(q) \notin RequestsOf(r)
      BY <2>1, RequestsFields DEF RequestMessage
    <2>7. Grown(mbox[CommandActor], mbox'[CommandActor], RequestsOf(r))
      BY <1>1, <1>2, <1>3, <2>6, PostGrown
    <2>8. BagKeeps(resends, resends', ResendsFor(CmdK, CommandActor, RequestsOf(r)))
      BY <1>2, BagKeepsItself
    <2>9. HeldTo(CmdK, CommandActor, RequestsOf(r), id)'
      BY <1>1, <1>2, <1>4, <2>2, <2>5, <2>7, <2>8, HeldElsewhere DEF Held
    <2> QED
      BY <2>9 DEF Held
  <1> QED
    BY <1>2, <1>3, <1>4, StatusUntouched DEF Quiet

\* A message of r in the mailbox: no attempt at r is settled or waited for.
LEMMA HeldNotHandled ==
    ASSUME TypeOK, NEW r, NEW id, Held(r, id)
    PROVE  mbox[CommandActor] # <<>> => Head(mbox[CommandActor]) \notin RequestsOf(r)
  <1>1. mbox[CommandActor] \in Seq(CmdK.messages[CommandActor])
    BY TypeParts, CommandActors DEF SessionOK
  <1>2. mbox[CommandActor] # <<>> =>
            1 \in DOMAIN mbox[CommandActor] /\ mbox[CommandActor][1] = Head(mbox[CommandActor])
    BY <1>1
  <1>3. NoneIn(mbox[CommandActor], RequestsOf(r))
    BY DEF Held, HeldTo, Silent
  <1> QED
    BY <1>2, <1>3 DEF NoneIn

LEMMA RequestHandleQuiet ==
    ASSUME TypeOK, RequestHandle
    PROVE  Quiet
  <1> DEFINE q   == Head(mbox[CommandActor]).r
             box == Take(CommandActor)
  <1>1. SessionOK(CmdK) /\ SessionOK(CmdK)' /\ CommandActor \in Actor \ {"Status"} /\ "Status" \in Actor
    BY TypeParts, RequestHandleOK, CommandActors
  <1>2. /\ BoxesOK(CmdK, box) /\ mbox[CommandActor] # <<>>
        /\ q \in Request /\ Head(mbox[CommandActor]) = RequestMessage(q)
        /\ Batch(q, 0) \in BatchMessages
        /\ mbox' = Post(box, CommandActor, Batch(q, 0))
        /\ UNCHANGED <<resends, packetStatus, answered, sentAs, acked>>
    BY RequestTakes DEF RequestHandle, statusVars, cmdVars
  <1>3. mbox'["Status"] = mbox["Status"]
    BY <1>1, <1>2 DEF SessionOK, Post, Take
  <1>4. ASSUME NEW r \in Request, NEW id \in Sent(r), Held(r, id)
        PROVE  Held(r, id)'
    <2>1. q # r
      BY <1>2, <1>4, HeldNotHandled DEF RequestsOf
    <2>2. PICK A : A = AttemptK(CmdK, CommandActor, RequestsOf(r), id)
      OBVIOUS
    <2>3. SessionOK(A) /\ A.messages[CommandActor] = CmdK.messages[CommandActor]
      BY <1>1, <1>4, <2>2, AttemptFields DEF Held, HeldTo
    <2>4. Batch(q, 0) \in A.messages[CommandActor]
      BY <1>2, <2>3, CmdKFields, CommandActors DEF MessagesTo
    <2>5. SessionOK(A)'
      BY <2>3, <2>4, RequestHandleTyped
    <2>6. Batch(q, 0) \notin RequestsOf(r)
      BY <2>1, RequestsFields DEF Batch
    <2>7. Grown(mbox[CommandActor], mbox'[CommandActor], RequestsOf(r))
      <3>1. Grown(mbox[CommandActor], box[CommandActor], RequestsOf(r))
        BY <1>1, <1>2, TakeGrows
      <3> HIDE DEF box, q
      <3>2. Grown(box[CommandActor], mbox'[CommandActor], RequestsOf(r))
        BY <1>1, <1>2, <2>6, PostGrown
      <3>3. BoxesOK(CmdK, mbox) /\ BoxesOK(CmdK, mbox')
        BY <1>1 DEF SessionOK, BoxesOK
      <3> QED
        BY <1>1, <1>2, <3>1, <3>2, <3>3, BoxGrowsOn
    <2>8. BagKeeps(resends, resends', ResendsFor(CmdK, CommandActor, RequestsOf(r)))
      BY <1>2, BagKeepsItself
    <2>9. HeldTo(CmdK, CommandActor, RequestsOf(r), id)'
      BY <1>1, <1>2, <1>4, <2>2, <2>5, <2>7, <2>8, HeldElsewhere DEF Held
    <2> QED
      BY <2>9 DEF Held
  <1> QED
    BY <1>2, <1>3, <1>4, StatusUntouched DEF Quiet

LEMMA AnswerHandleQuiet ==
    ASSUME TypeOK, AnswerHandle
    PROVE  Quiet
  <1> DEFINE msg == Head(mbox[AnswerType])
  <1>1. /\ SessionOK(CmdK) /\ SessionOK(CmdK)' /\ Wired(CmdK) /\ StatusApart(CmdK)
        /\ AnswerType \in Actor \ {CommandActor} /\ "Status" \in Actor
    BY TypeParts, AnswerHandleOK, CmdWired, CmdApart, CommandActors
  <1>2. /\ ResponseHandle(AnswerType, AnswerType)
        /\ UNCHANGED <<wireVars, packetStatus, sentAs, acked>>
        /\ RemovePacketStatus(msg.packet.id) \in CmdK.messages["Status"]
        /\ [to |-> AnswerType, msg |-> msg] \in CmdK.resends
    BY AnswerTakes DEF cmdVars, ResponseHandle, statusVars
  <1>3. ASSUME NEW id \in Id
        PROVE  /\ Clear(CmdK, id, {"Unit"}) => Clear(CmdK, id, {"Unit"})'
               /\ SetFirst(CmdK, id, {"Unit"}) => SetFirst(CmdK, id, {"Unit"})'
    <2>1. /\ StopMessage \notin StatusSets(CmdK, id, {"Unit"})
          /\ RemovePacketStatus(msg.packet.id) \notin StatusSets(CmdK, id, {"Unit"})
      BY DEF StatusSets, StatusOps, StopMessage, RemovePacketStatus
    <2>2. Grown(mbox["Status"], mbox'["Status"], StatusSets(CmdK, id, {"Unit"}))
      BY <1>1, <1>2, <2>1, ResponseHandleGrows
    <2> QED
      BY <1>1, <1>2, <2>2, StatusGrows DEF Clear
  <1>4. ASSUME NEW r \in Request, NEW id \in Sent(r), Held(r, id)
        PROVE  Held(r, id)'
    <2>1. Followed(CmdK, CommandActor, RequestsOf(r))
      BY RequestsFollowed
    <2>2. HeldTo(CmdK, CommandActor, RequestsOf(r), id)'
      BY <1>1, <1>2, <1>4, <2>1, ResponseHandleHeld DEF Held
    <2> QED
      BY <2>2 DEF Held
  <1> QED
    BY <1>2, <1>3, <1>4 DEF Quiet

LEMMA BrokerReadQuiet ==
    ASSUME TypeOK, BrokerRead
    PROVE  Quiet
  <1>1. SessionOK(CmdK) /\ SessionOK(CmdK)' /\ CommandActor \in Actor
    BY TypeParts, BrokerReadOK, CommandActors
  <1>2. UNCHANGED <<mbox, resends, packetStatus, answered, sentAs, acked>>
    BY DEF BrokerRead, actorVars, statusVars
  <1>3. ASSUME NEW r \in Request, NEW id \in Sent(r), Held(r, id)
        PROVE  Held(r, id)'
    <2>1. PICK A : A = AttemptK(CmdK, CommandActor, RequestsOf(r), id)
      OBVIOUS
    <2>2. SessionOK(A) /\ A.client = CommandPackets /\ A.server = AnswerPackets
      BY <1>3, <2>1, AttemptFields, CmdKFields DEF Held, HeldTo
    <2>3. SessionOK(A)'
      BY <2>2, BrokerReadTyped
    <2>4. Silent(CmdK, CommandActor, RequestsOf(r))'
      BY <1>2, <1>3 DEF Held, HeldTo, Silent
    <2> QED
      BY <2>1, <2>3, <2>4 DEF Held, HeldTo
  <1> QED
    BY <1>2, <1>3, StatusUntouched DEF Quiet

LEMMA BackgroundQuiet ==
    ASSUME TypeOK, Background, UNCHANGED cmdVars
    PROVE  Quiet
  <1>1. /\ SessionOK(CmdK) /\ Wired(CmdK) /\ StatusApart(CmdK)
        /\ \A t \in CmdK.tasks : "Closed" \notin t.expect
    BY TypeParts, CmdWired, CmdApart
  <1>2. \A id \in Id : /\ Clear(CmdK, id, {"Unit"}) => Clear(CmdK, id, {"Unit"})'
                       /\ SetFirst(CmdK, id, {"Unit"}) => SetFirst(CmdK, id, {"Unit"})'
    BY <1>1, BackgroundClear
  <1>3. ASSUME NEW r \in Request, NEW id \in Sent(r), Held(r, id)
        PROVE  Held(r, id)'
    <2>1. Followed(CmdK, CommandActor, RequestsOf(r))
      BY RequestsFollowed
    <2>2. HeldTo(CmdK, CommandActor, RequestsOf(r), id)'
      BY <1>1, <1>3, <2>1, BackgroundHeld DEF Held
    <2> QED
      BY <2>2 DEF Held
  <1> QED
    BY <1>2, <1>3 DEF Quiet, cmdVars


\* The status actor.  The check of an attempt that an answer has settled finds
\* no status, and no other check asks about it.
LEMMA CommandStatusHandleAttempts ==
    ASSUME TypeOK, Attempts, CommandStatusHandle
    PROVE  Attempts'
  <1> DEFINE op == Head(mbox["Status"])
  <1>1. /\ SessionOK(CmdK) /\ Wired(CmdK) /\ StatusApart(CmdK)
        /\ StatusHandle /\ UNCHANGED <<wireVars, sentAs>>
    BY TypeParts, CmdWired, CmdApart DEF CommandStatusHandle
  <1>2. op.id \in Id /\ (op.op = "GetAndRemove" => op.task.expect = {"Unit"})
    <2>1. op \in CmdK.messages["Status"] /\ op.type = "Status"
      BY <1>1, TakeTyped, CommandActors DEF StatusHandle
    <2>2. op.op = "GetAndRemove" => op.task \in Tasks
      BY <1>1, <2>1, CmdKFields DEF Wired
    <2> QED
      BY <1>1, <2>1, <2>2, TaskFields DEF Wired
  <1>3. acked' = acked \cup
            IF op.op = "Remove" /\ packetStatus[op.id] # NoStatus THEN {op.id} ELSE {}
    BY DEF CommandStatusHandle
  <1>4. ASSUME NEW id \in Id
        PROVE  /\ SetFirst(CmdK, id, {"Unit"})'
               /\ Clear(CmdK, id, {"Unit"}) => Clear(CmdK, id, {"Unit"})'
               /\ op.id = id /\ op.op # "Set" => Clear(CmdK, id, {"Unit"})'
    BY <1>1, StatusHandleClear DEF Attempts, StatusFirst, NoStatus
  <1> HIDE DEF op
  <1>5. StatusFirst'
    BY <1>4 DEF StatusFirst
  <1>6. AckedClear'
    BY <1>2, <1>3, <1>4 DEF AckedClear, Attempts, TypeOK
  <1>7. \A r \in Request : Sent(r)' = Sent(r) /\ Sent(r) \subseteq Id
    BY <1>1, SentIds DEF Sent
  <1>8. ASSUME NEW r \in Request, NEW id \in Sent(r), ~Clear(CmdK, id, {"Unit"})' \/ id \in acked'
        PROVE  Held(r, id)'
    <2>1. id \in Id
      BY <1>7
    <2>2. ~Clear(CmdK, id, {"Unit"}) \/ id \in acked
      BY <1>3, <1>4, <1>8, <2>1 DEF Clear, TypeOK
    <2>3. Held(r, id)
      BY <2>2 DEF Attempts, AttemptsHeld
    <2>4. op.op = "GetAndRemove" /\ op.id = id => packetStatus[id] \notin op.task.expect
      <3> SUFFICES ASSUME op.op = "GetAndRemove", op.id = id
                   PROVE  packetStatus[id] \notin {"Unit"}
        BY <1>2
      <3>1. Clear(CmdK, id, {"Unit"})' /\ acked' = acked
        BY <1>3, <1>4, <2>1
      <3>2. id \in acked
        BY <1>8, <3>1
      <3>3. packetStatus[id] \notin {"Unit"}
        BY <3>2 DEF Attempts, AckedClear, Clear
      <3> QED
        BY <3>3
    <2>5. Followed(CmdK, CommandActor, RequestsOf(r))
      BY RequestsFollowed
    <2>6. HeldTo(CmdK, CommandActor, RequestsOf(r), id)'
      BY <1>1, <2>3, <2>4, <2>5, StatusHandleHeld DEF Held, op
    <2> QED
      BY <2>6 DEF Held
  <1>9. AttemptsHeld'
    BY <1>7, <1>8 DEF AttemptsHeld
  <1>10. AttemptsApart'
    BY <1>7 DEF Attempts, AttemptsApart
  <1> QED
    BY <1>5, <1>6, <1>9, <1>10 DEF Attempts

\* What the batch puts into the mailboxes.
LEMMA BatchPosts ==
    ASSUME TypeOK, BatchHandle
    PROVE  /\ mbox'[CommandActor] = Tail(mbox[CommandActor])
           /\ \/ mbox'["Status"] = mbox["Status"]
              \/ /\ Head(mbox[CommandActor]).r \notin BadRequest
                 /\ \E op \in {RemovePacketStatus(NextId), SetPacketStatus(NextId, "Unit")} :
                        mbox'["Status"] = Append(mbox["Status"], op)
  <1> DEFINE msg    == Head(mbox[CommandActor])
             box    == Take(CommandActor)
             op     == SetPacketStatus(NextId, "Unit")
             remove == RemovePacketStatus(NextId)
             packet == VariablePacketMessage(CommandPacket(NextId))
             check  == AttemptCheck(msg, NextId)
             Same(b, c) == b[CommandActor] = c[CommandActor] /\ b["Status"] = c["Status"]
             Put(b, x)  == b[CommandActor] = box[CommandActor] /\ b["Status"] = Append(box["Status"], x)
  <1>1. /\ DOMAIN mbox = Actor /\ DOMAIN box = Actor
        /\ box[CommandActor] = Tail(mbox[CommandActor]) /\ box["Status"] = mbox["Status"]
    BY CommandActors DEF TypeOK, Take
  <1>2. \/ mbox' = box
        \/ msg.r \notin BadRequest /\ GiveUp(box, NextId)
        \/ /\ msg.r \notin BadRequest
           /\ SetSendSchedule(box, CommandActor, op, CommandPacket(NextId), check, Retried(msg))
    BY BatchCases
  <1> HIDE DEF box, msg, op, check, remove, packet
  <1>3. ASSUME NEW b, DOMAIN b = Actor, NEW m
        PROVE  /\ \A a \in {"Stop", "Send"} : Same(Post(b, a, m), b)
               /\ DOMAIN Post(b, "Status", m) = Actor
               /\ Post(b, "Status", m)[CommandActor] = b[CommandActor]
               /\ Post(b, "Status", m)["Status"] \in {b["Status"], Append(b["Status"], m)}
    BY <1>3, CommandActors DEF Post
  <1>4. CASE mbox' = box
    BY <1>1, <1>4
  <1>5. CASE msg.r \notin BadRequest /\ GiveUp(box, NextId)
    <2>1. mbox' = Post(box, "Stop", StopMessage) \/ mbox' = Post(box, "Status", remove)
      BY <1>5 DEF GiveUp, remove
    <2> QED
      BY <1>1, <1>3, <1>5, <2>1 DEF msg, remove
  <1>6. CASE /\ msg.r \notin BadRequest
             /\ SetSendSchedule(box, CommandActor, op, CommandPacket(NextId), check, Retried(msg))
    <2> DEFINE set == Post(box, "Status", op)
    <2>1. \/ mbox' \in {box, Post(box, "Stop", StopMessage)}
          \/ mbox' \in {set, Post(set, "Stop", StopMessage), Post(set, "Send", packet)}
      BY <1>6 DEF SetSendSchedule, HandleSendErrorWithResend, packet
    <2>2. /\ DOMAIN set = Actor /\ set[CommandActor] = box[CommandActor]
          /\ set["Status"] \in {box["Status"], Append(box["Status"], op)}
      BY <1>1, <1>3
    <2> HIDE DEF set
    <2>3. \A m, a \in {"Stop", "Send"} : Same(Post(box, a, m), box) /\ Same(Post(set, a, m), set)
      BY <1>1, <1>3, <2>2
    <2>4. Same(mbox', box) \/ Same(mbox', set)
      BY <2>1, <1>3, <1>1, <2>2
    <2> QED
      BY <1>1, <1>6, <2>2, <2>4 DEF msg, op
  <1> QED
    BY <1>2, <1>4, <1>5, <1>6

\* The batch of another request leaves the attempts at r alone.
LEMMA BatchHandleHeld ==
    ASSUME TypeOK, BatchHandle, NEW r, NEW id, Held(r, id), Head(mbox[CommandActor]).r # r
    PROVE  Held(r, id)'
  <1> DEFINE msg   == Head(mbox[CommandActor])
             check == AttemptCheck(msg, NextId)
             retry == [to |-> CommandActor, msg |-> Retried(msg)]
             S     == RequestsOf(r)
  <1>1. /\ SessionOK(CmdK) /\ SessionOK(CmdK)' /\ Wired(CmdK) /\ StatusApart(CmdK)
        /\ CommandActor \in Actor \ {"Status"} /\ "Send" \in Actor \ {"Status"}
    BY TypeParts, BatchHandleOK, CmdWired, CmdApart, CommandActors
  <1>2. PICK A : A = AttemptK(CmdK, CommandActor, S, id)
    OBVIOUS
  <1>3. /\ A.messages["Send"] = CmdK.messages["Send"]
        /\ A.messages["Status"] = CmdK.messages["Status"] \ OtherAsks(CmdK, CommandActor, S, id)
        /\ A.resends = CmdResends
        /\ A.timers = Tasks \ OtherTasks(CmdK, CommandActor, S, id)
    BY <1>1, <1>2, AttemptFields, CmdKFields
  <1>4. SessionOK(A) /\ Wired(A)
    BY <1>1, <1>2, AttemptWired DEF Held, HeldTo
  <1>5. /\ msg \in BatchMessages /\ NextId \in Id /\ mbox[CommandActor] # <<>>
        /\ ~RetryExhausted(msg) => check \in Tasks /\ retry \in CmdResends
    BY BatchTakes
  <1>6. ~RetryExhausted(msg) => Retried(msg) \notin S
    <2>1. ~RetryExhausted(msg) => Retried(msg).r # r
      BY <1>5, RetriedOK
    <2> QED
      BY <2>1, RequestsFields
  <1>7. check.msg = Retried(msg)
    BY DEF AttemptCheck, StatusCheck
  <1> HIDE DEF check, msg
  <1>8. /\ SetPacketStatus(NextId, "Unit") \in A.messages["Status"]
        /\ RemovePacketStatus(NextId) \in A.messages["Status"]
    <2>1. \A op \in OtherAsks(CmdK, CommandActor, S, id) : op.op = "GetAndRemove"
      BY DEF OtherAsks, GetAndRemovePacketStatus
    <2> QED
      BY <1>3, <1>5, <2>1, OpsToStatus DEF SetPacketStatus, RemovePacketStatus
  <1>9. VariablePacketMessage(CommandPacket(NextId)) \in A.messages["Send"]
    BY <1>3, <1>5, PacketToSend
  <1>10. ~RetryExhausted(msg) => check \in A.timers /\ retry \in A.resends
    BY <1>3, <1>5, <1>6, <1>7 DEF OtherTasks, TasksFor
  <1>11. SessionOK(A)'
    BY <1>4, <1>8, <1>9, <1>10, BatchHandleTyped DEF msg, check
  <1>12. Grown(mbox[CommandActor], mbox'[CommandActor], S)
    <2>1. mbox[CommandActor] \in Seq(CmdK.messages[CommandActor])
      BY <1>1 DEF SessionOK
    <2> QED
      BY <1>5, <2>1, BatchPosts, GrownTail
  <1>13. BagKeeps(resends, resends', ResendsFor(CmdK, CommandActor, S))
    <2>1. UNCHANGED resends \/ (~RetryExhausted(msg) /\ resends' = BagAdd(resends, retry))
      BY BatchCases DEF GiveUp, SetSendSchedule, HandleSendErrorWithResend, msg
    <2>2. ~RetryExhausted(msg) => retry \notin ResendsFor(CmdK, CommandActor, S)
      BY <1>6 DEF ResendsFor
    <2> HIDE DEF retry
    <2> QED
      BY <2>1, <2>2, BagAddKeeps, BagKeepsItself
  <1>14. UNCHANGED answered
    BY DEF BatchHandle
  <1>15. HeldTo(CmdK, CommandActor, S, id)'
    BY <1>1, <1>2, <1>11, <1>12, <1>13, <1>14, HeldElsewhere DEF Held
  <1> QED
    BY <1>15 DEF Held


\* What the batch does with an identifier that nobody has used: the operation
\* on its status is the first, and the check that asks about it the only one.
LEMMA BatchHandleAttempts ==
    ASSUME Chains, Attempts, BatchHandle,
           Head(mbox[CommandActor]).r \notin BadRequest => Unused(NextId)
    PROVE  Attempts'
  <1>0. PICK msg, n : msg = Head(mbox[CommandActor]) /\ n = NextId
    OBVIOUS
  <1> DEFINE check == AttemptCheck(msg, n)
             ops   == {RemovePacketStatus(n), SetPacketStatus(n, "Unit")}
  <1>1. /\ TypeOK /\ SessionOK(CmdK) /\ SessionOK(CmdK)' /\ Wired(CmdK) /\ StatusApart(CmdK)
        /\ CommandActor \in Actor \ {"Status"} /\ "Status" \in Actor
        /\ mbox["Status"] \in Seq(CmdK.messages["Status"])
    BY TypeParts, BatchHandleOK, CmdWired, CmdApart, CommandActors DEF Chains, SessionOK
  <1>2. msg \in BatchMessages /\ msg.r \in Request /\ n \in Id /\ mbox[CommandActor] # <<>>
    BY <1>0, <1>1, BatchTakes
  <1>3. \/ mbox'["Status"] = mbox["Status"]
        \/ /\ msg.r \notin BadRequest
           /\ \E op \in ops : mbox'["Status"] = Append(mbox["Status"], op)
    BY <1>0, <1>1, BatchPosts
  <1>4. UNCHANGED <<acked, packetStatus, answered>>
    BY DEF BatchHandle
  <1>5. \/ UNCHANGED sentAs
        \/ /\ msg.r \notin BadRequest
           /\ sentAs' = [sentAs EXCEPT ![msg.r] = Append(@, n)]
           /\ ~RetryExhausted(msg) /\ Accepts("Status") /\ Accepts("Send")
           /\ SetSendSchedule(Take(CommandActor), CommandActor, SetPacketStatus(n, "Unit"),
                  CommandPacket(n), check, Retried(msg))
    BY <1>0, BatchCases
  <1>6. \A op \in ops : op.id = n
    BY DEF RemovePacketStatus, SetPacketStatus
  <1>7. msg.r \notin BadRequest => Unused(n)
    BY <1>0
  <1> HIDE DEF check, ops
  <1>8. ASSUME NEW id \in Id, id # n \/ mbox'["Status"] = mbox["Status"]
        PROVE  /\ Clear(CmdK, id, {"Unit"}) => Clear(CmdK, id, {"Unit"})'
               /\ SetFirst(CmdK, id, {"Unit"}) => SetFirst(CmdK, id, {"Unit"})'
    <2>1. Grown(mbox["Status"], mbox'["Status"], StatusSets(CmdK, id, {"Unit"}))
      <3>1. CASE mbox'["Status"] = mbox["Status"]
        BY <1>1, <3>1, GrownItself
      <3>2. CASE id # n /\ \E op \in ops : mbox'["Status"] = Append(mbox["Status"], op)
        <4>1. PICK op \in ops : mbox'["Status"] = Append(mbox["Status"], op)
          BY <3>2
        <4>2. op \notin StatusSets(CmdK, id, {"Unit"})
          BY <1>6, <3>2 DEF StatusSets, StatusOps
        <4> QED
          BY <1>1, <4>1, <4>2, GrownAppend
      <3> QED
        BY <1>3, <1>8, <3>1, <3>2
    <2> QED
      BY <1>1, <1>4, <2>1, StatusGrows DEF Clear
  <1>9. StatusFirst'
    <2>1. ASSUME NEW op \in ops, mbox'["Status"] = Append(mbox["Status"], op), Unused(n)
          PROVE  SetFirst(CmdK, n, {"Unit"})'
      <3>1. NoneIn(mbox["Status"], StatusOps(CmdK, n))
        BY <2>1 DEF Unused, NoneIn, StatusOps
      <3>2. StatusSets(CmdK, n, {"Unit"}) \subseteq StatusOps(CmdK, n)
        BY DEF StatusSets
      <3>3. FirstOf(Append(mbox["Status"], op), StatusSets(CmdK, n, {"Unit"}), StatusOps(CmdK, n))
        BY <1>1, <3>1, <3>2, FirstAppended
      <3> QED
        BY <2>1, <3>3 DEF SetFirst
    <2>2. ASSUME NEW id \in Id PROVE SetFirst(CmdK, id, {"Unit"})'
      <3>1. CASE id # n \/ mbox'["Status"] = mbox["Status"]
        BY <1>8, <3>1 DEF Attempts, StatusFirst
      <3>2. CASE id = n /\ mbox'["Status"] # mbox["Status"]
        BY <1>3, <1>7, <2>1, <3>2
      <3> QED
        BY <3>1, <3>2
    <2> QED
      BY <2>2 DEF StatusFirst
  <1>10. \A id \in acked : id # n \/ mbox'["Status"] = mbox["Status"]
    BY <1>3, <1>7 DEF Unused
  <1>11. AckedClear'
    BY <1>1, <1>4, <1>8, <1>10 DEF Attempts, AckedClear, TypeOK
  <1>12. sentAs \in [Request -> Seq(Id)] /\ Append(sentAs[msg.r], n) \in Seq(Id)
    BY <1>1, <1>2, AppendProperties DEF TypeOK
  <1>13. ASSUME NEW r \in Request
         PROVE  /\ Sent(r) \subseteq Id
                /\ \/ Sent(r)' = Sent(r)
                   \/ sentAs' # sentAs /\ r = msg.r /\ Sent(r)' = Sent(r) \cup {n}
    <2>1. Sent(r) \subseteq Id
      BY <1>1, SentIds
    <2>2. CASE sentAs'[r] = sentAs[r]
      BY <2>1, <2>2 DEF Sent
    <2>3. CASE sentAs'[r] # sentAs[r]
      <3>1. r = msg.r /\ sentAs' # sentAs /\ sentAs'[r] = Append(sentAs[r], n)
        BY <1>2, <1>5, <1>12, <2>3
      <3>2. /\ DOMAIN Append(sentAs[r], n) = 1 .. Len(sentAs[r]) + 1
            /\ DOMAIN sentAs[r] = 1 .. Len(sentAs[r]) /\ Len(sentAs[r]) \in Nat
            /\ \A i \in 1 .. Len(sentAs[r]) : Append(sentAs[r], n)[i] = sentAs[r][i]
            /\ Append(sentAs[r], n)[Len(sentAs[r]) + 1] = n
        BY <1>2, <1>12, AppendProperties, LenProperties
      <3>3. \A i \in 1 .. Len(sentAs[r]) + 1 : i \in 1 .. Len(sentAs[r]) \/ i = Len(sentAs[r]) + 1
        BY <3>2
      <3>4. 1 .. Len(sentAs[r]) \subseteq 1 .. Len(sentAs[r]) + 1
            /\ Len(sentAs[r]) + 1 \in 1 .. Len(sentAs[r]) + 1
        BY <3>2
      <3>5. {Append(sentAs[r], n)[i] : i \in 1 .. Len(sentAs[r]) + 1}
                = {sentAs[r][i] : i \in 1 .. Len(sentAs[r])} \cup {n}
        BY <3>2, <3>3, <3>4
      <3>6. Sent(r)' = Sent(r) \cup {n}
        BY <3>1, <3>2, <3>5 DEF Sent
      <3> QED
        BY <2>1, <3>1, <3>6
    <2> QED
      BY <2>2, <2>3
  <1>14. \A r \in Request : n \in Sent(r) => msg.r \in BadRequest
    BY <1>7 DEF Unused, Sent
  <1>15. ASSUME NEW r \in Request, NEW id \in Sent(r), ~Clear(CmdK, id, {"Unit"})' \/ id \in acked
         PROVE  Held(r, id)'
    <2>1. id \in Id /\ (id # n \/ mbox'["Status"] = mbox["Status"])
      BY <1>3, <1>13, <1>14
    <2>2. ~Clear(CmdK, id, {"Unit"}) \/ id \in acked
      BY <1>8, <1>15, <2>1
    <2>3. Held(r, id)
      BY <2>2 DEF Attempts, AttemptsHeld
    <2>4. msg \notin RequestsOf(r)
      BY <1>1, <1>2, <2>3, <1>0, HeldNotHandled
    <2>5. msg.r # r
      BY <1>2, <2>4 DEF RequestsOf
    <2> QED
      BY <1>1, <2>3, <2>5, <1>0, BatchHandleHeld
  <1>16. ASSUME sentAs' # sentAs
         PROVE  Held(msg.r, n)'
    <2> DEFINE r == msg.r
               S == RequestsOf(r)
               box == Take(CommandActor)
    <2>1. /\ ~RetryExhausted(msg) /\ Accepts("Status") /\ Accepts("Send")
          /\ SetSendSchedule(box, CommandActor, SetPacketStatus(n, "Unit"),
                 CommandPacket(n), check, Retried(msg))
      BY <1>5, <1>16
    <2>2. /\ BoxesOK(CmdK, box)
          /\ check \in CmdK.timers
          /\ [to |-> CommandActor, msg |-> Retried(msg)] \in CmdK.resends
      BY <1>1, <2>1, <1>0, BatchTakes, CmdKFields DEF check
    <2>3. box["Status"] = mbox["Status"]
      BY <1>1 DEF Take, SessionOK
    <2>4. msg \in S
      BY <1>2 DEF RequestsOf
    <2>5. AbsentWith(box, CmdK, CommandActor, S)
      BY <1>2, <2>4, <1>0, OwnHead
    <2>6. Followed(CmdK, CommandActor, S)
      BY RequestsFollowed
    <2>7. /\ SetPacketStatus(n, "Unit") \in CmdK.messages["Status"]
          /\ VariablePacketMessage(CommandPacket(n)) \in CmdK.messages["Send"]
      BY <1>2, OpsToStatus, PacketToSend
    <2>8. SetPacketStatus(n, "Unit").op \in {"Set", "Remove"} /\ check.id = n
      BY DEF SetPacketStatus, check, AttemptCheck, StatusCheck
    <2>9. alive' \subseteq Actor /\ UNCHANGED <<packetStatus, asking, answered, wireVars>>
      BY <1>1 DEF BatchHandle, SessionOK
    <2> HIDE DEF box, S, r
    <2>10. HeldTo(CmdK, CommandActor, S, check.id)'
      BY <1>1, <2>1, <2>2, <2>3, <2>5, <2>6, <2>7, <2>8, <2>9, AttemptHeld
    <2>11. HeldTo(CmdK, CommandActor, S, n)'
      BY <2>8, <2>10
    <2> QED
      BY <2>11 DEF Held, S, r
  <1>17. AttemptsHeld'
    <2>1. ASSUME NEW r \in Request, NEW id \in Sent(r)', (~Clear(CmdK, id, {"Unit"}) \/ id \in acked)'
          PROVE  Held(r, id)'
      <3>1. id \in Sent(r) \/ (sentAs' # sentAs /\ r = msg.r /\ id = n)
        BY <1>13, <2>1
      <3>2. CASE id \in Sent(r)
        BY <1>4, <1>15, <2>1, <3>2
      <3>3. CASE sentAs' # sentAs /\ r = msg.r /\ id = n
        BY <1>16, <3>3
      <3> QED
        BY <3>1, <3>2, <3>3
    <2> QED
      BY <2>1 DEF AttemptsHeld
  <1>18. AttemptsApart'
    <2>1. ASSUME NEW r \in Request, NEW q \in Request, r # q
          PROVE  Sent(r)' \cap Sent(q)' = {}
      <3>1. Sent(r) \cap Sent(q) = {}
        BY <2>1 DEF Attempts, AttemptsApart
      <3>2. sentAs' # sentAs => msg.r \notin BadRequest
        BY <1>5
      <3>3. sentAs' # sentAs => n \notin Sent(r) /\ n \notin Sent(q)
        BY <1>14, <3>2
      <3>4. ~(r = msg.r /\ q = msg.r)
        BY <2>1
      <3> QED
        BY <1>13, <3>1, <3>3, <3>4
    <2> QED
      BY <2>1 DEF AttemptsApart
  <1> QED
    BY <1>9, <1>11, <1>17, <1>18 DEF Attempts

-----------------------------------------------------------------------------
(* The whole invariant.  A step keeps it when next_id gives it an          *)
(* identifier that nobody has used.                                        *)

Fresh ==
    BatchHandle /\ Head(mbox[CommandActor]).r \notin BadRequest => Unused(NextId)

Inv == Chains /\ Attempts

LEMMA InvInit == Init => Inv
  <1> SUFFICES ASSUME Init PROVE Attempts
    BY ChainsInit DEF Inv
  <1>1. /\ mbox = [a \in Actor |-> <<>>] /\ sentAs = [r \in Request |-> <<>>] /\ acked = {}
    BY DEF Init, SessionInit, ActorsInit, CommandInit
  <1>2. mbox["Status"] = <<>> /\ \A r \in Request : Sent(r) = {}
    BY <1>1, CommandActors DEF Sent
  <1>3. StatusFirst
    BY <1>2 DEF StatusFirst, SetFirst, FirstOf
  <1> QED
    BY <1>1, <1>2, <1>3 DEF Attempts, AckedClear, AttemptsHeld, AttemptsApart

LEMMA InvStep == Inv /\ [Next]_commandVars /\ [Fresh]_commandVars => Inv'
  <1> SUFFICES ASSUME Inv, [Next]_commandVars, [Fresh]_commandVars PROVE Attempts'
    BY ChainsStep DEF Inv
  <1>1. Chains /\ Attempts /\ TypeOK
    BY DEF Inv, Chains
  <1>2. Quiet => Attempts'
    BY <1>1, QuietAttempts
  <1>4. CASE \E q \in Request : ClientRequest(q)
    BY <1>1, <1>2, <1>4, ClientRequestQuiet
  <1>5. CASE RequestHandle
    BY <1>1, <1>2, <1>5, RequestHandleQuiet
  <1>6. CASE BatchHandle /\ Fresh
    BY <1>1, <1>6, BatchHandleAttempts DEF Fresh
  <1>7. CASE AnswerHandle
    BY <1>1, <1>2, <1>7, AnswerHandleQuiet
  <1>8. CASE CommandStatusHandle
    BY <1>1, <1>8, CommandStatusHandleAttempts
  <1>9. CASE BrokerRead
    BY <1>1, <1>2, <1>9, BrokerReadQuiet
  <1>10. CASE Background /\ UNCHANGED cmdVars
    BY <1>1, <1>2, <1>10, BackgroundQuiet
  <1>11. CASE UNCHANGED commandVars
    <2>1. UNCHANGED <<mbox, packetStatus, resends, timers, asking, answered, alive,
                      toBroker, fromBroker, sentAs, acked>>
      BY <1>11 DEF commandVars, sessionVars, actorVars, statusVars, wireVars, cmdVars
    <2>2. ASSUME NEW r, NEW id, Held(r, id)
          PROVE  Held(r, id)'
      <3>1. PICK A : A = AttemptK(CmdK, CommandActor, RequestsOf(r), id)
        OBVIOUS
      <3>2. SessionOK(A)'
        BY <2>1, <2>2, <3>1 DEF Held, HeldTo, SessionOK
      <3>3. Silent(CmdK, CommandActor, RequestsOf(r))'
        BY <2>1, <2>2 DEF Held, HeldTo, Silent
      <3> QED
        BY <3>1, <3>2, <3>3 DEF Held, HeldTo
    <2> QED
      BY <1>2, <2>1, <2>2, StatusUntouched DEF Quiet
  <1> QED
    BY <1>4, <1>5, <1>6, <1>7, <1>8, <1>9, <1>10, <1>11 DEF Next


-----------------------------------------------------------------------------
(* The refinement.  What a step does to the phase of a request.            *)

Gone(r)    == Absent(CmdK, CommandActor, RequestsOf(r))
Settled(r) == Sent(r) \cap acked # {}

PhaseOf(r) ==
    IF r \notin requested THEN "idle"
    ELSE IF Gone(r) THEN "over"
    ELSE IF Settled(r) THEN "answered"
    ELSE "open"

IsRequestOf(r, msg) == msg.type \in {"Request", "Batch"} /\ msg.r = r

LEMMA RequestsAre ==
    ASSUME NEW r \in Request
    PROVE  /\ \A msg \in MessagesTo(CommandActor) : IsRequestOf(r, msg) <=> msg \in RequestsOf(r)
           /\ \A t \in Tasks : /\ t.actor = CommandActor
                               /\ IsRequestOf(r, t.msg) <=> t \in TasksFor(CmdK, CommandActor, RequestsOf(r))
           /\ \A x \in CmdResends :
                  x.to = CommandActor /\ IsRequestOf(r, x.msg)
                      <=> x \in ResendsFor(CmdK, CommandActor, RequestsOf(r))
  <1>1. ASSUME NEW msg \in MessagesTo(CommandActor)
        PROVE  IsRequestOf(r, msg) <=> msg \in RequestsOf(r)
    <2>1. CASE msg.type = "Stop"
      BY <2>1, RequestsFields DEF IsRequestOf
    <2>2. CASE msg.type # "Stop"
      <3>1. msg \in BatchMessages \/ \E q \in Request : msg = RequestMessage(q)
        BY <2>2, HeadOfCommand
      <3>2. CASE msg \in BatchMessages
        BY <3>2 DEF IsRequestOf, RequestsOf, BatchMessages, RequestMessage
      <3>3. CASE \E q \in Request : msg = RequestMessage(q)
        BY <3>3 DEF IsRequestOf, RequestsOf, BatchMessages, RequestMessage
      <3> QED
        BY <3>1, <3>2, <3>3
    <2> QED
      BY <2>1, <2>2
  <1>2. BatchMessages \subseteq MessagesTo(CommandActor)
    BY DEF MessagesTo
  <1>3. ASSUME NEW t \in Tasks
        PROVE  /\ t.actor = CommandActor
               /\ IsRequestOf(r, t.msg) <=> t \in TasksFor(CmdK, CommandActor, RequestsOf(r))
    BY <1>1, <1>2, TaskFields, CmdKFields DEF TasksFor
  <1>4. ASSUME NEW x \in CmdResends
        PROVE  x.to = CommandActor /\ IsRequestOf(r, x.msg)
                   <=> x \in ResendsFor(CmdK, CommandActor, RequestsOf(r))
    <2>1. x.to = CommandActor => x.msg \in BatchMessages
      BY CommandActors DEF CmdResends
    <2> QED
      BY <1>1, <1>2, <2>1, CmdKFields DEF ResendsFor
  <1> QED
    BY <1>1, <1>3, <1>4

\* The questions about r.
LEMMA AsksAre ==
    ASSUME NEW r \in Request, NEW op \in MessagesTo("Status")
    PROVE  op \in Asks(CmdK, CommandActor, RequestsOf(r)) <=>
               /\ op.type = "Status" /\ op.op = "GetAndRemove"
               /\ op.task.actor = CommandActor /\ IsRequestOf(r, op.task.msg)
  <1>1. ASSUME op.type = "Status", op.op = "GetAndRemove"
        PROVE  op \in Asks(CmdK, CommandActor, RequestsOf(r)) <=>
                   op.task.actor = CommandActor /\ IsRequestOf(r, op.task.msg)
    <2>1. op = GetAndRemovePacketStatus(op.task) /\ op.task \in Tasks
      BY <1>1, CmdWired, CmdKFields, CommandActors DEF Wired
    <2>2. op \in Asks(CmdK, CommandActor, RequestsOf(r))
              <=> op.task \in TasksFor(CmdK, CommandActor, RequestsOf(r))
      BY <2>1, CmdKFields DEF Asks, GetAndRemovePacketStatus
    <2> QED
      BY <2>1, <2>2, RequestsAre
  <1>2. op \in Asks(CmdK, CommandActor, RequestsOf(r)) => op.type = "Status" /\ op.op = "GetAndRemove"
    BY DEF Asks, GetAndRemovePacketStatus
  <1> QED
    BY <1>1, <1>2

LEMMA Continuing ==
    TypeOK => \A r \in Request : CommandContinues(r) <=> ~Gone(r)
  <1> SUFFICES ASSUME TypeOK, NEW r \in Request
               PROVE  CommandContinues(r) <=> ~Gone(r)
    OBVIOUS
  <1> DEFINE S == RequestsOf(r)
  <1>1. /\ mbox[CommandActor] \in Seq(MessagesTo(CommandActor))
        /\ mbox["Status"] \in Seq(MessagesTo("Status"))
        /\ BagToSet(resends) \subseteq CmdResends
        /\ BagToSet(timers) \subseteq Tasks /\ BagToSet(asking) \subseteq Tasks
        /\ BagToSet(answered) \subseteq [task : Tasks, answer : Answer]
    BY CommandActors DEF TypeOK, CmdResends
  <1>2. (\E i \in DOMAIN mbox[CommandActor] : IsRequestOf(r, mbox[CommandActor][i]))
            <=> ~NoneIn(mbox[CommandActor], S)
    <2>1. \A i \in DOMAIN mbox[CommandActor] : mbox[CommandActor][i] \in MessagesTo(CommandActor)
      BY <1>1
    <2> QED
      BY <2>1, RequestsAre DEF NoneIn
  <1>3. (\E t \in BagToSet(timers) \cup BagToSet(asking) :
             t.actor = CommandActor /\ IsRequestOf(r, t.msg))
            <=> ~(/\ NoneInBag(timers, TasksFor(CmdK, CommandActor, S))
                  /\ NoneInBag(asking, TasksFor(CmdK, CommandActor, S)))
    BY <1>1, RequestsAre DEF NoneInBag
  <1>4. (\E x \in BagToSet(answered) : x.task.actor = CommandActor /\ IsRequestOf(r, x.task.msg))
            <=> ~NoneInBag(answered, AnswersFor(CmdK, CommandActor, S))
    BY <1>1, RequestsAre, CmdKFields DEF NoneInBag, AnswersFor
  <1>5. (\E x \in BagToSet(resends) : x.to = CommandActor /\ IsRequestOf(r, x.msg))
            <=> ~NoneInBag(resends, ResendsFor(CmdK, CommandActor, S))
    BY <1>1, RequestsAre DEF NoneInBag
  <1>6. {i \in DOMAIN mbox["Status"] :
            /\ mbox["Status"][i].type = "Status"
            /\ mbox["Status"][i].op = "GetAndRemove"
            /\ mbox["Status"][i].task.actor = CommandActor
            /\ IsRequestOf(r, mbox["Status"][i].task.msg)} # {}
            <=> ~NoneIn(mbox["Status"], Asks(CmdK, CommandActor, S))
    <2>1. \A i \in DOMAIN mbox["Status"] : mbox["Status"][i] \in MessagesTo("Status")
      BY <1>1
    <2> QED
      BY <2>1, AsksAre DEF NoneIn
  <1> QED
    BY <1>2, <1>3, <1>4, <1>5, <1>6
       DEF CommandContinues, Continues, QuestionsFor, IsRequestOf, Gone, Absent, NoneButAt

LEMMA PhaseNow == TypeOK => \A r \in Request : Phase(r) = PhaseOf(r)
  <1> SUFFICES ASSUME TypeOK, NEW r \in Request
               PROVE  Phase(r) = PhaseOf(r)
    OBVIOUS
  <1>1. CommandContinues(r) <=> ~Gone(r)
    BY Continuing
  <1>2. (\E i \in DOMAIN sentAs[r] : sentAs[r][i] \in acked) <=> Settled(r)
    BY DEF Settled, Sent
  <1> QED
    BY <1>1, <1>2 DEF Phase, PhaseOf

LEMMA PhaseNext == (TypeOK => \A r \in Request : Phase(r) = PhaseOf(r))'
  BY PhaseNow, PTL

\* What a step is to the specification of a retransmission.
LEMMA PromiseVars ==
    /\ Promise!retransmissionVars =
           <<[r \in Request |-> Phase(r)], [r \in Request |-> Len(sentAs[r])]>>
    /\ Promise!retransmissionVars' =
           <<[r \in Request |-> Phase(r)'], [r \in Request |-> Len(sentAs'[r])]>>
  BY DEF Promise!retransmissionVars

Promised == [Promise!Next]_(Promise!retransmissionVars)

\* A request that may not be handled again never will: at most some end.
LEMMA OnlyEnds ==
    ASSUME TypeOK, TypeOK', UNCHANGED <<requested, sentAs, acked>>,
           \A r \in Request : r \in requested /\ Gone(r) => Gone(r)'
    PROVE  Promised
  <1> DEFINE ended == {r \in Request : Phase(r)' # Phase(r)}
  <1>1. \A r \in Request : Phase(r) = PhaseOf(r) /\ Phase(r)' = PhaseOf(r)'
    BY PhaseNow, PhaseNext
  <1>2. \A r \in Request : Settled(r)' = Settled(r)
    BY DEF Settled, Sent
  <1>3. \A r \in Request : \/ PhaseOf(r)' = PhaseOf(r)
                           \/ PhaseOf(r)' = "over" /\ PhaseOf(r) \in {"open", "answered"}
    BY <1>2 DEF PhaseOf
  <1>4. CASE ended = {}
    <2>1. \A r \in Request : Phase(r)' = Phase(r)
      BY <1>4
    <2> QED
      BY <2>1, PromiseVars DEF Promised
  <1>5. CASE ended # {}
    <2>1. ended \in SUBSET {r \in Request : Phase(r) \in {"open", "answered"}}
      BY <1>1, <1>3
    <2>2. \A r \in Request : Phase(r)' = IF r \in ended THEN "over" ELSE Phase(r)
      BY <1>1, <1>3
    <2> HIDE DEF ended
    <2>3. Promise!End(ended)
      BY <1>5, <2>2 DEF Promise!End
    <2>4. ended \in SUBSET {r \in Request : [q \in Request |-> Phase(q)][r] \in {"open", "answered"}}
      BY <2>1
    <2> QED
      BY <2>3, <2>4 DEF Promised, Promise!Next
  <1> QED
    BY <1>4, <1>5

\* subscribe(), unsubscribe(): the message is in the mailbox.
LEMMA ClientRequestPromised ==
    ASSUME Chains, TypeOK', NEW q \in Request, ClientRequest(q)
    PROVE  Promised
  <1>1. /\ TypeOK /\ SessionOK(CmdK) /\ CommandActor \in Actor \ {"Status"}
        /\ mbox[CommandActor] \in Seq(CmdK.messages[CommandActor])
    BY TypeParts, CommandActors DEF Chains, SessionOK
  <1>2. /\ q \notin requested /\ requested' = requested \cup {q}
        /\ UNCHANGED <<resends, timers, asking, answered, sentAs, acked>>
    BY DEF ClientRequest, statusVars
  <1>3. /\ mbox'[CommandActor] = Append(mbox[CommandActor], RequestMessage(q))
        /\ mbox'["Status"] = mbox["Status"]
    BY <1>1, CommandActors DEF ClientRequest, Post, Accepts, SessionOK
  <1>4. \A r \in Request : Phase(r) = PhaseOf(r) /\ Phase(r)' = PhaseOf(r)'
    BY <1>1, PhaseNow, PhaseNext
  <1>5. ASSUME NEW r \in Request, r # q
        PROVE  PhaseOf(r)' = PhaseOf(r)
    <2>1. RequestMessage(q) \notin RequestsOf(r)
      BY <1>5, RequestsFields DEF RequestMessage
    <2>2. NoneIn(mbox'[CommandActor], RequestsOf(r)) <=> NoneIn(mbox[CommandActor], RequestsOf(r))
      BY <1>1, <1>3, <2>1, NoneInAppend, StaysThere
    <2>3. Gone(r)' <=> Gone(r)
      BY <1>2, <1>3, <2>2 DEF Gone, Absent, NoneButAt
    <2> QED
      BY <1>2, <1>5, <2>3 DEF PhaseOf, Settled, Sent
  <1>6. PhaseOf(q) = "idle"
    BY <1>2 DEF PhaseOf
  <1>7. PhaseOf(q)' = "open"
    <2>1. ~Gone(q)'
      <3>1. LET n == Len(mbox[CommandActor]) + 1
            IN  n \in DOMAIN mbox'[CommandActor] /\ mbox'[CommandActor][n] = RequestMessage(q)
        BY <1>1, <1>3, AppendProperties, LenProperties
      <3>2. RequestMessage(q) \in RequestsOf(q)
        BY DEF RequestsOf
      <3> QED
        BY <3>1, <3>2 DEF Gone, Absent, NoneButAt, NoneIn
    <2>2. sentAs'[q] = <<>>
      BY <1>2 DEF Chains, ChainOf
    <2>3. ~Settled(q)'
      BY <2>2 DEF Settled, Sent
    <2> QED
      BY <1>2, <2>1, <2>3 DEF PhaseOf
  <1>8. Promise!Issue(q)
    <2>1. [r \in Request |-> Phase(r)][q] = "idle"
      BY <1>4, <1>6
    <2>2. [r \in Request |-> Phase(r)'] = [[r \in Request |-> Phase(r)] EXCEPT ![q] = "open"]
      BY <1>4, <1>5, <1>7
    <2>3. [r \in Request |-> Len(sentAs'[r])] = [r \in Request |-> Len(sentAs[r])]
      BY <1>2
    <2> QED
      BY <2>1, <2>2, <2>3 DEF Promise!Issue
  <1> QED
    BY <1>8 DEF Promised, Promise!Next


LEMMA RequestHandlePromised ==
    ASSUME Chains, TypeOK', RequestHandle
    PROVE  Promised
  <1>1. TypeOK /\ UNCHANGED <<requested, sentAs, acked>>
    BY DEF Chains, RequestHandle, cmdVars
  <1>2. ASSUME NEW r \in Request, Gone(r)
        PROVE  Gone(r)'
    <2>1. Head(mbox[CommandActor]).r # r
      <3> SUFFICES ASSUME Head(mbox[CommandActor]).r = r PROVE FALSE
        OBVIOUS
      <3>1. mbox[CommandActor] # <<>> /\ Head(mbox[CommandActor]) \in RequestsOf(r)
        BY <1>1, RequestTakes DEF RequestsOf
      <3> QED
        BY <1>2, <3>1, OwnHead DEF Gone
    <2>2. CarriesAll(r)
      BY <1>1, <2>1, RequestHandleCarries
    <2> QED
      BY <1>2, <2>2 DEF CarriesAll, Carries, Gone
  <1> QED
    BY <1>1, <1>2, OnlyEnds

\* The batch that is sent.
LEMMA Transmits ==
    ASSUME Chains, Attempts, TypeOK', BatchHandle, sentAs' # sentAs,
           Head(mbox[CommandActor]).r \notin BadRequest => Unused(NextId)
    PROVE  Promised
  <1>0. PICK msg, n : msg = Head(mbox[CommandActor]) /\ n = NextId
    OBVIOUS
  <1> DEFINE q     == msg.r
             check == AttemptCheck(msg, n)
             op    == SetPacketStatus(n, "Unit")
  <1>1. /\ TypeOK /\ SessionOK(CmdK) /\ CommandActor \in Actor \ {"Status"}
        /\ mbox[CommandActor] \in Seq(CmdK.messages[CommandActor])
        /\ mbox["Status"] \in Seq(CmdK.messages["Status"])
        /\ mbox[CommandActor] # <<>>
    BY TypeParts, CommandActors DEF Chains, SessionOK, BatchHandle, Handling
  <1>2. msg \in BatchMessages /\ q \in Request /\ n \in Id
    BY <1>0, <1>1, BatchTakes
  <1>3. /\ ~RetryExhausted(msg) /\ q \notin BadRequest
        /\ Accepts("Status") /\ Accepts("Send")
        /\ SetSendSchedule(Take(CommandActor), CommandActor, op, CommandPacket(n),
               check, Retried(msg))
        /\ sentAs' = [sentAs EXCEPT ![q] = Append(@, n)]
    BY <1>0, BatchCases
  <1>4. Unused(n)
    BY <1>0, <1>3
  <1>5. UNCHANGED <<asking, answered, requested, acked>>
    BY DEF BatchHandle
  <1>6. timers' = BagAdd(timers, check) /\ UNCHANGED resends
    BY <1>3 DEF SetSendSchedule
  <1>7. /\ mbox'[CommandActor] = Tail(mbox[CommandActor])
        /\ \/ mbox'["Status"] = mbox["Status"]
           \/ \E x \in {RemovePacketStatus(n), op} : mbox'["Status"] = Append(mbox["Status"], x)
    BY <1>0, <1>1, BatchPosts
  <1>8. \A r \in Request : Phase(r) = PhaseOf(r) /\ Phase(r)' = PhaseOf(r)'
    BY <1>1, PhaseNow, PhaseNext
  <1>9. check.msg = Retried(msg) /\ check \in Tasks
    BY <1>0, <1>1, <1>3, BatchTakes DEF AttemptCheck, StatusCheck
  <1>10. sentAs \in [Request -> Seq(Id)] /\ Append(sentAs[q], n) \in Seq(Id)
    BY <1>1, <1>2, AppendProperties DEF TypeOK
  <1>11. Retried(msg) \in RequestsOf(q) /\ Retried(msg).r = q
    BY <1>2, <1>3, RetriedOK DEF RequestsOf
  <1> HIDE DEF check, op
  <1>12. ASSUME NEW r \in Request, r # q
         PROVE  PhaseOf(r)' = PhaseOf(r)
    <2> DEFINE S == RequestsOf(r)
    <2>1. msg \notin S /\ Retried(msg) \notin S
      BY <1>11, <1>12, RequestsFields
    <2>2. NoneIn(mbox'[CommandActor], S) <=> NoneIn(mbox[CommandActor], S)
      BY <1>0, <1>1, <1>7, <2>1, InTail, StaysThere
    <2>3. NoneIn(mbox'["Status"], Asks(CmdK, CommandActor, S))
              <=> NoneIn(mbox["Status"], Asks(CmdK, CommandActor, S))
      <3>1. \A x \in {RemovePacketStatus(n), op} : x \notin Asks(CmdK, CommandActor, S)
        BY NotAsked DEF RemovePacketStatus, SetPacketStatus, op
      <3> QED
        BY <1>1, <1>7, <3>1, NoneInAppend, StaysThere
    <2>4. NoneInBag(timers', TasksFor(CmdK, CommandActor, S))
              <=> NoneInBag(timers, TasksFor(CmdK, CommandActor, S))
      <3>1. check \notin TasksFor(CmdK, CommandActor, S)
        BY <1>9, <2>1 DEF TasksFor
      <3> QED
        BY <1>6, <3>1, NoneInBagAdd, StaysThere
    <2>5. Gone(r)' <=> Gone(r)
      BY <1>5, <1>6, <2>2, <2>3, <2>4 DEF Gone, Absent, NoneButAt
    <2>6. sentAs'[r] = sentAs[r]
      BY <1>2, <1>3, <1>10, <1>12
    <2> QED
      BY <1>5, <2>5, <2>6 DEF PhaseOf, Settled, Sent
  <1>13. msg \in RequestsOf(q) /\ RepeatOf(msg) = msg.retry
    BY <1>2 DEF RequestsOf, RepeatOf, BatchMessages
  <1>14. ~Gone(q) /\ q \in requested /\ ~(msg.retry < Len(sentAs[q]))
    BY <1>0, <1>1, <1>2, <1>13, OwnHead DEF Gone
  <1>15. ~Settled(q)
    <2>1. ASSUME NEW id \in Sent(q), id \in acked PROVE FALSE
      <3>1. Held(q, id)
        BY <1>2, <2>1 DEF Attempts, AttemptsHeld
      <3> QED
        BY <1>0, <1>1, <1>13, <3>1, HeldNotHandled
    <2> QED
      BY <2>1 DEF Settled
  <1>16. ~Settled(q)'
    <2>1. \A i \in DOMAIN sentAs'[q] : sentAs'[q][i] \notin acked
      <3>1. sentAs'[q] = Append(sentAs[q], n) /\ sentAs[q] \in Seq(Id)
        BY <1>2, <1>3, <1>10
      <3>2. \A i \in DOMAIN sentAs[q] : sentAs[q][i] \notin acked
        BY <1>15 DEF Settled, Sent
      <3>3. n \notin acked
        BY <1>4 DEF Unused
      <3>4. NoneIn(sentAs[q], acked)
        BY <3>2 DEF NoneIn
      <3>5. NoneIn(sentAs'[q], acked)
        BY <3>1, <3>3, <3>4, NoneInAppend
      <3> QED
        BY <3>5 DEF NoneIn
    <2> QED
      BY <1>5, <2>1 DEF Settled, Sent
  <1>17. ~Gone(q)'
    <2>1. check \in TasksFor(CmdK, CommandActor, RequestsOf(q))
      BY <1>9, <1>11, TaskFields, CmdKFields DEF TasksFor
    <2>2. check \in BagToSet(timers')
      BY <1>6, BagAddElements
    <2> QED
      BY <2>1, <2>2 DEF Gone, Absent, NoneButAt, NoneInBag
  <1>18. PhaseOf(q) = "open" /\ PhaseOf(q)' = "open"
    BY <1>5, <1>14, <1>15, <1>16, <1>17 DEF PhaseOf
  <1>19. Len(sentAs[q]) < MaxRetryCount + 1 /\ Len(sentAs'[q]) = Len(sentAs[q]) + 1
    <2>1. Len(sentAs[q]) \in Nat /\ msg.retry \in Nat /\ msg.retry <= MaxRetryCount
      BY <1>2, <1>3, <1>10, StatusAssumption DEF BatchMessages, Retry, RetryExhausted
    <2>2. Len(sentAs[q]) <= msg.retry
      BY <1>14, <2>1
    <2>3. Len(sentAs[q]) < MaxRetryCount + 1
      BY <2>1, <2>2, StatusAssumption
    <2>4. Len(sentAs'[q]) = Len(sentAs[q]) + 1
      BY <1>2, <1>3, <1>10, AppendProperties
    <2> QED
      BY <2>3, <2>4
  <1> HIDE DEF q
  <1>20. Promise!Transmit(q)
    <2> DEFINE now == [r \in Request |-> Phase(r)]
               sent == [r \in Request |-> Len(sentAs[r])]
    <2>1. now[q] = "open" /\ sent[q] < MaxRetryCount + 1
      BY <1>2, <1>8, <1>18, <1>19
    <2>2. [r \in Request |-> Phase(r)'] = now
      BY <1>8, <1>12, <1>18
    <2>3. [r \in Request |-> Len(sentAs'[r])] = [sent EXCEPT ![q] = @ + 1]
      <3>1. \A r \in Request : r # q => sentAs'[r] = sentAs[r]
        BY <1>2, <1>3, <1>10
      <3> QED
        BY <1>2, <1>19, <3>1
    <2> QED
      BY <2>1, <2>2, <2>3 DEF Promise!Transmit
  <1> QED
    BY <1>2, <1>20 DEF Promised, Promise!Next

LEMMA BatchHandlePromised ==
    ASSUME Chains, Attempts, TypeOK', BatchHandle,
           Head(mbox[CommandActor]).r \notin BadRequest => Unused(NextId)
    PROVE  Promised
  <1>1. CASE sentAs' # sentAs
    BY <1>1, Transmits
  <1>2. CASE sentAs' = sentAs
    <2>1. TypeOK /\ UNCHANGED <<requested, sentAs, acked>>
      BY <1>2 DEF Chains, BatchHandle
    <2>2. ASSUME NEW r \in Request, Gone(r)
          PROVE  Gone(r)'
      <3>1. Head(mbox[CommandActor]).r # r
        <4> SUFFICES ASSUME Head(mbox[CommandActor]).r = r PROVE FALSE
          OBVIOUS
        <4>1. mbox[CommandActor] # <<>> /\ Head(mbox[CommandActor]) \in RequestsOf(r)
          BY <2>1, BatchTakes DEF RequestsOf
        <4> QED
          BY <2>2, <4>1, OwnHead DEF Gone
      <3>2. CarriesAll(r)
        BY <2>1, <3>1, BatchHandleCarries
      <3> QED
        BY <2>2, <3>2 DEF CarriesAll, Carries, Gone
    <2> QED
      BY <2>1, <2>2, OnlyEnds
  <1> QED
    BY <1>1, <1>2

\* Steps that carry every message along and settle no attempt.
LEMMA ElsewherePromised ==
    ASSUME TypeOK, TypeOK', UNCHANGED <<requested, sentAs, acked>>,
           AnswerHandle \/ CommandStatusHandle \/ BrokerRead \/ Background
    PROVE  Promised
  <1>1. ASSUME NEW r \in Request, Gone(r)
        PROVE  Gone(r)'
    <2>1. CarriesAll(r)
      BY ElsewhereCarries
    <2> QED
      BY <1>1, <2>1 DEF CarriesAll, Carries, Gone
  <1> QED
    BY <1>1, OnlyEnds

\* The status actor removes the status of an attempt.  It is an attempt at one
\* request, which is answered unless it was already.
LEMMA CommandStatusHandlePromised ==
    ASSUME TypeOK, Attempts, TypeOK', CommandStatusHandle
    PROVE  Promised
  <1> DEFINE op == Head(mbox["Status"])
  <1>1. StatusHandle /\ UNCHANGED <<requested, sentAs>>
    BY DEF CommandStatusHandle
  <1>2. CASE acked' = acked
    BY <1>1, <1>2, ElsewherePromised
  <1>3. CASE acked' # acked
    <2>1. PICK n \in Id : op.id = n /\ op.op = "Remove" /\ acked' = acked \cup {n}
      <3>1. op.id \in Id
        BY TypeParts, CmdWired, StatusHandleTyped DEF CommandStatusHandle
      <3>2. acked' = acked \cup
                IF op.op = "Remove" /\ packetStatus[op.id] # NoStatus THEN {op.id} ELSE {}
        BY DEF CommandStatusHandle
      <3> HIDE DEF op
      <3> QED
        BY <1>3, <3>1, <3>2
    <2>2. /\ "Status" \in Actor /\ CommandActor \in Actor \ {"Status"} /\ DOMAIN mbox = Actor
          /\ mbox["Status"] \in Seq(CmdK.messages["Status"]) /\ mbox["Status"] # <<>>
      BY <1>1, TypeParts, CommandActors DEF SessionOK, StatusHandle, Handling
    <2>3. UNCHANGED <<resends, timers, asking, answered>>
      BY <1>1, <2>1 DEF StatusHandle
    <2>4. mbox'[CommandActor] = mbox[CommandActor] /\ mbox'["Status"] = Tail(mbox["Status"])
      BY <1>1, <2>2, CommandAssumption DEF StatusHandle, Take
    <2>5. \A r \in Request : Phase(r) = PhaseOf(r) /\ Phase(r)' = PhaseOf(r)'
      BY PhaseNow, PhaseNext
    <2>6. ASSUME NEW r \in Request
          PROVE  /\ Gone(r)' <=> Gone(r)
                 /\ Settled(r)' <=> Settled(r) \/ n \in Sent(r)
      <3>1. op \notin Asks(CmdK, CommandActor, RequestsOf(r))
        BY <2>1, NotAsked
      <3>2. NoneIn(mbox'["Status"], Asks(CmdK, CommandActor, RequestsOf(r)))
                <=> NoneIn(mbox["Status"], Asks(CmdK, CommandActor, RequestsOf(r)))
        BY <2>2, <2>4, <3>1, InTail, StaysThere
      <3>3. Gone(r)' <=> Gone(r)
        BY <2>3, <2>4, <3>2 DEF Gone, Absent, NoneButAt
      <3>4. Sent(r)' = Sent(r)
        BY <1>1 DEF Sent
      <3>5. Settled(r)' <=> Settled(r) \/ n \in Sent(r)
        BY <2>1, <3>4 DEF Settled
      <3> QED
        BY <3>3, <3>5
    <2> HIDE DEF op
    <2>7. CASE \E q \in Request : n \in Sent(q) /\ PhaseOf(q) = "open"
      <3>1. PICK q \in Request : n \in Sent(q) /\ PhaseOf(q) = "open"
        BY <2>7
      <3>2. PhaseOf(q)' = "answered"
        BY <1>1, <2>6, <3>1 DEF PhaseOf
      <3>3. ASSUME NEW r \in Request, r # q
            PROVE  PhaseOf(r)' = PhaseOf(r)
        <4>1. n \notin Sent(r)
          BY <3>1, <3>3 DEF Attempts, AttemptsApart
        <4> QED
          BY <1>1, <2>6, <4>1 DEF PhaseOf
      <3>4. Promise!Answer(q)
        <4>1. [r \in Request |-> Phase(r)][q] = "open"
          BY <2>5, <3>1
        <4>2. [r \in Request |-> Phase(r)'] = [[r \in Request |-> Phase(r)] EXCEPT ![q] = "answered"]
          BY <2>5, <3>2, <3>3
        <4>3. [r \in Request |-> Len(sentAs'[r])] = [r \in Request |-> Len(sentAs[r])]
          BY <1>1
        <4> QED
          BY <4>1, <4>2, <4>3 DEF Promise!Answer
      <3> QED
        BY <3>4 DEF Promised, Promise!Next
    <2>8. CASE \A q \in Request : n \in Sent(q) => PhaseOf(q) # "open"
      <3>1. \A r \in Request : PhaseOf(r)' = PhaseOf(r)
        BY <1>1, <2>6, <2>8 DEF PhaseOf
      <3>2. \A r \in Request : Phase(r)' = Phase(r)
        BY <2>5, <3>1
      <3> QED
        BY <1>1, <3>2, PromiseVars DEF Promised
    <2> QED
      BY <2>7, <2>8
  <1> QED
    BY <1>2, <1>3

LEMMA PromisedInit == Init => Promise!Init
  <1> SUFFICES ASSUME Init PROVE Promise!Init
    OBVIOUS
  <1>1. requested = {} /\ sentAs = [r \in Request |-> <<>>]
    BY DEF Init, CommandInit
  <1>2. \A r \in Request : Phase(r) = "idle" /\ Len(sentAs[r]) = 0
    BY <1>1 DEF Phase
  <1> QED
    BY <1>2 DEF Promise!Init

LEMMA PromisedStep ==
    Inv /\ TypeOK' /\ [Next]_commandVars /\ [Fresh]_commandVars => Promised
  <1> SUFFICES ASSUME Inv, TypeOK', [Next]_commandVars, [Fresh]_commandVars
               PROVE  Promised
    OBVIOUS
  <1>1. Chains /\ Attempts /\ TypeOK
    BY DEF Inv, Chains
  <1>2. CASE \E q \in Request : ClientRequest(q)
    BY <1>1, <1>2, ClientRequestPromised
  <1>3. CASE RequestHandle
    BY <1>1, <1>3, RequestHandlePromised
  <1>4. CASE BatchHandle /\ Fresh
    BY <1>1, <1>4, BatchHandlePromised DEF Fresh
  <1>5. CASE AnswerHandle
    BY <1>1, <1>5, ElsewherePromised DEF AnswerHandle, cmdVars
  <1>6. CASE CommandStatusHandle
    BY <1>1, <1>6, CommandStatusHandlePromised
  <1>7. CASE BrokerRead
    BY <1>1, <1>7, ElsewherePromised DEF BrokerRead
  <1>8. CASE Background /\ UNCHANGED cmdVars
    BY <1>1, <1>8, ElsewherePromised DEF cmdVars
  <1>9. CASE UNCHANGED commandVars
    <2>1. UNCHANGED <<mbox, resends, statusVars, requested, sentAs, acked>>
      BY <1>9 DEF commandVars, sessionVars, actorVars, cmdVars
    <2>2. \A r \in Request : Gone(r) => Gone(r)'
      BY <2>1 DEF Gone, Absent, NoneButAt, statusVars
    <2> QED
      BY <1>1, <2>1, <2>2, OnlyEnds
  <1> QED
    BY <1>2, <1>3, <1>4, <1>5, <1>6, <1>7, <1>8, <1>9 DEF Next

\* As long as next_id gives every attempt an identifier of its own, SUBSCRIBE
\* and UNSUBSCRIBE implement Retransmission: a request is transmitted at most
\* MAX_RETRY_COUNT + 1 times (src/actors/packets/macros.rs:150-208), never after
\* its SUBACK or UNSUBACK has removed the status of an attempt, and never again
\* once nothing is left that could repeat it.
THEOREM CommandRefines == Spec /\ FreshIdentifiers => CommandKeepsPromise
  <1>1. Init => Inv /\ Promise!Init
    BY InvInit, PromisedInit
  <1>2. Inv /\ [Next]_commandVars /\ [Fresh]_commandVars => Inv'
    BY InvStep
  <1>3. Inv' => TypeOK'
    BY DEF Inv, Chains
  <1>4. Inv /\ TypeOK' /\ [Next]_commandVars /\ [Fresh]_commandVars
            => [Promise!Next]_(Promise!retransmissionVars)
    BY PromisedStep DEF Promised
  <1>5. FreshIdentifiers <=> [][Fresh]_commandVars
    BY PTL DEF FreshIdentifiers, Fresh
  <1> QED
    BY <1>1, <1>2, <1>3, <1>4, <1>5, PTL DEF Spec, CommandKeepsPromise, Promise!Spec


-----------------------------------------------------------------------------
(* Who removes a status.  As long as the server has not taken a packet      *)
(* with identifier id, no answer to id is on its way, so the only one who   *)
(* removes its status is a batch that gives up, and that one had taken an  *)
(* identifier without a status.                                            *)

UntakenK(id) ==
    [messages |-> [a \in Actor |->
         {msg \in MessagesTo(a) :
             a \in {AnswerType, "Dispatch"} /\ msg.type # "Stop" => msg.packet.id # id}],
     resends |-> {x \in CmdResends : x.to = AnswerType => x.msg.packet.id # id},
     tasks |-> Tasks, timers |-> Tasks, payload |-> {"Unit"},
     client |-> CommandPackets, server |-> {packet \in AnswerPackets : packet.id # id}]

RemovesOf(id) == {RemovePacketStatus(id)}

Untaken(id) ==
    /\ SessionOK(UntakenK(id))
    /\ Clear(CmdK, id, {"Unit"}) \/ NoneIn(mbox["Status"], RemovesOf(id))

Removals == \A id \in Id : id \in taken \/ Untaken(id)

LEMMA UntakenFields ==
    ASSUME NEW id
    PROVE  LET K == UntakenK(id)
           IN  /\ \A a \in Actor \ {AnswerType, "Dispatch"} : K.messages[a] = MessagesTo(a)
               /\ \A a \in {AnswerType, "Dispatch"} :
                      K.messages[a] = {msg \in MessagesTo(a) : msg.type # "Stop" => msg.packet.id # id}
               /\ K.resends = {x \in CmdResends : x.to = AnswerType => x.msg.packet.id # id}
               /\ K.tasks = Tasks /\ K.timers = Tasks /\ K.payload = {"Unit"}
               /\ K.client = CommandPackets
               /\ K.server = {packet \in AnswerPackets : packet.id # id}
  BY CommandActors DEF UntakenK

LEMMA UntakenWired ==
    ASSUME NEW id
    PROVE  Wired(UntakenK(id))
  <1>1. PICK K : K = UntakenK(id)
    OBVIOUS
  <1>2. /\ \A a \in Actor \ {AnswerType, "Dispatch"} : K.messages[a] = CmdK.messages[a]
        /\ \A a \in {AnswerType, "Dispatch"} :
               K.messages[a] = {msg \in CmdK.messages[a] : msg.type # "Stop" => msg.packet.id # id}
        /\ K.resends = {x \in CmdResends : x.to = AnswerType => x.msg.packet.id # id}
        /\ K.tasks = CmdK.tasks /\ K.timers = CmdK.timers /\ K.payload = CmdK.payload
        /\ K.client = CmdK.client
        /\ K.server = {packet \in AnswerPackets : packet.id # id}
    BY <1>1, UntakenFields, CmdKFields, CommandActors
  <1>3. Wired(CmdK) /\ CmdK.resends = CmdResends /\ CmdK.server = AnswerPackets /\ CmdK.tasks = Tasks
    BY CmdWired, CmdKFields
  <1>4. /\ "Status" \in Actor \ {AnswerType, "Dispatch"}
        /\ "Send" \in Actor \ {AnswerType, "Dispatch"}
        /\ CommandActor \in Actor \ {AnswerType, "Dispatch"}
        /\ AnswerType \in Actor /\ "Dispatch" \in Actor
    BY CommandActors
  <1>5. \A a \in Actor : StopMessage \in K.messages[a]
    BY <1>2, <1>3, <1>4 DEF Wired, StopMessage
  <1>6. ASSUME NEW x \in K.resends
        PROVE  x.msg \in K.messages[x.to]
    <2>1. x \in CmdResends /\ x.msg \in CmdK.messages[x.to] /\ x.to \in {CommandActor, AnswerType}
      BY <1>2, <1>3, <1>6 DEF Wired, CmdResends
    <2> QED
      BY <1>2, <1>4, <1>6, <2>1
  <1>7. \A t \in K.tasks : /\ GetAndRemovePacketStatus(t) \in K.messages["Status"]
                           /\ t.kind = "check" => t.msg \in K.messages[t.actor]
    BY <1>2, <1>3, <1>4, TaskFields DEF Wired
  <1>8. \A packet \in K.server : VariablePacketMessage(packet) \in K.messages["Dispatch"]
    BY <1>2, <1>3, <1>4 DEF Wired, VariablePacketMessage
  <1>9. ASSUME NEW msg \in K.messages["Dispatch"], msg.type = "Packet"
        PROVE  PacketMessage(msg.packet, 0) \in K.messages[Target[msg.packet.type]]
    <2>1. msg \in MessagesTo("Dispatch") /\ msg.packet.id # id
      BY <1>2, <1>4, <1>9, CmdKFields
    <2>2. msg.packet \in AnswerPackets
      BY <1>9, <2>1, HeadOfDispatch
    <2>3. Target[msg.packet.type] = AnswerType /\ PacketMessage(msg.packet, 0) \in MessagesTo(AnswerType)
      BY <2>2, Dispatched
    <2>4. PacketMessage(msg.packet, 0).packet.id # id
      BY <2>1 DEF PacketMessage
    <2> QED
      BY <1>2, <1>4, <2>3, <2>4, CmdKFields
  <1>10. /\ \A op \in K.messages["Status"] :
                op.type = "Status" =>
                    /\ op.id \in Id
                    /\ op.op = "Set" => op.payload \in K.payload
                    /\ op.op = "GetAndRemove" =>
                           op = GetAndRemovePacketStatus(op.task) /\ op.task \in K.tasks
         /\ K.timers \subseteq K.tasks
         /\ K.payload \subseteq Payload
    BY <1>2, <1>3, <1>4 DEF Wired
  <1>11. \A msg \in K.messages["Send"] : msg.type = "Packet" => msg.packet \in K.client
    BY <1>2, <1>3, <1>4 DEF Wired
  <1>12. Wired(K)
    BY <1>5, <1>6, <1>7, <1>8, <1>9, <1>10, <1>11, CommandAssumption DEF Wired
  <1> QED
    BY <1>1, <1>12

LEMMA UntakenTyped ==
    ASSUME TypeOK, NEW id \in Id, SessionOK(UntakenK(id)), [Next]_commandVars, id \notin taken'
    PROVE  SessionOK(UntakenK(id))'
  <1>0. PICK K : K = UntakenK(id)
    OBVIOUS
  <1>1. /\ \A a \in Actor \ {AnswerType, "Dispatch"} : K.messages[a] = CmdK.messages[a]
        /\ \A a \in {AnswerType, "Dispatch"} :
               K.messages[a] = {msg \in MessagesTo(a) : msg.type # "Stop" => msg.packet.id # id}
        /\ K.resends = {x \in CmdResends : x.to = AnswerType => x.msg.packet.id # id}
        /\ K.timers = Tasks /\ K.client = CommandPackets
        /\ K.server = {packet \in AnswerPackets : packet.id # id}
    BY <1>0, UntakenFields, CmdKFields
  <1>2. /\ "Status" \in Actor \ {AnswerType, "Dispatch"}
        /\ "Send" \in Actor \ {AnswerType, "Dispatch"}
        /\ CommandActor \in Actor \ {AnswerType, "Dispatch"}
        /\ AnswerType \in Actor /\ CommandActor # AnswerType
    BY CommandActors
  <1>3. SessionOK(K) /\ Wired(K)
    BY <1>0, UntakenWired
  <1> SUFFICES SessionOK(K)'
    BY <1>0
  <1>4. CASE \E q \in Request : ClientRequest(q)
    <2>1. PICK q \in Request : ClientRequest(q)
      BY <1>4
    <2>2. RequestMessage(q) \in K.messages[CommandActor]
      BY <1>1, <1>2, CmdKFields DEF MessagesTo
    <2> QED
      BY <1>3, <2>1, <2>2, ClientRequestTyped
  <1>5. CASE RequestHandle
    <2>1. Batch(Head(mbox[CommandActor]).r, 0) \in K.messages[CommandActor]
      BY <1>1, <1>2, <1>5, RequestTakes, CmdKFields DEF MessagesTo
    <2> QED
      BY <1>3, <1>5, <2>1, RequestHandleTyped
  <1>6. CASE BatchHandle
    <2>1. /\ NextId \in Id
          /\ ~RetryExhausted(Head(mbox[CommandActor])) =>
                 /\ AttemptCheck(Head(mbox[CommandActor]), NextId) \in K.timers
                 /\ [to |-> CommandActor, msg |-> Retried(Head(mbox[CommandActor]))] \in K.resends
      BY <1>1, <1>2, <1>6, BatchTakes
    <2> QED
      BY <1>1, <1>2, <1>3, <1>6, <2>1, BatchHandleTyped, OpsToStatus, PacketToSend
  <1>7. CASE AnswerHandle
    <2>1. /\ ResponseHandle(AnswerType, AnswerType) /\ UNCHANGED wireVars
          /\ RemovePacketStatus(Head(mbox[AnswerType]).packet.id) \in K.messages["Status"]
          /\ [to |-> AnswerType, msg |-> Head(mbox[AnswerType])] \in CmdResends
      BY <1>1, <1>2, <1>7, AnswerTakes, CmdKFields
    <2>2. Handling(AnswerType, AnswerType)
      BY <2>1 DEF ResponseHandle
    <2>3. Head(mbox[AnswerType]).packet.id # id
      <3>1. Head(mbox[AnswerType]) \in K.messages[AnswerType] /\ Head(mbox[AnswerType]).type = AnswerType
        BY <1>2, <1>3, <2>2, TakeTyped
      <3> QED
        BY <1>1, <3>1, CommandAssumption
    <2>4. [to |-> AnswerType, msg |-> Head(mbox[AnswerType])] \in K.resends
      BY <1>1, <2>1, <2>3
    <2> QED
      BY <1>2, <1>3, <2>1, <2>4, ResponseHandleTyped
  <1>8. CASE CommandStatusHandle
    BY <1>3, <1>8, StatusHandleTyped DEF CommandStatusHandle
  <1>9. CASE BrokerRead
    <2> DEFINE packet == Head(toBroker)
    <2>1. /\ toBroker \in Seq(CommandPackets) /\ toBroker # <<>>
          /\ fromBroker \in Seq(K.server)
      BY <1>1, <1>3, <1>9 DEF SessionOK, BrokerRead
    <2>2. packet \in CommandPackets /\ toBroker' \in Seq(CommandPackets)
      BY <1>9, <2>1, HeadTailProperties DEF BrokerRead
    <2>3. packet.id \in Id /\ packet.id # id
      BY <1>9, <2>2 DEF BrokerRead, CommandPackets
    <2>4. [type |-> AnswerType, id |-> packet.id] \in K.server
      BY <1>1, <2>3 DEF AnswerPackets
    <2>5. fromBroker' \in Seq(K.server)
      BY <1>9, <2>1, <2>4, AppendProperties DEF BrokerRead
    <2> QED
      BY <1>1, <1>3, <1>9, <2>2, <2>5 DEF BrokerRead, SessionOK, actorVars, statusVars
  <1>10. CASE Background /\ UNCHANGED cmdVars
    BY <1>3, <1>10, BackgroundTyped
  <1>11. CASE UNCHANGED commandVars
    BY <1>3, <1>11 DEF SessionOK, commandVars, sessionVars, actorVars, statusVars, wireVars
  <1> QED
    BY <1>4, <1>5, <1>6, <1>7, <1>8, <1>9, <1>10, <1>11 DEF Next

\* A step that puts no removal of id into the mailbox of the status actor.
LEMMA NotRemoved ==
    ASSUME TypeOK, TypeOK', NEW id \in Id,
           Grown(mbox["Status"], mbox'["Status"], RemovesOf(id)),
           Clear(CmdK, id, {"Unit"}) => Clear(CmdK, id, {"Unit"})',
           Clear(CmdK, id, {"Unit"}) \/ NoneIn(mbox["Status"], RemovesOf(id))
    PROVE  (Clear(CmdK, id, {"Unit"}) \/ NoneIn(mbox["Status"], RemovesOf(id)))'
  <1>1. /\ mbox["Status"] \in Seq(CmdK.messages["Status"])
        /\ mbox'["Status"] \in Seq(CmdK.messages["Status"])
    BY TypeParts, CommandActors DEF SessionOK
  <1> QED
    BY <1>1, GrownKeeps

LEMMA UntakenStep ==
    ASSUME Inv, TypeOK', NEW id \in Id, Untaken(id), [Next]_commandVars, [Fresh]_commandVars,
           id \notin taken'
    PROVE  Untaken(id)'
  <1>1. /\ Chains /\ Attempts /\ TypeOK /\ SessionOK(CmdK) /\ Wired(CmdK) /\ StatusApart(CmdK)
        /\ "Status" \in Actor /\ mbox["Status"] \in Seq(CmdK.messages["Status"])
    BY TypeParts, CmdWired, CmdApart, CommandActors DEF Inv, Chains, SessionOK
  <1>2. SessionOK(UntakenK(id))'
    BY <1>1, UntakenTyped DEF Untaken
  <1>3. Clear(CmdK, id, {"Unit"}) \/ NoneIn(mbox["Status"], RemovesOf(id))
    BY DEF Untaken
  <1>4. ASSUME Quiet, Grown(mbox["Status"], mbox'["Status"], RemovesOf(id))
        PROVE  Untaken(id)'
    BY <1>1, <1>2, <1>3, <1>4, NotRemoved DEF Quiet, Untaken
  <1>5. ASSUME Quiet, mbox'["Status"] = mbox["Status"]
        PROVE  Untaken(id)'
    BY <1>1, <1>4, <1>5, GrownItself
  <1>6. CASE \E q \in Request : ClientRequest(q)
    <2>1. PICK q \in Request : ClientRequest(q)
      BY <1>6
    <2>2. mbox'["Status"] = mbox["Status"]
      BY <2>1, CommandActors, <1>1 DEF ClientRequest, Post, SessionOK
    <2> QED
      BY <1>1, <1>5, <2>1, <2>2, ClientRequestQuiet
  <1>7. CASE RequestHandle
    <2>1. mbox'["Status"] = mbox["Status"]
      BY <1>1, <1>7, CommandActors DEF RequestHandle, Post, Take, SessionOK
    <2> QED
      BY <1>1, <1>5, <1>7, <2>1, RequestHandleQuiet
  <1>8. CASE BatchHandle /\ Fresh
    <2>1. PICK n : n = NextId
      OBVIOUS
    <2>2. \/ mbox'["Status"] = mbox["Status"]
          \/ /\ Unused(n)
             /\ \E op \in {RemovePacketStatus(n), SetPacketStatus(n, "Unit")} :
                    mbox'["Status"] = Append(mbox["Status"], op)
      BY <1>1, <1>8, <2>1, BatchPosts DEF Fresh
    <2>3. UNCHANGED packetStatus
      BY <1>8 DEF BatchHandle
    <2>4. CASE mbox'["Status"] = mbox["Status"]
      BY <1>2, <1>3, <2>3, <2>4 DEF Untaken, Clear
    <2>5. CASE Unused(n) /\ mbox'["Status"] = Append(mbox["Status"], RemovePacketStatus(n))
      <3>1. RemovePacketStatus(n) \notin StatusSets(CmdK, id, {"Unit"})
        BY DEF RemovePacketStatus, StatusSets
      <3>2. Clear(CmdK, id, {"Unit"}) => Clear(CmdK, id, {"Unit"})'
        BY <1>1, <2>3, <2>5, <3>1, NoneInAppend DEF Clear
      <3>3. CASE id = n
        <4>1. NoneIn(mbox["Status"], StatusSets(CmdK, n, {"Unit"})) /\ packetStatus[n] = NoStatus
          BY <2>5 DEF Unused, NoneIn, StatusSets, StatusOps
        <4> QED
          BY <1>2, <3>2, <3>3, <4>1 DEF Untaken, Clear, NoStatus
      <3>4. CASE id # n
        <4>1. RemovePacketStatus(n) \notin RemovesOf(id)
          BY <3>4 DEF RemovesOf, RemovePacketStatus
        <4>2. Grown(mbox["Status"], mbox'["Status"], RemovesOf(id))
          BY <1>1, <2>5, <4>1, GrownAppend
        <4> QED
          BY <1>1, <1>2, <1>3, <3>2, <4>2, NotRemoved DEF Untaken
      <3> QED
        BY <3>3, <3>4
    <2>6. CASE Unused(n) /\ mbox'["Status"] = Append(mbox["Status"], SetPacketStatus(n, "Unit"))
      <3>1. SetPacketStatus(n, "Unit") \notin RemovesOf(id)
        BY DEF SetPacketStatus, RemovePacketStatus, RemovesOf
      <3>2. CASE id = n
        <4>1. NoneIn(mbox["Status"], RemovesOf(n))
          BY <2>6 DEF Unused, NoneIn, RemovesOf, RemovePacketStatus
        <4>2. NoneIn(mbox'["Status"], RemovesOf(id))
          BY <1>1, <2>6, <3>1, <3>2, <4>1, NoneInAppend
        <4> QED
          BY <1>2, <4>2 DEF Untaken
      <3>3. CASE id # n
        <4>1. SetPacketStatus(n, "Unit") \notin StatusSets(CmdK, id, {"Unit"})
          BY <3>3 DEF StatusSets, StatusOps, SetPacketStatus
        <4>2. Clear(CmdK, id, {"Unit"}) => Clear(CmdK, id, {"Unit"})'
          BY <1>1, <2>3, <2>6, <4>1, NoneInAppend DEF Clear
        <4>3. Grown(mbox["Status"], mbox'["Status"], RemovesOf(id))
          BY <1>1, <2>6, <3>1, GrownAppend
        <4> QED
          BY <1>1, <1>2, <1>3, <4>2, <4>3, NotRemoved DEF Untaken
      <3> QED
        BY <3>2, <3>3
    <2> QED
      BY <2>2, <2>4, <2>5, <2>6
  <1>9. CASE AnswerHandle
    <2> DEFINE msg == Head(mbox[AnswerType])
    <2>1. /\ ResponseHandle(AnswerType, AnswerType) /\ AnswerType \in Actor
          /\ RemovePacketStatus(msg.packet.id) \in CmdK.messages["Status"]
      BY <1>1, <1>9, AnswerTakes, CommandActors
    <2>2. msg.packet.id # id
      <3>1. SessionOK(UntakenK(id)) /\ Handling(AnswerType, AnswerType)
        BY <2>1 DEF Untaken, ResponseHandle
      <3>2. msg \in UntakenK(id).messages[AnswerType] /\ msg.type = AnswerType
        BY <2>1, <3>1, TakeTyped
      <3> QED
        BY <3>2, UntakenFields, CommandAssumption
    <2>3. RemovePacketStatus(msg.packet.id) \notin RemovesOf(id) /\ StopMessage \notin RemovesOf(id)
      BY <2>2 DEF RemovesOf, RemovePacketStatus, StopMessage
    <2>4. Grown(mbox["Status"], mbox'["Status"], RemovesOf(id))
      BY <1>1, <2>1, <2>3, ResponseHandleGrows
    <2> QED
      BY <1>1, <1>4, <1>9, <2>4, AnswerHandleQuiet
  <1>10. CASE CommandStatusHandle
    <2>1. mbox["Status"] # <<>> /\ mbox'["Status"] = Tail(mbox["Status"]) /\ StatusHandle
      BY <1>1, <1>10, CommandAssumption DEF CommandStatusHandle, StatusHandle, Take, Handling, SessionOK
    <2>2. Grown(mbox["Status"], mbox'["Status"], RemovesOf(id))
      BY <1>1, <2>1, GrownTail
    <2>3. Clear(CmdK, id, {"Unit"}) => Clear(CmdK, id, {"Unit"})'
      BY <1>1, <2>1, StatusHandleClear DEF Attempts, StatusFirst, NoStatus
    <2> QED
      BY <1>1, <1>2, <1>3, <2>2, <2>3, NotRemoved DEF Untaken
  <1>11. CASE BrokerRead
    <2>1. mbox'["Status"] = mbox["Status"]
      BY <1>11 DEF BrokerRead, actorVars
    <2> QED
      BY <1>1, <1>5, <1>11, <2>1, BrokerReadQuiet
  <1>12. CASE Background /\ UNCHANGED cmdVars
    <2>1. NothingFor(CmdK, "Status", RemovesOf(id))
      <3>1. StopMessage \notin RemovesOf(id)
        BY DEF RemovesOf, RemovePacketStatus, StopMessage
      <3>2. \A t : GetAndRemovePacketStatus(t) \notin RemovesOf(id)
        BY DEF RemovesOf, RemovePacketStatus, GetAndRemovePacketStatus
      <3> QED
        BY <1>1, <3>1, <3>2 DEF NothingFor, StatusApart, SessionOK
    <2>2. Grown(mbox["Status"], mbox'["Status"], RemovesOf(id))
      BY <1>1, <1>12, <2>1, BackgroundGrows
    <2> QED
      BY <1>1, <1>4, <1>12, <2>2, BackgroundQuiet
  <1>13. CASE UNCHANGED commandVars
    <2>1. UNCHANGED <<mbox, packetStatus>>
      BY <1>13 DEF commandVars, sessionVars, actorVars, statusVars
    <2> QED
      BY <1>2, <1>3, <2>1 DEF Untaken, Clear
  <1> QED
    BY <1>6, <1>7, <1>8, <1>9, <1>10, <1>11, <1>12, <1>13 DEF Next

LEMMA RemovalsInit == Init => Removals
  <1> SUFFICES ASSUME Init, NEW id \in Id PROVE Untaken(id)
    BY DEF Removals
  <1>1. SessionOK(UntakenK(id))
    BY SessionInitTyped DEF Init
  <1>2. mbox["Status"] = <<>>
    BY CommandActors DEF Init, SessionInit, ActorsInit
  <1> QED
    BY <1>1, <1>2 DEF Untaken, NoneIn

LEMMA RemovalsStep ==
    Inv /\ Inv' /\ Removals /\ [Next]_commandVars /\ [Fresh]_commandVars => Removals'
  <1> SUFFICES ASSUME Inv, Inv', Removals, [Next]_commandVars, [Fresh]_commandVars,
                      NEW id \in Id, id \notin taken'
               PROVE  Untaken(id)'
    BY DEF Removals
  <1>1. taken \subseteq taken'
    BY DEF Next, ClientRequest, RequestHandle, BatchHandle, AnswerHandle, CommandStatusHandle,
           BrokerRead, commandVars, cmdVars
  <1>2. Untaken(id) /\ TypeOK'
    BY <1>1 DEF Removals, Inv, Chains
  <1> QED
    BY <1>2, UntakenStep

\* What removes a status that is there.
LEMMA RemovesTaken ==
    ASSUME Inv, Removals, [Next]_commandVars, NEW id \in Id,
           packetStatus[id] # NoStatus, packetStatus'[id] = NoStatus
    PROVE  Head(mbox["Status"]).op = "GetAndRemove" \/ id \in taken
  <1> DEFINE op == Head(mbox["Status"])
  <1>1. /\ Attempts /\ TypeOK /\ SessionOK(CmdK) /\ Wired(CmdK)
        /\ "Status" \in Actor /\ mbox["Status"] \in Seq(CmdK.messages["Status"])
    BY TypeParts, CmdWired, CommandActors DEF Inv, Chains, SessionOK
  <1>2. CommandStatusHandle
    <2>1. ASSUME ~CommandStatusHandle PROVE packetStatus' = packetStatus
      <3>1. CASE Background
        BY <3>1, BackgroundMap
      <3>2. CASE ~Background
        BY <2>1, <3>2 DEF Next, ClientRequest, RequestHandle, BatchHandle, AnswerHandle,
           ResponseHandle, BrokerRead, commandVars, sessionVars, statusVars
      <3> QED
        BY <3>1, <3>2
    <2> QED
      BY <2>1
  <1>3. StatusHandle /\ Handling("Status", "Status")
    BY <1>2 DEF CommandStatusHandle, StatusHandle
  <1>4. op \in CmdK.messages["Status"] /\ op.type = "Status" /\ mbox["Status"] # <<>>
    BY <1>1, <1>3, TakeTyped
  <1>5. op.id = id
    BY <1>1, <1>3, StatusHandleClear DEF Attempts, StatusFirst, NoStatus
  <1>6. op.op # "Set"
    <2>1. op.op = "Set" => op.payload \in {"Unit"}
      BY <1>1, <1>4, CmdKFields DEF Wired
    <2>2. packetStatus \in [Id -> {"Unit", NoStatus}]
      BY <1>1 DEF TypeOK
    <2>3. packetStatus' = Apply(op)
      BY <1>3 DEF StatusHandle
    <2>4. op.op = "Set" => packetStatus'[id] = op.payload
      BY <1>5, <2>2, <2>3 DEF Apply
    <2> QED
      BY <2>1, <2>4 DEF NoStatus
  <1>7. op \in StatusMessages
    BY <1>4, HeadOfStatus, CmdKFields, <1>1
  <1>8. CASE op.op = "Remove"
    <2>1. op = RemovePacketStatus(id)
      <3>1. op \in [type : {"Status"}, op : {"Remove"}, id : Id]
        BY <1>7, <1>8 DEF StatusMessages, GetAndRemovePacketStatus
      <3> HIDE DEF op
      <3> QED
        BY <1>5, <3>1 DEF RemovePacketStatus
    <2>2. 1 \in DOMAIN mbox["Status"] /\ mbox["Status"][1] = op
      BY <1>1, <1>4
    <2>3. ~NoneIn(mbox["Status"], RemovesOf(id))
      BY <2>1, <2>2 DEF NoneIn, RemovesOf
    <2>4. ~Clear(CmdK, id, {"Unit"})
      BY <1>1 DEF Clear, TypeOK
    <2> QED
      BY <2>3, <2>4 DEF Removals, Untaken
  <1>9. op.op \in {"Set", "Remove", "GetAndRemove"}
    BY <1>7 DEF StatusMessages, GetAndRemovePacketStatus
  <1> QED
    BY <1>6, <1>8, <1>9

\* As long as next_id gives every attempt an identifier of its own, a status is
\* removed without a question only when the server has taken the packet:
\* SubackActor and UnsubackActor settle what was answered, and the request that
\* is given up (src/actors/packets/macros.rs:163) settles no other one.
THEOREM RemovesOnlyTaken == Spec /\ FreshIdentifiers => RemovedOnlyIfTaken
  <1>1. Init => Inv /\ Removals
    BY InvInit, RemovalsInit
  <1>2. Inv /\ [Next]_commandVars /\ [Fresh]_commandVars => Inv'
    BY InvStep
  <1>3. Inv /\ Inv' /\ Removals /\ [Next]_commandVars /\ [Fresh]_commandVars => Removals'
    BY RemovalsStep
  <1>4. Inv /\ Removals /\ [Next]_commandVars
            => [ \A id \in Id :
                   packetStatus[id] # NoStatus /\ packetStatus'[id] = NoStatus =>
                       \/ Head(mbox["Status"]).op = "GetAndRemove"
                       \/ id \in taken
               ]_commandVars
    BY RemovesTaken
  <1>5. FreshIdentifiers <=> [][Fresh]_commandVars
    BY PTL DEF FreshIdentifiers, Fresh
  <1> QED
    BY <1>1, <1>2, <1>3, <1>4, <1>5, PTL DEF Spec, RemovedOnlyIfTaken

=============================================================================
