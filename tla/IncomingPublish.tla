-------------------------- MODULE IncomingPublish --------------------------
(***************************************************************************)
(* The messages the server publishes to the client: RecvPublishActor       *)
(* (src/actors/packets/publish.rs), which answers them and hands them to   *)
(* the application's actor, and PubrelActor (pubrel.rs), which ends the    *)
(* exchange of QoS 2.  The statuses are kept by the same PacketStatusActor *)
(* as those of the messages the application publishes.                     *)
(***************************************************************************)
EXTENDS Session

CONSTANTS
    Inbound,   \* the messages the server has for the client
    InQoS,     \* InQoS[b]: the quality of service b is sent with
    InId,      \* InId[b]: the packet identifier the server gives b
    MaxSends   \* bound on how often the server sends the PUBLISH of a message

IncomingActor == {"RecvPublish", "Pubrel", "App"}

ASSUME IncomingAssumption ==
    /\ IncomingActor \subseteq Actor
    /\ "App" \notin Registered
    /\ "Publish" \in DOMAIN Target /\ Target["Publish"] = "RecvPublish"
    /\ "Pubrel" \in DOMAIN Target /\ Target["Pubrel"] = "Pubrel"
    /\ {"PendingRec", "PendingRel"} \subseteq Payload
    /\ \A b \in Inbound : /\ InQoS[b] \in 0 .. 2
                          /\ InId[b] \in IF InQoS[b] = 0 THEN {0} ELSE 1 .. MaxId
    /\ MaxSends \in Nat \ {0}

VARIABLES
    stage,     \* the server's state of b: "new", "publish", "release", "done"
    sends,     \* how often the server has sent the PUBLISH of b
    received   \* how often the application's actor has handled b

inVars == <<stage, sends, received>>
incomingVars == <<sessionVars, inVars>>

IncomingInit ==
    /\ stage = [b \in Inbound |-> "new"]
    /\ sends = [b \in Inbound |-> 0]
    /\ received = [b \in Inbound |-> 0]

PublishPacketOf(b) == [type |-> "Publish", b |-> b, id |-> InId[b], qos |-> InQoS[b]]
PubackPacket(id)   == [type |-> "Puback", id |-> id]
PubrecPacket(id)   == [type |-> "Pubrec", id |-> id]
PubrelPacket(id)   == [type |-> "Pubrel", id |-> id]
PubcompPacket(id)  == [type |-> "Pubcomp", id |-> id]

\* PublishMessage, for the application.
PublishMessage(b) == [type |-> "PublishMessage", b |-> b]

-----------------------------------------------------------------------------
(* RecvPublishActor. *)

\* QoS 0: a status of identifier 0 is removed first, although there is none.
RecvLevel0(box, msg) ==
    LET cleared == IF Closed("Status")
                   THEN Post(box, "Stop", StopMessage)
                   ELSE Post(box, "Status", RemovePacketStatus(0))
    IN  /\ IF Accepts("App")
           THEN mbox' = Post(cleared, "App", PublishMessage(msg.packet.b))
           ELSE HandleSendError("App", cleared)
        /\ UNCHANGED <<resends, timers, asking>>

\* Mutant: QoS 1 with the message first, then the PUBACK.
RecvLevel1DeliverFirst(box, msg) ==
    /\ \/ /\ ~Accepts("App")
          /\ HandleSendErrorWithResend("App", box, "RecvPublish", Retried(msg))
       \/ /\ Accepts("App")
          /\ LET delivered == Post(box, "App", PublishMessage(msg.packet.b))
             IN  \/ /\ Accepts("Send")
                    /\ mbox' = Post(delivered, "Send",
                                    VariablePacketMessage(PubackPacket(msg.packet.id)))
                    /\ UNCHANGED resends
                 \/ /\ ~Accepts("Send")
                    /\ HandleSendErrorWithResend("Send", delivered, "RecvPublish", Retried(msg))
    /\ UNCHANGED <<timers, asking>>

\* QoS 1: the PUBACK first, then the message.
RecvLevel1(box, msg) ==
    /\ \/ /\ ~Accepts("Send")
          /\ HandleSendErrorWithResend("Send", box, "RecvPublish", Retried(msg))
       \/ /\ Accepts("Send")
          /\ LET acked == Post(box, "Send", VariablePacketMessage(PubackPacket(msg.packet.id)))
             IN  \/ /\ Accepts("App")
                    /\ mbox' = Post(acked, "App", PublishMessage(msg.packet.b))
                    /\ UNCHANGED resends
                 \/ /\ ~Accepts("App")
                    /\ HandleSendErrorWithResend("App", acked, "RecvPublish", Retried(msg))
    /\ UNCHANGED <<timers, asking>>

\* QoS 2: a task asks the status actor whether the message is a duplicate.
DeliverTask(msg) ==
    [kind |-> "deliver", actor |-> "RecvPublish", owner |-> "Arbiter",
     id |-> msg.packet.id, msg |-> msg, expect |-> {}]

RecvLevel2(box, msg) ==
    /\ mbox' = box
    /\ asking' = BagAdd(asking, DeliverTask(msg))
    /\ UNCHANGED <<resends, timers>>

RecvPublishHandle ==
    /\ Handling("RecvPublish", "Publish")
    /\ LET msg == Head(mbox["RecvPublish"])
           box == Take("RecvPublish")
       IN  \/ RetryExhausted(msg) /\ GiveUp(box, msg.packet.id) /\ UNCHANGED asking
           \/ ~RetryExhausted(msg) /\ msg.packet.qos = 0 /\ RecvLevel0(box, msg)
           \/ ~RetryExhausted(msg) /\ msg.packet.qos = 1 /\ RecvLevel1(box, msg)
           \/ ~RetryExhausted(msg) /\ msg.packet.qos = 2 /\ RecvLevel2(box, msg)
    /\ UNCHANGED <<alive, packetStatus, answered, wireVars, inVars>>

\* The rest of the task, once the status is known.  check_status_phase_2 asks
\* again later whether the status is PendingRec.
Phase2(msg) ==
    StatusCheck("RecvPublish", "Arbiter", msg.packet.id, Retried(msg), {"PendingRec"})

AnswerLevel2(box, msg) ==
    SetSendSchedule(box, "RecvPublish", SetPacketStatus(msg.packet.id, "PendingRel"),
        PubrecPacket(msg.packet.id), Phase2(msg), Retried(msg))

\* Mutant: a message that has no status is new, whatever its retry_count.
IsNewByStatus(msg, answer) == answer = NoStatus

\* The message is no duplicate, and not handled again after a full mailbox.
IsNew(msg, answer) == answer = NoStatus /\ msg.retry = 0

\* Mutant: the message is answered although the application did not take it.
DeliverNewUnchecked(msg) ==
    AnswerLevel2(IF Accepts("App") THEN Post(mbox, "App", PublishMessage(msg.packet.b)) ELSE mbox,
                 msg)

\* Mutant: the message is handled again with its retry_count incremented.
DeliverNewRetried(msg) ==
    \/ /\ ~Accepts("App")
       /\ HandleSendErrorWithResend("App", mbox, "RecvPublish", Retried(msg))
       /\ UNCHANGED timers
    \/ /\ Accepts("App")
       /\ AnswerLevel2(Post(mbox, "App", PublishMessage(msg.packet.b)), msg)

\* A new message goes to the application before it is answered; if it cannot,
\* it stays new.
DeliverNew(msg) ==
    \/ /\ ~Accepts("App")
       /\ HandleSendErrorWithResend("App", mbox, "RecvPublish", msg)
       /\ UNCHANGED timers
    \/ /\ Accepts("App")
       /\ AnswerLevel2(Post(mbox, "App", PublishMessage(msg.packet.b)), msg)

Deliver ==
    \E r \in BagToSet(answered) :
        LET msg == r.task.msg
        IN  /\ r.task.kind = "deliver"
            /\ answered' = BagRemove(answered, r)
            /\ \/ /\ r.answer = "Closed"
                  /\ mbox' = Post(mbox, "Stop", StopMessage)
                  /\ UNCHANGED <<resends, timers>>
               \/ /\ r.answer # "Closed" /\ IsNew(msg, r.answer)
                  /\ DeliverNew(msg)
               \/ /\ r.answer # "Closed" /\ ~IsNew(msg, r.answer)
                  /\ AnswerLevel2(mbox, msg)
            /\ UNCHANGED <<alive, packetStatus, asking, wireVars, inVars>>

-----------------------------------------------------------------------------
(* PubrelActor. *)

PubrelHandle ==
    /\ Handling("Pubrel", "Pubrel")
    /\ LET msg == Head(mbox["Pubrel"])
           id == msg.packet.id
       IN  SendPacketHandle("Pubrel", msg, RemovePacketStatus(id), PubcompPacket(id), {"PendingRel"})
    /\ UNCHANGED <<wireVars, inVars>>

IncomingStatusHandle == StatusHandle /\ UNCHANGED <<wireVars, inVars>>

-----------------------------------------------------------------------------
(* The application's actor. *)

AppHandle ==
    /\ Handling("App", "PublishMessage")
    /\ mbox' = Take("App")
    /\ received' = [received EXCEPT ![Head(mbox["App"]).b] = @ + 1]
    /\ UNCHANGED <<alive, resends, statusVars, wireVars, stage, sends>>

AppStops ==
    /\ MayBreak
    /\ "App" \in alive
    /\ alive' = alive \ {"App"}
    /\ mbox' = [mbox EXCEPT !["App"] = <<>>]
    /\ UNCHANGED <<resends, statusVars, wireVars, inVars>>

-----------------------------------------------------------------------------
(* The server, which may send a PUBLISH again until it is answered.  It uses *)
(* an identifier for one message at a time.                                  *)

InFlight(b) == stage[b] \in {"publish", "release"}

BrokerPublish(b) ==
    /\ stage[b] \in {"new", "publish"}
    /\ sends[b] < MaxSends
    /\ InQoS[b] # 0 => \A c \in Inbound \ {b} : InFlight(c) => InId[c] # InId[b]
    /\ fromBroker' = Append(fromBroker, PublishPacketOf(b))
    /\ sends' = [sends EXCEPT ![b] = @ + 1]
    /\ stage' = [stage EXCEPT ![b] = IF InQoS[b] = 0 THEN "done" ELSE "publish"]
    /\ UNCHANGED <<actorVars, statusVars, toBroker, received>>

\* What an answer to a message in flight makes of it.
NextStage(b, type) ==
    CASE type = "Puback" /\ InQoS[b] = 1 -> "done"
      [] type = "Pubrec" /\ InQoS[b] = 2 -> "release"
      [] type = "Pubcomp" /\ stage[b] = "release" -> "done"
      [] OTHER -> stage[b]

BrokerAnswered ==
    /\ toBroker # <<>>
    /\ LET packet == Head(toBroker)
       IN  /\ packet.type \in {"Puback", "Pubrec", "Pubcomp"}
           /\ toBroker' = Tail(toBroker)
           /\ stage' = [b \in Inbound |->
                  IF InFlight(b) /\ InId[b] = packet.id
                  THEN NextStage(b, packet.type) ELSE stage[b]]
           /\ fromBroker' = IF packet.type = "Pubrec"
                            THEN Append(fromBroker, PubrelPacket(packet.id))
                            ELSE fromBroker
    /\ UNCHANGED <<actorVars, statusVars, sends, received>>

-----------------------------------------------------------------------------

IncomingStep ==
    \/ RecvPublishHandle \/ Deliver \/ PubrelHandle
    \/ AppHandle \/ AppStops
    \/ BrokerAnswered
    \/ \E b \in Inbound : BrokerPublish(b)

Init == SessionInit /\ IncomingInit

Next ==
    \/ IncomingStep
    \/ IncomingStatusHandle
    \/ Background /\ UNCHANGED inVars

Spec == Init /\ [][Next]_incomingVars

\* The server reads its connection; it need not send anything.
IncomingFairness ==
    /\ SessionFairness
    /\ WF_incomingVars(RecvPublishHandle)
    /\ WF_incomingVars(Deliver)
    /\ WF_incomingVars(PubrelHandle)
    /\ WF_incomingVars(IncomingStatusHandle)
    /\ WF_incomingVars(AppHandle)
    /\ WF_incomingVars(BrokerAnswered)

FairSpec == Spec /\ IncomingFairness

-----------------------------------------------------------------------------
(* Types. *)

Retry == 0 .. MaxRetryCount + 1
PublishPackets == {PublishPacketOf(b) : b \in Inbound}
IdPackets(types) == [type : types, id : Id]
ClientPackets == IdPackets({"Puback", "Pubrec", "Pubcomp"})
ServerPackets == PublishPackets \cup IdPackets({"Pubrel"})
PublishMessages == [type : {"Publish"}, packet : PublishPackets, retry : Retry]
PubrelMessages == [type : {"Pubrel"}, packet : IdPackets({"Pubrel"}), retry : Retry]
VariablePacketMessages(packets) == [type : {"Packet"}, packet : packets]

\* A task asks about the packet of its message.
TaskOf(kind, a, owner, messages) ==
    {t \in [kind : {kind}, actor : {a}, owner : {owner}, id : Id, msg : messages,
            expect : SUBSET {"PendingRec", "PendingRel"}] : t.id = t.msg.packet.id}
Timers ==
    TaskOf("check", "RecvPublish", "Arbiter", PublishMessages)
    \cup TaskOf("check", "Pubrel", "Pubrel", PubrelMessages)
Tasks ==
    Timers
    \cup TaskOf("deliver", "RecvPublish", "Arbiter",
               {msg \in PublishMessages : ~RetryExhausted(msg) /\ msg.packet.qos = 2})

StatusMessages ==
    [type : {"Status"}, op : {"Set"}, id : Id, payload : Payload]
    \cup [type : {"Status"}, op : {"Remove"}, id : Id]
    \cup {GetAndRemovePacketStatus(t) : t \in Tasks}

SendStatusMessages == [type : {"PacketSendStatus"}, finished : BOOLEAN]

MessagesTo(a) ==
    {StopMessage}
    \cup {msg \in PublishMessages : a = "RecvPublish"}
    \cup {msg \in PubrelMessages : a = "Pubrel"}
    \cup {msg \in StatusMessages : a = "Status"}
    \cup {msg \in VariablePacketMessages(ClientPackets) : a = "Send"}
    \cup {msg \in VariablePacketMessages(ServerPackets) : a = "Dispatch"}
    \cup {PublishMessage(b) : b \in {b \in Inbound : a = "App"}}
    \cup {msg \in SendStatusMessages : a \in SendStatusRecipient}

\* Every mailbox holds only messages its actor has a handler for, and no
\* message or task has a retry_count above MaxRetryCount + 1.
TypeOK ==
    /\ DOMAIN mbox = Actor
    /\ \A a \in Actor : mbox[a] \in Seq(MessagesTo(a))
    /\ alive \subseteq Actor
    /\ BagToSet(resends) \subseteq
           [to : {"RecvPublish"}, msg : PublishMessages] \cup [to : {"Pubrel"}, msg : PubrelMessages]
    /\ packetStatus \in [Id -> Payload \cup {NoStatus}]
    /\ BagToSet(timers) \subseteq Timers
    /\ BagToSet(asking) \subseteq Tasks
    /\ BagToSet(answered) \subseteq [task : Tasks, answer : Answer]
    /\ toBroker \in Seq(ClientPackets)
    /\ fromBroker \in Seq(ServerPackets)
    /\ stage \in [Inbound -> {"new", "publish", "release", "done"}]
    /\ sends \in [Inbound -> 0 .. MaxSends]
    /\ received \in [Inbound -> Nat]

-----------------------------------------------------------------------------
(* Properties. *)

\* How often b was put into the mailbox of the application's actor.
Delivered(b) ==
    received[b] + Cardinality({i \in DOMAIN mbox["App"] : mbox["App"][i] = PublishMessage(b)})

\* A PUBLISH that RecvPublishActor handles several times, because a mailbox
\* was full, reaches the application at most once.
OncePerReceipt == \A b \in Inbound : Delivered(b) <= sends[b]

\* The server lets go of a message of QoS 2, because it has read the PUBREC,
\* only when the application has got it.
ReleasedMeansDelivered ==
    "App" \in alive =>
        \A b \in Inbound :
            InQoS[b] = 2 /\ stage[b] \in {"release", "done"} => Delivered(b) > 0

\* A message of QoS 2 is not lost between the dispatcher and the application,
\* however often the application's mailbox is full when it is to be delivered.
EventuallyReceived ==
    \A b \in Inbound : InQoS[b] = 2 /\ sends[b] > 0 ~> received[b] > 0

\* The exchange of QoS 1 and of QoS 2 comes to an end.
ExchangeEnds == \A b \in Inbound : sends[b] > 0 ~> stage[b] = "done"

\* Every status is removed again: by PUBREL, by the check of phase 2, or by
\* giving up.
StatusDrains == <>[](\A id \in Id : packetStatus[id] = NoStatus)

\* lib.rs:632: a message of QoS 2 is received once.
ReceivedOnce == \A b \in Inbound : InQoS[b] = 2 => Delivered(b) <= 1

=============================================================================
