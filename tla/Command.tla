------------------------------ MODULE Command ------------------------------
(***************************************************************************)
(* SUBSCRIBE and UNSUBSCRIBE: SubscribeActor or UnsubscribeActor           *)
(* (src/actors/packets/subscribe.rs, unsubscribe.rs) sends the request and *)
(* repeats it until SubackActor or UnsubackActor (suback.rs, unsuback.rs)  *)
(* removes its status.  The two kinds are the same code, instances of the  *)
(* macros of packets/macros.rs, each over a status actor of its own;       *)
(* CommandActor and AnswerType name the actors of one of them.             *)
(***************************************************************************)
EXTENDS Session, Identifiers

CONSTANTS
    CommandActor,  \* "Subscribe" or "Unsubscribe"
    AnswerType,    \* "Suback" or "Unsuback", also the name of its actor
    Request,       \* the requests the application may make
    BadRequest     \* those whose topic TopicFilter::new refuses

ASSUME CommandAssumption ==
    /\ CommandActor \in {"Subscribe", "Unsubscribe"} \cap Actor
    /\ AnswerType \in {"Suback", "Unsuback"} \cap Actor
    /\ SendStatusRecipient = {}
    /\ BadRequest \subseteq Request
    /\ "Unit" \in Payload
    /\ AnswerType \in DOMAIN Target /\ Target[AnswerType] = AnswerType

VARIABLES
    requested,  \* the requests the application has made
    sentAs,     \* history: the packet identifiers r was sent with
    acked,      \* history: identifiers whose status an answer has removed
    taken       \* history: identifiers of the packets the server took

cmdVars == <<requested, idCounter, sentAs, acked, taken>>
commandVars == <<sessionVars, cmdVars>>

CommandInit ==
    /\ requested = {}
    /\ idCounter \in FirstId
    /\ sentAs = [r \in Request |-> <<>>]
    /\ acked = {}
    /\ taken = {}

\* Subscribe or Unsubscribe, and the batch of one the actor makes of it.
RequestMessage(r)  == [type |-> "Request", r |-> r]
Batch(r, retry)    == [type |-> "Batch", r |-> r, retry |-> retry]
CommandPacket(id)  == [type |-> CommandActor, id |-> id]

-----------------------------------------------------------------------------
(* The application and the actor of the request. *)

\* subscribe(), unsubscribe(): send().await waits while the mailbox is full.
ClientRequest(r) ==
    /\ r \notin requested
    /\ Accepts(CommandActor)
    /\ mbox' = Post(mbox, CommandActor, RequestMessage(r))
    /\ requested' = requested \cup {r}
    /\ UNCHANGED <<alive, resends, statusVars, wireVars, idCounter, sentAs, acked, taken>>

\* ctx.notify(batch): behind the messages that are in the mailbox.
RequestHandle ==
    /\ Handling(CommandActor, "Request")
    /\ mbox' = Post(Take(CommandActor), CommandActor, Batch(Head(mbox[CommandActor]).r, 0))
    /\ UNCHANGED <<alive, resends, statusVars, wireVars, cmdVars>>

\* The packet, and so an identifier, is made before the retry_count is tested:
\* a request that is given up takes an identifier, and the status it removes is
\* that of the identifier it has just taken.
BatchHandle ==
    /\ Handling(CommandActor, "Batch")
    /\ LET msg == Head(mbox[CommandActor])
           box == Take(CommandActor)
           id == NextId
           sends == ~RetryExhausted(msg) /\ Accepts("Status") /\ Accepts("Send")
       IN  \/ /\ msg.r \in BadRequest
              /\ mbox' = box
              /\ UNCHANGED <<resends, timers, idCounter, sentAs>>
           \/ /\ msg.r \notin BadRequest
              /\ TakeId
              /\ IF RetryExhausted(msg)
                 THEN GiveUp(box, id)
                 ELSE SetSendSchedule(box, CommandActor, SetPacketStatus(id, "Unit"),
                          CommandPacket(id),
                          StatusCheck(CommandActor, CommandActor, id, Retried(msg), {"Unit"}),
                          Retried(msg))
              /\ sentAs' = IF sends THEN [sentAs EXCEPT ![msg.r] = Append(@, id)] ELSE sentAs
    /\ UNCHANGED <<alive, packetStatus, asking, answered, wireVars, requested, acked, taken>>

-----------------------------------------------------------------------------
(* The answer. *)

AnswerHandle == ResponseHandle(AnswerType, AnswerType) /\ UNCHANGED <<wireVars, cmdVars>>

\* The answer settles an attempt when it finds the status of that attempt.
CommandStatusHandle ==
    /\ StatusHandle
    /\ LET op == Head(mbox["Status"])
       IN  acked' = acked \cup
               IF op.op = "Remove" /\ packetStatus[op.id] # NoStatus THEN {op.id} ELSE {}
    /\ UNCHANGED <<wireVars, requested, idCounter, sentAs, taken>>

\* The server: it answers in the order it reads, whenever it likes.
BrokerRead ==
    /\ toBroker # <<>>
    /\ toBroker' = Tail(toBroker)
    /\ fromBroker' = Append(fromBroker, [type |-> AnswerType, id |-> Head(toBroker).id])
    /\ taken' = taken \cup {Head(toBroker).id}
    /\ UNCHANGED <<actorVars, statusVars, requested, idCounter, sentAs, acked>>

-----------------------------------------------------------------------------

Init == SessionInit /\ CommandInit

Next ==
    \/ \E r \in Request : ClientRequest(r)
    \/ RequestHandle \/ BatchHandle
    \/ AnswerHandle \/ CommandStatusHandle
    \/ BrokerRead
    \/ Background /\ UNCHANGED cmdVars

Spec == Init /\ [][Next]_commandVars

\* The server owes no answer, the application no request.
FairSpec ==
    /\ Spec
    /\ SessionFairness
    /\ WF_commandVars(RequestHandle)
    /\ WF_commandVars(BatchHandle)
    /\ WF_commandVars(AnswerHandle)
    /\ WF_commandVars(CommandStatusHandle)

-----------------------------------------------------------------------------
(* Types. *)

Retry == 0 .. MaxRetryCount + 1
BatchMessages == [type : {"Batch"}, r : Request, retry : Retry]
AnswerPackets == [type : {AnswerType}, id : Id]
AnswerMessages == [type : {AnswerType}, packet : AnswerPackets, retry : Retry]
CommandPackets == [type : {CommandActor}, id : Id]
Tasks ==
    [kind : {"check"}, actor : {CommandActor}, owner : {CommandActor}, id : Id,
     msg : BatchMessages, expect : {{"Unit"}}]
StatusMessages ==
    [type : {"Status"}, op : {"Set"}, id : Id, payload : {"Unit"}]
    \cup [type : {"Status"}, op : {"Remove"}, id : Id]
    \cup {GetAndRemovePacketStatus(t) : t \in Tasks}

MessagesTo(a) ==
    {StopMessage}
    \cup {msg \in BatchMessages \cup {RequestMessage(r) : r \in Request} : a = CommandActor}
    \cup {msg \in AnswerMessages : a = AnswerType}
    \cup {msg \in StatusMessages : a = "Status"}
    \cup {msg \in [type : {"Packet"}, packet : CommandPackets] : a = "Send"}
    \cup {msg \in [type : {"Packet"}, packet : AnswerPackets] : a = "Dispatch"}

\* Every mailbox holds only messages its actor has a handler for, and no
\* message or task has a retry_count above MaxRetryCount + 1.
TypeOK ==
    /\ DOMAIN mbox = Actor
    /\ \A a \in Actor : mbox[a] \in Seq(MessagesTo(a))
    /\ alive \subseteq Actor
    /\ BagToSet(resends) \subseteq
           [to : {CommandActor}, msg : BatchMessages] \cup [to : {AnswerType}, msg : AnswerMessages]
    /\ packetStatus \in [Id -> {"Unit", NoStatus}]
    /\ BagToSet(timers) \cup BagToSet(asking) \subseteq Tasks
    /\ BagToSet(answered) \subseteq [task : Tasks, answer : Answer]
    /\ toBroker \in Seq(CommandPackets)
    /\ fromBroker \in Seq(AnswerPackets)
    /\ requested \subseteq Request
    /\ idCounter \in 0 .. UsizeRange - 1
    /\ sentAs \in [Request -> Seq(Id)]
    /\ acked \subseteq Id
    /\ taken \subseteq Id

-----------------------------------------------------------------------------
(* Properties. *)

\* What may still make the actor handle r (again).
CommandContinues(r) ==
    LET IsOf(msg) == msg.type \in {"Request", "Batch"} /\ msg.r = r
    IN  Continues(CommandActor, IsOf)

Phase(r) ==
    IF r \notin requested THEN "idle"
    ELSE IF ~CommandContinues(r) THEN "over"
    ELSE IF \E i \in DOMAIN sentAs[r] : sentAs[r][i] \in acked THEN "answered"
    ELSE "open"

Promise == INSTANCE Retransmission WITH
    MaxAttempts <- MaxRetryCount + 1,
    phase <- [r \in Request |-> Phase(r)],
    attempts <- [r \in Request |-> Len(sentAs[r])]

\* macros.rs:150-208: a request is transmitted at most MAX_RETRY_COUNT + 1
\* times, not after its answer, and never again once nothing is left that could.
CommandKeepsPromise == Promise!Spec

\* No request is repeated or waited for for ever, whatever the server answers
\* and whenever the connection breaks.
CommandsEnd == Promise!RequestsEnd

\* No trace of identifier id is left: no request was sent with it, and the
\* status actor knows nothing of it, nor will.
Unused(id) ==
    /\ packetStatus[id] = NoStatus
    /\ \A i \in DOMAIN mbox["Status"] :
           mbox["Status"][i].type = "Status" => mbox["Status"][i].id # id
    /\ id \notin acked
    /\ \A r \in Request : \A i \in DOMAIN sentAs[r] : sentAs[r][i] # id

\* next_id gives every attempt, and every request that is given up, an identifier
\* of its own, as it does until its counter wraps or its identifiers come round.
\* The hypothesis of what is proved about requests; no run checks it.
FreshIdentifiers ==
    [][ BatchHandle /\ Head(mbox[CommandActor]).r \notin BadRequest => Unused(NextId)
      ]_commandVars

\* macros.rs:163: a status is removed without a question only if the server has
\* taken the packet, so giving up one request does not settle another one.
RemovedOnlyIfTaken ==
    [][ \A id \in Id :
          packetStatus[id] # NoStatus /\ packetStatus'[id] = NoStatus =>
              \/ Head(mbox["Status"]).op = "GetAndRemove"
              \/ id \in taken
      ]_commandVars

=============================================================================
