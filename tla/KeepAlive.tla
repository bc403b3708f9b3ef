----------------------------- MODULE KeepAlive -----------------------------
(***************************************************************************)
(* A client that connects and then pings: PingreqActor (src/actors/        *)
(* packets/pingreq.rs) and PingrespActor (pingresp.rs) over the status     *)
(* actor "Ping", composed with Connecting.  Pings have no identifier of    *)
(* their own; every ping uses status 0, also while another one is waiting. *)
(***************************************************************************)
EXTENDS Connecting

CONSTANT MaxTicks  \* bound on how often the interval of PingreqActor elapses

ASSUME KeepAliveAssumption ==
    /\ {"Send", "Recv", "Status", "Pingreq", "Pingresp"} \subseteq Registered
    /\ SendStatusRecipient = {}
    /\ "Pingresp" \in DOMAIN Target /\ Target["Pingresp"] = "Pingresp"
    /\ "Unit" \in Payload
    /\ MaxTicks \in Nat

VARIABLES
    ticks,     \* how often PingreqActor has told itself to ping
    inquiries, \* how many tasks have not asked yet whether the client is connected
    pings      \* history: how many PINGREQ have been handed to SendActor

pingVars == <<ticks, inquiries, pings>>
keepAliveVars == <<sessionVars, connectVars, pingVars>>

KeepAliveInit ==
    /\ ticks = 0
    /\ inquiries = 0
    /\ pings = 0

PingreqMessage == [type |-> "Pingreq"]
ConnectedQuestion == [type |-> "Exists", id |-> 1]
PingreqPacket == [type |-> "Pingreq", id |-> 0]
PingrespPacket == [type |-> "Pingresp", id |-> 0]
SendPing(retry) == [type |-> "SendPing", retry |-> retry]

\* The rest of the task, which asks whether a ping is waiting for its answer.
PingTask == [kind |-> "ping", actor |-> "Pingreq", owner |-> "Arbiter", id |-> 0,
             msg |-> SendPing(0), expect |-> {}]

-----------------------------------------------------------------------------
(* PingreqActor. *)

\* started() and run_interval: ctx.notify(Pingreq(0)).
Tick ==
    /\ ticks < MaxTicks
    /\ "Pingreq" \in alive
    /\ mbox' = Post(mbox, "Pingreq", PingreqMessage)
    /\ ticks' = ticks + 1
    /\ UNCHANGED <<alive, resends, statusVars, wireVars, connectVars, inquiries, pings>>

\* A task is spawned.  The retry_count of Pingreq is 0 for ever: only a timeout
\* of its second question would increment it, and that question has none.
PingreqHandle ==
    /\ Handling("Pingreq", "Pingreq")
    /\ mbox' = Take("Pingreq")
    /\ inquiries' = inquiries + 1
    /\ UNCHANGED <<alive, resends, statusVars, wireVars, connectVars, ticks, pings>>

\* The first question, to the connect status actor.
AskConnected ==
    /\ inquiries > 0
    /\ Accepts("ConnectStatus")
    /\ mbox' = Post(mbox, "ConnectStatus", ConnectedQuestion)
    /\ inquiries' = inquiries - 1
    /\ UNCHANGED <<alive, resends, statusVars, wireVars, connectVars, ticks, pings>>

\* Mutant: connecting is as good as connected.
ConnectingIsEnough == connectStatus # {}

\* StatusExistenceMessage(1).
ConnectedToPing == 1 \in connectStatus

\* Only if the client is connected the task goes on to the second question.
ExistsHandle ==
    /\ Handling("ConnectStatus", "Exists")
    /\ mbox' = Take("ConnectStatus")
    /\ asking' = IF ConnectedToPing THEN BagAdd(asking, PingTask) ELSE asking
    /\ UNCHANGED <<alive, resends, packetStatus, timers, answered, wireVars, connectVars, pingVars>>

\* The answer to the second question, which has removed the status.
PingAnswered ==
    \E r \in BagToSet(answered) :
        /\ r.task.kind = "ping"
        /\ answered' = BagRemove(answered, r)
        /\ mbox' = CASE r.answer = NoStatus -> Post(mbox, "Pingreq", SendPing(0))
                     [] r.answer = "Closed" -> Post(mbox, "Stop", StopMessage)
                     [] OTHER -> mbox
        /\ UNCHANGED <<alive, resends, packetStatus, timers, asking, wireVars, connectVars, pingVars>>

SendPingHandle ==
    /\ Handling("Pingreq", "SendPing")
    /\ LET msg == Head(mbox["Pingreq"])
           sends == ~RetryExhausted(msg) /\ Accepts("Status") /\ Accepts("Send")
       IN  /\ SendPacketHandle("Pingreq", msg, SetPacketStatus(0, "Unit"), PingreqPacket, {"Unit"})
           /\ pings' = IF sends THEN pings + 1 ELSE pings
    /\ UNCHANGED <<wireVars, connectVars, ticks, inquiries>>

-----------------------------------------------------------------------------
(* The answer, and the end of the connect status actor. *)

PingrespHandle ==
    /\ ResponseHandle("Pingresp", "Pingresp")
    /\ UNCHANGED <<wireVars, connectVars, pingVars>>

PingStatusHandle ==
    /\ StatusHandle
    /\ UNCHANGED <<wireVars, connectVars, pingVars>>

BrokerPing ==
    /\ toBroker # <<>>
    /\ Head(toBroker) = PingreqPacket
    /\ toBroker' = Tail(toBroker)
    /\ fromBroker' = Append(fromBroker, PingrespPacket)
    /\ UNCHANGED <<actorVars, statusVars, connectVars, pingVars>>

\* The tasks that have the address of the connect status actor.
PingTasks ==
    \/ inquiries > 0
    \/ PingTask \in BagToSet(asking)
    \/ \E r \in BagToSet(answered) : r.task = PingTask
    \/ \E i \in DOMAIN mbox["Status"] : mbox["Status"][i] = GetAndRemovePacketStatus(PingTask)

ConnectStatusOrphaned ==
    /\ "ConnectStatus" \notin held
    /\ alive \cap {"Connect", "Connack", "Pingreq"} = {}
    /\ connectCheck \in {"none", "over"}
    /\ ~PingTasks
    /\ Orphaned("ConnectStatus")

-----------------------------------------------------------------------------

Init == SessionInit /\ ConnectingInit /\ KeepAliveInit

\* What a step of connecting leaves alone.
Elsewhere == UNCHANGED <<statusVars, wireVars, pingVars>>

Next ==
    \/ Tick \/ PingreqHandle \/ AskConnected \/ ExistsHandle \/ PingAnswered \/ SendPingHandle
    \/ PingrespHandle \/ PingStatusHandle
    \/ BrokerPing
    \/ ConnectingStep /\ UNCHANGED <<statusVars, pingVars>>
    \/ ConnectStatusOrphaned /\ Elsewhere
    \/ Background /\ UNCHANGED <<connectVars, pingVars>>

Spec == Init /\ [][Next]_keepAliveVars

\* The actors and the tasks go on, and connect() returns.  The application owes
\* no call, the server no answer, and the interval may be as long as it likes.

FairSpec ==
    /\ Spec
    /\ SessionFairness
    /\ WF_keepAliveVars(ConnectReturns /\ Elsewhere)
    /\ WF_keepAliveVars(ConnectHandle /\ Elsewhere)
    /\ WF_keepAliveVars(ConnectStop /\ Elsewhere)
    /\ WF_keepAliveVars(TimeoutFires /\ Elsewhere)
    /\ WF_keepAliveVars(TimeoutAsks /\ Elsewhere)
    /\ WF_keepAliveVars(TimeoutAnswered /\ Elsewhere)
    /\ WF_keepAliveVars(ConnackHandle /\ Elsewhere)
    /\ WF_keepAliveVars(ConnectStatusHandle /\ Elsewhere)
    /\ WF_keepAliveVars(DispatchOrphaned /\ UNCHANGED <<statusVars, connectVars, pingVars>>)
    /\ WF_keepAliveVars(ConnackOrphaned /\ Elsewhere)
    /\ WF_keepAliveVars(ConnectOrphaned /\ Elsewhere)
    /\ WF_keepAliveVars(ConnectStatusOrphaned /\ Elsewhere)
    /\ WF_keepAliveVars(PingreqHandle)
    /\ WF_keepAliveVars(AskConnected)
    /\ WF_keepAliveVars(ExistsHandle)
    /\ WF_keepAliveVars(PingAnswered)
    /\ WF_keepAliveVars(SendPingHandle)
    /\ WF_keepAliveVars(PingrespHandle)
    /\ WF_keepAliveVars(PingStatusHandle)

-----------------------------------------------------------------------------
(* Types. *)

Retry == 0 .. MaxRetryCount + 1
SendPings == {SendPing(retry) : retry \in Retry}
Pingresps == [type : {"Pingresp"}, packet : {PingrespPacket}, retry : Retry]
Connacks ==
    [type : {"Connack"}, packet : {ConnackPacket(c) : c \in {"Accepted", "Refused"}}, retry : Retry]
ClientPackets == {ConnectPacket, PingreqPacket}
ServerPackets == {ConnackPacket("Accepted"), ConnackPacket("Refused"), PingrespPacket}
PingChecks == {StatusCheck("Pingreq", "Pingreq", 0, msg, {"Unit"}) : msg \in SendPings}
PingTasksOrChecks == PingChecks \cup {PingTask}

\* What each mailbox may hold besides the StopMessage.
MessagesTo ==
    [a \in Actor |->
        CASE a = "Pingreq" -> SendPings \cup {PingreqMessage}
          [] a = "Pingresp" -> Pingresps
          [] a = "Connect" -> {ConnectMessage}
          [] a = "Connack" -> Connacks
          [] a = "ConnectStatus" ->
                 {SetPacketStatus(id, "Unit") : id \in {0, 1}}
                 \cup {RemovePacketStatus(0), ConnectQuestion, ConnectedQuestion}
          [] a = "Status" ->
                 {SetPacketStatus(0, "Unit"), RemovePacketStatus(0)}
                 \cup {GetAndRemovePacketStatus(task) : task \in PingTasksOrChecks}
          [] a = "Send" -> {VariablePacketMessage(packet) : packet \in ClientPackets}
          [] a = "Dispatch" -> {VariablePacketMessage(packet) : packet \in ServerPackets}
          [] OTHER -> {}]

\* Every mailbox holds only messages its actor has a handler for, and no ping
\* is tried more often than the retry_count allows.
TypeOK ==
    /\ DOMAIN mbox = Actor
    /\ \A a \in Actor : mbox[a] \in Seq(MessagesTo[a] \cup {StopMessage})
    /\ alive \subseteq Actor
    /\ BagToSet(resends) \subseteq [to : {"Pingreq"}, msg : SendPings]
                                  \cup [to : {"Pingresp"}, msg : Pingresps]
    /\ packetStatus \in [Id -> {"Unit", NoStatus}]
    /\ BagToSet(timers) \subseteq PingChecks
    /\ BagToSet(asking) \subseteq PingTasksOrChecks
    /\ BagToSet(answered) \subseteq [task : PingTasksOrChecks, answer : Answer]
    /\ toBroker \in Seq(ClientPackets)
    /\ fromBroker \in Seq(ServerPackets)
    /\ held \subseteq {"Connect", "ConnectStatus"}
    /\ connectCall \in {"none", "pending", "returned"}
    /\ connectStatus \subseteq {0, 1}
    /\ connectCheck \in {"none", "timer", "asking", "asked", "found", "absent", "over"}
    /\ connack \in {"none", "Accepted", "Refused"}
    /\ ticks \in 0 .. MaxTicks
    /\ {inquiries, pings} \subseteq Nat

-----------------------------------------------------------------------------
(* Properties. *)

\* connect.rs:102-138: connect() has an outcome, whatever the server does: the
\* client gets connected, or it is stopped.
ConnectDecided == connectCall # "none" ~> IsConnected \/ "Stop" \notin alive

\* connack.rs:47-75, connect.rs:109: the timeout does not stop the client if the
\* CONNACK was handled before the timeout asks.
TimeoutJustified ==
    connack # "none" /\ connectCheck \in {"timer", "asking"} /\ 0 \in connectStatus =>
        \E i \in DOMAIN mbox["ConnectStatus"] :
            mbox["ConnectStatus"][i] = RemovePacketStatus(0)

\* pingreq.rs:81-96: no PINGREQ is sent before the server has accepted the
\* connection.
PingAfterAccept == pings > 0 => connack = "Accepted"

\* Each tick starts at most one chain of attempts, also when the chains remove
\* each other's status (pingreq.rs:98-106 and macros.rs:195-203).
PingsBounded == pings <= ticks * (MaxRetryCount + 1)

\* A ping that waits for its answer is not forgotten, whatever two chains do to
\* the status they share (pingreq.rs:98-106, macros.rs:163-203): a SendPing is
\* left that will ask about it, or has been given up and its status is being
\* removed.  Without SendActor the handler gives up after it has set the status
\* and stops the client (packets/mod.rs:175).
IsSendPing(msg) == msg.type = "SendPing"
PingWatched ==
    {"Pingreq", "Status", "Send"} \subseteq alive /\ packetStatus[0] # NoStatus =>
        \/ Continues("Pingreq", IsSendPing)
        \/ \E i \in DOMAIN mbox["Status"] : mbox["Status"][i] = RemovePacketStatus(0)

\* client.rs:339-400: once the StopActor has stopped, of all actors only those
\* the client has the address of stay, although the StopActor does not know
\* ConnectActor, ConnackActor, their status actor and DispatchActor.
NothingLeftBehind == "Stop" \notin alive ~> alive \subseteq held

=============================================================================
