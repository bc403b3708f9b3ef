------------------------------ MODULE Closing ------------------------------
(***************************************************************************)
(* A client that publishes and then disconnects: OutgoingPublish and       *)
(* Disconnect over one status actor and one connection.  The application   *)
(* makes one call at a time.                                               *)
(***************************************************************************)
EXTENDS OutgoingPublish, Disconnect

VARIABLE serverClosed  \* the server has read DISCONNECT and reads no more

closingVars == <<outgoingVars, disconnectVars, serverClosed>>

ClosingInit ==
    /\ Init
    /\ DisconnectInit
    /\ serverClosed = FALSE

\* publish() is possible while the client has the address, and returns when
\* SendPublishActor has handled the message.
ClosingPublish(m) ==
    /\ calling = Idle
    /\ addrs = "all"
    /\ ClientPublish(m)
    /\ calling' = "publish"
    /\ UNCHANGED <<packetSendFinished, pendingDisconnect, disconnects, addrs, serverClosed>>

PublishReturns ==
    /\ calling = "publish"
    /\ \A m \in OutMsg : \A i \in DOMAIN mbox["SendPublish"] :
           mbox["SendPublish"][i] # Publish(m, 0)
    /\ calling' = Idle
    /\ UNCHANGED <<outgoingVars, packetSendFinished, pendingDisconnect, disconnects, addrs,
                   serverClosed>>

\* The server closes the connection when it has read DISCONNECT.
BrokerDisconnect ==
    /\ ~serverClosed
    /\ toBroker # <<>>
    /\ Head(toBroker).type = "Disconnect"
    /\ toBroker' = <<>>
    /\ serverClosed' = TRUE
    /\ UNCHANGED <<actorVars, statusVars, fromBroker, outVars, disconnectVars>>

ConnectionClosed ==
    /\ serverClosed
    /\ RecvFails
    /\ UNCHANGED <<statusVars, outVars, disconnectVars, serverClosed>>

Exchange ==
    \/ SendPublishHandle \/ PubackHandle \/ PubrecHandle \/ PubcompHandle
    \/ PublishStatusHandle
    \/ ~serverClosed /\ BrokerRead
    \/ Background /\ UNCHANGED outVars

ClosingNext ==
    \/ \E m \in OutMsg : ClosingPublish(m)
    \/ PublishReturns
    \/ Exchange /\ UNCHANGED <<disconnectVars, serverClosed>>
    \/ DisconnectStep /\ UNCHANGED <<outVars, serverClosed>>
    \/ BrokerDisconnect
    \/ ConnectionClosed

ClosingSpec == ClosingInit /\ [][ClosingNext]_closingVars

\* Calls return and the actors run; the server and the application owe nothing.
ClosingFairness ==
    /\ OutgoingFairness
    /\ WF_closingVars(PublishReturns)
    /\ WF_closingVars(DisconnectReturns /\ UNCHANGED <<outVars, serverClosed>>)
    /\ WF_closingVars(DisconnectHandle /\ UNCHANGED <<outVars, serverClosed>>)
    /\ WF_closingVars(PacketSendStatusHandle /\ UNCHANGED <<outVars, serverClosed>>)

FairClosingSpec == ClosingSpec /\ ClosingFairness

-----------------------------------------------------------------------------

NothingPending == \A id \in Id : packetStatus[id] = NoStatus

DisconnectTypeOK ==
    /\ packetSendFinished \in BOOLEAN
    /\ pendingDisconnect \in BOOLEAN
    /\ disconnects \subseteq BOOLEAN
    /\ calling \in {Idle, "publish", "disconnect"}
    /\ addrs \in {"all", "disconnect", "none"}
    /\ mbox["Disconnect"] \in Seq(SendStatusMessages \cup DisconnectMessages)

\* An actor that believes belief, with box in its mailbox, is to end up believing
\* what is the case: the last it is told is, or nothing and it already does.
ToldIn(box) == {i \in DOMAIN box : box[i].type = "PacketSendStatus"}
WillBelieve(box, belief, what) ==
    /\ ToldIn(box) = {} => belief = what
    /\ \A i \in ToldIn(box) : (\A j \in ToldIn(box) : j <= i) => box[i].finished = what

\* What the DisconnectActor believes, or will when it has handled what the
\* status actor told it, is what the map says.
BeliefIsCurrent ==
    {"Disconnect", "Status"} \subseteq alive =>
        WillBelieve(mbox["Disconnect"], packetSendFinished, NothingPending)

\* A disconnection that waits is not forgotten: some packet is pending, or the
\* actor has yet to be told that none is, or to handle its own Disconnect.
WaitsForSomething ==
    pendingDisconnect /\ {"Disconnect", "Status"} \subseteq alive =>
        ~packetSendFinished /\ (~NothingPending \/ ToldIn(mbox["Disconnect"]) # {})

\* disconnect(false) completes once the last packet is settled or given up.
GracefulDisconnectCompletes == FALSE \in disconnects ~> IsDisconnected

\* README.md:121, lib.rs:265: so a disconnection never waits while nothing is
\* left that could end it: no message, no packet and no task.
NeverStuck ==
    pendingDisconnect /\ "Disconnect" \in alive =>
        \/ \E a \in alive : mbox[a] # <<>>
        \/ toBroker # <<>> \/ fromBroker # <<>>
        \/ \E B \in {resends, timers, asking, answered} : B # EmptyBag

\* disconnect.rs:69, client.rs:247: DisconnectActor is not registered with the
\* StopActor and ends alone; when it has, no actor is left, not even
\* DispatchActor, which nobody tells to stop.
DisconnectionStopsClient == Closed("Disconnect") ~> alive = {}

=============================================================================
