----------------------------- MODULE Connecting -----------------------------
(***************************************************************************)
(* How the client connects: MqttClient::connect, ConnectActor (src/actors/ *)
(* packets/connect.rs) with its timeout, ConnackActor (connack.rs), and    *)
(* the status actor "Connect" they share, in which 0 stands for connecting *)
(* and 1 for connected.  None of the three actors is registered with the   *)
(* StopActor: each lives as long as somebody has its address.              *)
(***************************************************************************)
EXTENDS Session

ASSUME ConnectingAssumption ==
    /\ {"Connect", "Connack", "ConnectStatus"} \subseteq Actor \ Registered
    /\ "Connack" \in DOMAIN Target /\ Target["Connack"] = "Connack"

VARIABLES
    held,           \* the addresses of these actors that the client has
    connectCall,    \* connect(): "none", "pending", "returned"
    connectStatus,  \* packet_status_map of the connect status actor
    connectCheck,   \* where ConnectActor's timeout has got to
    connack         \* history: what ConnackActor has handled

connectVars == <<held, connectCall, connectStatus, connectCheck, connack>>

ConnectingInit ==
    /\ held = {"Connect", "ConnectStatus"}
    /\ connectCall = "none"
    /\ connectStatus = {}
    /\ connectCheck = "none"
    /\ connack = "none"

ConnectMessage == [type |-> "Connect"]
ConnectPacket  == [type |-> "Connect"]
ConnackPacket(code) == [type |-> "Connack", code |-> code]
ConnectQuestion == GetAndRemovePacketStatus([kind |-> "connect", id |-> 0])

-----------------------------------------------------------------------------
(* MqttClient. *)

\* connect(): once, because it takes the address.
ClientConnect ==
    /\ connectCall = "none"
    /\ "Connect" \in held
    /\ Accepts("Connect")
    /\ mbox' = Post(mbox, "Connect", ConnectMessage)
    /\ connectCall' = "pending"
    /\ UNCHANGED <<alive, resends, held, connectStatus, connectCheck, connack>>

ConnectReturns ==
    /\ connectCall = "pending"
    /\ \A i \in DOMAIN mbox["Connect"] : mbox["Connect"][i] # ConnectMessage
    /\ connectCall' = "returned"
    /\ held' = held \ {"Connect"}
    /\ UNCHANGED <<actorVars, connectStatus, connectCheck, connack>>

\* clear_all_addrs, or the client is dropped.
ClientLetsGo ==
    /\ connectCall # "pending"
    /\ held # {}
    /\ held' = {}
    /\ UNCHANGED <<actorVars, connectCall, connectStatus, connectCheck, connack>>

\* What is_connected() answers while the client has the address.
IsConnected == 1 \in connectStatus

-----------------------------------------------------------------------------
(* ConnectActor.  The status actor is never closed for the actors and tasks *)
(* that have its address, so errors that report it closed are left out.     *)

ConnectHandle ==
    /\ Handling("Connect", "Connect")
    /\ LET box == Post(Take("Connect"), "ConnectStatus", SetPacketStatus(0, "Unit"))
       IN  \/ /\ Closed("Send")
              /\ mbox' = Post(box, "Stop", StopMessage)
              /\ UNCHANGED connectCheck
           \/ /\ ~Closed("Send")
              /\ mbox' = Post(box, "Send", VariablePacketMessage(ConnectPacket))
              /\ connectCheck' = "timer"
    /\ UNCHANGED <<alive, resends, held, connectCall, connectStatus, connack>>

\* COMMAND_TIMEOUT is over: the task is spawned.
TimeoutFires ==
    /\ connectCheck = "timer"
    /\ connectCheck' = "asking"
    /\ UNCHANGED <<actorVars, held, connectCall, connectStatus, connack>>

TimeoutAsks ==
    /\ connectCheck = "asking"
    /\ Accepts("ConnectStatus")
    /\ mbox' = Post(mbox, "ConnectStatus", ConnectQuestion)
    /\ connectCheck' = "asked"
    /\ UNCHANGED <<alive, resends, held, connectCall, connectStatus, connack>>

\* Mutant: status.is_none().
TimeoutStopsSwapped == IF connectCheck = "absent" THEN "Stop" ELSE "Connect"

\* Who is stopped: the client if no CONNACK has come, else ConnectActor.
TimeoutStops == IF connectCheck = "found" THEN "Stop" ELSE "Connect"

TimeoutAnswered ==
    /\ connectCheck \in {"found", "absent"}
    /\ mbox' = Post(mbox, TimeoutStops, StopMessage)
    /\ connectCheck' = "over"
    /\ UNCHANGED <<alive, resends, held, connectCall, connectStatus, connack>>

\* The StopMessage; a timeout that still runs is dropped with the context.
ConnectStop ==
    /\ Handling("Connect", "Stop")
    /\ alive' = alive \ {"Connect"}
    /\ mbox' = [mbox EXCEPT !["Connect"] = <<>>]
    /\ connectCheck' = IF connectCheck = "timer" THEN "over" ELSE connectCheck
    /\ UNCHANGED <<resends, held, connectCall, connectStatus, connack>>

-----------------------------------------------------------------------------
(* ConnackActor and the connect status actor. *)

\* Mutant: the status of the connection attempt stays.
AcceptedKeepsConnecting(box) ==
    Post(Post(box, "ConnectStatus", SetPacketStatus(1, "Unit")), "Connect", StopMessage)

\* Not connecting any more, connected, and ConnectActor has done its work.
AcceptedBox(box) ==
    Post(Post(Post(box, "ConnectStatus", RemovePacketStatus(0)),
              "ConnectStatus", SetPacketStatus(1, "Unit")),
         "Connect", StopMessage)

ConnackHandle ==
    /\ Handling("Connack", "Connack")
    /\ LET code == Head(mbox["Connack"]).packet.code
           box == Take("Connack")
       IN  \/ /\ ~Accepts("ConnectStatus")
              /\ mbox' = Post(box, "Stop", StopMessage)
              /\ UNCHANGED <<alive, connack>>
           \/ /\ Accepts("ConnectStatus")
              /\ code = "Accepted"
              /\ mbox' = AcceptedBox([box EXCEPT !["Connack"] = <<>>])
              /\ alive' = alive \ {"Connack"}
              /\ connack' = code
           \/ /\ Accepts("ConnectStatus")
              /\ code # "Accepted"
              /\ mbox' = Post(Post(box, "ConnectStatus", RemovePacketStatus(0)),
                              "Stop", StopMessage)
              /\ connack' = code
              /\ UNCHANGED alive
    /\ UNCHANGED <<resends, held, connectCall, connectStatus, connectCheck>>

\* PacketStatusActor again; this one reports to nobody.
ConnectStatusHandle ==
    /\ Handling("ConnectStatus", "Status")
    /\ LET op == Head(mbox["ConnectStatus"])
       IN  /\ connectStatus' = IF op.op = "Set" THEN connectStatus \cup {op.id}
                               ELSE connectStatus \ {op.id}
           /\ connectCheck' = IF op.op # "GetAndRemove" THEN connectCheck
                              ELSE IF op.id \in connectStatus THEN "found" ELSE "absent"
    /\ mbox' = Take("ConnectStatus")
    /\ UNCHANGED <<alive, resends, held, connectCall, connack>>

-----------------------------------------------------------------------------
(* An actor whose address nobody has stops when its mailbox is empty. *)

Orphaned(a) ==
    /\ a \in alive
    /\ mbox[a] = <<>>
    /\ alive' = alive \ {a}
    /\ UNCHANGED <<mbox, resends, connectVars>>

\* Only DispatchActor has the address of ConnackActor.
ConnackOrphaned == "Dispatch" \notin alive /\ Orphaned("Connack")

\* The client, ConnackActor and the task have the address of ConnectActor, and
\* a timeout keeps the actor running.
ConnectOrphaned ==
    /\ "Connect" \notin held
    /\ "Connack" \notin alive
    /\ connectCheck \in {"none", "over"}
    /\ Orphaned("Connect")

\* The server answers CONNECT, or does not.
BrokerConnect ==
    /\ toBroker # <<>>
    /\ Head(toBroker) = ConnectPacket
    /\ toBroker' = Tail(toBroker)
    /\ \E code \in {"Accepted", "Refused"} : fromBroker' = Append(fromBroker, ConnackPacket(code))
    /\ UNCHANGED <<actorVars, connectVars>>

ConnectingStep ==
    \/ /\ \/ ClientConnect \/ ConnectReturns \/ ClientLetsGo
          \/ ConnectHandle \/ ConnectStop
          \/ TimeoutFires \/ TimeoutAsks \/ TimeoutAnswered
          \/ ConnackHandle \/ ConnectStatusHandle
          \/ ConnackOrphaned \/ ConnectOrphaned
       /\ UNCHANGED wireVars
    \/ BrokerConnect

=============================================================================
