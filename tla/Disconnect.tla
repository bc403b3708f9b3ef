----------------------------- MODULE Disconnect -----------------------------
(***************************************************************************)
(* DisconnectActor (src/actors/packets/disconnect.rs) and the calls of     *)
(* MqttClient (src/client.rs) that start, and watch, a disconnection.  The *)
(* status actor tells DisconnectActor after every operation whether any    *)
(* packet is pending; disconnect(false) waits until none is.               *)
(***************************************************************************)
EXTENDS Session

ASSUME DisconnectAssumption ==
    /\ "Disconnect" \in Actor \ Registered
    /\ SendStatusRecipient = {"Disconnect"}

VARIABLES
    packetSendFinished,  \* what DisconnectActor was last told
    pendingDisconnect,   \* disconnect(false) waits
    disconnects,         \* the values of force disconnect() was called with
    calling,             \* the call of the client that has not returned
    addrs                \* the addresses the client still has

disconnectVars == <<packetSendFinished, pendingDisconnect, disconnects, calling, addrs>>

Idle == "idle"

DisconnectInit ==
    /\ packetSendFinished = TRUE
    /\ pendingDisconnect = FALSE
    /\ disconnects = {}
    /\ calling = Idle
    /\ addrs = "all"

\* Disconnect{force}; by tells the client's from the one the actor sends itself.
DisconnectMessage(force, by) == [type |-> "Disconnect", force |-> force, by |-> by]
DisconnectPacket == [type |-> "Disconnect"]

-----------------------------------------------------------------------------
(* MqttClient. *)

ClearAllAddrs(force) == addrs' = IF force THEN "none" ELSE "disconnect"

\* disconnect(force): after the graceful one only the forced one is called,
\* and nothing after that.
ClientDisconnect(force) ==
    /\ calling = Idle
    /\ addrs # "none"
    /\ disconnects \subseteq {FALSE} \ {force}
    /\ disconnects' = disconnects \cup {force}
    /\ \/ /\ Accepts("Disconnect")
          /\ mbox' = Post(mbox, "Disconnect", DisconnectMessage(force, "client"))
          /\ calling' = "disconnect"
          /\ UNCHANGED addrs
       \/ /\ Closed("Disconnect")
          /\ ClearAllAddrs(force)
          /\ UNCHANGED <<mbox, calling>>
    /\ UNCHANGED <<alive, resends, statusVars, wireVars, packetSendFinished, pendingDisconnect>>

\* The actor has handled the message, or has dropped it.
DisconnectReturns ==
    /\ calling = "disconnect"
    /\ \A i \in DOMAIN mbox["Disconnect"] :
           mbox["Disconnect"][i] # DisconnectMessage(TRUE \in disconnects, "client")
    /\ calling' = Idle
    /\ ClearAllAddrs(TRUE \in disconnects)
    /\ UNCHANGED <<sessionVars, packetSendFinished, pendingDisconnect, disconnects>>

\* is_disconnected().
IsDisconnected == addrs = "none" \/ Closed("Disconnect")

-----------------------------------------------------------------------------
(* DisconnectActor. *)

\* Mutant: the actor stops and tells nobody.
SendDisconnectOnly(msg) ==
    /\ mbox' = LET box == [mbox EXCEPT !["Disconnect"] = <<>>]
               IN  IF Accepts("Send")
                   THEN Post(box, "Send", VariablePacketMessage(DisconnectPacket)) ELSE box
    /\ alive' = alive \ {"Disconnect"}
    /\ UNCHANGED resends

\* The DISCONNECT packet, and then the StopMessage for the client.  A resend
\* would be to the actor itself, which stops.
SendDisconnect(msg) ==
    LET box == [mbox EXCEPT !["Disconnect"] = <<>>]
        sent == IF Accepts("Send")
                THEN Post(box, "Send", VariablePacketMessage(DisconnectPacket))
                ELSE IF Closed("Send") THEN Post(box, "Stop", StopMessage) ELSE box
    IN  /\ mbox' = Post(sent, "Stop", StopMessage)
        /\ resends' = IF Full("Send")
                      THEN BagAdd(resends, [to |-> "Disconnect", msg |-> msg])
                      ELSE resends
        /\ alive' = alive \ {"Disconnect"}

\* Mutant: only the message the actor sends itself, or a forced one.
ReadyWhenForced(msg) == msg.force

\* The DISCONNECT is sent at once.
Ready(msg) == msg.force \/ packetSendFinished

DisconnectHandle ==
    /\ Handling("Disconnect", "Disconnect")
    /\ LET msg == Head(mbox["Disconnect"])
       IN  \/ /\ Ready(msg)
              /\ SendDisconnect(msg)
              /\ UNCHANGED pendingDisconnect
           \/ /\ ~Ready(msg)
              /\ pendingDisconnect' = TRUE
              /\ mbox' = Take("Disconnect")
              /\ UNCHANGED <<alive, resends>>
    /\ UNCHANGED <<statusVars, wireVars, packetSendFinished, disconnects, calling, addrs>>

\* Mutant: the waiting disconnection is ended without the message.
FinishPendingSilently(box) == pendingDisconnect' = FALSE /\ mbox' = box

\* Mutant: the actor only stops itself.
FinishPendingStops(box) ==
    /\ pendingDisconnect' = FALSE
    /\ mbox' = Post(box, "Disconnect", StopMessage)

\* The disconnection that waited goes on with a forced Disconnect.
FinishPending(box) ==
    /\ pendingDisconnect' = FALSE
    /\ mbox' = Post(box, "Disconnect", DisconnectMessage(TRUE, "self"))

PacketSendStatusHandle ==
    /\ Handling("Disconnect", "PacketSendStatus")
    /\ LET finished == Head(mbox["Disconnect"]).finished
           box == Take("Disconnect")
       IN  /\ packetSendFinished' = finished
           /\ IF pendingDisconnect /\ finished
              THEN FinishPending(box)
              ELSE /\ mbox' = box
                   /\ UNCHANGED pendingDisconnect
    /\ UNCHANGED <<alive, resends, statusVars, wireVars, disconnects, calling, addrs>>

DisconnectStep ==
    \/ \E force \in BOOLEAN : ClientDisconnect(force)
    \/ DisconnectReturns
    \/ DisconnectHandle
    \/ PacketSendStatusHandle

=============================================================================
