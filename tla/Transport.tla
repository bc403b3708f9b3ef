----------------------------- MODULE Transport -----------------------------
(***************************************************************************)
(* The way of a packet between the connection and the packet actors:       *)
(* SendActor (src/actors/actions/send.rs) writes, RecvActor (recv.rs)      *)
(* parses and DispatchActor (dispatch.rs) hands each packet to its actor.  *)
(* TCP keeps packets in order and loses none, but each of the two hops on  *)
(* the receiving side drops a packet whose target mailbox is full.         *)
(***************************************************************************)
EXTENDS Actors

CONSTANTS
    Target,    \* Target[type]: the actor DispatchActor gives a packet type to
    MayBreak   \* whether the connection, or the application's actor, may break

ASSUME TransportAssumption ==
    /\ \A type \in DOMAIN Target : Target[type] \in Actor \ {"Dispatch", "Stop"}
    /\ MayBreak \in BOOLEAN

VARIABLES
    toBroker,   \* packets written and not yet read by the server
    fromBroker  \* packets the server sent and RecvActor has not parsed

wireVars == <<toBroker, fromBroker>>

TransportInit ==
    /\ toBroker = <<>>
    /\ fromBroker = <<>>

\* SendActor writes the packet; the writer's buffer is part of toBroker.
SendHandle ==
    /\ Handling("Send", "Packet")
    /\ toBroker' = Append(toBroker, Head(mbox["Send"]).packet)
    /\ mbox' = Take("Send")
    /\ UNCHANGED <<alive, resends, fromBroker>>

\* What of toBroker still reaches the server when the SendActor stops: bytes
\* in the writer's buffer are gone, those the socket has taken are not.
BufferLost == \E n \in 0 .. Len(toBroker) : toBroker' = SubSeq(toBroker, 1, n)

\* RecvActor's stream yields a packet; any error of try_send loses it.
RecvPacket ==
    /\ "Recv" \in alive
    /\ fromBroker # <<>>
    /\ fromBroker' = Tail(fromBroker)
    /\ mbox' = IF Accepts("Dispatch")
               THEN Post(mbox, "Dispatch", VariablePacketMessage(Head(fromBroker)))
               ELSE mbox
    /\ UNCHANGED <<alive, resends, toBroker>>

\* DispatchActor: to the packet's actor, with retry_count 0.
DispatchHandle ==
    /\ Handling("Dispatch", "Packet")
    /\ LET packet == Head(mbox["Dispatch"]).packet
           target == Target[packet.type]
           box == Take("Dispatch")
       IN  IF Accepts(target)
           THEN mbox' = Post(box, target, PacketMessage(packet, 0))
           ELSE HandleSendError(target, box)
    /\ UNCHANGED <<alive, resends, wireVars>>

\* The stream of RecvActor ends in an error (connection closed, or bytes that
\* are no packet): try_send of StopMessage, and the actor, having no stream
\* any more, stops and does do_send of another one.
RecvFails ==
    /\ "Recv" \in alive
    /\ alive' = alive \ {"Recv"}
    /\ LET box == IF Accepts("Stop") THEN Post(mbox, "Stop", StopMessage) ELSE mbox
       IN  mbox' = [Post(box, "Stop", StopMessage) EXCEPT !["Recv"] = <<>>]
    /\ fromBroker' = <<>>
    /\ UNCHANGED <<resends, toBroker>>

RecvError == MayBreak /\ RecvFails

\* WriteHandler::error: the SendActor stops and has the client stopped.
WriteError ==
    /\ MayBreak
    /\ "Send" \in alive
    /\ alive' = alive \ {"Send"}
    /\ mbox' = [Post(mbox, "Stop", StopMessage) EXCEPT !["Send"] = <<>>]
    /\ BufferLost
    /\ UNCHANGED <<resends, fromBroker>>

\* Only RecvActor holds the address of DispatchActor, which stops when its
\* mailbox is empty and RecvActor gone.
DispatchOrphaned ==
    /\ "Dispatch" \in alive
    /\ "Recv" \notin alive
    /\ mbox["Dispatch"] = <<>>
    /\ alive' = alive \ {"Dispatch"}
    /\ UNCHANGED <<mbox, resends, wireVars>>

TransportNext ==
    \/ SendHandle \/ RecvPacket \/ DispatchHandle
    \/ RecvError \/ WriteError \/ DispatchOrphaned

=============================================================================
