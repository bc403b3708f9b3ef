---------------------------- MODULE PublishBoth ----------------------------
(***************************************************************************)
(* A client that publishes and receives: OutgoingPublish and               *)
(* IncomingPublish over the same status actor and the same connection.     *)
(* Each side chooses its packet identifiers alone, but PacketStatusActor   *)
(* has one map for both (src/actors/actions/status.rs:29), so a message    *)
(* the client sends and one it receives may share a status.                *)
(***************************************************************************)
EXTENDS Session

CONSTANTS OutMsg, QoS, BadTopic, FirstId, UsizeRange,  \* as in OutgoingPublish
          Inbound, InQoS, InId, MaxSends               \* as in IncomingPublish

VARIABLES published, idCounter, sentAs, acked, taken,
          stage, sends, received

Out == INSTANCE OutgoingPublish
In  == INSTANCE IncomingPublish

outVars == <<published, idCounter, sentAs, acked, taken>>
inVars  == <<stage, sends, received>>
bothVars == <<sessionVars, outVars, inVars>>

Init == SessionInit /\ Out!OutgoingInit /\ In!IncomingInit

Next ==
    \/ Out!OutgoingStep /\ UNCHANGED inVars
    \/ In!IncomingStep /\ UNCHANGED outVars
    \/ Background /\ UNCHANGED <<outVars, inVars>>

Spec == Init /\ [][Next]_bothVars

-----------------------------------------------------------------------------
(* Properties. *)

\* The identifiers the client has sent messages with, and the server.
ClientIds == UNION {{sentAs[m][i] : i \in DOMAIN sentAs[m]} : m \in OutMsg}
ServerIds == {InId[b] : b \in {b \in Inbound : InQoS[b] # 0 /\ sends[b] > 0}}

\* An answer settles an attempt of the client only if the server took the
\* message, or if the server has used the identifier of the attempt too.
SettledOrShared ==
    \A m \in OutMsg : \A i \in DOMAIN sentAs[m] :
        sentAs[m][i] \in acked \ ServerIds => \E p \in taken : p.m = m

\* publish.rs:433: the server lets go of a message of QoS 2 that the application
\* has not got only if the client has used the identifier of the message too.
DeliveredOrShared ==
    \A b \in Inbound :
        InQoS[b] = 2 /\ stage[b] \in {"release", "done"} /\ InId[b] \notin ClientIds =>
            In!Delivered(b) > 0

=============================================================================
