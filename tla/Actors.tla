------------------------------- MODULE Actors -------------------------------
(***************************************************************************)
(* Message passing between the actors of the client: the actix primitives  *)
(* the code uses, the error helpers of src/actors/mod.rs and the StopActor *)
(* of src/actors/actions/stop.rs.                                          *)
(*                                                                         *)
(* Every actor runs on one arbiter, so a handler is atomic and the actors  *)
(* interleave between handlers.  mbox[a] is the mailbox of actor a, in the *)
(* order the messages were sent.  An actor that stops drops its mailbox;   *)
(* from then on every send to it fails with "Closed".                      *)
(***************************************************************************)
EXTENDS Naturals, Sequences, FiniteSets, BagsExt, Bags

CONSTANTS
    Actor,       \* the actors the client starts, and the application's
    Registered,  \* the actors the StopActor was told about (AddStopRecipient)
    Capacity     \* Capacity[a] messages make try_send to a fail with "Full"

ASSUME ActorAssumption ==
    /\ {"Stop", "Send", "Recv", "Dispatch", "Status"} \subseteq Actor
    /\ Registered \subseteq Actor \ {"Stop"}
    /\ Capacity \in [Actor -> Nat \ {0}]

VARIABLES
    mbox,    \* mbox[a]: the messages actor a has not handled yet
    alive,   \* the actors that have not stopped
    resends  \* bag of the messages resend() posts again after RESEND_DELAY

actorVars == <<mbox, alive, resends>>

StopMessage == [type |-> "Stop"]

\* PacketMessage<T>, for the actor of packet type T, and
\* PacketMessage<VariablePacket>, whose retry_count nobody reads.
PacketMessage(packet, retry)  == [type |-> packet.type, packet |-> packet, retry |-> retry]
VariablePacketMessage(packet) == [type |-> "Packet", packet |-> packet]

ActorsInit ==
    /\ mbox = [a \in Actor |-> <<>>]
    /\ alive = Actor
    /\ resends = EmptyBag

-----------------------------------------------------------------------------
(* The three ways to send. *)

Closed(a)  == a \notin alive
Full(a)    == a \in alive /\ Len(mbox[a]) >= Capacity[a]
Accepts(a) == a \in alive /\ Len(mbox[a]) < Capacity[a]

\* do_send: no capacity check, no effect on an actor that has stopped.  Also
\* the effect of a try_send to an actor that Accepts.
Post(box, a, m) == IF a \in alive THEN [box EXCEPT ![a] = Append(@, m)] ELSE box

\* Actor a is about to handle a message of this type.
Handling(a, type) ==
    /\ a \in alive
    /\ mbox[a] # <<>>
    /\ Head(mbox[a]).type = type

\* The mailboxes once actor a has taken its next message.
Take(a) == [mbox EXCEPT ![a] = Tail(@)]

-----------------------------------------------------------------------------
(* src/actors/mod.rs: what a handler does when a send to target failed.    *)
(* box is what the handler has done to the mailboxes so far.               *)

\* A closed target stops the client; a full one loses the message.
HandleSendError(target, box) ==
    mbox' = IF Closed(target) THEN Post(box, "Stop", StopMessage) ELSE box

\* A closed target stops the client; a full one makes actor a handle msg again
\* after RESEND_DELAY.
HandleSendErrorWithResend(target, box, a, msg) ==
    \/ /\ Closed(target)
       /\ mbox' = Post(box, "Stop", StopMessage)
       /\ UNCHANGED resends
    \/ /\ Full(target)
       /\ mbox' = box
       /\ resends' = BagAdd(resends, [to |-> a, msg |-> msg])

\* The task resend() spawned wakes up.
Resend ==
    \E r \in BagToSet(resends) :
        /\ mbox' = Post(mbox, r.to, r.msg)
        /\ resends' = BagRemove(resends, r)
        /\ UNCHANGED alive

-----------------------------------------------------------------------------
(* StopActor: the first StopMessage is passed on to every registered actor *)
(* and the StopActor itself stops, so it never handles a second one.       *)

\* Mutant: the loop over the recipients ends at the first one that has stopped.
BroadcastStopWhileAlive ==
    /\ Handling("Stop", "Stop")
    /\ mbox' = [a \in Actor |->
                   IF a = "Stop" THEN <<>>
                   ELSE IF a \in Registered /\ Registered \subseteq alive
                        THEN Append(mbox[a], StopMessage)
                        ELSE mbox[a]]
    /\ alive' = alive \ {"Stop"}
    /\ UNCHANGED resends

BroadcastStop ==
    /\ Handling("Stop", "Stop")
    /\ mbox' = [a \in Actor |->
                   IF a = "Stop" THEN <<>>
                   ELSE IF a \in Registered \cap alive
                        THEN Append(mbox[a], StopMessage)
                        ELSE mbox[a]]
    /\ alive' = alive \ {"Stop"}
    /\ UNCHANGED resends

=============================================================================
