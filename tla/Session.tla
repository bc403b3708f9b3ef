------------------------------ MODULE Session ------------------------------
(***************************************************************************)
(* What goes on below the packet exchanges while the client runs: packets  *)
(* on their way, status checks, messages handled again after a full        *)
(* mailbox, and the client being stopped.                                  *)
(***************************************************************************)
EXTENDS PacketStatus, Transport

sessionVars == <<actorVars, statusVars, wireVars>>

SessionInit == ActorsInit /\ StatusInit /\ TransportInit

StopHandle ==
    \E a \in Registered :
        /\ HandleStop(a)
        /\ IF a = "Send" THEN BufferLost ELSE UNCHANGED toBroker
        /\ IF a = "Recv" THEN fromBroker' = <<>> ELSE UNCHANGED fromBroker

Background ==
    \/ Resend /\ UNCHANGED <<statusVars, wireVars>>
    \/ BroadcastStop /\ UNCHANGED <<statusVars, wireVars>>
    \/ TaskNext /\ UNCHANGED wireVars
    \/ TransportNext /\ UNCHANGED statusVars
    \/ StopHandle

\* The arbiter polls every actor that has a message and every task that can
\* go on, and time passes.  Nothing makes the connection break.
SessionFairness ==
    /\ WF_sessionVars(Resend /\ UNCHANGED <<statusVars, wireVars>>)
    /\ WF_sessionVars(BroadcastStop /\ UNCHANGED <<statusVars, wireVars>>)
    /\ WF_sessionVars(TimerFires /\ UNCHANGED wireVars)
    /\ WF_sessionVars(AskStatus /\ UNCHANGED wireVars)
    /\ WF_sessionVars(StatusChecked /\ UNCHANGED wireVars)
    /\ WF_sessionVars(SendHandle /\ UNCHANGED statusVars)
    /\ WF_sessionVars(RecvPacket /\ UNCHANGED statusVars)
    /\ WF_sessionVars(DispatchHandle /\ UNCHANGED statusVars)
    /\ WF_sessionVars(DispatchOrphaned /\ UNCHANGED statusVars)
    /\ WF_sessionVars(StopHandle)

\* The client stops as a whole: once the StopActor has handled a StopMessage,
\* every actor it knows stops, whatever else is in their mailboxes, and so does
\* DispatchActor, which it does not know (stop.rs:38, client.rs:339).
StopReachesAll == "Stop" \notin alive ~> alive \cap (Registered \cup {"Dispatch"}) = {}

=============================================================================
