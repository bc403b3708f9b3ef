-------------------------- MODULE Retransmission --------------------------
(***************************************************************************)
(* What the client promises of a request that the server has to answer: it *)
(* is transmitted a bounded number of times, not any more when an answer   *)
(* to it has been taken, and never again when it is over.  This module     *)
(* stands for no code: SendPublishActor (OutgoingPublish) and              *)
(* SubscribeActor and UnsubscribeActor (Command) implement it.             *)
(***************************************************************************)
EXTENDS Naturals

CONSTANTS
    Request,     \* what may be requested
    MaxAttempts  \* how often a request is transmitted at most

VARIABLES
    phase,    \* phase[r] is "idle", "open", "answered" or "over"
    attempts  \* attempts[r]: how often r was transmitted

retransmissionVars == <<phase, attempts>>

Init ==
    /\ phase = [r \in Request |-> "idle"]
    /\ attempts = [r \in Request |-> 0]

Issue(r) ==
    /\ phase[r] = "idle"
    /\ phase' = [phase EXCEPT ![r] = "open"]
    /\ UNCHANGED attempts

Transmit(r) ==
    /\ attempts' = [attempts EXCEPT ![r] = @ + 1]
    /\ attempts[r] < MaxAttempts
    /\ phase[r] = "open"
    /\ UNCHANGED phase

\* The answer came in time.
Answer(r) ==
    /\ phase[r] = "open"
    /\ phase' = [phase EXCEPT ![r] = "answered"]
    /\ UNCHANGED attempts

\* Requests are over because the client finds them answered or gives them up;
\* those of an actor that stops are over together.
End(requests) ==
    /\ requests # {}
    /\ phase' = [r \in Request |-> IF r \in requests THEN "over" ELSE phase[r]]
    /\ UNCHANGED attempts

Next ==
    \/ \E r \in Request : Issue(r) \/ Transmit(r) \/ Answer(r)
    \/ \E requests \in SUBSET {r \in Request : phase[r] \in {"open", "answered"}} : End(requests)

Spec == Init /\ [][Next]_retransmissionVars

\* No request is open for ever.
RequestsEnd == \A r \in Request : phase[r] # "idle" ~> phase[r] = "over"

=============================================================================
