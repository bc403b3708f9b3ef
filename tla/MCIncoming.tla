----------------------------- MODULE MCIncoming -----------------------------
(* Instances of IncomingPublish for TLC. *)
EXTENDS IncomingPublish, TLC

CONSTANTS b0, b1, b2

MCActor == {"Stop", "Send", "Recv", "Dispatch", "Status", "RecvPublish", "Pubrel", "App"}
MCRegistered == MCActor \ {"Stop", "Dispatch", "App"}
MCTarget == [type \in {"Publish", "Pubrel"} |->
                IF type = "Publish" THEN "RecvPublish" ELSE "Pubrel"]

\* No mailbox is ever full.
Ample == [a \in MCActor |-> 20]

\* Only the mailbox of the application's actor fills up.
SlowApp == [a \in MCActor |-> IF a = "App" THEN 1 ELSE 20]

\* Mailboxes fill up.
Tight == [a \in MCActor |-> IF a \in {"Send", "Status", "App"} THEN 1 ELSE 2]

MCQoS == b0 :> 0 @@ b1 :> 1 @@ b2 :> 2
MCId == b0 :> 0 @@ b1 :> 1 @@ b2 :> 2
=============================================================================
