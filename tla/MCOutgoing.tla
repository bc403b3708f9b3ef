----------------------------- MODULE MCOutgoing -----------------------------
(* Instances of OutgoingPublish for TLC. *)
EXTENDS OutgoingPublish, TLC

CONSTANTS m1, m2, m3, m4, m5

MCActor == {"Stop", "Send", "Recv", "Dispatch", "Status", "SendPublish",
            "Puback", "Pubrec", "Pubcomp"}
MCRegistered == MCActor \ {"Stop", "Dispatch"}
MCTarget == [type \in {"Puback", "Pubrec", "Pubcomp"} |-> type]

\* No mailbox is ever full.
Ample == [a \in MCActor |-> 20]

\* Mailboxes fill up.
Tight == [a \in MCActor |-> IF a \in {"Send", "Status", "Pubrec", "Dispatch"} THEN 1 ELSE 2]

\* The same, but the connection takes every packet.
FastSend == [Tight EXCEPT !["Send"] = 20]

MCQoS == m1 :> 1 @@ m2 :> 2 @@ m3 :> 0 @@ m4 :> 1 @@ m5 :> 1
=============================================================================
