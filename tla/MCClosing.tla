----------------------------- MODULE MCClosing -----------------------------
(* Instances of Closing for TLC. *)
EXTENDS Closing, TLC

CONSTANTS m1, m2

MCActor == {"Stop", "Send", "Recv", "Dispatch", "Status", "SendPublish",
            "Puback", "Pubrec", "Pubcomp", "Disconnect"}
MCRegistered == MCActor \ {"Stop", "Dispatch", "Disconnect"}
MCTarget == [type \in {"Puback", "Pubrec", "Pubcomp"} |-> type]

\* No mailbox is ever full.
Ample == [a \in MCActor |-> 20]

\* Only the mailbox of SendActor fills up.
TightSend == [a \in MCActor |-> IF a = "Send" THEN 1 ELSE 20]

MCQoS == m1 :> 1 @@ m2 :> 2
=============================================================================
