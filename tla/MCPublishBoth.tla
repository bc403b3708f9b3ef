--------------------------- MODULE MCPublishBoth ---------------------------
(* Instances of PublishBoth for TLC. *)
EXTENDS PublishBoth, TLC

CONSTANTS m1, m2, b0, b2

MCActor == {"Stop", "Send", "Recv", "Dispatch", "Status", "SendPublish", "Puback",
            "Pubrec", "Pubcomp", "RecvPublish", "Pubrel", "App"}
MCRegistered == MCActor \ {"Stop", "Dispatch", "App"}
MCTarget == [type \in {"Publish", "Pubrel", "Puback", "Pubrec", "Pubcomp"} |->
                IF type = "Publish" THEN "RecvPublish" ELSE type]

\* Only the mailbox of the application's actor fills up.
SlowApp == [a \in MCActor |-> IF a = "App" THEN 1 ELSE 20]

MCQoS == m1 :> 1 @@ m2 :> 2
MCInQoS == b0 :> 0 @@ b2 :> 2
MCInId == b0 :> 0 @@ b2 :> 2
=============================================================================
