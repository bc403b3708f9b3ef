----------------------------- MODULE MCCommand -----------------------------
(* Instances of Command for TLC. *)
EXTENDS Command

CONSTANTS r1, r2

MCActor == {"Stop", "Send", "Recv", "Dispatch", "Status", "Subscribe", "Suback"}
MCRegistered == MCActor \ {"Stop", "Dispatch"}
MCTarget == [type \in {"Suback"} |-> type]

\* Mailboxes fill up.
Tight == [a \in MCActor |-> IF a \in {"Send", "Status"} THEN 1 ELSE 2]
=============================================================================
