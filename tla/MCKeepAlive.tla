---------------------------- MODULE MCKeepAlive ----------------------------
(* Instances of KeepAlive for TLC. *)
EXTENDS KeepAlive

MCActor == {"Stop", "Send", "Recv", "Dispatch", "Status", "Connect", "Connack",
            "ConnectStatus", "Pingreq", "Pingresp"}
MCRegistered == {"Send", "Recv", "Status", "Pingreq", "Pingresp"}
MCTarget == [type \in {"Connack", "Pingresp"} |-> type]

\* Mailboxes fill up.
Tight == [a \in MCActor |-> IF a \in {"Send", "Status", "ConnectStatus"} THEN 1 ELSE 2]
=============================================================================
