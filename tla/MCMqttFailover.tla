---------------------------- MODULE MCMqttFailover ----------------------------
EXTENDS MqttFailoverHistory
CONSTANTS h1, h2, h3
P(h) == [host |-> h, role |-> "primary"]
B(h) == [host |-> h, role |-> "backup"]

(* The backup becomes the only entry, at another index and as the primary. *)
MCDirectories == { <<P(h1), B(h2)>>, <<P(h2)>> }

(* The backup stays a backup, at another index, and the primary changes.   *)
MCNewPrimary == { <<P(h1), B(h2)>>, <<B(h2), P(h3)>> }
===============================================================================
