---------------------------- MODULE MCHeartbeat ----------------------------
(* Small instances of Heartbeat: two clients A and B. *)
EXTENDS Heartbeat

CONSTANTS A, B

\* B's own heartbeats are too rare for A's timeout: B's replies have to do.
ThreeAndSeven == [e \in Ends |-> IF e = A THEN 3 ELSE 7]
=============================================================================
