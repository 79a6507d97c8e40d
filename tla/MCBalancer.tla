----------------------------- MODULE MCBalancer -----------------------------
(* A service with two normal backends and an emergency backend.            *)
EXTENDS Balancer

CONSTANTS b1, b2, e1

MCGroups == <<<<b1, b2>>, <<e1>>>>
MCPriority == [b \in Backends |-> IF b = b2 THEN 2 ELSE 1]
=============================================================================
