-------------------------- MODULE MCPolicySchedule --------------------------
(* One policy under two concurrent requests. *)
EXTENDS PolicySchedule

CONSTANTS h1, h2, r1, c1
=============================================================================
