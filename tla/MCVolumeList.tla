---------------------------- MODULE MCVolumeList ----------------------------
(* VolumeList for one agent and one request. *)
EXTENDS VolumeList

CONSTANTS a1, q1

OneAgent == [q \in Requests |-> a1]
=============================================================================
