---------------------------- MODULE MCJobDispatch ----------------------------
(***************************************************************************)
(* JobDispatch on a small instance: one agent with two jobs, so that       *)
(* queue, current job and wire can all be occupied and a queue of one can  *)
(* overflow.                                                               *)
(***************************************************************************)
EXTENDS JobDispatch

CONSTANTS a1, j1, j2

OneAgent == [j \in Jobs |-> a1]
=============================================================================
