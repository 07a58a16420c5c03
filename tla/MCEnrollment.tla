---------------------------- MODULE MCEnrollment ----------------------------
(***************************************************************************)
(* Enrollment on a small instance: one machine with the secret of the      *)
(* server and one without, one enrollment per window, and two versions of  *)
(* the agent whose binaries differ in size.                                *)
(***************************************************************************)
EXTENDS Enrollment

CONSTANTS m1, m2

SizeByVersion == [v \in Versions |-> v]
=============================================================================
