---------------------------- MODULE MCRestoreRun ----------------------------
(* TLC instances of RestoreRun: a volume beside the files. *)
EXTENDS RestoreRun

CONSTANTS s1, s2, v1, r1
=============================================================================
