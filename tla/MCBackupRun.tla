----------------------------- MODULE MCBackupRun -----------------------------
(* TLC instances of BackupRun: a policy with two destinations. *)
EXTENDS BackupRun, TLC
=============================================================================
