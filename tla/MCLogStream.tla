----------------------------- MODULE MCLogStream -----------------------------
(* A log of several batches and a rest. *)
EXTENDS LogStream
=============================================================================
