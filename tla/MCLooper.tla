------------------------------ MODULE MCLooper ------------------------------
(* The looper with the task of MCTask. *)
EXTENDS Looper, MCTask
=============================================================================
