-------------------------- MODULE MCProcessService --------------------------
(* Small instances of ProcessService. *)
EXTENDS ProcessService

=============================================================================
