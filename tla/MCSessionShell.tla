--------------------------- MODULE MCSessionShell ---------------------------
(* Small instances of SessionShell. *)
EXTENDS SessionShell

=============================================================================
