--------------------------- MODULE MCWsTransport ---------------------------
(***************************************************************************)
(* Small instances of WsTransport for TLC.                                 *)
(***************************************************************************)
EXTENDS WsTransport

CONSTANTS f1, f2, st1

Calls2   == {f1, st1}
Calls3   == {f1, f2, st1}
Streams1 == {st1}

=============================================================================
