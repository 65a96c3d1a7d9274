--------------------------- MODULE MCProcessPool ---------------------------
(***************************************************************************)
(* Small instances of ProcessPool for TLC.                                 *)
(***************************************************************************)
EXTENDS ProcessPool, TLC

CONSTANTS c1, c2, c3

Calls2 == {c1, c2}
Calls3 == {c1, c2, c3}

\* Calls are interchangeable.
Symmetric == Permutations(Calls)

=============================================================================
