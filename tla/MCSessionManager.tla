-------------------------- MODULE MCSessionManager --------------------------
(***************************************************************************)
(* Small instances of SessionManager for TLC.                              *)
(***************************************************************************)
EXTENDS SessionManager, TLC

CONSTANTS r1, r2, r3, r4, s1, s2

Requests3 == {r1, r2, r3}
Requests4 == {r1, r2, r3, r4}

OneId  == {s1}
TwoIds == {s1, s2}

CommandsAndMaps   == {"exec", "with", "create", "delete"}

\* Requests are interchangeable, and so are session ids.
Symmetric == Permutations(Requests) \cup Permutations(SessionIds)

=============================================================================
