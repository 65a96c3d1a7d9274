---------------------------- MODULE MCSandboxDO ----------------------------
(***************************************************************************)
(* Small instances of SandboxDO for TLC.                                   *)
(***************************************************************************)
EXTENDS SandboxDO, TLC

CONSTANTS c1, c2, c3, p8080, p9000, t1, t2

Calls2  == {c1, c2}
Calls3  == {c1, c2, c3}
TwoPorts  == {p8080, p9000}
TwoTokens == {t1, t2}
OnePath   == {"/data"}

\* The sandbox is "my-box"; ids are also spelled "My-box".
MyBox     == << "my", "box" >>
BoxWords  == {"my", "My", "box"}
BoxLower  == [w \in BoxWords |-> IF w = "My" THEN "my" ELSE w]

\* Calls are interchangeable, and so are ports and tokens.
Symmetric == Permutations(Calls) \cup Permutations(Ports) \cup Permutations(Tokens)

=============================================================================
