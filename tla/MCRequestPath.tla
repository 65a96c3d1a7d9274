--------------------------- MODULE MCRequestPath ---------------------------
(* Small instances of RequestPath. *)
EXTENDS RequestPath, TLC

CONSTANTS c1, c2, k1, k2

\* Side by side are called the methods that change what both sides must agree
\* on: the variables of the session, and the contexts.
MCTogether ==
  {{"execute"}, {"execute", "setEnvVars"}, {"setEnvVars"}}
  \cup {{"runCode"}, {"runCode", "deleteCodeContext"}, {"runCode", "listCodeContexts"}}
MCEnvObject == [k \in Keys |-> IF k = k1 THEN 1 ELSE 0]
CallSymmetry == Permutations(Calls)
=============================================================================
