---------------------------- MODULE SessionTurns ----------------------------
(***************************************************************************)
(* What the per-session mutexes of the session manager promise: every      *)
(* session id is a first-come first-served line.  The request at the head  *)
(* of the line has its turn, and only it leaves.  Nothing is said of       *)
(* mutexes, shells or session objects: SessionManager implements this      *)
(* module as long as no mutex is dropped while it is in use.               *)
(***************************************************************************)
EXTENDS Sequences

CONSTANTS Requests, SessionIds

VARIABLES line,    \* line[s]: the requests waiting for their turn, head first
          joined   \* the requests that have joined a line at some time

Init ==
  /\ line = [s \in SessionIds |-> << >>]
  /\ joined = {}

\* Request r joins the line of session s, behind everyone already there.
Join(r, s) ==
  /\ r \notin joined
  /\ line' = [line EXCEPT ![s] = Append(@, r)]
  /\ joined' = joined \cup {r}

\* The request whose turn it is ends its turn.
Depart(s) ==
  /\ line[s] # << >>
  /\ line' = [line EXCEPT ![s] = Tail(@)]
  /\ UNCHANGED joined

Next ==
  \/ \E r \in Requests, s \in SessionIds : Join(r, s)
  \/ \E s \in SessionIds : Depart(s)

vars == << line, joined >>

Spec == Init /\ [][Next]_vars

\* Every turn ends.
FairSpec == Spec /\ \A s \in SessionIds : WF_vars(Depart(s))

=============================================================================
