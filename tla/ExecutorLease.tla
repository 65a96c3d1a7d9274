---------------------------- MODULE ExecutorLease ----------------------------
(***************************************************************************)
(* What the pool of interpreters promises of one executor: it has at most  *)
(* one holder.  A stateless run gives the executor back, a context keeps   *)
(* it until the executor is retired, and a retired executor serves nobody. *)
(***************************************************************************)

CONSTANTS Runs, Contexts

VARIABLES holder,   \* who the executor works for: nobody or one client
          retired   \* was the executor killed, or has it exited?

\* A run and a context are told apart even when their names are the same.
Run(c)     == << "run", c >>
Context(x) == << "context", x >>
Clients    == {Run(c) : c \in Runs} \cup {Context(x) : x \in Contexts}

Init ==
  /\ holder = {}
  /\ retired = FALSE

\* The executor, which nobody holds, is taken.
Take ==
  /\ ~ retired
  /\ holder = {}
  /\ \E h \in Clients : holder' = {h}
  /\ UNCHANGED retired

\* A run is over; a context never lets go.
GiveBack ==
  /\ \E c \in Runs : holder = {Run(c)}
  /\ holder' = {}
  /\ UNCHANGED retired

\* The executor is killed or exits, whoever holds it.
Retire ==
  /\ retired' = TRUE
  /\ holder' = {}

Next == Take \/ GiveBack \/ Retire

vars == << holder, retired >>

Spec == Init /\ [][Next]_vars

=============================================================================
