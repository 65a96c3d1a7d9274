----------------------------- MODULE RequestOnce -----------------------------
(***************************************************************************)
(* What a transport promises its callers: a call settles at most once, it  *)
(* succeeds only when the container has finished it, and a stream that     *)
(* closes has delivered every chunk, in order.                             *)
(***************************************************************************)
EXTENDS Naturals, Sequences

CONSTANT Calls

VARIABLES outcome,   \* outcome[r]: what the caller knows of its call
          seen,      \* seen[r]: the chunks its stream delivered, by number
          emitted,   \* emitted[r]: how many chunks the container has sent
          finished   \* finished[r]: has the container served the call?

vars == << outcome, seen, emitted, finished >>

Init ==
  /\ outcome = [r \in Calls |-> "idle"]
  /\ seen = [r \in Calls |-> << >>]
  /\ emitted = [r \in Calls |-> 0]
  /\ finished = [r \in Calls |-> FALSE]

Ask(r) ==
  /\ outcome[r] = "idle"
  /\ outcome' = [outcome EXCEPT ![r] = "open"]
  /\ UNCHANGED << seen, emitted, finished >>

\* The container serves a call, also one whose caller has given up.
Emit(r) ==
  /\ outcome[r] # "idle"
  /\ ~ finished[r]
  /\ emitted' = [emitted EXCEPT ![r] = @ + 1]
  /\ UNCHANGED << outcome, seen, finished >>

Finish(r) ==
  /\ outcome[r] # "idle"
  /\ ~ finished[r]
  /\ finished' = [finished EXCEPT ![r] = TRUE]
  /\ UNCHANGED << outcome, seen, emitted >>

See(r) ==
  /\ outcome[r] = "open"
  /\ Len(seen[r]) < emitted[r]
  /\ seen' = [seen EXCEPT ![r] = Append(@, Len(@) + 1)]
  /\ UNCHANGED << outcome, emitted, finished >>

Succeed(r) ==
  /\ outcome[r] = "open"
  /\ finished[r]
  /\ Len(seen[r]) = emitted[r]
  /\ outcome' = [outcome EXCEPT ![r] = "ok"]
  /\ UNCHANGED << seen, emitted, finished >>

\* Any number of calls fail at once, when a connection is lost.
Fail ==
  /\ \E lost \in SUBSET {r \in Calls : outcome[r] = "open"} :
       outcome' = [r \in Calls |-> IF r \in lost THEN "failed" ELSE outcome[r]]
  /\ UNCHANGED << seen, emitted, finished >>

Next == Fail \/ \E r \in Calls : Ask(r) \/ Emit(r) \/ Finish(r) \/ See(r) \/ Succeed(r)

Spec == Init /\ [][Next]_vars

=============================================================================
