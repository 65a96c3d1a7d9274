------------------------- MODULE SessionShellProofs -------------------------
(***************************************************************************)
(* Proofs about SessionShell, for all sets of commands, every number of    *)
(* lines and every combination of what may happen.                         *)
(***************************************************************************)
EXTENDS SessionShell, SequenceTheorems, TLAPS

-----------------------------------------------------------------------------
(***************************************************************************)
(* Sequences, as the standard input of bash: what is in them, and that     *)
(* nothing is in them twice                                                *)
(***************************************************************************)

Members(s)  == {s[i] : i \in 1..Len(s)}
Distinct(s) == \A i, j \in 1..Len(s) : s[i] = s[j] => i = j

\* Nothing is in an empty line.
LEMMA EmptyMembers == Members(<< >>) = {} /\ Distinct(<< >>)
BY DEF Members, Distinct

\* The members of a sequence over S are in S.
LEMMA MembersType ==
  ASSUME NEW S, NEW s \in Seq(S)
  PROVE  Members(s) \subseteq S
BY DEF Members

\* Joining a line at its end.
LEMMA AppendMembers ==
  ASSUME NEW S, NEW s \in Seq(S), NEW a \in S
  PROVE  /\ Append(s, a) \in Seq(S)
         /\ Append(s, a) # << >>
         /\ Head(Append(s, a)) = IF s = << >> THEN a ELSE Head(s)
         /\ Members(Append(s, a)) = Members(s) \cup {a}
         /\ Distinct(s) /\ a \notin Members(s) => Distinct(Append(s, a))
<1>1. /\ Append(s, a) \in Seq(S)
      /\ Len(s) \in Nat
      /\ Len(Append(s, a)) = Len(s) + 1
      /\ \A i \in 1..Len(s) : Append(s, a)[i] = s[i]
      /\ Append(s, a)[Len(s) + 1] = a
  BY AppendProperties
<1>2. Append(s, a) # << >>
  BY AppendProperties
<1>3. Head(Append(s, a)) = IF s = << >> THEN a ELSE Head(s)
  BY HeadTailAppend
<1>4. 1..Len(Append(s, a)) = 1..Len(s) \cup {Len(s) + 1}
  BY <1>1
<1>5. Members(Append(s, a)) = Members(s) \cup {a}
  BY <1>1, <1>4 DEF Members
<1>6. Distinct(s) /\ a \notin Members(s) => Distinct(Append(s, a))
  BY <1>1, <1>4 DEF Members, Distinct
<1> QED
  BY <1>1, <1>2, <1>3, <1>5, <1>6

\* The first in a line leaves it.
LEMMA TailMembers ==
  ASSUME NEW S, NEW s \in Seq(S), s # << >>
  PROVE  /\ Tail(s) \in Seq(S)
         /\ Head(s) \in S
         /\ Head(s) \in Members(s)
         /\ Distinct(s) => /\ Distinct(Tail(s))
                           /\ Members(Tail(s)) = Members(s) \ {Head(s)}
<1>1. /\ Tail(s) \in Seq(S)
      /\ Head(s) \in S
      /\ Len(s) \in Nat \ {0}
      /\ Head(s) = s[1]
      /\ Len(Tail(s)) = Len(s) - 1
      /\ \A i \in 1..Len(Tail(s)) : Tail(s)[i] = s[i + 1]
  OBVIOUS
<1>2. Head(s) \in Members(s)
  BY <1>1 DEF Members
<1>3. \A i \in 1..Len(Tail(s)) : i + 1 \in 1..Len(s) /\ i + 1 # 1
  BY <1>1
<1>4. \A i \in 1..Len(s) : i # 1 => i - 1 \in 1..Len(Tail(s)) /\ Tail(s)[i - 1] = s[i]
  BY <1>1
<1>5. ASSUME Distinct(s)
      PROVE  Distinct(Tail(s)) /\ Members(Tail(s)) = Members(s) \ {Head(s)}
  <2>1. Distinct(Tail(s))
    BY <1>1, <1>3, <1>5 DEF Distinct
  <2>2. 1 \in 1..Len(s)
    BY <1>1
  <2>3. \A i \in 1..Len(s) : i # 1 => s[i] # Head(s)
    BY <1>1, <1>5, <2>2 DEF Distinct
  <2>4. Members(Tail(s)) \subseteq Members(s) \ {Head(s)}
    BY <1>1, <1>3, <2>3 DEF Members
  <2>5. Members(s) \ {Head(s)} \subseteq Members(Tail(s))
    BY <1>1, <1>4 DEF Members
  <2> QED
    BY <2>1, <2>4, <2>5
<1> QED
  BY <1>1, <1>2, <1>5

-----------------------------------------------------------------------------
(***************************************************************************)
(* The inductive invariant                                                 *)
(***************************************************************************)

\* A script is on the standard input of bash once, after its command was begun
\* and before the command runs.
StdinInv ==
  /\ Distinct(stdin)
  /\ \A k \in Members(stdin) : cmd[k] = "none" /\ pc[k] # "idle"
  /\ \A k \in Commands : pc[k] = "idle" => cmd[k] = "none"

\* Where in the script of k bash is tells what has become of k.
BashInv ==
  \A k \in Commands :
    /\ At(k, "run") => k \in Execs /\ cmd[k] = "running"
    /\ At(k, "merge") => k \in Execs /\ cmd[k] \in {"ended", "refused"}

\* The one line that says why a command was refused
Reason(k) == IF cmd[k] = "refused" THEN 1 ELSE 0

\* All that a command in the shell will ever have written is in its log.
Logged(k) ==
  /\ cmd[k] \in {"ended", "refused"}
  /\ log[k] = Reason(k) + out[k]

\* The log of a command in the shell: nothing but the reason of a refusal until
\* the output is merged, which happens once, before the exit code is written.
LogInv ==
  \A k \in Execs :
    /\ pc[k] \in {"idle", "wait", "saw", "read", "stuck"} \cup Settled
    /\ cmd[k] \in {"none", "refused"} => out[k] = 0
    /\ cmd[k] \in {"none", "running"} => log[k] = 0
    /\ At(k, "merge") =>
         /\ log[k] = Reason(k)
         /\ ~ exitFile[k] /\ pc[k] \notin {"read", "done"}
    /\ At(k, "exit") \/ exitFile[k] \/ pc[k] \in {"read", "done"} => Logged(k)
    /\ pc[k] = "done" => given[k] = log[k] \/ ~ dir

\* While its stream goes on, a background command that may still run is tracked
\* unless a kill has come.
KillInv ==
  life = "ready" =>
    \A k \in Streams :
      /\ pc[k] \notin Settled \cup {"idle"}
      /\ cmd[k] \in {"none", "running"}
      => k \in tracked \cup signalled \cup missed

\* ... and bash has written its pid, or is about to.
PidInv ==
  life = "ready" =>
    /\ dir
    /\ \A k \in Streams :
         cmd[k] = "running" /\ pc[k] \notin Settled => pidFile[k] \/ At(k, "fork")

IInv == TypeOK /\ StdinInv /\ BashInv /\ LogInv /\ KillInv /\ PidInv

-----------------------------------------------------------------------------
(***************************************************************************)
(* Types                                                                   *)
(***************************************************************************)

\* Every step keeps the types.
LEMMA TypeStep ==
  ASSUME IInv, [Next]_vars
  PROVE  TypeOK'
<1> USE KindAssumption, LinesAssumption DEF Commands, Turn, Settled
<1>1. CASE UNCHANGED vars
  BY <1>1 DEF IInv, TypeOK, vars, bashVars, fileVars, sessionVars, historyVars
<1>2. ASSUME NEW k \in Commands, exec(k)
      PROVE  TypeOK'
  BY <1>2 DEF IInv, TypeOK, exec, Begin, vars, bashVars, fileVars, sessionVars, historyVars
<1>3. ASSUME NEW k \in Commands, execStream(k)
      PROVE  TypeOK'
  BY <1>3 DEF IInv, TypeOK, execStream, Begin, vars, bashVars, fileVars, sessionVars, historyVars
<1>4. ASSUME NEW k \in Commands, NotReady(k)
      PROVE  TypeOK'
  BY <1>4 DEF IInv, TypeOK, NotReady, HasTurn, vars, bashVars, fileVars, sessionVars, historyVars
<1>5. ASSUME NEW k \in Commands, killCommand(k)
      PROVE  TypeOK'
  <2>1. CASE Hits(k)
    <3>1. PICK became \in {"orphan", "running"} : cmd' = [cmd EXCEPT ![k] = became]
      BY <1>5, <2>1 DEF killCommand
    <3>2. cmd' \in [Commands -> {"none", "running", "ended", "refused", "orphan", "lost"}]
      BY <3>1 DEF IInv, TypeOK
    <3>3. signalled' \subseteq Streams /\ missed' = missed
      BY <1>5, <2>1 DEF IInv, TypeOK, killCommand, Hits
    <3>4. tracked' \subseteq tracked
      BY <1>5 DEF killCommand
    <3>5. UNCHANGED << stdin, bash, out, fileVars, life, noticed, pc, given >>
      BY <1>5 DEF killCommand
    <3> QED
      BY <3>2, <3>3, <3>4, <3>5 DEF IInv, TypeOK, fileVars
  <2>2. CASE ~ Hits(k)
    BY <1>5, <2>2 DEF IInv, TypeOK, killCommand, Hits, vars, bashVars, fileVars, sessionVars, historyVars
  <2> QED
    BY <1>5, <2>1, <2>2 DEF killCommand, Hits
<1>6. ASSUME NEW k \in Commands, ExecTimesOut(k)
      PROVE  TypeOK'
  BY <1>6 DEF IInv, TypeOK, ExecTimesOut, Settle, vars, bashVars, fileVars, sessionVars, historyVars
<1>7. ASSUME NEW k \in Commands, WriteLine(k)
      PROVE  TypeOK'
  BY <1>7 DEF IInv, TypeOK, WriteLine, vars, bashVars, fileVars, sessionVars, historyVars
<1>8. ASSUME NEW k \in Commands, ForegroundEnds(k)
      PROVE  TypeOK'
  <2>1. CASE Goes(k, "merge")
    BY <1>8, <2>1 DEF IInv, TypeOK, ForegroundEnds, Goes, vars, bashVars, fileVars, sessionVars, historyVars
  <2>2. CASE Goes(k, "dead")
    BY <1>8, <2>2 DEF IInv, TypeOK, ForegroundEnds, Goes, vars, bashVars, fileVars, sessionVars, historyVars
  <2> QED
    BY <1>8, <2>1, <2>2 DEF ForegroundEnds, Goes
<1>9. ASSUME NEW k \in Commands, BackgroundEnds(k)
      PROVE  TypeOK'
  BY <1>9 DEF IInv, TypeOK, BackgroundEnds, vars, bashVars, fileVars, sessionVars, historyVars
<1>10. ASSUME NEW k \in Commands, Take(k)
      PROVE  TypeOK'
  <2>1. stdin' \in Seq(Commands)
    BY <1>10 DEF IInv, TypeOK, Take
  <2>2. bash' \in [doing : Commands \cup {None}, at : {"idle", "run", "merge", "exit", "fork", "pid", "blocked", "dead"}]
    BY <1>10 DEF Take, Goes
  <2>3. cmd' \in [Commands -> {"none", "running", "ended", "refused", "orphan", "lost"}]
    BY <1>10 DEF IInv, TypeOK, Take
  <2>4. log' \in [Commands -> 0..(MaxLines + 1)]
    <3>1. log' = log \/ log' = [log EXCEPT ![k] = 1]
      BY <1>10 DEF Take
    <3>2. log \in [Commands -> 0..(MaxLines + 1)] /\ 1 \in 0..(MaxLines + 1)
      BY DEF IInv, TypeOK
    <3> QED
      BY <3>1, <3>2
  <2>5. UNCHANGED << out, exitFile, marker, pidFile, pipe, dir, sessionVars, historyVars >>
    BY <1>10 DEF Take
  <2> QED
    BY <2>1, <2>2, <2>3, <2>4, <2>5 DEF IInv, TypeOK, sessionVars, historyVars
<1>11. ASSUME NEW k \in Commands, Merge(k)
      PROVE  TypeOK'
  <2>1. k \in Execs /\ log[k] = Reason(k) /\ (cmd[k] = "refused" => out[k] = 0)
    BY <1>11 DEF IInv, Merge, LogInv, BashInv
  <2>2. log[k] + out[k] \in 0..(MaxLines + 1)
    BY <2>1 DEF IInv, TypeOK, Reason
  <2>3. log' \in [Commands -> 0..(MaxLines + 1)]
    BY <1>11, <2>2 DEF IInv, TypeOK, Merge
  <2> QED
    BY <1>11, <2>3 DEF IInv, TypeOK, Merge, Goes, vars, bashVars, fileVars, sessionVars, historyVars
<1>12. ASSUME NEW k \in Commands, WriteExit(k)
      PROVE  TypeOK'
  BY <1>12 DEF IInv, TypeOK, WriteExit, Free, vars, bashVars, fileVars, sessionVars, historyVars
<1>13. ASSUME NEW k \in Commands, WritePid(k)
      PROVE  TypeOK'
  BY <1>13 DEF IInv, TypeOK, WritePid, Goes, vars, bashVars, fileVars, sessionVars, historyVars
<1>14. ASSUME NEW k \in Commands, NotifyPid(k)
      PROVE  TypeOK'
  <2>1. CASE pipe[k] = "unread"
    BY <1>14, <2>1 DEF IInv, TypeOK, NotifyPid, Goes, Free, vars, bashVars, fileVars, sessionVars, historyVars
  <2>2. CASE pipe[k] # "unread"
    <3>1. pipe' \in [Commands -> {"absent", "reader", "pid", "empty", "unread", "removed"}]
      BY <1>14, <2>2 DEF IInv, TypeOK, NotifyPid
    <3>2. \A j \in Streams : pipe'[j] = "reader" => pipe[j] = "reader"
      BY <1>14, <2>2 DEF IInv, TypeOK, NotifyPid
    <3>3. (dir /\ cmd[k] # "refused") \in BOOLEAN
      OBVIOUS
    <3>4. marker' \in [Commands -> BOOLEAN]
      BY <1>14, <2>2, <3>3 DEF IInv, TypeOK, NotifyPid
    <3>5. bash' = Free /\ UNCHANGED << stdin, cmd, out, log, exitFile, pidFile, dir, sessionVars, historyVars >>
      BY <1>14, <2>2 DEF NotifyPid
    <3> QED
      BY <3>1, <3>2, <3>4, <3>5 DEF IInv, TypeOK, Free, sessionVars, historyVars
  <2> QED
    BY <1>14, <2>1, <2>2 DEF NotifyPid, Goes, Free
<1>15. ASSUME NEW k \in Commands, Label(k)
      PROVE  TypeOK'
  BY <1>15 DEF IInv, TypeOK, Label, vars, bashVars, fileVars, sessionVars, historyVars
<1>16. ASSUME NEW k \in Commands, SeeExit(k)
      PROVE  TypeOK'
  BY <1>16 DEF IInv, TypeOK, SeeExit, vars, bashVars, fileVars, sessionVars, historyVars
<1>17. ASSUME NEW k \in Commands, ReadExit(k)
      PROVE  TypeOK'
  BY <1>17, ZenonT(60) DEF IInv, TypeOK, ReadExit, Settle, vars, bashVars, fileVars, sessionVars, historyVars
<1>18. ASSUME NEW k \in Commands, ReadLog(k)
      PROVE  TypeOK'
  BY <1>18 DEF IInv, TypeOK, ReadLog, Settle, vars, bashVars, fileVars, sessionVars, historyVars
<1>19. ASSUME NEW k \in Commands, ExecDies(k)
      PROVE  TypeOK'
  BY <1>19 DEF IInv, TypeOK, ExecDies, Settle, vars, bashVars, fileVars, sessionVars, historyVars
<1>20. ASSUME NEW k \in Commands, PidFromPipe(k)
      PROVE  TypeOK'
  BY <1>20 DEF IInv, TypeOK, PidFromPipe, vars, bashVars, fileVars, sessionVars, historyVars
<1>21. ASSUME NEW k \in Commands, PidTimesOut(k)
      PROVE  TypeOK'
  BY <1>21 DEF IInv, TypeOK, PidTimesOut, vars, bashVars, fileVars, sessionVars, historyVars
<1>22. ASSUME NEW k \in Commands, RemovePipe(k)
      PROVE  TypeOK'
  BY <1>22 DEF IInv, TypeOK, RemovePipe, vars, bashVars, fileVars, sessionVars, historyVars
<1>23. ASSUME NEW k \in Commands, PidFromFile(k)
      PROVE  TypeOK'
  BY <1>23 DEF IInv, TypeOK, PidFromFile, vars, bashVars, fileVars, sessionVars, historyVars
<1>24. ASSUME NEW k \in Commands, Poll(k)
      PROVE  TypeOK'
  <2>1. CASE pc' = [pc EXCEPT ![k] = "shell"] /\ UNCHANGED << exitFile, pidFile, tracked, given >>
    BY <1>24, <2>1 DEF IInv, TypeOK, Poll, Settle, vars, bashVars, fileVars, sessionVars, historyVars
  <2>2. CASE Settle(k, "error") /\ UNCHANGED given
    BY <1>24, <2>2 DEF IInv, TypeOK, Poll, Settle, vars, bashVars, fileVars, sessionVars, historyVars
  <2>3. CASE pc' = [pc EXCEPT ![k] = "labelers"] /\ UNCHANGED << exitFile, pidFile, tracked, given >>
    BY <1>24, <2>3 DEF IInv, TypeOK, Poll, Settle, vars, bashVars, fileVars, sessionVars, historyVars
  <2>4. CASE given' = [given EXCEPT ![k] = log[k]] /\ UNCHANGED << exitFile, pidFile, tracked, pc >>
    BY <1>24, <2>4 DEF IInv, TypeOK, Poll, Settle, vars, bashVars, fileVars, sessionVars, historyVars
  <2> QED
    BY <1>24, <2>1, <2>2, <2>3, <2>4 DEF Poll, Settle
<1>25. ASSUME NEW k \in Commands, AwaitShell(k)
      PROVE  TypeOK'
  BY <1>25 DEF IInv, TypeOK, AwaitShell, Settle, vars, bashVars, fileVars, sessionVars, historyVars
<1>26. ASSUME NEW k \in Commands, AwaitLabelers(k)
      PROVE  TypeOK'
  BY <1>26 DEF IInv, TypeOK, AwaitLabelers, vars, bashVars, fileVars, sessionVars, historyVars
<1>27. ASSUME NEW k \in Commands, Complete(k)
      PROVE  TypeOK'
  BY <1>27 DEF IInv, TypeOK, Complete, Settle, vars, bashVars, fileVars, sessionVars, historyVars
<1>28. CASE destroy
  BY <1>28 DEF IInv, TypeOK, destroy, Hits, vars, bashVars, fileVars, sessionVars, historyVars
<1>29. CASE ShellEnds
  BY <1>29 DEF IInv, TypeOK, ShellEnds, Goes, At, vars, bashVars, fileVars, sessionVars, historyVars
<1>30. CASE RemoveDir
  BY <1>30 DEF IInv, TypeOK, RemoveDir, vars, bashVars, fileVars, sessionVars, historyVars
<1>31. CASE Destroyed
  BY <1>31 DEF IInv, TypeOK, Destroyed, vars, bashVars, fileVars, sessionVars, historyVars
<1>32. CASE NoticeDeath
  BY <1>32 DEF IInv, TypeOK, NoticeDeath, vars, bashVars, fileVars, sessionVars, historyVars
<1> QED
  BY <1>1, <1>2, <1>3, <1>4, <1>5, <1>6, <1>7, <1>8, <1>9, <1>10, <1>11, <1>12, <1>13, <1>14, <1>15, <1>16, <1>17, <1>18, <1>19, <1>20, <1>21, <1>22, <1>23, <1>24, <1>25, <1>26, <1>27, <1>28, <1>29, <1>30, <1>31, <1>32 DEF Next, Script, Node, Ends

-----------------------------------------------------------------------------
(***************************************************************************)
(* The scripts and what becomes of the commands                            *)
(***************************************************************************)

\* Every step keeps the commands that may run tracked, or notes a kill.
LEMMA KillStep ==
  ASSUME IInv, [Next]_vars
  PROVE  KillInv'
<1> USE KindAssumption DEF Commands, Turn, Settled
<1>1. CASE UNCHANGED vars
  BY <1>1 DEF IInv, TypeOK, StdinInv, KillInv, vars, bashVars, fileVars, sessionVars, historyVars
<1>2. ASSUME NEW j \in Commands, exec(j)
      PROVE  KillInv'
  BY <1>2 DEF IInv, TypeOK, StdinInv, KillInv, exec, Begin, HasTurn, vars, bashVars, fileVars, sessionVars, historyVars
<1>3. ASSUME NEW j \in Commands, execStream(j)
      PROVE  KillInv'
  BY <1>3 DEF IInv, TypeOK, StdinInv, KillInv, execStream, Begin, HasTurn, vars, bashVars, fileVars, sessionVars, historyVars
<1>4. ASSUME NEW j \in Commands, NotReady(j)
      PROVE  KillInv'
  BY <1>4 DEF IInv, TypeOK, StdinInv, KillInv, NotReady, HasTurn, vars, bashVars, fileVars, sessionVars, historyVars
<1>5. ASSUME NEW j \in Commands, killCommand(j)
      PROVE  KillInv'
  BY <1>5 DEF IInv, TypeOK, StdinInv, KillInv, killCommand, Hits, vars, bashVars, fileVars, sessionVars, historyVars
<1>6. ASSUME NEW j \in Commands, ExecTimesOut(j)
      PROVE  KillInv'
  BY <1>6 DEF IInv, TypeOK, StdinInv, KillInv, ExecTimesOut, Settle, vars, bashVars, fileVars, sessionVars, historyVars
<1>7. ASSUME NEW j \in Commands, WriteLine(j)
      PROVE  KillInv'
  BY <1>7 DEF IInv, TypeOK, StdinInv, KillInv, WriteLine, vars, bashVars, fileVars, sessionVars, historyVars
<1>8. ASSUME NEW j \in Commands, ForegroundEnds(j)
      PROVE  KillInv'
  BY <1>8 DEF IInv, TypeOK, StdinInv, KillInv, ForegroundEnds, Goes, At, vars, bashVars, fileVars, sessionVars, historyVars
<1>9. ASSUME NEW j \in Commands, BackgroundEnds(j)
      PROVE  KillInv'
  BY <1>9 DEF IInv, TypeOK, StdinInv, KillInv, BackgroundEnds, vars, bashVars, fileVars, sessionVars, historyVars
<1>10. ASSUME NEW j \in Commands, Take(j)
      PROVE  KillInv'
  <2>1. pc[j] # "idle" /\ cmd[j] = "none"
    BY <1>10, TailMembers DEF IInv, TypeOK, StdinInv, Take
  <2>2. \A k \in Commands : k # j => cmd'[k] = cmd[k]
    BY <1>10 DEF IInv, TypeOK, Take
  <2>3. UNCHANGED << life, pc, tracked, signalled, missed >>
    BY <1>10 DEF Take, sessionVars, historyVars
  <2> QED
    BY <2>1, <2>2, <2>3 DEF IInv, KillInv
<1>11. ASSUME NEW j \in Commands, Merge(j)
      PROVE  KillInv'
  BY <1>11 DEF IInv, TypeOK, StdinInv, KillInv, Merge, Goes, At, vars, bashVars, fileVars, sessionVars, historyVars
<1>12. ASSUME NEW j \in Commands, WriteExit(j)
      PROVE  KillInv'
  BY <1>12 DEF IInv, TypeOK, StdinInv, KillInv, WriteExit, Free, At, vars, bashVars, fileVars, sessionVars, historyVars
<1>13. ASSUME NEW j \in Commands, WritePid(j)
      PROVE  KillInv'
  BY <1>13 DEF IInv, TypeOK, StdinInv, KillInv, WritePid, Goes, At, vars, bashVars, fileVars, sessionVars, historyVars
<1>14. ASSUME NEW j \in Commands, NotifyPid(j)
      PROVE  KillInv'
  BY <1>14 DEF IInv, TypeOK, StdinInv, KillInv, NotifyPid, Goes, Free, At, vars, bashVars, fileVars, sessionVars, historyVars
<1>15. ASSUME NEW j \in Commands, Label(j)
      PROVE  KillInv'
  BY <1>15 DEF IInv, TypeOK, StdinInv, KillInv, Label, vars, bashVars, fileVars, sessionVars, historyVars
<1>16. ASSUME NEW j \in Commands, SeeExit(j)
      PROVE  KillInv'
  BY <1>16 DEF IInv, TypeOK, StdinInv, KillInv, SeeExit, vars, bashVars, fileVars, sessionVars, historyVars
<1>17. ASSUME NEW j \in Commands, ReadExit(j)
      PROVE  KillInv'
  BY <1>17, SMTT(60) DEF IInv, TypeOK, StdinInv, KillInv, ReadExit, Settle, vars, bashVars, fileVars, sessionVars, historyVars
<1>18. ASSUME NEW j \in Commands, ReadLog(j)
      PROVE  KillInv'
  BY <1>18 DEF IInv, TypeOK, StdinInv, KillInv, ReadLog, Settle, vars, bashVars, fileVars, sessionVars, historyVars
<1>19. ASSUME NEW j \in Commands, ExecDies(j)
      PROVE  KillInv'
  BY <1>19 DEF IInv, TypeOK, StdinInv, KillInv, ExecDies, Settle, vars, bashVars, fileVars, sessionVars, historyVars
<1>20. ASSUME NEW j \in Commands, PidFromPipe(j)
      PROVE  KillInv'
  BY <1>20 DEF IInv, TypeOK, StdinInv, KillInv, PidFromPipe, vars, bashVars, fileVars, sessionVars, historyVars
<1>21. ASSUME NEW j \in Commands, PidTimesOut(j)
      PROVE  KillInv'
  BY <1>21 DEF IInv, TypeOK, StdinInv, KillInv, PidTimesOut, vars, bashVars, fileVars, sessionVars, historyVars
<1>22. ASSUME NEW j \in Commands, RemovePipe(j)
      PROVE  KillInv'
  BY <1>22 DEF IInv, TypeOK, StdinInv, KillInv, RemovePipe, vars, bashVars, fileVars, sessionVars, historyVars
<1>23. ASSUME NEW j \in Commands, PidFromFile(j)
      PROVE  KillInv'
  BY <1>23 DEF IInv, TypeOK, StdinInv, KillInv, PidFromFile, vars, bashVars, fileVars, sessionVars, historyVars
<1>24. ASSUME NEW j \in Commands, Poll(j)
      PROVE  KillInv'
  BY <1>24 DEF IInv, TypeOK, StdinInv, KillInv, Poll, Settle, vars, bashVars, fileVars, sessionVars, historyVars
<1>25. ASSUME NEW j \in Commands, AwaitShell(j)
      PROVE  KillInv'
  BY <1>25 DEF IInv, TypeOK, StdinInv, KillInv, AwaitShell, Settle, vars, bashVars, fileVars, sessionVars, historyVars
<1>26. ASSUME NEW j \in Commands, AwaitLabelers(j)
      PROVE  KillInv'
  BY <1>26 DEF IInv, TypeOK, StdinInv, KillInv, AwaitLabelers, vars, bashVars, fileVars, sessionVars, historyVars
<1>27. ASSUME NEW j \in Commands, Complete(j)
      PROVE  KillInv'
  BY <1>27 DEF IInv, TypeOK, StdinInv, KillInv, Complete, Settle, vars, bashVars, fileVars, sessionVars, historyVars
<1>28. CASE destroy
  BY <1>28 DEF IInv, TypeOK, StdinInv, KillInv, destroy, Hits, vars, bashVars, fileVars, sessionVars, historyVars
<1>29. CASE ShellEnds
  BY <1>29 DEF IInv, TypeOK, StdinInv, KillInv, ShellEnds, Goes, At, vars, bashVars, fileVars, sessionVars, historyVars
<1>30. CASE RemoveDir
  BY <1>30 DEF IInv, TypeOK, StdinInv, KillInv, RemoveDir, vars, bashVars, fileVars, sessionVars, historyVars
<1>31. CASE Destroyed
  BY <1>31 DEF IInv, TypeOK, StdinInv, KillInv, Destroyed, vars, bashVars, fileVars, sessionVars, historyVars
<1>32. CASE NoticeDeath
  BY <1>32 DEF IInv, TypeOK, StdinInv, KillInv, NoticeDeath, vars, bashVars, fileVars, sessionVars, historyVars
<1> QED
  BY <1>1, <1>2, <1>3, <1>4, <1>5, <1>6, <1>7, <1>8, <1>9, <1>10, <1>11, <1>12, <1>13, <1>14, <1>15, <1>16, <1>17, <1>18, <1>19, <1>20, <1>21, <1>22, <1>23, <1>24, <1>25, <1>26, <1>27, <1>28, <1>29, <1>30, <1>31, <1>32 DEF Next, Script, Node, Ends

\* Every step keeps the pid files of the commands that run.
LEMMA PidStep ==
  ASSUME IInv, [Next]_vars
  PROVE  PidInv'
<1> USE KindAssumption DEF Commands, Turn, Settled
<1>1. CASE UNCHANGED vars
  BY <1>1 DEF IInv, TypeOK, StdinInv, PidInv, At, vars, bashVars, fileVars, sessionVars, historyVars
<1>2. ASSUME NEW j \in Commands, exec(j)
      PROVE  PidInv'
  BY <1>2 DEF IInv, TypeOK, StdinInv, PidInv, At, exec, Begin, HasTurn, vars, bashVars, fileVars, sessionVars, historyVars
<1>3. ASSUME NEW j \in Commands, execStream(j)
      PROVE  PidInv'
  BY <1>3 DEF IInv, TypeOK, StdinInv, PidInv, At, execStream, Begin, HasTurn, vars, bashVars, fileVars, sessionVars, historyVars
<1>4. ASSUME NEW j \in Commands, NotReady(j)
      PROVE  PidInv'
  BY <1>4 DEF IInv, TypeOK, StdinInv, PidInv, At, NotReady, HasTurn, vars, bashVars, fileVars, sessionVars, historyVars
<1>5. ASSUME NEW j \in Commands, killCommand(j)
      PROVE  PidInv'
  BY <1>5 DEF IInv, TypeOK, StdinInv, PidInv, At, killCommand, Hits, vars, bashVars, fileVars, sessionVars, historyVars
<1>6. ASSUME NEW j \in Commands, ExecTimesOut(j)
      PROVE  PidInv'
  BY <1>6 DEF IInv, TypeOK, StdinInv, PidInv, At, ExecTimesOut, Settle, vars, bashVars, fileVars, sessionVars, historyVars
<1>7. ASSUME NEW j \in Commands, WriteLine(j)
      PROVE  PidInv'
  BY <1>7 DEF IInv, TypeOK, StdinInv, PidInv, At, WriteLine, vars, bashVars, fileVars, sessionVars, historyVars
<1>8. ASSUME NEW j \in Commands, ForegroundEnds(j)
      PROVE  PidInv'
  BY <1>8 DEF IInv, TypeOK, StdinInv, PidInv, At, ForegroundEnds, Goes, vars, bashVars, fileVars, sessionVars, historyVars
<1>9. ASSUME NEW j \in Commands, BackgroundEnds(j)
      PROVE  PidInv'
  BY <1>9 DEF IInv, TypeOK, StdinInv, PidInv, At, BackgroundEnds, vars, bashVars, fileVars, sessionVars, historyVars
<1>10. ASSUME NEW j \in Commands, Take(j)
      PROVE  PidInv'
  <2>1. /\ \A k \in Commands : k # j => cmd'[k] = cmd[k] /\ ~ At(k, "fork")
        /\ j \in Streams /\ cmd'[j] = "running" => At(j, "fork")'
    BY <1>10 DEF IInv, TypeOK, Take, Goes, Free, At
  <2>2. UNCHANGED << life, pc, pidFile, dir >>
    BY <1>10 DEF Take, sessionVars
  <2> QED
    BY <2>1, <2>2 DEF IInv, PidInv
<1>11. ASSUME NEW j \in Commands, Merge(j)
      PROVE  PidInv'
  BY <1>11 DEF IInv, TypeOK, StdinInv, PidInv, At, Merge, Goes, vars, bashVars, fileVars, sessionVars, historyVars
<1>12. ASSUME NEW j \in Commands, WriteExit(j)
      PROVE  PidInv'
  BY <1>12 DEF IInv, TypeOK, StdinInv, PidInv, At, WriteExit, Free, vars, bashVars, fileVars, sessionVars, historyVars
<1>13. ASSUME NEW j \in Commands, WritePid(j)
      PROVE  PidInv'
  BY <1>13 DEF IInv, TypeOK, StdinInv, PidInv, At, WritePid, Goes, vars, bashVars, fileVars, sessionVars, historyVars
<1>14. ASSUME NEW j \in Commands, NotifyPid(j)
      PROVE  PidInv'
  BY <1>14 DEF IInv, TypeOK, StdinInv, PidInv, At, NotifyPid, Goes, Free, vars, bashVars, fileVars, sessionVars, historyVars
<1>15. ASSUME NEW j \in Commands, Label(j)
      PROVE  PidInv'
  BY <1>15 DEF IInv, TypeOK, StdinInv, PidInv, At, Label, vars, bashVars, fileVars, sessionVars, historyVars
<1>16. ASSUME NEW j \in Commands, SeeExit(j)
      PROVE  PidInv'
  BY <1>16 DEF IInv, TypeOK, StdinInv, PidInv, At, SeeExit, vars, bashVars, fileVars, sessionVars, historyVars
<1>17. ASSUME NEW j \in Commands, ReadExit(j)
      PROVE  PidInv'
  BY <1>17, SMTT(60) DEF IInv, TypeOK, StdinInv, PidInv, At, ReadExit, Settle, vars, bashVars, fileVars, sessionVars, historyVars
<1>18. ASSUME NEW j \in Commands, ReadLog(j)
      PROVE  PidInv'
  BY <1>18 DEF IInv, TypeOK, StdinInv, PidInv, At, ReadLog, Settle, vars, bashVars, fileVars, sessionVars, historyVars
<1>19. ASSUME NEW j \in Commands, ExecDies(j)
      PROVE  PidInv'
  BY <1>19 DEF IInv, TypeOK, StdinInv, PidInv, At, ExecDies, Settle, vars, bashVars, fileVars, sessionVars, historyVars
<1>20. ASSUME NEW j \in Commands, PidFromPipe(j)
      PROVE  PidInv'
  BY <1>20 DEF IInv, TypeOK, StdinInv, PidInv, At, PidFromPipe, vars, bashVars, fileVars, sessionVars, historyVars
<1>21. ASSUME NEW j \in Commands, PidTimesOut(j)
      PROVE  PidInv'
  BY <1>21 DEF IInv, TypeOK, StdinInv, PidInv, At, PidTimesOut, vars, bashVars, fileVars, sessionVars, historyVars
<1>22. ASSUME NEW j \in Commands, RemovePipe(j)
      PROVE  PidInv'
  BY <1>22 DEF IInv, TypeOK, StdinInv, PidInv, At, RemovePipe, vars, bashVars, fileVars, sessionVars, historyVars
<1>23. ASSUME NEW j \in Commands, PidFromFile(j)
      PROVE  PidInv'
  BY <1>23 DEF IInv, TypeOK, StdinInv, PidInv, At, PidFromFile, vars, bashVars, fileVars, sessionVars, historyVars
<1>24. ASSUME NEW j \in Commands, Poll(j)
      PROVE  PidInv'
  BY <1>24 DEF IInv, TypeOK, StdinInv, PidInv, At, Poll, Settle, vars, bashVars, fileVars, sessionVars, historyVars
<1>25. ASSUME NEW j \in Commands, AwaitShell(j)
      PROVE  PidInv'
  BY <1>25 DEF IInv, TypeOK, StdinInv, PidInv, At, AwaitShell, Settle, vars, bashVars, fileVars, sessionVars, historyVars
<1>26. ASSUME NEW j \in Commands, AwaitLabelers(j)
      PROVE  PidInv'
  BY <1>26 DEF IInv, TypeOK, StdinInv, PidInv, At, AwaitLabelers, vars, bashVars, fileVars, sessionVars, historyVars
<1>27. ASSUME NEW j \in Commands, Complete(j)
      PROVE  PidInv'
  BY <1>27 DEF IInv, TypeOK, StdinInv, PidInv, At, Complete, Settle, vars, bashVars, fileVars, sessionVars, historyVars
<1>28. CASE destroy
  BY <1>28 DEF IInv, TypeOK, StdinInv, PidInv, At, destroy, Hits, vars, bashVars, fileVars, sessionVars, historyVars
<1>29. CASE ShellEnds
  BY <1>29 DEF IInv, TypeOK, StdinInv, PidInv, At, ShellEnds, Goes, vars, bashVars, fileVars, sessionVars, historyVars
<1>30. CASE RemoveDir
  BY <1>30 DEF IInv, TypeOK, StdinInv, PidInv, At, RemoveDir, vars, bashVars, fileVars, sessionVars, historyVars
<1>31. CASE Destroyed
  BY <1>31 DEF IInv, TypeOK, StdinInv, PidInv, At, Destroyed, vars, bashVars, fileVars, sessionVars, historyVars
<1>32. CASE NoticeDeath
  BY <1>32 DEF IInv, TypeOK, StdinInv, PidInv, At, NoticeDeath, vars, bashVars, fileVars, sessionVars, historyVars
<1> QED
  BY <1>1, <1>2, <1>3, <1>4, <1>5, <1>6, <1>7, <1>8, <1>9, <1>10, <1>11, <1>12, <1>13, <1>14, <1>15, <1>16, <1>17, <1>18, <1>19, <1>20, <1>21, <1>22, <1>23, <1>24, <1>25, <1>26, <1>27, <1>28, <1>29, <1>30, <1>31, <1>32 DEF Next, Script, Node, Ends

\* What leaves the standard input alone and starts no command keeps StdinInv.
LEMMA StdinKept ==
  ASSUME TypeOK, StdinInv, UNCHANGED stdin,
         \A k \in Commands : cmd[k] = "none" => cmd'[k] = "none",
         \A k \in Commands : pc[k] # "idle" => pc'[k] # "idle"
  PROVE  StdinInv'
<1>1. Members(stdin) \subseteq Commands
  BY MembersType DEF TypeOK
<1> QED
  BY <1>1 DEF StdinInv

\* A command is begun: its script comes last.
LEMMA StdinBegun ==
  ASSUME TypeOK, StdinInv, NEW j \in Commands, pc[j] = "idle",
         stdin' = Append(stdin, j), UNCHANGED cmd,
         NEW s \in {"wait", "pid"}, pc' = [pc EXCEPT ![j] = s]
  PROVE  StdinInv'
<1>1. j \notin Members(stdin) /\ cmd[j] = "none"
  BY DEF StdinInv
<1>2. Distinct(stdin') /\ Members(stdin') = Members(stdin) \cup {j}
  BY <1>1, AppendMembers DEF TypeOK, StdinInv
<1>3. Members(stdin) \subseteq Commands
  BY MembersType DEF TypeOK
<1>4. \A k \in Commands : pc'[k] = IF k = j THEN s ELSE pc[k]
  BY DEF TypeOK
<1>5. \A k \in Members(stdin') : cmd'[k] = "none" /\ pc'[k] # "idle"
  BY <1>1, <1>2, <1>3, <1>4 DEF StdinInv
<1>6. \A k \in Commands : pc'[k] = "idle" => cmd'[k] = "none"
  BY <1>4 DEF StdinInv
<1> QED
  BY <1>2, <1>5, <1>6 DEF StdinInv

\* Every step keeps each script on the standard input once.
LEMMA StdinStep ==
  ASSUME IInv, [Next]_vars
  PROVE  StdinInv'
<1> USE KindAssumption DEF Commands, Turn, Settled
<1>1. CASE UNCHANGED vars
  BY <1>1 DEF IInv, TypeOK, StdinInv, vars, bashVars, fileVars, sessionVars, historyVars
<1>2. ASSUME NEW j \in Commands, exec(j)
      PROVE  StdinInv'
  BY <1>2, StdinBegun DEF IInv, exec, Begin, HasTurn
<1>3. ASSUME NEW j \in Commands, execStream(j)
      PROVE  StdinInv'
  BY <1>3, StdinBegun DEF IInv, execStream, Begin, HasTurn
<1>4. ASSUME NEW j \in Commands, NotReady(j)
      PROVE  StdinInv'
  BY <1>4 DEF IInv, TypeOK, StdinInv, NotReady, HasTurn, vars, bashVars, fileVars, sessionVars, historyVars
<1>5. ASSUME NEW j \in Commands, killCommand(j)
      PROVE  StdinInv'
  <2>1. stdin' = stdin /\ pc' = pc
    BY <1>5 DEF killCommand
  <2>2. \A k \in Commands : cmd[k] = "none" => cmd'[k] = "none"
    BY <1>5 DEF IInv, TypeOK, killCommand, Hits
  <2> QED
    BY <2>1, <2>2, StdinKept DEF IInv
<1>6. ASSUME NEW j \in Commands, ExecTimesOut(j)
      PROVE  StdinInv'
  BY <1>6 DEF IInv, TypeOK, StdinInv, ExecTimesOut, Settle, vars, bashVars, fileVars, sessionVars, historyVars
<1>7. ASSUME NEW j \in Commands, WriteLine(j)
      PROVE  StdinInv'
  BY <1>7 DEF IInv, TypeOK, StdinInv, WriteLine, vars, bashVars, fileVars, sessionVars, historyVars
<1>8. ASSUME NEW j \in Commands, ForegroundEnds(j)
      PROVE  StdinInv'
  <2>1. cmd[j] = "running"
    BY <1>8 DEF IInv, BashInv, ForegroundEnds
  <2>2. \A k \in Commands : cmd[k] = "none" => cmd'[k] = "none"
    BY <1>8, <2>1 DEF IInv, TypeOK, ForegroundEnds
  <2>3. stdin' = stdin /\ pc' = pc
    BY <1>8 DEF ForegroundEnds, sessionVars
  <2> QED
    BY <2>2, <2>3, StdinKept DEF IInv
<1>9. ASSUME NEW j \in Commands, BackgroundEnds(j)
      PROVE  StdinInv'
  BY <1>9 DEF IInv, TypeOK, StdinInv, BackgroundEnds, vars, bashVars, fileVars, sessionVars, historyVars
<1>10. ASSUME NEW j \in Commands, Take(j)
      PROVE  StdinInv'
  <2>1. /\ Distinct(stdin')
        /\ Members(stdin') = Members(stdin) \ {j}
        /\ j \in Members(stdin)
    BY <1>10, TailMembers DEF IInv, TypeOK, StdinInv, Take
  <2>2. pc[j] # "idle" /\ pc' = pc
    BY <1>10, <2>1 DEF IInv, StdinInv, Take, sessionVars
  <2>3. \A k \in Commands : k # j => cmd'[k] = cmd[k]
    BY <1>10 DEF IInv, TypeOK, Take
  <2>4. Members(stdin) \subseteq Commands
    BY MembersType DEF IInv, TypeOK
  <2>5. \A k \in Members(stdin') : cmd'[k] = "none" /\ pc'[k] # "idle"
    BY <2>1, <2>2, <2>3, <2>4 DEF IInv, StdinInv
  <2>6. \A k \in Commands : pc'[k] = "idle" => cmd'[k] = "none"
    BY <2>2, <2>3 DEF IInv, StdinInv
  <2> QED
    BY <2>1, <2>5, <2>6 DEF StdinInv
<1>11. ASSUME NEW j \in Commands, Merge(j)
      PROVE  StdinInv'
  BY <1>11 DEF IInv, TypeOK, StdinInv, Merge, Goes, At, vars, bashVars, fileVars, sessionVars, historyVars
<1>12. ASSUME NEW j \in Commands, WriteExit(j)
      PROVE  StdinInv'
  BY <1>12 DEF IInv, TypeOK, StdinInv, WriteExit, Free, At, vars, bashVars, fileVars, sessionVars, historyVars
<1>13. ASSUME NEW j \in Commands, WritePid(j)
      PROVE  StdinInv'
  BY <1>13 DEF IInv, TypeOK, StdinInv, WritePid, Goes, At, vars, bashVars, fileVars, sessionVars, historyVars
<1>14. ASSUME NEW j \in Commands, NotifyPid(j)
      PROVE  StdinInv'
  BY <1>14 DEF IInv, TypeOK, StdinInv, NotifyPid, Goes, Free, At, vars, bashVars, fileVars, sessionVars, historyVars
<1>15. ASSUME NEW j \in Commands, Label(j)
      PROVE  StdinInv'
  BY <1>15 DEF IInv, TypeOK, StdinInv, Label, vars, bashVars, fileVars, sessionVars, historyVars
<1>16. ASSUME NEW j \in Commands, SeeExit(j)
      PROVE  StdinInv'
  BY <1>16 DEF IInv, TypeOK, StdinInv, SeeExit, vars, bashVars, fileVars, sessionVars, historyVars
<1>17. ASSUME NEW j \in Commands, ReadExit(j)
      PROVE  StdinInv'
  <2>1. stdin' = stdin /\ cmd' = cmd
    BY <1>17 DEF ReadExit, bashVars
  <2>2. \A k \in Commands : pc[k] # "idle" => pc'[k] # "idle"
    BY <1>17 DEF IInv, TypeOK, ReadExit, Settle
  <2> QED
    BY <2>1, <2>2, StdinKept DEF IInv
<1>18. ASSUME NEW j \in Commands, ReadLog(j)
      PROVE  StdinInv'
  BY <1>18 DEF IInv, TypeOK, StdinInv, ReadLog, Settle, vars, bashVars, fileVars, sessionVars, historyVars
<1>19. ASSUME NEW j \in Commands, ExecDies(j)
      PROVE  StdinInv'
  BY <1>19 DEF IInv, TypeOK, StdinInv, ExecDies, Settle, vars, bashVars, fileVars, sessionVars, historyVars
<1>20. ASSUME NEW j \in Commands, PidFromPipe(j)
      PROVE  StdinInv'
  BY <1>20 DEF IInv, TypeOK, StdinInv, PidFromPipe, vars, bashVars, fileVars, sessionVars, historyVars
<1>21. ASSUME NEW j \in Commands, PidTimesOut(j)
      PROVE  StdinInv'
  BY <1>21 DEF IInv, TypeOK, StdinInv, PidTimesOut, vars, bashVars, fileVars, sessionVars, historyVars
<1>22. ASSUME NEW j \in Commands, RemovePipe(j)
      PROVE  StdinInv'
  BY <1>22 DEF IInv, TypeOK, StdinInv, RemovePipe, vars, bashVars, fileVars, sessionVars, historyVars
<1>23. ASSUME NEW j \in Commands, PidFromFile(j)
      PROVE  StdinInv'
  BY <1>23 DEF IInv, TypeOK, StdinInv, PidFromFile, vars, bashVars, fileVars, sessionVars, historyVars
<1>24. ASSUME NEW j \in Commands, Poll(j)
      PROVE  StdinInv'
  <2>1. stdin' = stdin /\ cmd' = cmd
    BY <1>24 DEF Poll, bashVars
  <2>2. \A k \in Commands : pc[k] # "idle" => pc'[k] # "idle"
    BY <1>24 DEF IInv, TypeOK, Poll, Settle
  <2> QED
    BY <2>1, <2>2, StdinKept DEF IInv
<1>25. ASSUME NEW j \in Commands, AwaitShell(j)
      PROVE  StdinInv'
  BY <1>25 DEF IInv, TypeOK, StdinInv, AwaitShell, Settle, vars, bashVars, fileVars, sessionVars, historyVars
<1>26. ASSUME NEW j \in Commands, AwaitLabelers(j)
      PROVE  StdinInv'
  BY <1>26 DEF IInv, TypeOK, StdinInv, AwaitLabelers, vars, bashVars, fileVars, sessionVars, historyVars
<1>27. ASSUME NEW j \in Commands, Complete(j)
      PROVE  StdinInv'
  BY <1>27 DEF IInv, TypeOK, StdinInv, Complete, Settle, vars, bashVars, fileVars, sessionVars, historyVars
<1>28. CASE destroy
  <2>1. \A k \in Commands : cmd[k] = "none" => cmd'[k] = "none"
    BY <1>28 DEF destroy, Hits
  <2>2. stdin' = stdin /\ pc' = pc
    BY <1>28 DEF destroy
  <2> QED
    BY <2>1, <2>2, StdinKept DEF IInv
<1>29. CASE ShellEnds
  <2>1. \A k \in Commands : At(k, "run") => cmd[k] = "running"
    BY DEF IInv, BashInv
  <2>2. \A k \in Commands : cmd[k] = "none" => cmd'[k] = "none"
    BY <1>29, <2>1 DEF ShellEnds
  <2>3. stdin' = stdin /\ pc' = pc
    BY <1>29 DEF ShellEnds, sessionVars
  <2> QED
    BY <2>2, <2>3, StdinKept DEF IInv
<1>30. CASE RemoveDir
  BY <1>30 DEF IInv, TypeOK, StdinInv, RemoveDir, vars, bashVars, fileVars, sessionVars, historyVars
<1>31. CASE Destroyed
  BY <1>31 DEF IInv, TypeOK, StdinInv, Destroyed, vars, bashVars, fileVars, sessionVars, historyVars
<1>32. CASE NoticeDeath
  BY <1>32 DEF IInv, TypeOK, StdinInv, NoticeDeath, vars, bashVars, fileVars, sessionVars, historyVars
<1> QED
  BY <1>1, <1>2, <1>3, <1>4, <1>5, <1>6, <1>7, <1>8, <1>9, <1>10, <1>11, <1>12, <1>13, <1>14, <1>15, <1>16, <1>17, <1>18, <1>19, <1>20, <1>21, <1>22, <1>23, <1>24, <1>25, <1>26, <1>27, <1>28, <1>29, <1>30, <1>31, <1>32 DEF Next, Script, Node, Ends

\* Every step keeps what bash does in agreement with its commands.
LEMMA BashStep ==
  ASSUME IInv, [Next]_vars
  PROVE  BashInv'
<1> USE KindAssumption DEF Commands, Turn, Settled
<1>1. CASE UNCHANGED vars
  BY <1>1 DEF IInv, TypeOK, BashInv, At, vars, bashVars, fileVars, sessionVars, historyVars
<1>2. ASSUME NEW j \in Commands, exec(j)
      PROVE  BashInv'
  BY <1>2 DEF IInv, TypeOK, BashInv, At, exec, Begin, HasTurn, vars, bashVars, fileVars, sessionVars, historyVars
<1>3. ASSUME NEW j \in Commands, execStream(j)
      PROVE  BashInv'
  BY <1>3 DEF IInv, TypeOK, BashInv, At, execStream, Begin, HasTurn, vars, bashVars, fileVars, sessionVars, historyVars
<1>4. ASSUME NEW j \in Commands, NotReady(j)
      PROVE  BashInv'
  BY <1>4 DEF IInv, TypeOK, BashInv, At, NotReady, HasTurn, vars, bashVars, fileVars, sessionVars, historyVars
<1>5. ASSUME NEW j \in Commands, killCommand(j)
      PROVE  BashInv'
  BY <1>5 DEF IInv, TypeOK, BashInv, At, killCommand, Hits, vars, bashVars, fileVars, sessionVars, historyVars
<1>6. ASSUME NEW j \in Commands, ExecTimesOut(j)
      PROVE  BashInv'
  BY <1>6 DEF IInv, TypeOK, BashInv, At, ExecTimesOut, Settle, vars, bashVars, fileVars, sessionVars, historyVars
<1>7. ASSUME NEW j \in Commands, WriteLine(j)
      PROVE  BashInv'
  BY <1>7 DEF IInv, TypeOK, BashInv, At, WriteLine, vars, bashVars, fileVars, sessionVars, historyVars
<1>8. ASSUME NEW j \in Commands, ForegroundEnds(j)
      PROVE  BashInv'
  BY <1>8 DEF IInv, TypeOK, BashInv, At, ForegroundEnds, Goes, vars, bashVars, fileVars, sessionVars, historyVars
<1>9. ASSUME NEW j \in Commands, BackgroundEnds(j)
      PROVE  BashInv'
  BY <1>9 DEF IInv, TypeOK, BashInv, At, BackgroundEnds, vars, bashVars, fileVars, sessionVars, historyVars
<1>10. ASSUME NEW j \in Commands, Take(j)
      PROVE  BashInv'
  BY <1>10 DEF IInv, TypeOK, BashInv, At, Take, Goes, Free, vars, bashVars, fileVars, sessionVars, historyVars
<1>11. ASSUME NEW j \in Commands, Merge(j)
      PROVE  BashInv'
  BY <1>11 DEF IInv, TypeOK, BashInv, At, Merge, Goes, vars, bashVars, fileVars, sessionVars, historyVars
<1>12. ASSUME NEW j \in Commands, WriteExit(j)
      PROVE  BashInv'
  BY <1>12 DEF IInv, TypeOK, BashInv, At, WriteExit, Free, vars, bashVars, fileVars, sessionVars, historyVars
<1>13. ASSUME NEW j \in Commands, WritePid(j)
      PROVE  BashInv'
  BY <1>13 DEF IInv, TypeOK, BashInv, At, WritePid, Goes, vars, bashVars, fileVars, sessionVars, historyVars
<1>14. ASSUME NEW j \in Commands, NotifyPid(j)
      PROVE  BashInv'
  BY <1>14 DEF IInv, TypeOK, BashInv, At, NotifyPid, Goes, Free, vars, bashVars, fileVars, sessionVars, historyVars
<1>15. ASSUME NEW j \in Commands, Label(j)
      PROVE  BashInv'
  BY <1>15 DEF IInv, TypeOK, BashInv, At, Label, vars, bashVars, fileVars, sessionVars, historyVars
<1>16. ASSUME NEW j \in Commands, SeeExit(j)
      PROVE  BashInv'
  BY <1>16 DEF IInv, TypeOK, BashInv, At, SeeExit, vars, bashVars, fileVars, sessionVars, historyVars
<1>17. ASSUME NEW j \in Commands, ReadExit(j)
      PROVE  BashInv'
  BY <1>17 DEF IInv, TypeOK, BashInv, At, ReadExit, Settle, vars, bashVars, fileVars, sessionVars, historyVars
<1>18. ASSUME NEW j \in Commands, ReadLog(j)
      PROVE  BashInv'
  BY <1>18 DEF IInv, TypeOK, BashInv, At, ReadLog, Settle, vars, bashVars, fileVars, sessionVars, historyVars
<1>19. ASSUME NEW j \in Commands, ExecDies(j)
      PROVE  BashInv'
  BY <1>19 DEF IInv, TypeOK, BashInv, At, ExecDies, Settle, vars, bashVars, fileVars, sessionVars, historyVars
<1>20. ASSUME NEW j \in Commands, PidFromPipe(j)
      PROVE  BashInv'
  BY <1>20 DEF IInv, TypeOK, BashInv, At, PidFromPipe, vars, bashVars, fileVars, sessionVars, historyVars
<1>21. ASSUME NEW j \in Commands, PidTimesOut(j)
      PROVE  BashInv'
  BY <1>21 DEF IInv, TypeOK, BashInv, At, PidTimesOut, vars, bashVars, fileVars, sessionVars, historyVars
<1>22. ASSUME NEW j \in Commands, RemovePipe(j)
      PROVE  BashInv'
  BY <1>22 DEF IInv, TypeOK, BashInv, At, RemovePipe, vars, bashVars, fileVars, sessionVars, historyVars
<1>23. ASSUME NEW j \in Commands, PidFromFile(j)
      PROVE  BashInv'
  BY <1>23 DEF IInv, TypeOK, BashInv, At, PidFromFile, vars, bashVars, fileVars, sessionVars, historyVars
<1>24. ASSUME NEW j \in Commands, Poll(j)
      PROVE  BashInv'
  BY <1>24 DEF IInv, TypeOK, BashInv, At, Poll, Settle, vars, bashVars, fileVars, sessionVars, historyVars
<1>25. ASSUME NEW j \in Commands, AwaitShell(j)
      PROVE  BashInv'
  BY <1>25 DEF IInv, TypeOK, BashInv, At, AwaitShell, Settle, vars, bashVars, fileVars, sessionVars, historyVars
<1>26. ASSUME NEW j \in Commands, AwaitLabelers(j)
      PROVE  BashInv'
  BY <1>26 DEF IInv, TypeOK, BashInv, At, AwaitLabelers, vars, bashVars, fileVars, sessionVars, historyVars
<1>27. ASSUME NEW j \in Commands, Complete(j)
      PROVE  BashInv'
  BY <1>27 DEF IInv, TypeOK, BashInv, At, Complete, Settle, vars, bashVars, fileVars, sessionVars, historyVars
<1>28. CASE destroy
  BY <1>28 DEF IInv, TypeOK, BashInv, At, destroy, Hits, vars, bashVars, fileVars, sessionVars, historyVars
<1>29. CASE ShellEnds
  BY <1>29 DEF IInv, TypeOK, BashInv, At, ShellEnds, Goes, vars, bashVars, fileVars, sessionVars, historyVars
<1>30. CASE RemoveDir
  BY <1>30 DEF IInv, TypeOK, BashInv, At, RemoveDir, vars, bashVars, fileVars, sessionVars, historyVars
<1>31. CASE Destroyed
  BY <1>31 DEF IInv, TypeOK, BashInv, At, Destroyed, vars, bashVars, fileVars, sessionVars, historyVars
<1>32. CASE NoticeDeath
  BY <1>32 DEF IInv, TypeOK, BashInv, At, NoticeDeath, vars, bashVars, fileVars, sessionVars, historyVars
<1> QED
  BY <1>1, <1>2, <1>3, <1>4, <1>5, <1>6, <1>7, <1>8, <1>9, <1>10, <1>11, <1>12, <1>13, <1>14, <1>15, <1>16, <1>17, <1>18, <1>19, <1>20, <1>21, <1>22, <1>23, <1>24, <1>25, <1>26, <1>27, <1>28, <1>29, <1>30, <1>31, <1>32 DEF Next, Script, Node, Ends

\* Every step keeps the logs of the commands in the shell.
LEMMA LogStep ==
  ASSUME IInv, [Next]_vars
  PROVE  LogInv'
<1> USE KindAssumption DEF Commands, Turn, Settled
<1>1. CASE UNCHANGED vars
  BY <1>1 DEF IInv, TypeOK, BashInv, LogInv, Logged, Reason, At, vars, bashVars, fileVars, sessionVars, historyVars
<1>2. ASSUME NEW j \in Commands, exec(j)
      PROVE  LogInv'
  BY <1>2 DEF IInv, TypeOK, BashInv, LogInv, Logged, Reason, At, exec, Begin, HasTurn, vars, bashVars, fileVars, sessionVars, historyVars
<1>3. ASSUME NEW j \in Commands, execStream(j)
      PROVE  LogInv'
  BY <1>3 DEF IInv, TypeOK, BashInv, LogInv, Logged, Reason, At, execStream, Begin, HasTurn, vars, bashVars, fileVars, sessionVars, historyVars
<1>4. ASSUME NEW j \in Commands, NotReady(j)
      PROVE  LogInv'
  BY <1>4 DEF IInv, TypeOK, BashInv, LogInv, Logged, Reason, At, NotReady, HasTurn, vars, bashVars, fileVars, sessionVars, historyVars
<1>5. ASSUME NEW j \in Commands, killCommand(j)
      PROVE  LogInv'
  BY <1>5 DEF IInv, TypeOK, BashInv, LogInv, Logged, Reason, At, killCommand, Hits, vars, bashVars, fileVars, sessionVars, historyVars
<1>6. ASSUME NEW j \in Commands, ExecTimesOut(j)
      PROVE  LogInv'
  BY <1>6 DEF IInv, TypeOK, BashInv, LogInv, Logged, Reason, At, ExecTimesOut, Settle, vars, bashVars, fileVars, sessionVars, historyVars
<1>7. ASSUME NEW j \in Commands, WriteLine(j)
      PROVE  LogInv'
  BY <1>7 DEF IInv, TypeOK, BashInv, LogInv, Logged, Reason, At, WriteLine, vars, bashVars, fileVars, sessionVars, historyVars
<1>8. ASSUME NEW j \in Commands, ForegroundEnds(j)
      PROVE  LogInv'
  <2>1. /\ j \in Execs /\ cmd[j] = "running" /\ log[j] = 0
        /\ ~ exitFile[j] /\ pc[j] \notin {"read", "done"}
    BY <1>8 DEF IInv, BashInv, LogInv, Logged, ForegroundEnds
  <2>2. bash'.doing = j /\ bash'.at \in {"merge", "dead"}
    BY <1>8 DEF ForegroundEnds, Goes
  <2>3. \A k \in Execs : cmd'[k] = IF k # j THEN cmd[k] ELSE IF bash'.at = "merge" THEN "ended" ELSE "lost"
    BY <1>8, <2>1 DEF IInv, TypeOK, ForegroundEnds, Goes
  <2>4. UNCHANGED << out, log, exitFile, pc, given, dir >>
    BY <1>8 DEF ForegroundEnds, fileVars, sessionVars
  <2>5. \A k \in Execs : k # j => ~ At(k, "merge")' /\ ~ At(k, "exit")'
    BY <2>2 DEF At
  <2>6. ~ At(j, "exit")' /\ (At(j, "merge")' => cmd'[j] = "ended")
    BY <2>1, <2>2, <2>3 DEF At
  <2> QED
    BY <2>1, <2>3, <2>4, <2>5, <2>6 DEF IInv, LogInv, Logged, Reason
<1>9. ASSUME NEW j \in Commands, BackgroundEnds(j)
      PROVE  LogInv'
  BY <1>9 DEF IInv, TypeOK, BashInv, LogInv, Logged, Reason, At, BackgroundEnds, vars, bashVars, fileVars, sessionVars, historyVars
<1>10. ASSUME NEW j \in Commands, Take(j)
      PROVE  LogInv'
  <2>1. cmd[j] = "none"
    BY <1>10, TailMembers DEF IInv, TypeOK, StdinInv, Take
  <2>2. j \in Execs => /\ log[j] = 0 /\ out[j] = 0
                      /\ ~ exitFile[j] /\ pc[j] \notin {"read", "done"}
    BY <2>1 DEF IInv, LogInv, Logged
  <2>3. bash'.doing = j /\ bash'.at # "exit" /\ bash'.at = (IF j \notin Execs THEN bash'.at ELSE IF cmd'[j] = "refused" THEN "merge" ELSE "run")
    BY <1>10 DEF IInv, TypeOK, Take, Goes
  <2>4. /\ cmd'[j] \in {"running", "refused"}
        /\ log'[j] = IF cmd'[j] = "refused" THEN 1 ELSE log[j]
        /\ \A k \in Execs : k # j => cmd'[k] = cmd[k] /\ log'[k] = log[k]
    BY <1>10 DEF IInv, TypeOK, Take
  <2>5. UNCHANGED << out, exitFile, pc, given, dir >>
    BY <1>10 DEF Take, sessionVars
  <2>6. \A k \in Execs : k # j => ~ At(k, "merge")' /\ ~ At(k, "exit")'
    BY <2>3 DEF At
  <2>7. j \in Execs => ~ At(j, "exit")' /\ (At(j, "merge")' => cmd'[j] = "refused")
    BY <2>3 DEF At
  <2> QED
    BY <2>2, <2>4, <2>5, <2>6, <2>7 DEF IInv, LogInv, Logged, Reason
<1>11. ASSUME NEW j \in Commands, Merge(j)
      PROVE  LogInv'
  BY <1>11 DEF IInv, TypeOK, BashInv, LogInv, Logged, Reason, At, Merge, Goes, vars, bashVars, fileVars, sessionVars, historyVars
<1>12. ASSUME NEW j \in Commands, WriteExit(j)
      PROVE  LogInv'
  BY <1>12 DEF IInv, TypeOK, BashInv, LogInv, Logged, Reason, At, WriteExit, Free, vars, bashVars, fileVars, sessionVars, historyVars
<1>13. ASSUME NEW j \in Commands, WritePid(j)
      PROVE  LogInv'
  BY <1>13 DEF IInv, TypeOK, BashInv, LogInv, Logged, Reason, At, WritePid, Goes, vars, bashVars, fileVars, sessionVars, historyVars
<1>14. ASSUME NEW j \in Commands, NotifyPid(j)
      PROVE  LogInv'
  <2>1. \A k \in Execs : ~ At(k, "merge")' /\ ~ At(k, "exit")'
    BY <1>14 DEF NotifyPid, Goes, Free, At
  <2>2. UNCHANGED << cmd, out, log, exitFile, pc, given, dir >>
    BY <1>14 DEF NotifyPid, sessionVars
  <2> QED
    BY <2>1, <2>2 DEF IInv, LogInv, Logged, Reason
<1>15. ASSUME NEW j \in Commands, Label(j)
      PROVE  LogInv'
  BY <1>15 DEF IInv, TypeOK, BashInv, LogInv, Logged, Reason, At, Label, vars, bashVars, fileVars, sessionVars, historyVars
<1>16. ASSUME NEW j \in Commands, SeeExit(j)
      PROVE  LogInv'
  BY <1>16 DEF IInv, TypeOK, BashInv, LogInv, Logged, Reason, At, SeeExit, vars, bashVars, fileVars, sessionVars, historyVars
<1>17. ASSUME NEW j \in Commands, ReadExit(j)
      PROVE  LogInv'
  BY <1>17 DEF IInv, TypeOK, BashInv, LogInv, Logged, Reason, At, ReadExit, Settle, vars, bashVars, fileVars, sessionVars, historyVars
<1>18. ASSUME NEW j \in Commands, ReadLog(j)
      PROVE  LogInv'
  BY <1>18 DEF IInv, TypeOK, BashInv, LogInv, Logged, Reason, At, ReadLog, Settle, vars, bashVars, fileVars, sessionVars, historyVars
<1>19. ASSUME NEW j \in Commands, ExecDies(j)
      PROVE  LogInv'
  BY <1>19 DEF IInv, TypeOK, BashInv, LogInv, Logged, Reason, At, ExecDies, Settle, vars, bashVars, fileVars, sessionVars, historyVars
<1>20. ASSUME NEW j \in Commands, PidFromPipe(j)
      PROVE  LogInv'
  BY <1>20 DEF IInv, TypeOK, BashInv, LogInv, Logged, Reason, At, PidFromPipe, vars, bashVars, fileVars, sessionVars, historyVars
<1>21. ASSUME NEW j \in Commands, PidTimesOut(j)
      PROVE  LogInv'
  BY <1>21 DEF IInv, TypeOK, BashInv, LogInv, Logged, Reason, At, PidTimesOut, vars, bashVars, fileVars, sessionVars, historyVars
<1>22. ASSUME NEW j \in Commands, RemovePipe(j)
      PROVE  LogInv'
  BY <1>22 DEF IInv, TypeOK, BashInv, LogInv, Logged, Reason, At, RemovePipe, vars, bashVars, fileVars, sessionVars, historyVars
<1>23. ASSUME NEW j \in Commands, PidFromFile(j)
      PROVE  LogInv'
  BY <1>23 DEF IInv, TypeOK, BashInv, LogInv, Logged, Reason, At, PidFromFile, vars, bashVars, fileVars, sessionVars, historyVars
<1>24. ASSUME NEW j \in Commands, Poll(j)
      PROVE  LogInv'
  <2>1. j \notin Execs
    BY <1>24 DEF IInv, LogInv, Poll
  <2>2. \A k \in Execs : pc'[k] = pc[k] /\ exitFile'[k] = exitFile[k] /\ given'[k] = given[k]
    BY <1>24, <2>1 DEF IInv, TypeOK, Poll, Settle
  <2>3. UNCHANGED << bash, cmd, out, log, dir >>
    BY <1>24 DEF Poll, bashVars
  <2> QED
    BY <2>2, <2>3 DEF IInv, LogInv, Logged, Reason, At
<1>25. ASSUME NEW j \in Commands, AwaitShell(j)
      PROVE  LogInv'
  BY <1>25 DEF IInv, TypeOK, BashInv, LogInv, Logged, Reason, At, AwaitShell, Settle, vars, bashVars, fileVars, sessionVars, historyVars
<1>26. ASSUME NEW j \in Commands, AwaitLabelers(j)
      PROVE  LogInv'
  BY <1>26 DEF IInv, TypeOK, BashInv, LogInv, Logged, Reason, At, AwaitLabelers, vars, bashVars, fileVars, sessionVars, historyVars
<1>27. ASSUME NEW j \in Commands, Complete(j)
      PROVE  LogInv'
  BY <1>27 DEF IInv, TypeOK, BashInv, LogInv, Logged, Reason, At, Complete, Settle, vars, bashVars, fileVars, sessionVars, historyVars
<1>28. CASE destroy
  BY <1>28 DEF IInv, TypeOK, BashInv, LogInv, Logged, Reason, At, destroy, Hits, vars, bashVars, fileVars, sessionVars, historyVars
<1>29. CASE ShellEnds
  BY <1>29 DEF IInv, TypeOK, BashInv, LogInv, Logged, Reason, At, ShellEnds, Goes, vars, bashVars, fileVars, sessionVars, historyVars
<1>30. CASE RemoveDir
  BY <1>30 DEF IInv, TypeOK, BashInv, LogInv, Logged, Reason, At, RemoveDir, vars, bashVars, fileVars, sessionVars, historyVars
<1>31. CASE Destroyed
  BY <1>31 DEF IInv, TypeOK, BashInv, LogInv, Logged, Reason, At, Destroyed, vars, bashVars, fileVars, sessionVars, historyVars
<1>32. CASE NoticeDeath
  BY <1>32 DEF IInv, TypeOK, BashInv, LogInv, Logged, Reason, At, NoticeDeath, vars, bashVars, fileVars, sessionVars, historyVars
<1> QED
  BY <1>1, <1>2, <1>3, <1>4, <1>5, <1>6, <1>7, <1>8, <1>9, <1>10, <1>11, <1>12, <1>13, <1>14, <1>15, <1>16, <1>17, <1>18, <1>19, <1>20, <1>21, <1>22, <1>23, <1>24, <1>25, <1>26, <1>27, <1>28, <1>29, <1>30, <1>31, <1>32 DEF Next, Script, Node, Ends

-----------------------------------------------------------------------------
(***************************************************************************)
(* The theorems                                                            *)
(***************************************************************************)

\* The invariant holds when the session begins.
LEMMA InitIInv == Init => IInv
<1> SUFFICES ASSUME Init
             PROVE  IInv
  OBVIOUS
<1> USE KindAssumption, LinesAssumption DEF Commands
<1>1. TypeOK
  <2>1. stdin \in Seq(Commands)
    BY DEF Init
  <2>2. bash \in [doing : Commands \cup {None},
                 at : {"idle", "run", "merge", "exit", "fork", "pid", "blocked", "dead"}]
    BY DEF Init
  <2>3. /\ out \in [Commands -> 0..MaxLines]
        /\ log \in [Commands -> 0..(MaxLines + 1)]
        /\ given \in [Commands -> 0..(MaxLines + 1)]
    BY DEF Init
  <2>4. /\ exitFile \in [Commands -> BOOLEAN]
        /\ marker \in [Commands -> BOOLEAN]
        /\ pidFile \in [Commands -> BOOLEAN]
        /\ dir \in BOOLEAN /\ noticed \in BOOLEAN
    BY DEF Init
  <2> QED
    BY <2>1, <2>2, <2>3, <2>4 DEF Init, TypeOK, Turn, Settled
<1>2. StdinInv
  BY EmptyMembers DEF Init, StdinInv
<1>3. BashInv
  BY DEF Init, BashInv, At
<1>4. LogInv
  BY DEF Init, LogInv, Logged, At, Settled
<1>5. KillInv
  BY DEF Init, KillInv
<1>6. PidInv
  BY DEF Init, PidInv
<1> QED
  BY <1>1, <1>2, <1>3, <1>4, <1>5, <1>6 DEF IInv

\* Every step keeps the invariant.
LEMMA NextIInv == IInv /\ [Next]_vars => IInv'
BY TypeStep, StdinStep, BashStep, LogStep, KillStep, PidStep DEF IInv

\* The inductive invariant: what the standard input of bash, its place in a
\* script, the logs and the commands that are tracked say of each other
\* (session.ts:258-1100).
THEOREM ShellInvariant == Spec => []IInv
BY InitIInv, NextIInv, PTL DEF Spec

\* The types of the files, of bash and of the Session object; what is tracked is
\* being executed, and a FIFO that has a reader belongs to a stream that waits
\* for its pid.
THEOREM TypeCorrect == Spec => []TypeOK
<1>1. IInv => TypeOK
  BY DEF IInv
<1> QED
  BY <1>1, ShellInvariant, PTL

\* exec returns all the output of its command, whatever streams, kills and a
\* death of the shell do meanwhile: the exit code it waits for is written after
\* the output was merged (session.ts:348, 956-958).
THEOREM ExecTellsAll == Spec => []ExecOutput
<1>1. IInv => ExecOutput
  BY DEF IInv, TypeOK, LogInv, Logged, Reason, ExecOutput, Commands
<1> QED
  BY <1>1, ShellInvariant, PTL

\* A background command that runs is tracked for as long as its stream goes on,
\* and its pid can be read once bash has written it, however many commands there
\* are, unless a kill has come before, be it one that failed (session.ts:658-691).
THEOREM CanBeKilled == Spec => []Killable
<1>1. IInv => Killable
  BY DEF IInv, StdinInv, KillInv, PidInv, Killable, Commands
<1> QED
  BY <1>1, ShellInvariant, PTL

=============================================================================
