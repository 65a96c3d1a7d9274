-------------------------- MODULE ProcessPoolProofs --------------------------
(***************************************************************************)
(* Proofs about ProcessPool, for every set of calls, every configuration   *)
(* and every bound.                                                        *)
(***************************************************************************)
EXTENDS ProcessPool, FiniteSetTheorems, SequenceTheorems, TLAPS

-----------------------------------------------------------------------------
(***************************************************************************)
(* Sequences, as the lines of the mutexes and the streams of the executors: *)
(* what is in them, and that nothing is in them twice                      *)
(***************************************************************************)

Members(s)  == {s[i] : i \in 1..Len(s)}
Distinct(s) == \A i, j \in 1..Len(s) : s[i] = s[j] => i = j

\* Nothing is in an empty line.
LEMMA EmptyMembers == Members(<< >>) = {} /\ Distinct(<< >>)
BY DEF Members, Distinct

\* Joining a line at its end.
LEMMA AppendMembers ==
  ASSUME NEW S, NEW s \in Seq(S), NEW a \in S
  PROVE  /\ Append(s, a) \in Seq(S)
         /\ Append(s, a) # << >>
         /\ Head(Append(s, a)) = IF s = << >> THEN a ELSE Head(s)
         /\ Members(Append(s, a)) = Members(s) \cup {a}
         /\ Distinct(s) /\ a \notin Members(s) => Distinct(Append(s, a))
<1>1. /\ Append(s, a) \in Seq(S)
      /\ Len(s) \in Nat
      /\ Len(Append(s, a)) = Len(s) + 1
      /\ \A i \in 1..Len(s) : Append(s, a)[i] = s[i]
      /\ Append(s, a)[Len(s) + 1] = a
  BY AppendProperties
<1>2. Append(s, a) # << >>
  BY AppendProperties
<1>3. Head(Append(s, a)) = IF s = << >> THEN a ELSE Head(s)
  BY HeadTailAppend
<1>4. 1..Len(Append(s, a)) = 1..Len(s) \cup {Len(s) + 1}
  BY <1>1
<1>5. Members(Append(s, a)) = Members(s) \cup {a}
  BY <1>1, <1>4 DEF Members
<1>6. Distinct(s) /\ a \notin Members(s) => Distinct(Append(s, a))
  BY <1>1, <1>4 DEF Members, Distinct
<1> QED
  BY <1>1, <1>2, <1>3, <1>5, <1>6

\* The first in a line leaves it.
LEMMA TailMembers ==
  ASSUME NEW S, NEW s \in Seq(S), s # << >>
  PROVE  /\ Tail(s) \in Seq(S)
         /\ Head(s) \in S
         /\ Head(s) \in Members(s)
         /\ Distinct(s) => /\ Distinct(Tail(s))
                           /\ Members(Tail(s)) = Members(s) \ {Head(s)}
<1>1. /\ Tail(s) \in Seq(S)
      /\ Head(s) \in S
      /\ Len(s) \in Nat \ {0}
      /\ Head(s) = s[1]
      /\ Len(Tail(s)) = Len(s) - 1
      /\ \A i \in 1..Len(Tail(s)) : Tail(s)[i] = s[i + 1]
  OBVIOUS
<1>2. Head(s) \in Members(s)
  BY <1>1 DEF Members
<1>3. \A i \in 1..Len(Tail(s)) : i + 1 \in 1..Len(s) /\ i + 1 # 1
  BY <1>1
<1>4. \A i \in 1..Len(s) : i # 1 => i - 1 \in 1..Len(Tail(s)) /\ Tail(s)[i - 1] = s[i]
  BY <1>1
<1>5. ASSUME Distinct(s)
      PROVE  Distinct(Tail(s)) /\ Members(Tail(s)) = Members(s) \ {Head(s)}
  <2>1. Distinct(Tail(s))
    BY <1>1, <1>3, <1>5 DEF Distinct
  <2>2. 1 \in 1..Len(s)
    BY <1>1
  <2>3. \A i \in 1..Len(s) : i # 1 => s[i] # Head(s)
    BY <1>1, <1>5, <2>2 DEF Distinct
  <2>4. Members(Tail(s)) \subseteq Members(s) \ {Head(s)}
    BY <1>1, <1>3, <2>3 DEF Members
  <2>5. Members(s) \ {Head(s)} \subseteq Members(Tail(s))
    BY <1>1, <1>4 DEF Members
  <2> QED
    BY <2>1, <2>4, <2>5
<1> QED
  BY <1>1, <1>2, <1>5

\* A stream without duplicates is cut in two that have nothing in common.
LEMMA SplitMembers ==
  ASSUME NEW S, NEW s \in Seq(S), NEW n \in 1..Len(s)
  PROVE  /\ SubSeq(s, 1, n) \in Seq(S)
         /\ SubSeq(s, n + 1, Len(s)) \in Seq(S)
         /\ Members(SubSeq(s, 1, n)) \subseteq Members(s)
         /\ Members(SubSeq(s, n + 1, Len(s))) \subseteq Members(s)
         /\ Distinct(s) =>
              /\ Distinct(SubSeq(s, n + 1, Len(s)))
              /\ Members(SubSeq(s, 1, n)) \cap Members(SubSeq(s, n + 1, Len(s))) = {}
<1> DEFINE t == SubSeq(s, 1, n)
           u == SubSeq(s, n + 1, Len(s))
<1>1. Len(s) \in Nat /\ \A i \in 1..Len(s) : s[i] \in S
  OBVIOUS
<1>2. t \in Seq(S) /\ Len(t) = n /\ \A i \in 1..n : t[i] = s[i]
  BY <1>1, SubSeqProperties
<1>3. u \in Seq(S) /\ Len(u) = Len(s) - n /\ \A i \in 1..(Len(s) - n) : u[i] = s[n + i]
  <2>1. n + 1 \in Int /\ Len(s) \in Int /\ \A i \in (n + 1)..Len(s) : s[i] \in S
    BY <1>1
  <2>2. /\ u \in Seq(S)
        /\ Len(u) = IF n + 1 <= Len(s) THEN Len(s) - (n + 1) + 1 ELSE 0
        /\ \A i \in 1..(Len(s) - (n + 1) + 1) : u[i] = s[n + 1 + i - 1]
    BY <2>1, SubSeqProperties
  <2>3. Len(s) - (n + 1) + 1 = Len(s) - n /\ Len(u) = Len(s) - n
    BY <1>1, <2>2
  <2>4. \A i \in 1..(Len(s) - n) : n + 1 + i - 1 = n + i
    BY <1>1
  <2> QED
    BY <2>2, <2>3, <2>4
<1> HIDE DEF t, u
<1>4. \A i \in 1..Len(u) : n + i \in 1..Len(s) /\ u[i] = s[n + i]
  BY <1>1, <1>3
<1>5. \A i \in 1..Len(t) : i \in 1..Len(s) /\ t[i] = s[i]
  BY <1>1, <1>2
<1>6. Members(t) \subseteq Members(s) /\ Members(u) \subseteq Members(s)
  BY <1>4, <1>5 DEF Members
<1>7. ASSUME Distinct(s)
      PROVE  Distinct(u) /\ Members(t) \cap Members(u) = {}
  <2>1. Distinct(u)
    <3> SUFFICES ASSUME NEW i \in 1..Len(u), NEW j \in 1..Len(u), u[i] = u[j]
                 PROVE  i = j
      BY DEF Distinct
    <3>1. /\ n + i \in 1..Len(s) /\ n + j \in 1..Len(s)
          /\ s[n + i] = s[n + j]
      BY <1>4
    <3>2. n + i = n + j
      BY <1>7, <3>1 DEF Distinct
    <3> QED
      BY <3>2
  <2>2. ASSUME NEW i \in 1..Len(t), NEW j \in 1..Len(u), t[i] = u[j]
        PROVE  FALSE
    <3>1. i \in 1..Len(s) /\ n + j \in 1..Len(s) /\ s[i] = s[n + j]
      BY <1>4, <1>5, <2>2
    <3>2. i = n + j
      BY <1>7, <3>1 DEF Distinct
    <3>3. i <= n /\ j >= 1 /\ i \in Int /\ j \in Int
      BY <1>2, <1>3
    <3> QED
      BY <3>2, <3>3
  <2> QED
    BY <2>1, <2>2 DEF Members
<1> QED
  BY <1>2, <1>3, <1>6, <1>7 DEF t, u

\* Two streams one after the other.
LEMMA ConcatMembers ==
  ASSUME NEW S, NEW s \in Seq(S), NEW t \in Seq(S)
  PROVE  /\ s \o t \in Seq(S)
         /\ Members(s \o t) = Members(s) \cup Members(t)
         /\ Distinct(s) /\ Distinct(t) /\ Members(s) \cap Members(t) = {}
              => Distinct(s \o t)
<1>1. Len(s) \in Nat /\ Len(t) \in Nat
  OBVIOUS
<1>2. /\ s \o t \in Seq(S)
      /\ Len(s \o t) = Len(s) + Len(t)
      /\ \A i \in 1..(Len(s) + Len(t)) :
           (s \o t)[i] = IF i <= Len(s) THEN s[i] ELSE t[i - Len(s)]
  BY ConcatProperties
<1>3. \A i \in 1..Len(s) : i \in 1..Len(s \o t) /\ (s \o t)[i] = s[i]
  BY <1>1, <1>2
<1>4. \A i \in 1..Len(t) : Len(s) + i \in 1..Len(s \o t) /\ (s \o t)[Len(s) + i] = t[i]
  BY <1>1, <1>2
<1>5. \A i \in 1..Len(s \o t) :
        \/ i \in 1..Len(s) /\ (s \o t)[i] = s[i]
        \/ i - Len(s) \in 1..Len(t) /\ (s \o t)[i] = t[i - Len(s)]
  BY <1>1, <1>2
<1>6. Members(s \o t) = Members(s) \cup Members(t)
  <2>1. Members(s \o t) \subseteq Members(s) \cup Members(t)
    BY <1>5 DEF Members
  <2>2. Members(s) \subseteq Members(s \o t)
    BY <1>3 DEF Members
  <2>3. Members(t) \subseteq Members(s \o t)
    BY <1>4 DEF Members
  <2> QED
    BY <2>1, <2>2, <2>3
<1>7. ASSUME Distinct(s), Distinct(t), Members(s) \cap Members(t) = {}
      PROVE  Distinct(s \o t)
  <2>1. \A i \in 1..Len(s) : \A j \in 1..Len(t) : s[i] # t[j]
    BY <1>7 DEF Members
  <2>2. SUFFICES ASSUME NEW i \in 1..Len(s \o t), NEW j \in 1..Len(s \o t),
                        (s \o t)[i] = (s \o t)[j]
                 PROVE  i = j
    BY DEF Distinct
  <2> QED
    BY <1>1, <1>5, <1>7, <2>1, <2>2 DEF Distinct
<1> QED
  BY <1>2, <1>6, <1>7

-----------------------------------------------------------------------------
(***************************************************************************)
(* The inductive invariant                                                 *)
(***************************************************************************)

\* Steps at which a call is in the line of the pool.
InPoolLine == {"pooling", "spawning", "returning"}

\* The processes and who asked for them: executors are spawned in order, a
\* call spawns one for itself at most and waits for it, and pre-warming has one
\* spawn under way at most, which its count does not include yet.
SpawnInv ==
  /\ \A e \in Executors : e > spawned => stage[e] = "unused"
  /\ \A e \in Executors : stage[e] = "unused" => proc[e] = "none"
  /\ \A e \in Executors : stage[e] = "starting" /\ proc[e] = "running" => hasLock[e]
  /\ \A c \in Calls : pc[c] # "idle" => op[c] \in Ops
  /\ \A e \in Executors : maker[e] # None => pc[maker[e]] # "idle"
  /\ \A e \in Executors :
       maker[e] # None /\ op[maker[e]] \in {"run", "create"} => pc[maker[e]] # "pooling"
  /\ \A e \in Executors :
       stage[e] = "starting" /\ maker[e] # None /\ op[maker[e]] \in {"run", "create"}
         => pc[maker[e]] = "spawning"
  /\ \A e, f \in Executors :
       maker[e] = maker[f] /\ maker[e] # None /\ op[maker[e]] \in {"run", "create"} => e = f
  /\ \A e, f \in Executors :
       stage[e] = "starting" /\ stage[f] = "starting" /\ maker[e] = None /\ maker[f] = None
         => e = f
  /\ \A e \in Executors :
       stage[e] = "starting" /\ maker[e] = None => warmed < MinSize

\* The mutex of the pool: its line holds the calls that wait for it or work
\* under it, each once, and a call that spawns has it.
PoolLineInv ==
  /\ Distinct(poolLine)
  /\ \A c \in Calls : c \in Members(poolLine) <=> pc[c] \in InPoolLine
  /\ \A c \in Calls :
       pc[c] = "spawning" => poolLine # << >> /\ Head(poolLine) = c
  /\ \A c \in Calls :
       pc[c] \in {"pooling", "spawning"} => op[c] \in {"run", "create"}

\* The mutexes of the executors: the line of an executor holds the calls that
\* use it, each once, and the one that runs comes first.
LineInv ==
  /\ \A e \in Executors : Distinct(line[e])
  /\ \A c \in Calls, e \in Executors :
       c \in Members(line[e]) <=> pc[c] \in {"queued", "running"} /\ ex[c] = e
  /\ \A c \in Calls :
       pc[c] = "running" => line[ex[c]] # << >> /\ Head(line[ex[c]]) = c
  /\ \A c \in Calls :
       pc[c] \in {"queued", "running", "returning"} =>
         ex[c] \in Executors /\ stage[ex[c]] = "ready"
  /\ \A c \in Calls : pc[c] = "returning" => op[c] = "run"

Live(e) == stage[e] = "ready" /\ proc[e] = "running"

\* Nobody holds executor e, or one holder does.
Free(e) ==
  /\ \A c \in Calls : ~ Borrowing(c, e)
  /\ \A x \in Calls : contextExecutors[x] # e

OneHolder(e) ==
  /\ \A c, d \in Calls : Borrowing(c, e) /\ Borrowing(d, e) => c = d
  /\ \A x, y \in Calls : contextExecutors[x] = e /\ contextExecutors[y] = e => x = y
  /\ \A c, x \in Calls : ~ (Borrowing(c, e) /\ contextExecutors[x] = e)

\* Who has which executor: only what has started is handed out, a live
\* executor has one holder or is available, a context has no executor but the
\* one that was made for it if there is one, and a context whose deletion waits
\* has none any more.
HoldInv ==
  /\ \A e \in available : stage[e] = "ready"
  /\ \A x \in Calls : contextExecutors[x] # NoExecutor =>
       stage[contextExecutors[x]] = "ready" /\ x \in contexts
  /\ \A x \in contexts : pc[x] = "done" /\ op[x] = "create"
  /\ \A e \in Executors :
       maker[e] # None /\ op[maker[e]] = "create" =>
         contextExecutors[maker[e]] \in {NoExecutor, e}
  /\ \A c \in Calls : pc[c] = "replenishing" =>
       /\ cx[c] \in Calls
       /\ pc[cx[c]] = "done"
       /\ contextExecutors[cx[c]] = NoExecutor
  /\ \A e \in Executors : e \in pool <=> Live(e)
  /\ \A e \in Executors : Live(e) => hasLock[e]
  /\ \A e \in Executors : Live(e) => (e \in available <=> Free(e))
  /\ \A e \in Executors : Live(e) => OneHolder(e)

\* A call that has not written its request yet.
Fresh(c) == pc[c] \in {"idle", "pooling", "spawning", "queued"}

\* Some run of executor e has timed out.
Late(e) == \E d \in Calls : ex[d] = e /\ outcome[d] = "timedout"

\* Call d has written its request to executor e, and waits, or some run of e
\* has timed out.
Asked(d, e) ==
  ex[d] = e /\ ~ Fresh(d) /\ (pc[d] = "running" \/ Late(e))

\* Nobody was given the answer of call d.
NotGiven(d) == \A c \in Calls : result[c] # d

\* Nothing of the answer of call d is on stdout or in a buffer.
Unanswered(d) ==
  \A k \in {1, 2} :
    /\ \A e \in Executors : << d, k >> \notin Members(out[e])
    /\ \A c \in Calls : << d, k >> \notin Members(buf[c])

\* Where answers are: each is of a call that has asked this executor, in one
\* place only, and, unless a run has timed out there, of the call that listens.
AnswerInv ==
  /\ \A c \in Calls : pc[c] \notin {"returning", "done"} => outcome[c] = "none"
  /\ \A e \in Executors : Distinct(out[e])
  /\ \A e \in Executors : \A d \in inbox[e] :
       Asked(d, e) /\ NotGiven(d) /\ Unanswered(d)
  /\ \A e \in Executors, d \in Calls, k \in {1, 2} :
       << d, k >> \in Members(out[e]) =>
         /\ Asked(d, e) /\ NotGiven(d)
         /\ \A c \in Calls : << d, k >> \notin Members(buf[c])
  /\ \A c, d \in Calls, k \in {1, 2} :
       << d, k >> \in Members(buf[c]) =>
         pc[c] = "running" /\ Asked(d, ex[c]) /\ NotGiven(d)
  /\ \A c \in Calls : result[c] # None =>
       /\ ~ Fresh(c) /\ ~ Fresh(result[c])
       /\ ex[result[c]] = ex[c]
       /\ result[c] = c \/ Late(ex[c])
       /\ \A d \in Calls : result[d] = result[c] => d = c

\* What has started has a process, dead or alive.
Started == \A e \in Executors : stage[e] = "ready" => proc[e] # "none"

IInv ==
  TypeOK /\ SpawnInv /\ PoolLineInv /\ LineInv /\ HoldInv /\ AnswerInv /\ Started

-----------------------------------------------------------------------------
(***************************************************************************)
(* Facts the proofs below share                                            *)
(***************************************************************************)

\* The call that awaits a starting executor owns the mutex of the pool.
LEMMA SpawnerOwns ==
  ASSUME TypeOK, SpawnInv, PoolLineInv, NEW e \in Executors,
         stage[e] = "starting", Purpose(e) \in {"run", "create"}
  PROVE  /\ maker[e] \in Calls
         /\ maker[e] # None
         /\ op[maker[e]] = Purpose(e)
         /\ pc[maker[e]] = "spawning"
         /\ poolLine # << >>
         /\ Head(poolLine) = maker[e]
<1>1. maker[e] \in Calls /\ maker[e] # None /\ op[maker[e]] = Purpose(e)
  BY DEF Purpose, TypeOK
<1>2. pc[maker[e]] = "spawning"
  BY <1>1 DEF SpawnInv
<1> QED
  BY <1>1, <1>2 DEF PoolLineInv

\* What createProcess makes has the types the variables have.
LEMMA KillAndSpawnType ==
  ASSUME TypeOK, NEW dying, NEW n \in Nat, NEW c \in Calls \cup {None},
         KillAndSpawn(dying, n, c)
  PROVE  /\ spawned' \in 0..MaxSpawns
         /\ maker' \in [Executors -> Calls \cup {None}]
         /\ stage' \in [Executors -> {"unused", "starting", "ready", "failed"}]
         /\ proc' \in [Executors -> ProcStates]
         /\ hasLock' \in [Executors -> BOOLEAN]
         /\ UNCHANGED << line, inbox, out >>
<1> DEFINE new == (spawned + 1)..(spawned + n)
<1> HIDE DEF new
<1>1. /\ spawned + n <= MaxSpawns
      /\ spawned' = spawned + n
      /\ maker' = [e \in Executors |-> IF e \in new THEN c ELSE maker[e]]
      /\ stage' = [e \in Executors |-> IF e \in new THEN "starting" ELSE stage[e]]
      /\ proc' = [e \in Executors |->
                    CASE e \in new   -> "running"
                      [] e \in dying -> Killed(e)
                      [] OTHER       -> proc[e]]
      /\ hasLock' = [e \in Executors |-> e \in new \/ (hasLock[e] /\ e \notin dying)]
      /\ UNCHANGED << line, inbox, out >>
  BY DEF KillAndSpawn, new
<1>2. spawned' \in 0..MaxSpawns
  BY <1>1, BoundAssumption DEF TypeOK
<1>3. maker' \in [Executors -> Calls \cup {None}]
  BY <1>1 DEF TypeOK
<1>4. stage' \in [Executors -> {"unused", "starting", "ready", "failed"}]
  BY <1>1 DEF TypeOK
<1>5. \A e \in Executors : Killed(e) \in ProcStates /\ proc[e] \in ProcStates
  BY DEF TypeOK, Killed, ProcStates
<1>6. "running" \in ProcStates
  BY DEF ProcStates
<1>7. proc' \in [Executors -> ProcStates]
  BY <1>1, <1>5, <1>6
<1>8. hasLock' \in [Executors -> BOOLEAN]
  BY <1>1
<1> QED
  BY <1>1, <1>2, <1>3, <1>4, <1>7, <1>8

\* The available executors can be counted, and so the missing ones.
LEMMA CountType ==
  ASSUME TypeOK
  PROVE  /\ IsFiniteSet(Executors)
         /\ Cardinality(available) \in Nat
         /\ Cardinality(pool) \in Nat
<1>1. IsFiniteSet(Executors)
  BY FS_Interval, BoundAssumption DEF Executors
<1> QED
  BY <1>1, FS_Subset, FS_CardinalityType DEF TypeOK

-----------------------------------------------------------------------------
(***************************************************************************)
(* Types                                                                   *)
(***************************************************************************)

\* Lines of calls stay lines of calls.
LEMMA LinesType ==
  ASSUME NEW s \in Seq(Calls)
  PROVE  /\ \A c \in Calls : Append(s, c) \in Seq(Calls)
         /\ s # << >> => Tail(s) \in Seq(Calls) /\ Head(s) \in Calls
         /\ s # << >> => \A c \in Calls : Append(Tail(s), c) \in Seq(Calls)
OBVIOUS

\* A call that ends.
LEMMA EndType ==
  ASSUME TypeOK, NEW c \in Calls, NEW how \in {"ok", "failed"}, End(c, how)
  PROVE  /\ pc' \in [Calls -> PcStates]
         /\ outcome' \in [Calls -> {"none", "ok", "failed", "timedout"}]
<1>1. "done" \in PcStates
  BY DEF PcStates
<1> QED
  BY <1>1 DEF End, TypeOK

\* A run that ends leaves its mutex to the next.
LEMMA FinishType ==
  ASSUME TypeOK, LineInv, NEW c \in Calls, pc[c] = "running",
         NEW how \in {"ok", "timedout"}, Finish(c, how)
  PROVE  /\ line' \in [Executors -> Seq(Calls)]
         /\ outcome' \in [Calls -> {"none", "ok", "failed", "timedout"}]
         /\ buf' \in [Calls -> Seq(Calls \X {1, 2})]
         /\ pc' \in [Calls -> PcStates]
         /\ poolLine' \in Seq(Calls)
<1>1. ex[c] \in Executors /\ line[ex[c]] # << >>
  BY DEF LineInv
<1>2. Tail(line[ex[c]]) \in Seq(Calls)
  BY <1>1, LinesType DEF TypeOK
<1>3. line' \in [Executors -> Seq(Calls)]
  BY <1>1, <1>2 DEF Finish, TypeOK
<1>4. "returning" \in PcStates /\ "done" \in PcStates
  BY DEF PcStates
<1>5. pc' \in [Calls -> PcStates]
  BY <1>4 DEF Finish, TypeOK
<1>6. poolLine' \in Seq(Calls)
  BY LinesType, ZenonT(60) DEF Finish, TypeOK
<1>7. << >> \in Seq(Calls \X {1, 2})
  OBVIOUS
<1>8. buf' \in [Calls -> Seq(Calls \X {1, 2})]
  BY <1>7 DEF Finish, TypeOK
<1>9. outcome' \in [Calls -> {"none", "ok", "failed", "timedout"}]
  BY DEF Finish, TypeOK
<1> QED
  BY <1>3, <1>5, <1>6, <1>8, <1>9

\* A spawn that fails ends the call that waits for it.
LEMMA RejectType ==
  ASSUME TypeOK, SpawnInv, PoolLineInv, NEW e \in Executors,
         stage[e] = "starting", Reject(e)
  PROVE  /\ stage' \in [Executors -> {"unused", "starting", "ready", "failed"}]
         /\ warmed' \in 0..MinSize
         /\ pc' \in [Calls -> PcStates]
         /\ outcome' \in [Calls -> {"none", "ok", "failed", "timedout"}]
         /\ poolLine' \in Seq(Calls)
         /\ UNCHANGED << op, cx, ex, buf, result, spawned, maker, line, inbox, out,
                         pool, available, contextExecutors, contexts >>
<1>1. stage' \in [Executors -> {"unused", "starting", "ready", "failed"}]
  BY DEF Reject, TypeOK
<1>2. warmed' \in 0..MinSize
  <2>1. CASE Purpose(e) = "warm"
    <3>1. maker[e] = None
      BY <2>1, OpsAssumption DEF Purpose, TypeOK, AllOps, SpawnInv
    <3> QED
      BY <3>1, SizeAssumption DEF Reject, TypeOK, SpawnInv
  <2>2. CASE Purpose(e) # "warm"
    BY <2>2 DEF Reject, TypeOK
  <2> QED
    BY <2>1, <2>2
<1>3. /\ pc' \in [Calls -> PcStates]
      /\ outcome' \in [Calls -> {"none", "ok", "failed", "timedout"}]
      /\ poolLine' \in Seq(Calls)
  <2>1. CASE Purpose(e) \in {"run", "create"}
    <3>1. maker[e] \in Calls /\ poolLine # << >>
      BY <2>1, SpawnerOwns
    <3>2. End(maker[e], "failed") /\ poolLine' = Tail(poolLine)
      BY <2>1 DEF Reject
    <3>3. "done" \in PcStates
      BY DEF PcStates
    <3> QED
      BY <3>1, <3>2, <3>3, LinesType DEF End, TypeOK
  <2>2. CASE Purpose(e) \notin {"run", "create"}
    BY <2>2 DEF Reject, TypeOK
  <2> QED
    BY <2>1, <2>2
<1> QED
  BY <1>1, <1>2, <1>3 DEF Reject

\* Every step keeps the types.
LEMMA TypeStep ==
  ASSUME TypeOK, SpawnInv, PoolLineInv, LineInv, HoldInv, Next
  PROVE  TypeOK'
<1> USE NoneAssumption
<1>a. /\ "pooling" \in PcStates /\ "spawning" \in PcStates /\ "queued" \in PcStates
      /\ "running" \in PcStates /\ "returning" \in PcStates
      /\ "replenishing" \in PcStates /\ "done" \in PcStates
  BY DEF PcStates
<1>b. "none" \in ProcStates /\ "exited" \in ProcStates /\ "signaled" \in ProcStates
  BY DEF ProcStates
<1>c. \A e \in Executors : Killed(e) \in ProcStates
  BY DEF Killed, TypeOK, ProcStates
<1>d. \A c \in Calls : \A v \in PcStates : [pc EXCEPT ![c] = v] \in [Calls -> PcStates]
  BY DEF TypeOK
<1>1. ASSUME NEW c \in Calls, CallPool(c)
      PROVE  TypeOK'
  BY <1>1, <1>a, LinesType
     DEF CallPool, Receive, TypeOK, procVars
<1>2. ASSUME NEW c \in Calls, NEW x \in Calls, CallExec(c, x)
      PROVE  TypeOK'
  <2> DEFINE e == contextExecutors[x]
  <2>1. /\ Receive(c, "exec", x)
        /\ UNCHANGED << buf, result, spawned, maker, stage, proc, hasLock, inbox, out, poolVars >>
        /\ \/ /\ e # NoExecutor
              /\ ex' = [ex EXCEPT ![c] = e]
              /\ line' = [line EXCEPT ![e] = Append(@, c)]
              /\ pc' = [pc EXCEPT ![c] = "queued"]
              /\ UNCHANGED outcome
           \/ End(c, "failed") /\ UNCHANGED << ex, line >>
    BY <1>2 DEF CallExec
  <2>2. pc' \in [Calls -> PcStates]
    BY <2>1, <1>a, <1>d, EndType
  <2>3. outcome' \in [Calls -> {"none", "ok", "failed", "timedout"}]
    BY <2>1, EndType DEF TypeOK
  <2>4. e \in Executors \cup {NoExecutor}
    BY DEF TypeOK
  <2>5. ex' \in [Calls -> Executors \cup {NoExecutor}]
    BY <2>1, <2>4 DEF TypeOK
  <2>6. line' \in [Executors -> Seq(Calls)]
    <3>1. CASE e \in Executors
      <4>1. Append(line[e], c) \in Seq(Calls)
        BY <3>1 DEF TypeOK
      <4> QED
        BY <2>1, <4>1 DEF TypeOK
    <3>2. CASE e = NoExecutor
      BY <2>1, <3>2 DEF TypeOK
    <3> QED
      BY <2>4, <3>1, <3>2
  <2> QED
    BY <2>1, <2>2, <2>3, <2>5, <2>6 DEF Receive, TypeOK, poolVars
<1>3. ASSUME NEW c \in Calls, NEW x \in Calls, CallDeleteWithoutExecutor(c, x)
      PROVE  TypeOK'
  BY <1>3, <1>a DEF CallDeleteWithoutExecutor, Receive, End, TypeOK, procVars
<1>4. ASSUME NEW c \in Calls, NEW x \in Calls, CallDelete(c, x)
      PROVE  TypeOK'
  <2> DEFINE e == contextExecutors[x]
             needed == IF Cardinality(available) < MinSize
                         THEN MinSize - Cardinality(available) ELSE 0
             begun == IF Cardinality(pool \ {e}) < MaxProcesses THEN needed ELSE 0
  <2>1. begun \in Nat
    BY CountType, SizeAssumption
  <2> HIDE DEF begun
  <2>2. KillAndSpawn({e}, begun, c)
    BY <1>4 DEF CallDelete, begun
  <2>3. /\ Receive(c, "delete", x)
        /\ contextExecutors' = [contextExecutors EXCEPT ![x] = NoExecutor]
        /\ pool' = pool \ {e}
        /\ contexts' \in {contexts, contexts \ {x}}
        /\ \/ pc' = [pc EXCEPT ![c] = "replenishing"] /\ outcome' = outcome
           \/ End(c, "ok")
           \/ End(c, "failed")
        /\ UNCHANGED << ex, buf, result, available, poolLine, warmed >>
    BY <1>4 DEF CallDelete
  <2> QED
    <3>1. pc' \in [Calls -> PcStates]
      BY <2>3, <1>a, <1>d, EndType
    <3>a. outcome' \in [Calls -> {"none", "ok", "failed", "timedout"}]
      BY <2>3, EndType DEF TypeOK
    <3>2. /\ spawned' \in 0..MaxSpawns
          /\ maker' \in [Executors -> Calls \cup {None}]
          /\ stage' \in [Executors -> {"unused", "starting", "ready", "failed"}]
          /\ proc' \in [Executors -> ProcStates]
          /\ hasLock' \in [Executors -> BOOLEAN]
          /\ UNCHANGED << line, inbox, out >>
      BY <2>1, <2>2, KillAndSpawnType
    <3> QED
      BY <2>3, <3>1, <3>a, <3>2 DEF Receive, TypeOK
<1>5. ASSUME NEW c \in Calls, SpawnForCall(c)
      PROVE  TypeOK'
  <2>1. /\ OwnsPool(c, "pooling")
        /\ UNCHANGED << op, cx, ex, buf, result, pool, available, contextExecutors,
                        contexts, warmed >>
        /\ \/ End(c, "failed") /\ poolLine' = Tail(poolLine)
           \/ pc' = [pc EXCEPT ![c] = "spawning"] /\ UNCHANGED << outcome, poolLine >>
    BY <1>5 DEF SpawnForCall
  <2>2. pc' \in [Calls -> PcStates]
    BY <2>1, <1>a, <1>d, EndType
  <2>a. outcome' \in [Calls -> {"none", "ok", "failed", "timedout"}]
    BY <2>1, EndType DEF TypeOK
  <2>3. poolLine' \in Seq(Calls)
    BY <2>1, LinesType DEF OwnsPool, TypeOK
  <2>4. /\ spawned' \in 0..MaxSpawns
        /\ maker' \in [Executors -> Calls \cup {None}]
        /\ stage' \in [Executors -> {"unused", "starting", "ready", "failed"}]
        /\ proc' \in [Executors -> ProcStates]
        /\ hasLock' \in [Executors -> BOOLEAN]
        /\ UNCHANGED << line, inbox, out >>
    <3>1. CASE UNCHANGED procVars
      BY <3>1 DEF TypeOK, procVars
    <3>2. CASE KillAndSpawn({}, 1, c)
      BY <3>2, KillAndSpawnType
    <3> QED
      BY <1>5, <3>1, <3>2 DEF SpawnForCall
  <2> QED
    BY <2>1, <2>2, <2>a, <2>3, <2>4 DEF TypeOK
<1>6. ASSUME NEW c \in Calls, NEW e \in Executors, Borrow(c, e)
      PROVE  TypeOK'
  <2>1. /\ poolLine # << >>
        /\ ex' = [ex EXCEPT ![c] = e]
        /\ pc' = [pc EXCEPT ![c] = "queued"] \/ pc' = [pc EXCEPT ![c] = "returning"]
        /\ outcome' = outcome \/ outcome' = [outcome EXCEPT ![c] = "failed"]
        /\ line' = line \/ line' = [line EXCEPT ![e] = Append(@, c)]
        /\ poolLine' = Tail(poolLine) \/ poolLine' = Append(Tail(poolLine), c)
        /\ available' = available \ {e}
    BY <1>6 DEF Borrow, OwnsPool
  <2>2. pc' \in [Calls -> PcStates]
    BY <2>1, <1>a, <1>d
  <2>3. poolLine' \in Seq(Calls)
    <3>1. Tail(poolLine) \in Seq(Calls) /\ Append(Tail(poolLine), c) \in Seq(Calls)
      BY <2>1, LinesType DEF TypeOK
    <3> QED
      BY <2>1, <3>1
  <2>4. line' \in [Executors -> Seq(Calls)]
    <3>1. Append(line[e], c) \in Seq(Calls)
      BY DEF TypeOK
    <3> QED
      BY <2>1, <3>1 DEF TypeOK
  <2> QED
    <3>1. outcome' \in [Calls -> {"none", "ok", "failed", "timedout"}]
      BY <2>1 DEF TypeOK
    <3>2. ex' \in [Calls -> Executors \cup {NoExecutor}]
      BY <2>1 DEF TypeOK
    <3>3. available' \subseteq Executors
      BY <2>1 DEF TypeOK
    <3> QED
      BY <1>6, <2>2, <2>3, <2>4, <3>1, <3>2, <3>3 DEF Borrow, TypeOK
<1>7. ASSUME NEW c \in Calls, NEW e \in Executors, Reserve(c, e)
      PROVE  TypeOK'
  BY <1>7, <1>a, LinesType DEF Reserve, OwnsPool, End, TypeOK, procVars
<1>8. ASSUME NEW c \in Calls, Return(c)
      PROVE  TypeOK'
  BY <1>8, <1>a, LinesType DEF Return, OwnsPool, TypeOK, procVars, LineInv
<1>9. ASSUME NEW c \in Calls, Begin(c)
      PROVE  TypeOK'
  <2>1. /\ pc' \in [Calls -> PcStates]
        /\ buf' \in [Calls -> Seq(Calls \X {1, 2})]
    BY <1>9, <1>a DEF Begin, TypeOK
  <2>2. inbox' \in [Executors -> SUBSET Calls]
    BY <1>9, <1>a DEF Begin, TypeOK
  <2> QED
    BY <1>9, <2>1, <2>2 DEF Begin, TypeOK, poolVars
<1>10. ASSUME NEW c \in Calls, ExecTimesOut(c)
       PROVE  TypeOK'
  BY <1>10, FinishType DEF ExecTimesOut, TypeOK
<1>11. ASSUME NEW c \in Calls, Replenished(c)
       PROVE  TypeOK'
  <2>1. \E how \in {"ok", "failed"} : End(c, how)
    BY <1>11 DEF Replenished
  <2>2. pc' \in [Calls -> PcStates] /\ outcome' \in [Calls -> {"none", "ok", "failed", "timedout"}]
    BY <2>1, <1>a DEF End, TypeOK
  <2> QED
    BY <1>11, <2>2 DEF Replenished, TypeOK, procVars
<1>12. ASSUME NEW e \in Executors, ReadyIdle(e)
       PROVE  TypeOK'
  <2>1. warmed' \in 0..MinSize
    <3>1. CASE Purpose(e) = "warm"
      <4>1. maker[e] = None
        BY <1>12, <3>1, OpsAssumption DEF Purpose, TypeOK, AllOps, SpawnInv
      <4> QED
        BY <1>12, <4>1, SizeAssumption DEF ReadyIdle, Ready, TypeOK, SpawnInv
    <3>2. CASE Purpose(e) # "warm"
      BY <1>12, <3>2 DEF ReadyIdle, TypeOK
    <3> QED
      BY <3>1, <3>2
  <2> QED
    BY <1>12, <2>1 DEF ReadyIdle, Ready, TypeOK, callVars
<1>13. ASSUME NEW e \in Executors, ReadyToRun(e)
       PROVE  TypeOK'
  BY <1>13, <1>a, SpawnerOwns, LinesType DEF ReadyToRun, Ready, TypeOK
<1>14. ASSUME NEW e \in Executors, ReadyForContext(e)
       PROVE  TypeOK'
  BY <1>14, <1>a, SpawnerOwns, LinesType DEF ReadyForContext, Ready, End, TypeOK
<1>15. ASSUME NEW e \in Executors, SpawnTimesOut(e)
       PROVE  TypeOK'
  <2>1. Reject(e) /\ stage[e] = "starting" /\ UNCHANGED hasLock
    BY <1>15 DEF SpawnTimesOut
  <2>2. proc' \in [Executors -> ProcStates]
    BY <1>15, <1>c DEF SpawnTimesOut, TypeOK
  <2> QED
    BY <2>1, <2>2, RejectType DEF TypeOK
<1>16. ASSUME NEW e \in Executors, SpawnErrors(e)
       PROVE  TypeOK'
  <2>1. Reject(e) /\ stage[e] = "starting" /\ UNCHANGED hasLock
    BY <1>16 DEF SpawnErrors
  <2>2. proc' \in [Executors -> ProcStates]
    BY <1>16, <1>b DEF SpawnErrors, TypeOK
  <2> QED
    BY <2>1, <2>2, RejectType DEF TypeOK
<1>17. ASSUME NEW e \in Executors, ExitsWhileStarting(e)
       PROVE  TypeOK'
  <2>1. /\ stage[e] = "starting"
        /\ hasLock' = [hasLock EXCEPT ![e] = FALSE]
        /\ \/ UNCHANGED << callVars, spawned, maker, stage, line, inbox, out, poolVars >>
           \/ Reject(e)
        /\ \E how \in {"exited", "signaled"} : proc' = [proc EXCEPT ![e] = how]
    BY <1>17 DEF ExitsWhileStarting
  <2>2. proc' \in [Executors -> ProcStates] /\ hasLock' \in [Executors -> BOOLEAN]
    BY <2>1, <1>b DEF TypeOK
  <2>3. CASE Reject(e)
    BY <2>1, <2>2, <2>3, RejectType DEF TypeOK
  <2>4. CASE UNCHANGED << callVars, spawned, maker, stage, line, inbox, out, poolVars >>
    BY <2>2, <2>4 DEF TypeOK, callVars, poolVars
  <2> QED
    BY <2>1, <2>3, <2>4
<1>18. ASSUME NEW e \in Executors, Exit(e)
       PROVE  TypeOK'
  BY <1>18, <1>b DEF Exit, TypeOK, callVars
<1>19. ASSUME NEW e \in Executors, NEW d \in Calls, Respond(e, d)
       PROVE  TypeOK'
  <2>1. Response(d) \in Seq(Calls \X {1, 2})
    BY DEF Response
  <2> QED
    BY <1>19, <2>1, ConcatMembers DEF Respond, TypeOK, callVars, poolVars
<1>20. ASSUME NEW e \in Executors, NEW n \in 1..Len(out[e]), Deliver(e, n)
       PROVE  TypeOK'
  <2>1. /\ SubSeq(out[e], 1, n) \in Seq(Calls \X {1, 2})
        /\ SubSeq(out[e], n + 1, Len(out[e])) \in Seq(Calls \X {1, 2})
    BY SplitMembers DEF TypeOK
  <2>2. out' \in [Executors -> Seq(Calls \X {1, 2})]
    BY <1>20, <2>1 DEF Deliver, TypeOK
  <2>3. UNCHANGED << spawned, maker, stage, proc, hasLock, inbox, pool, available,
                    contextExecutors, contexts, warmed >>
    BY <1>20 DEF Deliver
  <2>4. CASE UNCHANGED << callVars, line, poolLine >>
    BY <2>2, <2>3, <2>4 DEF TypeOK, callVars
  <2>5. ASSUME NEW c \in Calls, pc[c] = "running", UNCHANGED << op, cx, ex >>,
               NEW d \in Calls, result' = [result EXCEPT ![c] = d], Finish(c, "ok")
        PROVE  TypeOK'
    BY <2>2, <2>3, <2>5, FinishType DEF TypeOK
  <2>6. ASSUME NEW c \in Calls, UNCHANGED << op, cx, ex >>,
               buf' = [buf EXCEPT ![c] = @ \o SubSeq(out[e], 1, n)],
               UNCHANGED << pc, outcome, result, line, poolLine >>
        PROVE  TypeOK'
    <3>1. buf[c] \o SubSeq(out[e], 1, n) \in Seq(Calls \X {1, 2})
      BY <2>1, ConcatMembers DEF TypeOK
    <3>2. buf' \in [Calls -> Seq(Calls \X {1, 2})]
      BY <3>1, <2>6 DEF TypeOK
    <3> QED
      BY <2>2, <2>3, <2>6, <3>2 DEF TypeOK
  <2> QED
    BY <1>20, <2>4, <2>5, <2>6 DEF Deliver
<1>21. CASE WarmUp
  <2>1. CASE UNCHANGED procVars
    BY <1>21, <2>1, SizeAssumption DEF WarmUp, TypeOK, callVars, procVars
  <2>2. CASE KillAndSpawn({}, 1, None)
    <3>1. /\ spawned' \in 0..MaxSpawns
          /\ maker' \in [Executors -> Calls \cup {None}]
          /\ stage' \in [Executors -> {"unused", "starting", "ready", "failed"}]
          /\ proc' \in [Executors -> ProcStates]
          /\ hasLock' \in [Executors -> BOOLEAN]
          /\ UNCHANGED << line, inbox, out >>
      BY <2>2, KillAndSpawnType
    <3>2. warmed' \in 0..MinSize
      BY <1>21, SizeAssumption DEF WarmUp, TypeOK
    <3> QED
      BY <1>21, <3>1, <3>2 DEF WarmUp, TypeOK, callVars
  <2> QED
    BY <1>21, <2>1, <2>2 DEF WarmUp
<1>22. ASSUME NEW old \in SUBSET available, CleanIdle(old)
       PROVE  TypeOK'
  BY <1>22, KillAndSpawnType DEF CleanIdle, TypeOK, callVars
<1> QED
  BY <1>1, <1>2, <1>3, <1>4, <1>5, <1>6, <1>7, <1>8, <1>9, <1>10, <1>11, <1>12,
     <1>13, <1>14, <1>15, <1>16, <1>17, <1>18, <1>19, <1>20, <1>21, <1>22
     DEF Next, NewCall, Pooling

-----------------------------------------------------------------------------
(***************************************************************************)
(* SpawnInv                                                                *)
(***************************************************************************)

\* What calls may do without disturbing the spawns under way.
CallsGoOn ==
  /\ \A c \in Calls : pc[c] # "idle" => pc'[c] # "idle" /\ op'[c] = op[c]
  /\ \A c \in Calls : pc'[c] # "idle" => op'[c] \in Ops
  /\ \A c \in Calls : pc[c] = "spawning" => pc'[c] = "spawning"
  /\ \A c \in Calls : pc'[c] = "pooling" => pc[c] \in {"idle", "pooling"}

\* Steps that leave the processes alone.
LEMMA SpawnKept ==
  ASSUME TypeOK, SpawnInv, CallsGoOn,
         UNCHANGED << spawned, maker, stage, proc, hasLock, warmed >>
  PROVE  SpawnInv'
<1> USE DEF CallsGoOn
<1>1. \A e \in Executors : maker[e] # None => maker[e] \in Calls
  BY DEF TypeOK
<1>2. \A e \in Executors : maker[e] # None => pc'[maker[e]] # "idle" /\ op'[maker[e]] = op[maker[e]]
  BY <1>1 DEF SpawnInv
<1>3. \A e \in Executors :
        stage[e] = "starting" /\ maker[e] # None /\ op[maker[e]] \in {"run", "create"}
          => pc'[maker[e]] = "spawning"
  BY <1>1 DEF SpawnInv
<1>4. \A e \in Executors :
        maker[e] # None /\ op[maker[e]] \in {"run", "create"} => pc'[maker[e]] # "pooling"
  BY <1>1 DEF SpawnInv
<1> QED
  BY <1>1, <1>2, <1>3, <1>4 DEF SpawnInv

\* Executor e is ready or has failed, and only the call that waits for it moves.
LEMMA SpawnSettled ==
  ASSUME TypeOK, SpawnInv, NEW e \in Executors, stage[e] = "starting",
         NEW v \in {"ready", "failed"}, stage' = [stage EXCEPT ![e] = v],
         UNCHANGED << op, spawned, maker >>,
         \A f \in Executors : f # e => proc'[f] = proc[f] /\ hasLock'[f] = hasLock[f],
         warmed' = warmed \/ maker[e] = None,
         \A c \in Calls : \/ pc'[c] = pc[c]
                          \/ /\ c = maker[e] /\ op[c] \in {"run", "create"}
                             /\ pc'[c] \notin {"idle", "pooling"}
  PROVE  SpawnInv'
<1>1. stage'[e] = v /\ \A f \in Executors : f # e => stage'[f] = stage[f]
  BY DEF TypeOK
<1>2. \A f \in Executors : maker[f] # None => maker[f] \in Calls
  BY DEF TypeOK
<1>3. \A f \in Executors : f > spawned' => f # e
  BY DEF SpawnInv
<1>4. \A c \in Calls : pc[c] # "idle" => pc'[c] # "idle"
  OBVIOUS
<1>a. \A c \in Calls : pc'[c] # "idle" => op'[c] \in Ops
  BY <1>2, NoneAssumption DEF SpawnInv
<1>5. \A f \in Executors :
        stage'[f] = "starting" => f # e /\ stage[f] = "starting" /\ proc'[f] = proc[f]
                                        /\ hasLock'[f] = hasLock[f]
  BY <1>1
<1>6. \A f \in Executors :
        stage'[f] = "starting" /\ maker[f] # None /\ op[maker[f]] \in {"run", "create"}
          => pc'[maker[f]] = "spawning"
  <2> SUFFICES ASSUME NEW f \in Executors, stage'[f] = "starting", maker[f] # None,
                      op[maker[f]] \in {"run", "create"}
               PROVE  pc'[maker[f]] = "spawning"
    OBVIOUS
  <2>1. pc[maker[f]] = "spawning" /\ maker[f] # maker[e]
    BY <1>5 DEF SpawnInv
  <2> QED
    BY <1>2, <2>1
<1>7. \A f \in Executors : stage'[f] = "starting" /\ maker[f] = None => warmed' < MinSize
  BY <1>5 DEF SpawnInv
<1>8. \A f \in Executors : stage'[f] = "unused" => proc'[f] = "none"
  BY <1>1 DEF SpawnInv
<1>9. \A f \in Executors :
        maker[f] # None /\ op[maker[f]] \in {"run", "create"} => pc'[maker[f]] # "pooling"
  BY <1>2 DEF SpawnInv
<1>10. \A f \in Executors : f > spawned' => stage'[f] = "unused"
  BY <1>1, <1>3 DEF SpawnInv
<1>11. \A f \in Executors : maker[f] # None => pc'[maker[f]] # "idle"
  BY <1>2, <1>4 DEF SpawnInv
<1>12. \A f, g \in Executors :
         stage'[f] = "starting" /\ stage'[g] = "starting" /\ maker[f] = None /\ maker[g] = None
           => f = g
  BY <1>5 DEF SpawnInv
<1>13. \A f \in Executors : stage'[f] = "starting" /\ proc'[f] = "running" => hasLock'[f]
  BY <1>5 DEF SpawnInv
<1> QED
  BY <1>a, <1>6, <1>7, <1>8, <1>9, <1>10, <1>11, <1>12, <1>13 DEF SpawnInv

\* An executor that has been spawned goes, and its mutex with it.
LEMMA SpawnStops ==
  ASSUME TypeOK, SpawnInv, NEW e \in Executors, stage[e] # "unused",
         NEW v \in ProcStates \ {"running"}, proc' = [proc EXCEPT ![e] = v],
         hasLock' = [hasLock EXCEPT ![e] = FALSE],
         UNCHANGED << op, pc, spawned, maker, stage, warmed >>
  PROVE  SpawnInv'
<1>1. proc'[e] # "running"
  BY DEF TypeOK
<1>2. \A f \in Executors : f # e => proc'[f] = proc[f] /\ hasLock'[f] = hasLock[f]
  BY DEF TypeOK
<1>3. \A f \in Executors : stage'[f] = "starting" /\ proc'[f] = "running" => hasLock'[f]
  BY <1>1, <1>2 DEF SpawnInv
<1>4. \A f \in Executors : stage'[f] = "unused" => proc'[f] = "none"
  BY <1>1, <1>2 DEF SpawnInv
<1> QED
  BY <1>3, <1>4 DEF SpawnInv

\* What createProcess does to each executor.
LEMMA KillAndSpawnEach ==
  ASSUME TypeOK, SpawnInv, NEW dying \in SUBSET Executors, NEW n \in Nat,
         NEW c \in Calls \cup {None}, KillAndSpawn(dying, n, c),
         \A e \in dying : stage[e] = "ready"
  PROVE  /\ spawned' = spawned + n
         /\ \A e \in Executors :
              \/ /\ stage[e] = "unused"
                 /\ e \in (spawned + 1)..(spawned + n)
                 /\ e \notin dying
                 /\ maker'[e] = c
                 /\ stage'[e] = "starting"
                 /\ proc'[e] = "running"
                 /\ hasLock'[e]
              \/ /\ e \notin (spawned + 1)..(spawned + n)
                 /\ maker'[e] = maker[e]
                 /\ stage'[e] = stage[e]
                 /\ IF e \in dying THEN proc'[e] = Killed(e) /\ ~ hasLock'[e]
                                   ELSE proc'[e] = proc[e] /\ hasLock'[e] = hasLock[e]
<1> DEFINE new == (spawned + 1)..(spawned + n)
<1>1. \A e \in Executors : e \in new => e > spawned
  BY DEF TypeOK, Executors
<1>2. \A e \in Executors : e \in new => stage[e] = "unused" /\ e \notin dying
  BY <1>1 DEF SpawnInv
<1> HIDE DEF new
<1>3. /\ spawned' = spawned + n
      /\ maker' = [e \in Executors |-> IF e \in new THEN c ELSE maker[e]]
      /\ stage' = [e \in Executors |-> IF e \in new THEN "starting" ELSE stage[e]]
      /\ proc' = [e \in Executors |->
                    CASE e \in new   -> "running"
                      [] e \in dying -> Killed(e)
                      [] OTHER       -> proc[e]]
      /\ hasLock' = [e \in Executors |-> e \in new \/ (hasLock[e] /\ e \notin dying)]
  BY DEF KillAndSpawn, new
<1>4. ASSUME NEW e \in Executors, e \in new
      PROVE  maker'[e] = c /\ stage'[e] = "starting" /\ proc'[e] = "running" /\ hasLock'[e]
  <2>1. hasLock'[e] = (e \in new \/ (hasLock[e] /\ e \notin dying))
    BY <1>3
  <2>2. maker'[e] = c
    BY <1>3, <1>4
  <2>3. stage'[e] = "starting"
    BY <1>3, <1>4
  <2>4. proc'[e] = "running"
    BY <1>2, <1>3, <1>4
  <2> QED
    BY <1>4, <2>1, <2>2, <2>3, <2>4
<1>5. ASSUME NEW e \in Executors, e \notin new
      PROVE  maker'[e] = maker[e] /\ stage'[e] = stage[e]
  BY <1>3, <1>5
<1>6. ASSUME NEW e \in Executors, e \notin new, e \in dying
      PROVE  proc'[e] = Killed(e) /\ ~ hasLock'[e]
  BY <1>3, <1>6
<1>7. ASSUME NEW e \in Executors, e \notin new, e \notin dying
      PROVE  proc'[e] = proc[e] /\ hasLock'[e] = hasLock[e]
  <2>1. hasLock[e] \in BOOLEAN
    BY DEF TypeOK
  <2>2. proc'[e] = proc[e]
    BY <1>3, <1>7
  <2>3. hasLock'[e] = (e \in new \/ (hasLock[e] /\ e \notin dying))
    BY <1>3
  <2> QED
    BY <1>7, <2>1, <2>2, <2>3
<1> QED
  BY <1>2, <1>3, <1>4, <1>5, <1>6, <1>7 DEF new

\* New processes start: for call c, or to warm up.
LEMMA SpawnMore ==
  ASSUME TypeOK, SpawnInv, CallsGoOn, NEW dying \in SUBSET Executors, NEW n \in Nat,
         NEW c \in Calls \cup {None}, KillAndSpawn(dying, n, c),
         \A e \in dying : stage[e] = "ready",
         warmed' = warmed,
         c = None /\ n # 0 =>
           /\ n = 1 /\ warmed < MinSize
           /\ \A e \in Executors : stage[e] = "starting" => maker[e] # None,
         c # None => pc'[c] # "idle",
         c # None /\ op'[c] \in {"run", "create"} =>
           n = 1 /\ pc[c] = "pooling" /\ pc'[c] = "spawning"
  PROVE  SpawnInv'
<1> DEFINE new == (spawned + 1)..(spawned + n)
<1>1. \A e \in Executors : spawned \in Nat /\ e \in Nat /\ spawned' = spawned + n
  <2>1. spawned' = spawned + n
    BY DEF KillAndSpawn
  <2> QED
    BY <2>1, BoundAssumption DEF TypeOK, Executors
<1>2. \A e \in Executors : e > spawned' => e > spawned /\ e \notin new
  BY <1>1
<1>3. \A e, f \in Executors : e \in new /\ f \in new /\ n = 1 => e = f
  BY <1>1
<1>4. \A e \in Executors : e \in new => n # 0
  BY <1>1
<1> HIDE DEF new
<1>5. \A e \in Executors :
        \/ /\ stage[e] = "unused" /\ e \in new /\ maker'[e] = c
           /\ stage'[e] = "starting" /\ proc'[e] = "running" /\ hasLock'[e]
        \/ /\ e \notin new /\ maker'[e] = maker[e] /\ stage'[e] = stage[e]
           /\ \/ stage[e] = "ready"
              \/ proc'[e] = proc[e] /\ hasLock'[e] = hasLock[e]
  BY KillAndSpawnEach DEF new
<1>6. \A e \in Executors : maker[e] # None =>
        maker[e] \in Calls /\ pc[maker[e]] # "idle" /\ op'[maker[e]] = op[maker[e]]
  BY DEF TypeOK, SpawnInv, CallsGoOn
<1>7. \A e \in Executors :
        stage[e] = "starting" /\ maker[e] # None /\ op[maker[e]] \in {"run", "create"}
          => pc[maker[e]] = "spawning" /\ pc'[maker[e]] = "spawning"
  BY <1>6 DEF SpawnInv, CallsGoOn
<1>8. \A e \in Executors : e > spawned' => stage'[e] = "unused"
  BY <1>2, <1>5 DEF SpawnInv
<1>9. \A e \in Executors : stage'[e] = "unused" => proc'[e] = "none"
  BY <1>5 DEF SpawnInv
<1>10. \A e \in Executors : stage'[e] = "starting" /\ proc'[e] = "running" => hasLock'[e]
  BY <1>5 DEF SpawnInv
<1>11. \A e \in Executors : maker'[e] # None => pc'[maker'[e]] # "idle"
  BY <1>5, <1>6 DEF CallsGoOn
<1>12. \A e \in Executors :
         stage'[e] = "starting" /\ maker'[e] # None /\ op'[maker'[e]] \in {"run", "create"}
           => pc'[maker'[e]] = "spawning"
  BY <1>5, <1>6, <1>7
<1>a. \A e \in Executors :
        maker'[e] # None /\ op'[maker'[e]] \in {"run", "create"} => pc'[maker'[e]] # "pooling"
  BY <1>5, <1>6 DEF SpawnInv, CallsGoOn
<1>b. \A e, f \in Executors :
        stage'[e] = "starting" /\ stage'[f] = "starting" /\ maker'[e] = None /\ maker'[f] = None
          => e = f
  BY <1>3, <1>4, <1>5 DEF SpawnInv
<1>13. ASSUME NEW e \in Executors, NEW f \in Executors,
              maker'[e] = maker'[f], maker'[e] # None, op'[maker'[e]] \in {"run", "create"}
       PROVE  e = f
  <2>1. CASE e \in new /\ f \in new
    BY <2>1, <1>3, <1>5, <1>13
  <2>2. CASE e \notin new /\ f \notin new
    <3>1. maker[e] = maker[f] /\ maker[e] # None /\ op[maker[e]] \in {"run", "create"}
      BY <2>2, <1>5, <1>6, <1>13
    <3> QED
      BY <3>1 DEF SpawnInv
  <2>3. ASSUME NEW g \in Executors, g \notin new, maker'[g] = c, c # None,
               op'[c] \in {"run", "create"}
        PROVE  FALSE
    <3>1. maker[g] = c /\ op[c] \in {"run", "create"}
      BY <2>3, <1>5, <1>6
    <3>2. pc[c] # "pooling"
      BY <2>3, <3>1 DEF SpawnInv
    <3> QED
      BY <2>3, <3>2
  <2>4. CASE e \in new /\ f \notin new
    BY <2>3, <2>4, <1>5, <1>13
  <2>5. CASE e \notin new /\ f \in new
    BY <2>3, <2>5, <1>5, <1>13
  <2> QED
    BY <2>1, <2>2, <2>4, <2>5
<1>14. \A e \in Executors : stage'[e] = "starting" /\ maker'[e] = None => warmed' < MinSize
  BY <1>4, <1>5 DEF SpawnInv
<1>15. \A b \in Calls : pc'[b] # "idle" => op'[b] \in Ops
  BY DEF CallsGoOn
<1> QED
  BY <1>8, <1>9, <1>10, <1>11, <1>12, <1>13, <1>14, <1>15, <1>a, <1>b
     DEF SpawnInv

\* A spawn that fails disturbs no other.
LEMMA SpawnRejected ==
  ASSUME TypeOK, SpawnInv, PoolLineInv, NEW e \in Executors, stage[e] = "starting",
         Reject(e), \A f \in Executors : f # e => proc'[f] = proc[f] /\ hasLock'[f] = hasLock[f]
  PROVE  SpawnInv'
<1>1. stage' = [stage EXCEPT ![e] = "failed"] /\ UNCHANGED << op, spawned, maker >>
  BY DEF Reject
<1>2. \A c \in Calls : \/ pc'[c] = pc[c]
                       \/ /\ c = maker[e] /\ op[c] \in {"run", "create"}
                          /\ pc'[c] \notin {"idle", "pooling"}
  <2>1. CASE Purpose(e) \in {"run", "create"}
    BY <2>1, SpawnerOwns DEF Reject, End, TypeOK
  <2>2. CASE Purpose(e) \notin {"run", "create"}
    BY <2>2 DEF Reject
  <2> QED
    BY <2>1, <2>2
<1>3. warmed' = warmed \/ maker[e] = None
  <2>1. CASE maker[e] # None
    <3>1. Purpose(e) # "warm"
      BY <2>1, OpsAssumption DEF Purpose, TypeOK, AllOps, SpawnInv
    <3> QED
      BY <3>1 DEF Reject
  <2> QED
    BY <2>1
<1> QED
  BY <1>1, <1>2, <1>3, SpawnSettled

\* Every step keeps SpawnInv.
LEMMA SpawnStep ==
  ASSUME TypeOK, SpawnInv, PoolLineInv, LineInv, HoldInv, Next
  PROVE  SpawnInv'
<1>1. ASSUME NEW c \in Calls, CallPool(c)
      PROVE  SpawnInv'
  <2>1. CallsGoOn
    BY <1>1 DEF CallPool, Receive, CallsGoOn, SpawnInv, TypeOK
  <2> QED
    BY <1>1, <2>1, SpawnKept DEF CallPool, procVars
<1>2. ASSUME NEW c \in Calls, NEW x \in Calls, CallExec(c, x)
      PROVE  SpawnInv'
  <2>1. Receive(c, "exec", x) /\ \E v \in {"queued", "done"} : pc' = [pc EXCEPT ![c] = v]
    BY <1>2 DEF CallExec, End
  <2>2. CallsGoOn
    BY <2>1 DEF Receive, CallsGoOn, SpawnInv, TypeOK
  <2> QED
    BY <1>2, <2>2, SpawnKept DEF CallExec, poolVars
<1>3. ASSUME NEW c \in Calls, NEW x \in Calls, CallDeleteWithoutExecutor(c, x)
      PROVE  SpawnInv'
  <2>1. CallsGoOn
    BY <1>3 DEF CallDeleteWithoutExecutor, Receive, End, CallsGoOn, SpawnInv, TypeOK
  <2> QED
    BY <1>3, <2>1, SpawnKept DEF CallDeleteWithoutExecutor, procVars
<1>4. ASSUME NEW c \in Calls, NEW x \in Calls, CallDelete(c, x)
      PROVE  SpawnInv'
  <2> DEFINE e == contextExecutors[x]
             needed == IF Cardinality(available) < MinSize
                         THEN MinSize - Cardinality(available) ELSE 0
             begun == IF Cardinality(pool \ {e}) < MaxProcesses THEN needed ELSE 0
  <2>1. begun \in Nat
    BY CountType, SizeAssumption
  <2> HIDE DEF begun
  <2>2. KillAndSpawn({e}, begun, c) /\ Receive(c, "delete", x) /\ e # NoExecutor
    BY <1>4 DEF CallDelete, begun
  <2>3. \E v \in {"replenishing", "done"} : pc' = [pc EXCEPT ![c] = v]
    BY <1>4 DEF CallDelete, End
  <2>4. CallsGoOn
    BY <2>2, <2>3 DEF Receive, CallsGoOn, SpawnInv, TypeOK
  <2>5. e \in Executors /\ stage[e] = "ready"
    BY <2>2 DEF TypeOK, HoldInv
  <2>6. pc'[c] # "idle" /\ op'[c] \notin {"run", "create"} /\ c # None
    BY <2>2, <2>3, NoneAssumption DEF Receive, TypeOK
  <2>7. warmed' = warmed /\ {e} \in SUBSET Executors /\ \A f \in {e} : stage[f] = "ready"
    BY <1>4, <2>5 DEF CallDelete
  <2> HIDE DEF e
  <2> QED
    BY <2>1, <2>2, <2>4, <2>6, <2>7, SpawnMore
<1>5. ASSUME NEW c \in Calls, SpawnForCall(c)
      PROVE  SpawnInv'
  <2>1. /\ pc[c] = "pooling"
        /\ \/ UNCHANGED procVars /\ pc' = [pc EXCEPT ![c] = "done"]
           \/ KillAndSpawn({}, 1, c) /\ pc' = [pc EXCEPT ![c] = "spawning"]
        /\ UNCHANGED << op, warmed >>
    BY <1>5 DEF SpawnForCall, OwnsPool, End
  <2>2. CallsGoOn
    BY <2>1 DEF CallsGoOn, SpawnInv, TypeOK
  <2>3. CASE UNCHANGED procVars
    BY <2>1, <2>2, <2>3, SpawnKept DEF procVars
  <2>4. CASE KillAndSpawn({}, 1, c) /\ pc' = [pc EXCEPT ![c] = "spawning"]
    <3>1. pc'[c] = "spawning" /\ c # None
      BY <2>4, NoneAssumption DEF TypeOK
    <3>2. {} \in SUBSET Executors /\ 1 \in Nat /\ \A f \in {} : stage[f] = "ready"
      OBVIOUS
    <3> QED
      BY <2>1, <2>2, <2>4, <3>1, <3>2, SpawnMore
  <2> QED
    BY <2>1, <2>3, <2>4
<1>6. ASSUME NEW c \in Calls, NEW e \in Executors, Borrow(c, e)
      PROVE  SpawnInv'
  <2>1. /\ pc[c] = "pooling"
        /\ pc' = [pc EXCEPT ![c] = "queued"] \/ pc' = [pc EXCEPT ![c] = "returning"]
    BY <1>6 DEF Borrow, OwnsPool
  <2>2. CallsGoOn
    BY <1>6, <2>1 DEF Borrow, CallsGoOn, SpawnInv, TypeOK
  <2> QED
    BY <1>6, <2>2, SpawnKept DEF Borrow
<1>7. ASSUME NEW c \in Calls, NEW e \in Executors, Reserve(c, e)
      PROVE  SpawnInv'
  <2>1. CallsGoOn
    BY <1>7 DEF Reserve, OwnsPool, End, CallsGoOn, SpawnInv, TypeOK
  <2> QED
    BY <1>7, <2>1, SpawnKept DEF Reserve, procVars
<1>8. ASSUME NEW c \in Calls, Return(c)
      PROVE  SpawnInv'
  <2>1. CallsGoOn
    BY <1>8 DEF Return, OwnsPool, CallsGoOn, SpawnInv, TypeOK
  <2> QED
    BY <1>8, <2>1, SpawnKept DEF Return, procVars
<1>9. ASSUME NEW c \in Calls, Begin(c)
      PROVE  SpawnInv'
  <2>1. CallsGoOn
    BY <1>9 DEF Begin, CallsGoOn, SpawnInv, TypeOK
  <2> QED
    BY <1>9, <2>1, SpawnKept DEF Begin, poolVars
<1>a. ASSUME NEW c \in Calls, pc[c] = "running", NEW how, Finish(c, how), op' = op
      PROVE  CallsGoOn
  BY <1>a DEF Finish, CallsGoOn, SpawnInv, TypeOK
<1>10. ASSUME NEW c \in Calls, ExecTimesOut(c)
       PROVE  SpawnInv'
  BY <1>10, <1>a, SpawnKept DEF ExecTimesOut
<1>11. ASSUME NEW c \in Calls, Replenished(c)
       PROVE  SpawnInv'
  <2>1. pc[c] = "replenishing" /\ pc' = [pc EXCEPT ![c] = "done"] /\ op' = op
    BY <1>11 DEF Replenished, End
  <2>2. CallsGoOn
    BY <2>1 DEF CallsGoOn, SpawnInv, TypeOK
  <2> QED
    BY <1>11, <2>2, SpawnKept DEF Replenished, procVars
<1>12. ASSUME NEW e \in Executors, ReadyIdle(e)
       PROVE  SpawnInv'
  <2>1. warmed' = warmed \/ maker[e] = None
    BY <1>12, OpsAssumption DEF ReadyIdle, Purpose, TypeOK, AllOps, SpawnInv
  <2>2. /\ stage[e] = "starting" /\ stage' = [stage EXCEPT ![e] = "ready"]
        /\ UNCHANGED << op, pc, spawned, maker, proc, hasLock >>
    BY <1>12 DEF ReadyIdle, Ready, callVars
  <2> QED
    BY <2>1, <2>2, SpawnSettled
<1>13. ASSUME NEW e \in Executors, ReadyToRun(e)
       PROVE  SpawnInv'
  <2>1. /\ stage[e] = "starting" /\ stage' = [stage EXCEPT ![e] = "ready"]
        /\ UNCHANGED << op, spawned, maker, proc, hasLock, warmed >>
        /\ pc' = [pc EXCEPT ![maker[e]] = "queued"]
        /\ Purpose(e) = "run"
    BY <1>13 DEF ReadyToRun, Ready
  <2>2. op[maker[e]] = "run" /\ \A c \in Calls :
           pc'[c] = pc[c] \/ (c = maker[e] /\ pc'[c] \notin {"idle", "pooling"})
    BY <2>1, SpawnerOwns DEF TypeOK
  <2> QED
    BY <2>1, <2>2, SpawnSettled
<1>14. ASSUME NEW e \in Executors, ReadyForContext(e)
       PROVE  SpawnInv'
  <2>1. /\ stage[e] = "starting" /\ stage' = [stage EXCEPT ![e] = "ready"]
        /\ UNCHANGED << op, spawned, maker, proc, hasLock, warmed >>
        /\ pc' = [pc EXCEPT ![maker[e]] = "done"]
        /\ Purpose(e) = "create"
    BY <1>14 DEF ReadyForContext, Ready, End
  <2>2. op[maker[e]] = "create" /\ \A c \in Calls :
           pc'[c] = pc[c] \/ (c = maker[e] /\ pc'[c] \notin {"idle", "pooling"})
    BY <2>1, SpawnerOwns DEF TypeOK
  <2> QED
    BY <2>1, <2>2, SpawnSettled
<1>15. ASSUME NEW e \in Executors, SpawnTimesOut(e)
       PROVE  SpawnInv'
  BY <1>15, SpawnRejected DEF SpawnTimesOut, TypeOK
<1>16. ASSUME NEW e \in Executors, SpawnErrors(e)
       PROVE  SpawnInv'
  BY <1>16, SpawnRejected DEF SpawnErrors, TypeOK
<1>17. ASSUME NEW e \in Executors, ExitsWhileStarting(e)
       PROVE  SpawnInv'
  <2>1. CASE Reject(e)
    BY <1>17, <2>1, SpawnRejected DEF ExitsWhileStarting, TypeOK
  <2>2. CASE proc' = [proc EXCEPT ![e] = "exited"] /\
             UNCHANGED << callVars, spawned, maker, stage, line, inbox, out, poolVars >>
    <3>1. "exited" \in ProcStates \ {"running"}
      BY DEF ProcStates
    <3> QED
      BY <1>17, <2>2, <3>1, SpawnStops DEF ExitsWhileStarting, callVars, poolVars
  <2> QED
    BY <1>17, <2>1, <2>2 DEF ExitsWhileStarting
<1>18. ASSUME NEW e \in Executors, Exit(e)
       PROVE  SpawnInv'
  <2>1. "exited" \in ProcStates \ {"running"} /\ "signaled" \in ProcStates \ {"running"}
    BY DEF ProcStates
  <2> QED
    BY <1>18, <2>1, SpawnStops DEF Exit, callVars
<1>19. ASSUME NEW e \in Executors, NEW d \in Calls, Respond(e, d)
       PROVE  SpawnInv'
  BY <1>19 DEF Respond, SpawnInv, callVars, poolVars
<1>20. ASSUME NEW e \in Executors, NEW n \in 1..Len(out[e]), Deliver(e, n)
       PROVE  SpawnInv'
  <2>1. UNCHANGED << op, spawned, maker, stage, proc, hasLock, warmed >>
    BY <1>20 DEF Deliver, callVars
  <2>2. \/ UNCHANGED pc
        \/ \E c \in Calls : pc[c] = "running" /\ Finish(c, "ok")
    BY <1>20 DEF Deliver, callVars
  <2>3. CallsGoOn
    BY <2>1, <2>2, <1>a DEF CallsGoOn, SpawnInv
  <2> QED
    BY <2>1, <2>3, SpawnKept
<1>21. CASE WarmUp
  <2>1. CASE UNCHANGED procVars
    BY <1>21, <2>1, SizeAssumption DEF WarmUp, callVars, procVars, SpawnInv
  <2>2. CASE KillAndSpawn({}, 1, None) /\ UNCHANGED warmed
    <3>1. {} \in SUBSET Executors /\ 1 \in Nat /\ \A f \in {} : stage[f] = "ready"
      OBVIOUS
    <3>2. CallsGoOn
      BY <1>21 DEF WarmUp, callVars, CallsGoOn, SpawnInv
    <3> QED
      BY <1>21, <2>2, <3>1, <3>2, SpawnMore DEF WarmUp
  <2> QED
    BY <1>21, <2>1, <2>2 DEF WarmUp
<1>22. ASSUME NEW old \in SUBSET available, CleanIdle(old)
       PROVE  SpawnInv'
  <2>1. old \in SUBSET Executors /\ 0 \in Nat /\ \A f \in old : stage[f] = "ready"
    BY DEF TypeOK, HoldInv
  <2>2. CallsGoOn
    BY <1>22 DEF CleanIdle, callVars, CallsGoOn, SpawnInv
  <2> QED
    BY <1>22, <2>1, <2>2, SpawnMore DEF CleanIdle
<1> QED
  BY <1>1, <1>2, <1>3, <1>4, <1>5, <1>6, <1>7, <1>8, <1>9, <1>10, <1>11, <1>12,
     <1>13, <1>14, <1>15, <1>16, <1>17, <1>18, <1>19, <1>20, <1>21, <1>22
     DEF Next, NewCall, Pooling

-----------------------------------------------------------------------------
(***************************************************************************)
(* PoolLineInv                                                             *)
(***************************************************************************)

\* Steps that neither take nor leave the mutex of the pool.
LEMMA PoolLineKept ==
  ASSUME TypeOK, PoolLineInv, UNCHANGED poolLine,
         \A c \in Calls : pc'[c] \in InPoolLine <=> pc[c] \in InPoolLine,
         \A c \in Calls : pc'[c] = "spawning" =>
           pc[c] = "spawning" \/ (poolLine # << >> /\ Head(poolLine) = c),
         \A c \in Calls : pc'[c] \in {"pooling", "spawning"} =>
           pc[c] \in {"pooling", "spawning"} /\ op'[c] = op[c]
  PROVE  PoolLineInv'
BY DEF PoolLineInv

\* Call c gets in line.
LEMMA PoolLineJoined ==
  ASSUME TypeOK, PoolLineInv, NEW c \in Calls, poolLine' = Append(poolLine, c),
         pc[c] \notin InPoolLine, pc'[c] \in {"pooling", "returning"},
         \A b \in Calls : b # c => pc'[b] = pc[b] /\ op'[b] = op[b],
         pc'[c] = "pooling" => op'[c] \in {"run", "create"}
  PROVE  PoolLineInv'
<1>1. poolLine \in Seq(Calls)
  BY DEF TypeOK
<1>2. /\ poolLine' # << >>
      /\ Head(poolLine') = IF poolLine = << >> THEN c ELSE Head(poolLine)
      /\ Members(poolLine') = Members(poolLine) \cup {c}
      /\ c \notin Members(poolLine)
      /\ Distinct(poolLine')
  BY <1>1, AppendMembers DEF PoolLineInv
<1>3. pc'[c] \in InPoolLine /\ pc'[c] # "spawning"
  BY DEF InPoolLine
<1> QED
  BY <1>2, <1>3 DEF PoolLineInv

\* Call c, the first in line, leaves.
LEMMA PoolLineLeft ==
  ASSUME TypeOK, PoolLineInv, NEW c \in Calls, poolLine # << >>, Head(poolLine) = c,
         poolLine' = Tail(poolLine), pc'[c] \notin InPoolLine,
         \A b \in Calls : b # c => pc'[b] = pc[b], op' = op
  PROVE  PoolLineInv'
<1>1. poolLine \in Seq(Calls)
  BY DEF TypeOK
<1>2. Members(poolLine') = Members(poolLine) \ {c} /\ Distinct(poolLine')
  BY <1>1, TailMembers DEF PoolLineInv
<1>3. \A b \in Calls : pc'[b] # "spawning" /\ (pc'[b] = "pooling" => b # c)
  BY DEF InPoolLine, PoolLineInv
<1> QED
  BY <1>2, <1>3 DEF PoolLineInv

\* Call c, the first in line, goes to its end.
LEMMA PoolLineRejoined ==
  ASSUME TypeOK, PoolLineInv, NEW c \in Calls, poolLine # << >>, Head(poolLine) = c,
         poolLine' = Append(Tail(poolLine), c), pc[c] \in InPoolLine, pc'[c] = "returning",
         \A b \in Calls : b # c => pc'[b] = pc[b], op' = op
  PROVE  PoolLineInv'
<1>1. poolLine \in Seq(Calls)
  BY DEF TypeOK
<1>2. /\ Tail(poolLine) \in Seq(Calls)
      /\ Members(Tail(poolLine)) = Members(poolLine) \ {c}
      /\ c \in Members(poolLine)
      /\ Distinct(Tail(poolLine))
  BY <1>1, TailMembers DEF PoolLineInv
<1>3. Members(poolLine') = Members(Tail(poolLine)) \cup {c} /\ Distinct(poolLine')
  <2> DEFINE t == Tail(poolLine)
  <2>1. t \in Seq(Calls) /\ Distinct(t) /\ c \notin Members(t)
    BY <1>2
  <2> HIDE DEF t
  <2>2. Members(Append(t, c)) = Members(t) \cup {c} /\ Distinct(Append(t, c))
    BY <2>1, AppendMembers
  <2> QED
    BY <2>2 DEF t
<1>4. Members(poolLine') = Members(poolLine)
  BY <1>2, <1>3
<1>5. \A b \in Calls : pc'[b] # "spawning" /\ (pc'[b] = "pooling" => b # c)
  BY DEF PoolLineInv
<1>6. pc'[c] \in InPoolLine
  BY DEF InPoolLine
<1> QED
  BY <1>3, <1>4, <1>5, <1>6 DEF PoolLineInv

\* A spawn that fails lets the call that waits for it go.
LEMMA PoolLineRejected ==
  ASSUME TypeOK, SpawnInv, PoolLineInv, NEW e \in Executors, stage[e] = "starting",
         Reject(e)
  PROVE  PoolLineInv'
<1>1. CASE Purpose(e) \in {"run", "create"}
  <2>1. maker[e] \in Calls /\ poolLine # << >> /\ Head(poolLine) = maker[e]
    BY <1>1, SpawnerOwns
  <2>2. pc' = [pc EXCEPT ![maker[e]] = "done"] /\ poolLine' = Tail(poolLine) /\ op' = op
    BY <1>1 DEF Reject, End
  <2>3. pc'[maker[e]] \notin InPoolLine /\ \A b \in Calls : b # maker[e] => pc'[b] = pc[b]
    BY <2>1, <2>2 DEF TypeOK, InPoolLine
  <2> QED
    BY <2>1, <2>2, <2>3, PoolLineLeft
<1>2. CASE Purpose(e) \notin {"run", "create"}
  BY <1>2, PoolLineKept DEF Reject
<1> QED
  BY <1>1, <1>2

\* The end of a run: a stateless one gets in line to return its executor.
LEMMA PoolLineFinish ==
  ASSUME TypeOK, PoolLineInv, NEW c \in Calls, pc[c] = "running", NEW how,
         Finish(c, how), op' = op
  PROVE  PoolLineInv'
<1>1. pc[c] \notin InPoolLine
  BY DEF InPoolLine
<1>2. CASE op[c] = "run"
  <2>1. pc' = [pc EXCEPT ![c] = "returning"] /\ poolLine' = Append(poolLine, c)
    BY <1>2 DEF Finish
  <2>2. pc'[c] = "returning" /\ \A b \in Calls : b # c => pc'[b] = pc[b]
    BY <2>1 DEF TypeOK
  <2> QED
    BY <1>1, <2>1, <2>2, PoolLineJoined
<1>3. CASE op[c] # "run"
  <2>1. pc' = [pc EXCEPT ![c] = "done"] /\ UNCHANGED poolLine
    BY <1>3 DEF Finish
  <2>2. pc'[c] = "done" /\ \A b \in Calls : b # c => pc'[b] = pc[b]
    BY <2>1 DEF TypeOK
  <2> QED
    BY <1>1, <2>1, <2>2, PoolLineKept DEF InPoolLine
<1> QED
  BY <1>2, <1>3

\* Every step keeps PoolLineInv.
LEMMA PoolLineStep ==
  ASSUME TypeOK, SpawnInv, PoolLineInv, LineInv, HoldInv, Next
  PROVE  PoolLineInv'
<1>a. ASSUME NEW c \in Calls, pc[c] \notin InPoolLine, UNCHANGED poolLine,
             NEW v, v \notin InPoolLine, pc' = [pc EXCEPT ![c] = v],
             \A b \in Calls : b # c => op'[b] = op[b]
      PROVE  PoolLineInv'
  <2>1. pc'[c] = v /\ \A b \in Calls : b # c => pc'[b] = pc[b]
    BY <1>a DEF TypeOK
  <2> QED
    BY <1>a, <2>1, PoolLineKept DEF InPoolLine
<1>b. ASSUME NEW c \in Calls, poolLine # << >>, Head(poolLine) = c,
             poolLine' = Tail(poolLine), op' = op,
             NEW v, v \notin InPoolLine, pc' = [pc EXCEPT ![c] = v]
      PROVE  PoolLineInv'
  <2>1. pc'[c] = v /\ \A b \in Calls : b # c => pc'[b] = pc[b]
    BY <1>b DEF TypeOK
  <2> QED
    BY <1>b, <2>1, PoolLineLeft
<1>c. ASSUME UNCHANGED << op, pc, poolLine >>
      PROVE  PoolLineInv'
  BY <1>c DEF PoolLineInv
<1>d. /\ "queued" \notin InPoolLine /\ "running" \notin InPoolLine /\ "idle" \notin InPoolLine
      /\ "replenishing" \notin InPoolLine /\ "done" \notin InPoolLine
      /\ "pooling" \in InPoolLine /\ "spawning" \in InPoolLine /\ "returning" \in InPoolLine
  BY DEF InPoolLine
<1>1. ASSUME NEW c \in Calls, CallPool(c)
      PROVE  PoolLineInv'
  <2>1. /\ pc[c] = "idle" /\ pc' = [pc EXCEPT ![c] = "pooling"]
        /\ \E o \in {"run", "create"} : op' = [op EXCEPT ![c] = o]
        /\ poolLine' = Append(poolLine, c)
    BY <1>1 DEF CallPool, Receive
  <2>2. /\ pc'[c] = "pooling" /\ op'[c] \in {"run", "create"}
        /\ \A b \in Calls : b # c => pc'[b] = pc[b] /\ op'[b] = op[b]
    BY <2>1 DEF TypeOK
  <2> QED
    BY <2>1, <2>2, <1>d, PoolLineJoined
<1>2. ASSUME NEW c \in Calls, NEW x \in Calls, CallExec(c, x)
      PROVE  PoolLineInv'
  <2>1. /\ pc[c] = "idle" /\ op' = [op EXCEPT ![c] = "exec"] /\ UNCHANGED poolLine
        /\ pc' = [pc EXCEPT ![c] = "queued"] \/ pc' = [pc EXCEPT ![c] = "done"]
    BY <1>2 DEF CallExec, Receive, End, poolVars
  <2>2. \A b \in Calls : b # c => op'[b] = op[b]
    BY <2>1 DEF TypeOK
  <2> QED
    BY <2>1, <2>2, <1>a, <1>d
<1>3. ASSUME NEW c \in Calls, NEW x \in Calls, CallDeleteWithoutExecutor(c, x)
      PROVE  PoolLineInv'
  <2>1. /\ pc[c] = "idle" /\ op' = [op EXCEPT ![c] = "delete"] /\ UNCHANGED poolLine
        /\ pc' = [pc EXCEPT ![c] = "done"]
    BY <1>3 DEF CallDeleteWithoutExecutor, Receive, End
  <2>2. \A b \in Calls : b # c => op'[b] = op[b]
    BY <2>1 DEF TypeOK
  <2> QED
    BY <2>1, <2>2, <1>a, <1>d
<1>4. ASSUME NEW c \in Calls, NEW x \in Calls, CallDelete(c, x)
      PROVE  PoolLineInv'
  <2>1. /\ pc[c] = "idle" /\ op' = [op EXCEPT ![c] = "delete"] /\ UNCHANGED poolLine
        /\ pc' = [pc EXCEPT ![c] = "done"] \/ pc' = [pc EXCEPT ![c] = "replenishing"]
    BY <1>4 DEF CallDelete, Receive, End
  <2>2. \A b \in Calls : b # c => op'[b] = op[b]
    BY <2>1 DEF TypeOK
  <2> QED
    BY <2>1, <2>2, <1>a, <1>d
<1>5. ASSUME NEW c \in Calls, SpawnForCall(c)
      PROVE  PoolLineInv'
  <2>1. /\ pc[c] = "pooling" /\ poolLine # << >> /\ Head(poolLine) = c /\ op' = op
        /\ \/ pc' = [pc EXCEPT ![c] = "done"] /\ poolLine' = Tail(poolLine)
           \/ pc' = [pc EXCEPT ![c] = "spawning"] /\ UNCHANGED poolLine
    BY <1>5 DEF SpawnForCall, OwnsPool, End
  <2>2. CASE pc' = [pc EXCEPT ![c] = "spawning"] /\ UNCHANGED poolLine
    <3>1. pc'[c] = "spawning" /\ \A b \in Calls : b # c => pc'[b] = pc[b]
      BY <2>2 DEF TypeOK
    <3> QED
      BY <2>1, <2>2, <3>1, <1>d, PoolLineKept
  <2> QED
    BY <2>1, <2>2, <1>b, <1>d
<1>6. ASSUME NEW c \in Calls, NEW e \in Executors, Borrow(c, e)
      PROVE  PoolLineInv'
  <2>1. /\ pc[c] = "pooling" /\ poolLine # << >> /\ Head(poolLine) = c /\ op' = op
        /\ \/ pc' = [pc EXCEPT ![c] = "queued"] /\ poolLine' = Tail(poolLine)
           \/ /\ pc' = [pc EXCEPT ![c] = "returning"]
              /\ poolLine' = Append(Tail(poolLine), c)
    BY <1>6 DEF Borrow, OwnsPool
  <2>2. CASE pc' = [pc EXCEPT ![c] = "returning"] /\ poolLine' = Append(Tail(poolLine), c)
    <3>1. pc'[c] = "returning" /\ \A b \in Calls : b # c => pc'[b] = pc[b]
      BY <2>2 DEF TypeOK
    <3> QED
      BY <2>1, <2>2, <3>1, <1>d, PoolLineRejoined
  <2> QED
    BY <2>1, <2>2, <1>b, <1>d
<1>7. ASSUME NEW c \in Calls, NEW e \in Executors, Reserve(c, e)
      PROVE  PoolLineInv'
  BY <1>7, <1>b, <1>d DEF Reserve, OwnsPool, End
<1>8. ASSUME NEW c \in Calls, Return(c)
      PROVE  PoolLineInv'
  BY <1>8, <1>b, <1>d DEF Return, OwnsPool
<1>9. ASSUME NEW c \in Calls, Begin(c)
      PROVE  PoolLineInv'
  BY <1>9, <1>a, <1>d DEF Begin, poolVars
<1>10. ASSUME NEW c \in Calls, ExecTimesOut(c)
       PROVE  PoolLineInv'
  BY <1>10, PoolLineFinish DEF ExecTimesOut
<1>11. ASSUME NEW c \in Calls, Replenished(c)
       PROVE  PoolLineInv'
  <2>1. pc[c] = "replenishing" /\ pc' = [pc EXCEPT ![c] = "done"] /\ op' = op
        /\ UNCHANGED poolLine
    BY <1>11 DEF Replenished, End
  <2> QED
    BY <2>1, <1>a, <1>d
<1>12. ASSUME NEW e \in Executors, ReadyIdle(e)
       PROVE  PoolLineInv'
  BY <1>12, <1>c DEF ReadyIdle, callVars
<1>13. ASSUME NEW e \in Executors, ReadyToRun(e)
       PROVE  PoolLineInv'
  <2>1. maker[e] \in Calls /\ poolLine # << >> /\ Head(poolLine) = maker[e]
    BY <1>13, SpawnerOwns DEF ReadyToRun, Ready
  <2>2. /\ pc' = [pc EXCEPT ![maker[e]] = "queued"]
        /\ poolLine' = Tail(poolLine) /\ op' = op
    BY <1>13 DEF ReadyToRun
  <2> QED
    BY <2>1, <2>2, <1>b, <1>d
<1>14. ASSUME NEW e \in Executors, ReadyForContext(e)
       PROVE  PoolLineInv'
  <2>1. maker[e] \in Calls /\ poolLine # << >> /\ Head(poolLine) = maker[e]
    BY <1>14, SpawnerOwns DEF ReadyForContext, Ready
  <2>2. /\ pc' = [pc EXCEPT ![maker[e]] = "done"]
        /\ poolLine' = Tail(poolLine) /\ op' = op
    BY <1>14 DEF ReadyForContext, End
  <2> QED
    BY <2>1, <2>2, <1>b, <1>d
<1>15. ASSUME NEW e \in Executors, SpawnTimesOut(e)
       PROVE  PoolLineInv'
  BY <1>15, PoolLineRejected DEF SpawnTimesOut
<1>16. ASSUME NEW e \in Executors, SpawnErrors(e)
       PROVE  PoolLineInv'
  BY <1>16, PoolLineRejected DEF SpawnErrors
<1>17. ASSUME NEW e \in Executors, ExitsWhileStarting(e)
       PROVE  PoolLineInv'
  BY <1>17, <1>c, PoolLineRejected DEF ExitsWhileStarting, callVars, poolVars
<1>18. ASSUME NEW e \in Executors, Exit(e)
       PROVE  PoolLineInv'
  BY <1>18, <1>c DEF Exit, callVars
<1>19. ASSUME NEW e \in Executors, NEW d \in Calls, Respond(e, d)
       PROVE  PoolLineInv'
  BY <1>19, <1>c DEF Respond, callVars, poolVars
<1>20. ASSUME NEW e \in Executors, NEW n \in 1..Len(out[e]), Deliver(e, n)
       PROVE  PoolLineInv'
  <2>1. op' = op
    BY <1>20 DEF Deliver, callVars
  <2>2. \/ UNCHANGED << pc, poolLine >>
        \/ \E c \in Calls : pc[c] = "running" /\ Finish(c, "ok")
    BY <1>20 DEF Deliver, callVars
  <2> QED
    BY <2>1, <2>2, <1>c, PoolLineFinish
<1>21. CASE WarmUp
  BY <1>21, <1>c DEF WarmUp, callVars
<1>22. ASSUME NEW old \in SUBSET available, CleanIdle(old)
       PROVE  PoolLineInv'
  BY <1>22, <1>c DEF CleanIdle, callVars
<1> QED
  BY <1>1, <1>2, <1>3, <1>4, <1>5, <1>6, <1>7, <1>8, <1>9, <1>10, <1>11, <1>12,
     <1>13, <1>14, <1>15, <1>16, <1>17, <1>18, <1>19, <1>20, <1>21, <1>22
     DEF Next, NewCall, Pooling

-----------------------------------------------------------------------------
(***************************************************************************)
(* LineInv                                                                 *)
(***************************************************************************)

\* What has started stays so.
StaysReady == \A e \in Executors : stage[e] = "ready" => stage'[e] = "ready"

\* Steps that neither take nor leave the mutex of an executor.
LEMMA LineKept ==
  ASSUME TypeOK, LineInv, UNCHANGED line, StaysReady,
         \A c \in Calls : pc[c] \in {"queued", "running"} <=> pc'[c] \in {"queued", "running"},
         \A c \in Calls : pc[c] \in {"queued", "running"} => ex'[c] = ex[c],
         \A c \in Calls : pc'[c] = "running" =>
           pc[c] = "running" \/ (line[ex[c]] # << >> /\ Head(line[ex[c]]) = c),
         \A c \in Calls : pc'[c] = "returning" =>
           op'[c] = "run" /\ ex'[c] \in Executors /\ stage'[ex'[c]] = "ready"
  PROVE  LineInv'
<1>1. \A c \in Calls : pc'[c] \in {"queued", "running"} =>
        ex'[c] \in Executors /\ stage'[ex'[c]] = "ready"
  BY DEF LineInv, StaysReady
<1>2. \A c \in Calls : pc'[c] = "running" => line'[ex'[c]] # << >> /\ Head(line'[ex'[c]]) = c
  BY DEF LineInv
<1>3. \A c \in Calls, e \in Executors :
        c \in Members(line'[e]) <=> pc'[c] \in {"queued", "running"} /\ ex'[c] = e
  BY DEF LineInv
<1> QED
  BY <1>1, <1>2, <1>3 DEF LineInv

\* Call c gets in the line of executor e.
LEMMA LineJoined ==
  ASSUME TypeOK, LineInv, StaysReady, NEW c \in Calls, NEW e \in Executors,
         line' = [line EXCEPT ![e] = Append(line[e], c)],
         pc[c] \notin {"queued", "running"}, pc'[c] = "queued", ex'[c] = e,
         stage'[e] = "ready",
         \A b \in Calls : b # c => pc'[b] = pc[b] /\ ex'[b] = ex[b] /\ op'[b] = op[b]
  PROVE  LineInv'
<1>1. line[e] \in Seq(Calls)
  BY DEF TypeOK
<1>2. line'[e] = Append(line[e], c) /\ \A f \in Executors : f # e => line'[f] = line[f]
  BY DEF TypeOK
<1>3. c \notin Members(line[e])
  BY DEF LineInv
<1>4. /\ line'[e] # << >>
      /\ Head(line'[e]) = IF line[e] = << >> THEN c ELSE Head(line[e])
      /\ Members(line'[e]) = Members(line[e]) \cup {c}
      /\ Distinct(line'[e])
  BY <1>1, <1>2, <1>3, AppendMembers DEF LineInv
<1>5. \A f \in Executors : Distinct(line'[f])
  BY <1>2, <1>4 DEF LineInv
<1>6. \A b \in Calls, f \in Executors :
        b \in Members(line'[f]) <=> pc'[b] \in {"queued", "running"} /\ ex'[b] = f
  BY <1>2, <1>4 DEF LineInv
<1>7. \A b \in Calls : pc'[b] \in {"queued", "running", "returning"} =>
        ex'[b] \in Executors /\ stage'[ex'[b]] = "ready"
  BY DEF LineInv, StaysReady
<1>8. \A b \in Calls : pc'[b] = "running" =>
        line'[ex'[b]] # << >> /\ Head(line'[ex'[b]]) = b
  <2> SUFFICES ASSUME NEW b \in Calls, pc'[b] = "running"
               PROVE  line'[ex'[b]] # << >> /\ Head(line'[ex'[b]]) = b
    OBVIOUS
  <2>1. b # c /\ pc[b] = "running" /\ ex'[b] = ex[b]
    OBVIOUS
  <2>2. line[ex[b]] # << >> /\ Head(line[ex[b]]) = b /\ ex[b] \in Executors
    BY <2>1 DEF LineInv
  <2> QED
    BY <2>1, <2>2, <1>2, <1>4
<1>9. \A b \in Calls : pc'[b] = "returning" => op'[b] = "run"
  BY DEF LineInv
<1> QED
  BY <1>5, <1>6, <1>7, <1>8, <1>9 DEF LineInv

\* Call c, which runs, ends and leaves the line of its executor.
LEMMA LineFinish ==
  ASSUME TypeOK, LineInv, NEW c \in Calls, pc[c] = "running", NEW how,
         Finish(c, how), UNCHANGED << op, ex, stage >>
  PROVE  LineInv'
<1> DEFINE e == ex[c]
<1>1. e \in Executors /\ stage[e] = "ready" /\ line[e] # << >> /\ Head(line[e]) = c
  BY DEF LineInv
<1>2. line[e] \in Seq(Calls)
  BY <1>1 DEF TypeOK
<1>3. line' = [line EXCEPT ![e] = Tail(line[e])]
  BY DEF Finish
<1>4. /\ pc'[c] = "returning" \/ pc'[c] = "done"
      /\ pc'[c] = "returning" => op[c] = "run"
      /\ \A b \in Calls : b # c => pc'[b] = pc[b]
  BY DEF Finish, TypeOK
<1> HIDE DEF e
<1>5. line'[e] = Tail(line[e]) /\ \A f \in Executors : f # e => line'[f] = line[f]
  BY <1>1, <1>3 DEF TypeOK
<1>6. Members(line'[e]) = Members(line[e]) \ {c} /\ Distinct(line'[e])
  BY <1>1, <1>2, <1>5, TailMembers DEF LineInv
<1>7. \A f \in Executors : Distinct(line'[f])
  BY <1>5, <1>6 DEF LineInv
<1>8. \A b \in Calls, f \in Executors :
        b \in Members(line'[f]) <=> pc'[b] \in {"queued", "running"} /\ ex'[b] = f
  BY <1>1, <1>4, <1>5, <1>6 DEF LineInv, e
<1>9. \A b \in Calls : pc'[b] \in {"queued", "running", "returning"} =>
        ex'[b] \in Executors /\ stage'[ex'[b]] = "ready"
  BY <1>1, <1>4 DEF LineInv, e
<1>10. \A b \in Calls : pc'[b] = "running" =>
         line'[ex'[b]] # << >> /\ Head(line'[ex'[b]]) = b
  <2> SUFFICES ASSUME NEW b \in Calls, pc'[b] = "running"
               PROVE  line'[ex'[b]] # << >> /\ Head(line'[ex'[b]]) = b
    OBVIOUS
  <2>1. b # c /\ pc[b] = "running" /\ ex'[b] = ex[b]
    BY <1>4
  <2>2. line[ex[b]] # << >> /\ Head(line[ex[b]]) = b /\ ex[b] \in Executors
    BY <2>1 DEF LineInv
  <2>3. ex[b] # e
    BY <1>1, <2>1, <2>2
  <2> QED
    BY <2>1, <2>2, <2>3, <1>5
<1>11. \A b \in Calls : pc'[b] = "returning" => op'[b] = "run"
  BY <1>4 DEF LineInv
<1> QED
  BY <1>7, <1>8, <1>9, <1>10, <1>11 DEF LineInv

\* A spawn that fails.
LEMMA LineRejected ==
  ASSUME TypeOK, SpawnInv, PoolLineInv, LineInv, NEW e \in Executors,
         stage[e] = "starting", Reject(e)
  PROVE  LineInv'
<1>1. UNCHANGED << op, ex, line >> /\ StaysReady
  BY DEF Reject, StaysReady, TypeOK
<1>2. \A c \in Calls : \/ pc'[c] = pc[c]
                       \/ pc[c] = "spawning" /\ pc'[c] = "done"
  <2>1. CASE Purpose(e) \in {"run", "create"}
    BY <2>1, SpawnerOwns DEF Reject, End, TypeOK
  <2>2. CASE Purpose(e) \notin {"run", "create"}
    BY <2>2 DEF Reject
  <2> QED
    BY <2>1, <2>2
<1>3. \A c \in Calls : pc'[c] = "returning" =>
        op'[c] = "run" /\ ex'[c] \in Executors /\ stage'[ex'[c]] = "ready"
  BY <1>1, <1>2 DEF LineInv, StaysReady
<1>4. \A c \in Calls : pc[c] \in {"queued", "running"} <=> pc'[c] \in {"queued", "running"}
  BY <1>2
<1>5. \A c \in Calls : pc'[c] = "running" => pc[c] = "running"
  BY <1>2
<1> QED
  BY <1>1, <1>3, <1>4, <1>5, LineKept

\* Nobody waits for an executor that has not started.
LEMMA NobodyWaits ==
  ASSUME TypeOK, LineInv, NEW e \in Executors, stage[e] # "ready"
  PROVE  line[e] = << >>
<1>1. line[e] \in Seq(Calls)
  BY DEF TypeOK
<1>2. line[e] # << >> => Head(line[e]) \in Members(line[e]) /\ Head(line[e]) \in Calls
  BY <1>1, TailMembers
<1>3. \A c \in Calls : c \notin Members(line[e])
  BY DEF LineInv
<1> QED
  BY <1>2, <1>3

\* What is killed or spawned does not touch what has started.
LEMMA SpawnStaysReady ==
  ASSUME TypeOK, SpawnInv, NEW dying \in SUBSET Executors, NEW n \in Nat,
         NEW c \in Calls \cup {None}, KillAndSpawn(dying, n, c),
         \A e \in dying : stage[e] = "ready"
  PROVE  StaysReady /\ UNCHANGED << line, inbox, out >>
<1>1. StaysReady
  BY KillAndSpawnEach DEF StaysReady
<1> QED
  BY <1>1 DEF KillAndSpawn

\* deleteContext kills an executor that has started and spawns some.
LEMMA DeleteSpawns ==
  ASSUME TypeOK, HoldInv, NEW c \in Calls, NEW x \in Calls, CallDelete(c, x)
  PROVE  /\ {contextExecutors[x]} \in SUBSET Executors
         /\ contextExecutors[x] \in Executors
         /\ stage[contextExecutors[x]] = "ready"
         /\ \E n \in Nat : KillAndSpawn({contextExecutors[x]}, n, c)
         /\ pc[c] = "idle" /\ pc'[c] \in {"replenishing", "done"}
         /\ op'[c] = "delete" /\ cx'[c] = x
         /\ pc'[c] = "replenishing" => outcome'[c] = outcome[c]
         /\ \A b \in Calls : b # c =>
              pc'[b] = pc[b] /\ op'[b] = op[b] /\ cx'[b] = cx[b] /\ outcome'[b] = outcome[b]
         /\ UNCHANGED << ex, buf, result, line, inbox, out, available, poolLine, warmed >>
<1> DEFINE e == contextExecutors[x]
           needed == IF Cardinality(available) < MinSize
                       THEN MinSize - Cardinality(available) ELSE 0
           begun == IF Cardinality(pool \ {e}) < MaxProcesses THEN needed ELSE 0
<1>1. begun \in Nat
  BY CountType, SizeAssumption
<1> HIDE DEF begun
<1>2. /\ KillAndSpawn({e}, begun, c) /\ Receive(c, "delete", x) /\ e # NoExecutor
      /\ \/ pc' = [pc EXCEPT ![c] = "replenishing"] /\ outcome' = outcome
         \/ \E how \in {"ok", "failed"} : End(c, how)
      /\ UNCHANGED << ex, buf, result, available, poolLine, warmed >>
  BY DEF CallDelete, begun
<1>3. e \in Executors /\ stage[e] = "ready"
  BY <1>2 DEF TypeOK, HoldInv
<1>4. /\ pc[c] = "idle" /\ op'[c] = "delete" /\ cx'[c] = x
      /\ \A b \in Calls : b # c => op'[b] = op[b] /\ cx'[b] = cx[b]
  BY <1>2 DEF Receive, TypeOK
<1>5. pc'[c] \in {"replenishing", "done"} /\ \A b \in Calls : b # c => pc'[b] = pc[b]
  BY <1>2 DEF End, TypeOK
<1>6. /\ pc'[c] = "replenishing" => outcome'[c] = outcome[c]
      /\ \A b \in Calls : b # c => outcome'[b] = outcome[b]
  BY <1>2 DEF End, TypeOK
<1>7. UNCHANGED << line, inbox, out >>
  BY <1>2 DEF KillAndSpawn
<1>8. \E n \in Nat : KillAndSpawn({e}, n, c)
  BY <1>1, <1>2
<1>9. {e} \in SUBSET Executors
  BY <1>3
<1> QED
  BY <1>2, <1>3, <1>4, <1>5, <1>6, <1>7, <1>8, <1>9

\* Every step keeps LineInv.
LEMMA LineStep ==
  ASSUME TypeOK, SpawnInv, PoolLineInv, LineInv, HoldInv, Next
  PROVE  LineInv'
<1>a. ASSUME NEW c \in Calls, pc[c] \notin {"queued", "running"},
             pc'[c] \notin {"queued", "running", "returning"}, UNCHANGED line, StaysReady,
             \A b \in Calls : b # c => pc'[b] = pc[b] /\ ex'[b] = ex[b] /\ op'[b] = op[b]
      PROVE  LineInv'
  <2>1. \A b \in Calls : pc[b] \in {"queued", "running"} => b # c
    BY <1>a
  <2>2. \A b \in Calls : pc'[b] \in {"queued", "running", "returning"} => b # c
    BY <1>a
  <2>3. \A b \in Calls : pc[b] \in {"queued", "running"} <=> pc'[b] \in {"queued", "running"}
    BY <1>a, <2>1, <2>2
  <2>4. \A b \in Calls : pc'[b] = "returning" =>
          op'[b] = "run" /\ ex'[b] \in Executors /\ stage'[ex'[b]] = "ready"
    BY <1>a, <2>2 DEF LineInv, StaysReady
  <2> QED
    BY <1>a, <2>1, <2>2, <2>3, <2>4, LineKept
<1>b. ASSUME NEW c \in Calls, pc[c] \notin {"queued", "running"},
             NEW v, v \notin {"queued", "running", "returning"}, pc' = [pc EXCEPT ![c] = v],
             UNCHANGED << ex, stage, line >>,
             \A b \in Calls : b # c => op'[b] = op[b]
      PROVE  LineInv'
  <2>1. pc'[c] = v /\ \A b \in Calls : b # c => pc'[b] = pc[b]
    BY <1>b DEF TypeOK
  <2> QED
    BY <1>a, <1>b, <2>1 DEF StaysReady
<1>c. ASSUME UNCHANGED << op, pc, ex, line >>, StaysReady
      PROVE  LineInv'
  BY <1>c DEF LineInv, StaysReady
<1>d. ASSUME NEW c \in Calls, NEW o, NEW x, Receive(c, o, x)
      PROVE  pc[c] = "idle" /\ \A b \in Calls : b # c => op'[b] = op[b]
  BY <1>d DEF Receive, TypeOK
<1>1. ASSUME NEW c \in Calls, CallPool(c)
      PROVE  LineInv'
  BY <1>1, <1>b, <1>d DEF CallPool, procVars
<1>2. ASSUME NEW c \in Calls, NEW x \in Calls, CallExec(c, x)
      PROVE  LineInv'
  <2> DEFINE e == contextExecutors[x]
  <2>1. /\ Receive(c, "exec", x) /\ UNCHANGED stage
        /\ \/ /\ e # NoExecutor
              /\ ex' = [ex EXCEPT ![c] = e]
              /\ line' = [line EXCEPT ![e] = Append(line[e], c)]
              /\ pc' = [pc EXCEPT ![c] = "queued"]
           \/ pc' = [pc EXCEPT ![c] = "done"] /\ UNCHANGED << ex, line >>
    BY <1>2 DEF CallExec, End
  <2>2. CASE e # NoExecutor /\ ex' = [ex EXCEPT ![c] = e] /\
             line' = [line EXCEPT ![e] = Append(line[e], c)] /\ pc' = [pc EXCEPT ![c] = "queued"]
    <3>1. e \in Executors /\ stage'[e] = "ready" /\ StaysReady
      BY <2>1, <2>2 DEF TypeOK, HoldInv, StaysReady
    <3>2. /\ pc[c] \notin {"queued", "running"} /\ pc'[c] = "queued" /\ ex'[c] = e
          /\ \A b \in Calls : b # c => pc'[b] = pc[b] /\ ex'[b] = ex[b] /\ op'[b] = op[b]
      BY <2>1, <2>2, <1>d DEF TypeOK
    <3> HIDE DEF e
    <3> QED
      BY <2>2, <3>1, <3>2, LineJoined
  <2> QED
    BY <2>1, <2>2, <1>b, <1>d
<1>3. ASSUME NEW c \in Calls, NEW x \in Calls, CallDeleteWithoutExecutor(c, x)
      PROVE  LineInv'
  BY <1>3, <1>b, <1>d DEF CallDeleteWithoutExecutor, End, procVars
<1>4. ASSUME NEW c \in Calls, NEW x \in Calls, CallDelete(c, x)
      PROVE  LineInv'
  <2>1. StaysReady
    <3>1. PICK n \in Nat : KillAndSpawn({contextExecutors[x]}, n, c)
      BY <1>4, DeleteSpawns
    <3>2. {contextExecutors[x]} \in SUBSET Executors /\ stage[contextExecutors[x]] = "ready"
      BY <1>4, DeleteSpawns
    <3>3. \A f \in {contextExecutors[x]} : stage[f] = "ready"
      BY <3>2
    <3> QED
      BY <3>1, <3>2, <3>3, SpawnStaysReady
  <2> QED
    BY <1>4, <2>1, <1>a, DeleteSpawns, ZenonT(60)
<1>5. ASSUME NEW c \in Calls, SpawnForCall(c)
      PROVE  LineInv'
  <2>1. /\ pc[c] = "pooling" /\ UNCHANGED << op, ex >>
        /\ pc' = [pc EXCEPT ![c] = "done"] \/ pc' = [pc EXCEPT ![c] = "spawning"]
        /\ UNCHANGED procVars \/ KillAndSpawn({}, 1, c)
    BY <1>5 DEF SpawnForCall, OwnsPool, End
  <2>2. StaysReady /\ UNCHANGED line
    <3>1. {} \in SUBSET Executors /\ 1 \in Nat /\ \A f \in {} : stage[f] = "ready"
      OBVIOUS
    <3> QED
      BY <2>1, <3>1, SpawnStaysReady DEF procVars, StaysReady
  <2>3. pc'[c] \in {"done", "spawning"} /\ \A b \in Calls : b # c => pc'[b] = pc[b]
    BY <2>1 DEF TypeOK
  <2> QED
    BY <2>1, <2>2, <2>3, <1>a
<1>6. ASSUME NEW c \in Calls, NEW e \in Executors, Borrow(c, e)
      PROVE  LineInv'
  <2>1. /\ pc[c] = "pooling" /\ op[c] = "run" /\ e \in available
        /\ UNCHANGED << op, stage >>
        /\ ex' = [ex EXCEPT ![c] = e]
        /\ \/ /\ line' = [line EXCEPT ![e] = Append(line[e], c)]
              /\ pc' = [pc EXCEPT ![c] = "queued"]
           \/ pc' = [pc EXCEPT ![c] = "returning"] /\ UNCHANGED line
    BY <1>6 DEF Borrow, OwnsPool
  <2>2. /\ stage'[e] = "ready" /\ StaysReady /\ ex'[c] = e
        /\ \A b \in Calls : b # c => ex'[b] = ex[b]
    BY <2>1 DEF TypeOK, HoldInv, StaysReady
  <2>3. CASE line' = [line EXCEPT ![e] = Append(line[e], c)] /\ pc' = [pc EXCEPT ![c] = "queued"]
    <3>1. pc'[c] = "queued" /\ \A b \in Calls : b # c => pc'[b] = pc[b]
      BY <2>3 DEF TypeOK
    <3> QED
      BY <2>1, <2>2, <2>3, <3>1, LineJoined, ZenonT(60)
  <2>4. CASE pc' = [pc EXCEPT ![c] = "returning"] /\ UNCHANGED line
    <3>1. pc'[c] = "returning" /\ \A b \in Calls : b # c => pc'[b] = pc[b]
      BY <2>4 DEF TypeOK
    <3>2. \A b \in Calls : pc[b] \in {"queued", "running"} <=> pc'[b] \in {"queued", "running"}
      BY <2>1, <3>1
    <3>3. \A b \in Calls : pc'[b] = "returning" =>
            op'[b] = "run" /\ ex'[b] \in Executors /\ stage'[ex'[b]] = "ready"
      BY <2>1, <2>2, <3>1 DEF LineInv
    <3> QED
      BY <2>1, <2>2, <2>4, <3>1, <3>2, <3>3, LineKept
  <2> QED
    BY <2>1, <2>3, <2>4
<1>7. ASSUME NEW c \in Calls, NEW e \in Executors, Reserve(c, e)
      PROVE  LineInv'
  BY <1>7, <1>b DEF Reserve, OwnsPool, End, procVars
<1>8. ASSUME NEW c \in Calls, Return(c)
      PROVE  LineInv'
  BY <1>8, <1>b DEF Return, OwnsPool, procVars
<1>9. ASSUME NEW c \in Calls, Begin(c)
      PROVE  LineInv'
  <2>1. /\ pc[c] = "queued" /\ Head(line[ex[c]]) = c /\ pc' = [pc EXCEPT ![c] = "running"]
        /\ UNCHANGED << op, ex, stage, line >>
    BY <1>9 DEF Begin
  <2>2. pc'[c] = "running" /\ \A b \in Calls : b # c => pc'[b] = pc[b]
    BY <2>1 DEF TypeOK
  <2>3. ex[c] \in Executors /\ c \in Members(line[ex[c]])
    BY <2>1 DEF LineInv
  <2>4. line[ex[c]] # << >>
    BY <2>3, EmptyMembers
  <2>5. \A b \in Calls : pc'[b] = "returning" =>
          op'[b] = "run" /\ ex'[b] \in Executors /\ stage'[ex'[b]] = "ready"
    BY <2>1, <2>2 DEF LineInv
  <2>6. \A b \in Calls : pc[b] \in {"queued", "running"} <=> pc'[b] \in {"queued", "running"}
    BY <2>1, <2>2
  <2> QED
    BY <2>1, <2>2, <2>4, <2>5, <2>6, LineKept DEF StaysReady
<1>10. ASSUME NEW c \in Calls, ExecTimesOut(c)
       PROVE  LineInv'
  BY <1>10, LineFinish DEF ExecTimesOut
<1>11. ASSUME NEW c \in Calls, Replenished(c)
       PROVE  LineInv'
  <2>1. /\ pc[c] = "replenishing" /\ pc' = [pc EXCEPT ![c] = "done"] /\ op' = op
        /\ UNCHANGED << ex, stage, line >>
    BY <1>11 DEF Replenished, End, procVars
  <2> QED
    BY <2>1, <1>b
<1>12. ASSUME NEW e \in Executors, ReadyIdle(e)
       PROVE  LineInv'
  BY <1>12, <1>c DEF ReadyIdle, Ready, callVars, StaysReady, TypeOK
<1>13. ASSUME NEW e \in Executors, ReadyToRun(e)
       PROVE  LineInv'
  <2> DEFINE c == maker[e]
  <2>1. /\ stage[e] = "starting" /\ stage' = [stage EXCEPT ![e] = "ready"]
        /\ pc' = [pc EXCEPT ![c] = "queued"] /\ ex' = [ex EXCEPT ![c] = e]
        /\ line' = [line EXCEPT ![e] = << c >>] /\ op' = op
        /\ Purpose(e) = "run"
    BY <1>13 DEF ReadyToRun, Ready
  <2>2. c \in Calls /\ pc[c] = "spawning"
    BY <2>1, SpawnerOwns
  <2>3. line[e] = << >> /\ Append(<< >>, c) = << c >>
    BY <2>1, NobodyWaits
  <2>4. stage'[e] = "ready" /\ StaysReady
    BY <2>1 DEF StaysReady, TypeOK
  <2>5. /\ pc'[c] = "queued" /\ ex'[c] = e
        /\ \A b \in Calls : b # c => pc'[b] = pc[b] /\ ex'[b] = ex[b]
    BY <2>1, <2>2 DEF TypeOK
  <2> HIDE DEF c
  <2>6. line' = [line EXCEPT ![e] = Append(line[e], c)]
    BY <2>1, <2>3
  <2> QED
    BY <2>1, <2>2, <2>4, <2>5, <2>6, LineJoined
<1>14. ASSUME NEW e \in Executors, ReadyForContext(e)
       PROVE  LineInv'
  <2>1. /\ stage[e] = "starting" /\ stage' = [stage EXCEPT ![e] = "ready"]
        /\ pc' = [pc EXCEPT ![maker[e]] = "done"] /\ UNCHANGED << op, ex, line >>
        /\ Purpose(e) = "create"
    BY <1>14 DEF ReadyForContext, Ready, End
  <2>2. maker[e] \in Calls /\ pc[maker[e]] = "spawning"
    BY <2>1, SpawnerOwns
  <2>3. StaysReady
    BY <2>1 DEF StaysReady, TypeOK
  <2>4. pc'[maker[e]] = "done" /\ \A b \in Calls : b # maker[e] => pc'[b] = pc[b]
    BY <2>1, <2>2 DEF TypeOK
  <2> QED
    BY <2>1, <2>2, <2>3, <2>4, <1>a
<1>15. ASSUME NEW e \in Executors, SpawnTimesOut(e)
       PROVE  LineInv'
  BY <1>15, LineRejected DEF SpawnTimesOut
<1>16. ASSUME NEW e \in Executors, SpawnErrors(e)
       PROVE  LineInv'
  BY <1>16, LineRejected DEF SpawnErrors
<1>17. ASSUME NEW e \in Executors, ExitsWhileStarting(e)
       PROVE  LineInv'
  BY <1>17, <1>c, LineRejected DEF ExitsWhileStarting, callVars, StaysReady
<1>18. ASSUME NEW e \in Executors, Exit(e)
       PROVE  LineInv'
  BY <1>18, <1>c DEF Exit, callVars, StaysReady
<1>19. ASSUME NEW e \in Executors, NEW d \in Calls, Respond(e, d)
       PROVE  LineInv'
  BY <1>19, <1>c DEF Respond, callVars, StaysReady
<1>20. ASSUME NEW e \in Executors, NEW n \in 1..Len(out[e]), Deliver(e, n)
       PROVE  LineInv'
  <2>1. UNCHANGED << op, ex, stage >>
    BY <1>20 DEF Deliver, callVars
  <2>2. \/ UNCHANGED << pc, line >>
        \/ \E c \in Calls : pc[c] = "running" /\ Finish(c, "ok")
    BY <1>20 DEF Deliver, callVars
  <2> QED
    BY <2>1, <2>2, <1>c, LineFinish DEF StaysReady
<1>21. CASE WarmUp
  <2>1. StaysReady /\ UNCHANGED line
    <3>1. {} \in SUBSET Executors /\ 1 \in Nat /\ \A f \in {} : stage[f] = "ready"
      OBVIOUS
    <3> QED
      BY <1>21, <3>1, SpawnStaysReady DEF WarmUp, procVars, StaysReady
  <2> QED
    BY <1>21, <2>1, <1>c DEF WarmUp, callVars
<1>22. ASSUME NEW old \in SUBSET available, CleanIdle(old)
       PROVE  LineInv'
  <2>1. old \in SUBSET Executors /\ 0 \in Nat /\ \A f \in old : stage[f] = "ready"
    BY DEF TypeOK, HoldInv
  <2>2. StaysReady /\ UNCHANGED line
    BY <1>22, <2>1, SpawnStaysReady DEF CleanIdle
  <2> QED
    BY <1>22, <2>2, <1>c DEF CleanIdle, callVars
<1> QED
  BY <1>1, <1>2, <1>3, <1>4, <1>5, <1>6, <1>7, <1>8, <1>9, <1>10, <1>11, <1>12,
     <1>13, <1>14, <1>15, <1>16, <1>17, <1>18, <1>19, <1>20, <1>21, <1>22
     DEF Next, NewCall, Pooling

-----------------------------------------------------------------------------
(***************************************************************************)
(* HoldInv                                                                 *)
(***************************************************************************)

\* What calls may do without a change of who holds what: a call borrows and
\* holds as before, one that has ended stays so, none starts to replenish.
HoldersStay ==
  /\ \A c \in Calls, e \in Executors : Borrowing(c, e)' <=> Borrowing(c, e)
  /\ \A c \in Calls : pc[c] = "done" => pc'[c] = "done" /\ op'[c] = op[c]
  /\ \A c \in Calls : pc'[c] = "replenishing" => pc[c] = "replenishing" /\ cx'[c] = cx[c]

\* A live executor stays so, and no other becomes live.
LiveStays ==
  /\ StaysReady
  /\ \A e \in Executors : Live(e)' <=> Live(e)
  /\ \A e \in Executors : Live(e) => hasLock'[e] = hasLock[e]

\* An executor that is made for a call was not made for another one before.
MakersStay ==
  \A e \in Executors :
    maker'[e] # None /\ op'[maker'[e]] = "create" =>
      \/ maker[e] = maker'[e] /\ op[maker[e]] = "create"
      \/ maker'[e] \in Calls \ contexts

\* A step that only takes requests away, or makes nothing, leaves who holds
\* what.
LEMMA HoldKept ==
  ASSUME TypeOK, HoldInv, HoldersStay, LiveStays, MakersStay,
         UNCHANGED << pool, available, contextExecutors >>,
         contexts' \subseteq contexts,
         \A x \in contexts \ contexts' : contextExecutors[x] = NoExecutor
  PROVE  HoldInv'
<1>1. \A e \in Executors : Free(e)' <=> Free(e)
  BY DEF Free, HoldersStay
<1>2. \A e \in Executors : OneHolder(e)' <=> OneHolder(e)
  BY DEF OneHolder, HoldersStay
<1>3. \A e \in available' : stage'[e] = "ready"
  BY DEF HoldInv, LiveStays, StaysReady, TypeOK
<1>4. \A x \in Calls : contextExecutors'[x] # NoExecutor =>
        stage'[contextExecutors'[x]] = "ready" /\ x \in contexts'
  BY DEF HoldInv, LiveStays, StaysReady, TypeOK
<1>5. \A x \in contexts' : pc'[x] = "done" /\ op'[x] = "create"
  BY DEF HoldInv, HoldersStay, TypeOK
<1>6. \A e \in Executors :
        maker'[e] # None /\ op'[maker'[e]] = "create" =>
          contextExecutors'[maker'[e]] \in {NoExecutor, e}
  <2> SUFFICES ASSUME NEW e \in Executors, maker'[e] # None, op'[maker'[e]] = "create"
               PROVE  contextExecutors'[maker'[e]] \in {NoExecutor, e}
    OBVIOUS
  <2>1. CASE maker[e] = maker'[e] /\ op[maker[e]] = "create"
    BY <2>1 DEF HoldInv
  <2>2. CASE maker'[e] \in Calls \ contexts
    BY <2>2 DEF HoldInv
  <2> QED
    BY <2>1, <2>2 DEF MakersStay
<1>7. \A c \in Calls : pc'[c] = "replenishing" =>
        cx'[c] \in Calls /\ pc'[cx'[c]] = "done" /\ contextExecutors'[cx'[c]] = NoExecutor
  BY DEF HoldInv, HoldersStay
<1>8. \A e \in Executors : e \in pool' <=> Live(e)'
  BY DEF HoldInv, LiveStays
<1>9. \A e \in Executors : Live(e)' => hasLock'[e]
  BY DEF HoldInv, LiveStays
<1>10. \A e \in Executors : Live(e)' => (e \in available' <=> Free(e)') /\ OneHolder(e)'
  BY <1>1, <1>2 DEF HoldInv, LiveStays
<1> QED
  BY <1>3, <1>4, <1>5, <1>6, <1>7, <1>8, <1>9, <1>10 DEF HoldInv

\* Steps that leave the processes alone.
LEMMA ProcessesStay ==
  ASSUME TypeOK, SpawnInv, UNCHANGED << maker, stage, proc, hasLock >>,
         \A c \in Calls : pc[c] # "idle" => op'[c] = op[c]
  PROVE  LiveStays /\ MakersStay
<1>1. LiveStays
  BY DEF LiveStays, StaysReady, Live
<1>2. \A e \in Executors : maker[e] # None => op'[maker[e]] = op[maker[e]]
  BY DEF SpawnInv, TypeOK
<1> QED
  BY <1>1, <1>2 DEF MakersStay

\* Spawns add no live executor.
LEMMA SpawnsStay ==
  ASSUME TypeOK, SpawnInv, NEW n \in Nat, NEW c \in Calls \cup {None},
         KillAndSpawn({}, n, c), op' = op, c \notin contexts
  PROVE  LiveStays /\ MakersStay
<1>1. {} \in SUBSET Executors /\ \A f \in {} : stage[f] = "ready"
  OBVIOUS
<1>2. \A e \in Executors :
        \/ stage[e] = "unused" /\ maker'[e] = c /\ stage'[e] = "starting"
        \/ /\ maker'[e] = maker[e] /\ stage'[e] = stage[e]
           /\ proc'[e] = proc[e] /\ hasLock'[e] = hasLock[e]
  BY <1>1, KillAndSpawnEach
<1>3. LiveStays
  BY <1>2 DEF LiveStays, StaysReady, Live
<1> QED
  BY <1>2, <1>3 DEF MakersStay

\* A run that ends still borrows its executor: it has to give it back.
LEMMA HoldersFinish ==
  ASSUME TypeOK, NEW c \in Calls, pc[c] = "running", NEW how, Finish(c, how),
         UNCHANGED << op, cx, ex >>
  PROVE  HoldersStay
<1>1. /\ \A b \in Calls : b # c => pc'[b] = pc[b]
      /\ pc'[c] = IF op[c] = "run" THEN "returning" ELSE "done"
  BY DEF Finish, TypeOK
<1> QED
  BY <1>1 DEF HoldersStay, Borrowing

\* A spawn that fails is nobody's.
LEMMA HoldRejected ==
  ASSUME TypeOK, SpawnInv, PoolLineInv, HoldInv, NEW e \in Executors,
         stage[e] = "starting", Reject(e),
         \A f \in Executors : f # e => proc'[f] = proc[f] /\ hasLock'[f] = hasLock[f]
  PROVE  HoldInv'
<1>1. /\ UNCHANGED << op, cx, ex, maker, pool, available, contextExecutors, contexts >>
      /\ stage' = [stage EXCEPT ![e] = "failed"]
  BY DEF Reject
<1>2. \A c \in Calls : pc'[c] = pc[c] \/ (pc[c] = "spawning" /\ pc'[c] = "done")
  <2>1. CASE Purpose(e) \in {"run", "create"}
    BY <2>1, SpawnerOwns DEF Reject, End, TypeOK
  <2>2. CASE Purpose(e) \notin {"run", "create"}
    BY <2>2 DEF Reject
  <2> QED
    BY <2>1, <2>2
<1>3. HoldersStay
  BY <1>1, <1>2 DEF HoldersStay, Borrowing
<1>4. LiveStays
  BY <1>1 DEF LiveStays, StaysReady, Live, TypeOK
<1>5. MakersStay
  BY <1>1 DEF MakersStay
<1> QED
  BY <1>1, <1>3, <1>4, <1>5, HoldKept

\* Only what has started is held.
LEMMA HeldIsReady ==
  ASSUME TypeOK, LineInv, HoldInv, NEW e \in Executors, stage[e] # "ready"
  PROVE  Free(e) /\ e \notin available /\ ~ Live(e)
<1>1. e # NoExecutor
  BY BoundAssumption DEF Executors, NoExecutor
<1>2. \A x \in Calls : contextExecutors[x] # e
  BY <1>1 DEF HoldInv
<1>3. \A c \in Calls : ~ Borrowing(c, e)
  BY DEF Borrowing, LineInv
<1>4. e \notin available /\ ~ Live(e)
  BY DEF HoldInv, Live
<1> QED
  BY <1>2, <1>3, <1>4 DEF Free

\* A new call takes no context that exists.
LEMMA IdleHasNoContext ==
  ASSUME HoldInv, NEW c \in Calls, pc[c] # "done"
  PROVE  c \notin contexts /\ contextExecutors[c] = NoExecutor
BY DEF HoldInv

\* Executor e goes from hand to hand, or becomes live.
LEMMA HoldMoved ==
  ASSUME TypeOK, SpawnInv, HoldInv, NEW e \in Executors, StaysReady, stage'[e] = "ready",
         UNCHANGED << op, cx, maker >>,
         \A f \in Executors : f \in pool' <=> Live(f)',
         \A f \in Executors : Live(f)' => hasLock'[f],
         \A f \in Executors : f # e =>
           /\ Live(f)' <=> Live(f)
           /\ f \in available' <=> f \in available
           /\ Free(f)' <=> Free(f)
           /\ OneHolder(f)' <=> OneHolder(f),
         Live(e)' => (e \in available' <=> Free(e)'),
         Live(e)' => OneHolder(e)',
         available' \subseteq available \cup {e},
         \A c \in Calls : pc[c] = "done" => pc'[c] = "done",
         \A c \in Calls : pc'[c] = "replenishing" => pc[c] = "replenishing",
         \A x \in Calls :
           \/ contextExecutors'[x] = contextExecutors[x]
           \/ /\ pc[x] # "done" /\ contextExecutors'[x] = e /\ x \in contexts'
              /\ \A f \in Executors : maker[f] = x => f = e,
         \A x \in contexts' : x \in contexts \/ (pc'[x] = "done" /\ op[x] = "create"),
         contexts \subseteq contexts', contexts' \subseteq Calls
  PROVE  HoldInv'
<1>5. \A f \in available' : stage'[f] = "ready"
  BY DEF HoldInv, TypeOK, StaysReady
<1>6. \A x \in Calls : contextExecutors'[x] # NoExecutor =>
        stage'[contextExecutors'[x]] = "ready" /\ x \in contexts'
  <2> SUFFICES ASSUME NEW x \in Calls, contextExecutors'[x] # NoExecutor
               PROVE  stage'[contextExecutors'[x]] = "ready" /\ x \in contexts'
    OBVIOUS
  <2>1. CASE contextExecutors'[x] = contextExecutors[x]
    <3>1. contextExecutors[x] \in Executors /\ stage[contextExecutors[x]] = "ready" /\ x \in contexts
      BY <2>1 DEF HoldInv, TypeOK
    <3> QED
      BY <2>1, <3>1 DEF StaysReady
  <2>2. CASE contextExecutors'[x] = e /\ x \in contexts'
    BY <2>2
  <2> QED
    BY <2>1, <2>2
<1>7. \A x \in contexts' : pc'[x] = "done" /\ op'[x] = "create"
  BY DEF HoldInv, TypeOK
<1>8. \A f \in Executors :
        maker'[f] # None /\ op'[maker'[f]] = "create" =>
          contextExecutors'[maker'[f]] \in {NoExecutor, f}
  <2> SUFFICES ASSUME NEW f \in Executors, maker'[f] # None, op'[maker'[f]] = "create"
               PROVE  contextExecutors'[maker'[f]] \in {NoExecutor, f}
    OBVIOUS
  <2>1. /\ maker'[f] = maker[f] /\ maker[f] \in Calls
        /\ contextExecutors[maker[f]] \in {NoExecutor, f}
    BY DEF HoldInv, TypeOK
  <2>2. CASE contextExecutors'[maker[f]] = contextExecutors[maker[f]]
    BY <2>1, <2>2
  <2>3. CASE contextExecutors'[maker[f]] = e /\ \A g \in Executors : maker[g] = maker[f] => g = e
    BY <2>1, <2>3
  <2> QED
    BY <2>1, <2>2, <2>3
<1>9. \A c \in Calls : pc'[c] = "replenishing" =>
        cx'[c] \in Calls /\ pc'[cx'[c]] = "done" /\ contextExecutors'[cx'[c]] = NoExecutor
  BY DEF HoldInv
<1>12. \A f \in Executors : Live(f)' => (f \in available' <=> Free(f)') /\ OneHolder(f)'
  BY DEF HoldInv
<1> QED
  BY <1>5, <1>6, <1>7, <1>8, <1>9, <1>12 DEF HoldInv

\* Executor e starts.
LEMMA ReadyIsLive ==
  ASSUME TypeOK, SpawnInv, HoldInv, NEW e \in Executors, Ready(e)
  PROVE  /\ StaysReady /\ stage'[e] = "ready" /\ stage[e] = "starting"
         /\ Live(e)'
         /\ \A f \in Executors : f \in pool' <=> Live(f)'
         /\ \A f \in Executors : Live(f)' => hasLock'[f]
         /\ \A f \in Executors : f # e => (Live(f)' <=> Live(f))
         /\ maker' = maker
<1>1. /\ stage[e] = "starting" /\ proc[e] = "running" /\ pool' = pool \cup {e}
      /\ stage' = [stage EXCEPT ![e] = "ready"]
      /\ UNCHANGED << maker, proc, hasLock >>
  BY DEF Ready
<1>2. stage'[e] = "ready" /\ \A f \in Executors : f # e => stage'[f] = stage[f]
  BY <1>1 DEF TypeOK
<1>3. Live(e)' /\ \A f \in Executors : f # e => (Live(f)' <=> Live(f))
  BY <1>1, <1>2 DEF Live
<1>4. hasLock[e] /\ ~ Live(e) /\ e \notin pool
  BY <1>1 DEF SpawnInv, HoldInv, Live
<1>5. StaysReady
  BY <1>1, <1>2 DEF StaysReady
<1>6. \A f \in Executors : f \in pool' <=> Live(f)'
  BY <1>1, <1>3 DEF HoldInv
<1>7. \A f \in Executors : Live(f)' => hasLock'[f]
  BY <1>1, <1>3, <1>4 DEF HoldInv
<1> QED
  BY <1>1, <1>2, <1>3, <1>5, <1>6, <1>7

\* The executors in R are retired.
LEMMA HoldRetired ==
  ASSUME TypeOK, HoldInv, StaysReady, MakersStay, NEW R \in SUBSET Executors,
         \A f \in Executors : Live(f)' <=> Live(f) /\ f \notin R,
         \A f \in Executors \ R : Live(f) => hasLock'[f] = hasLock[f],
         pool' = pool \ R,
         available' \subseteq available,
         \A f \in Executors \ R : f \in available' <=> f \in available,
         \A c \in Calls, f \in Executors : Borrowing(c, f)' <=> Borrowing(c, f),
         \A x \in Calls :
           \/ contextExecutors'[x] = contextExecutors[x]
           \/ contextExecutors'[x] = NoExecutor /\ contextExecutors[x] \in R \cup {NoExecutor},
         \A c \in Calls : pc[c] = "done" => pc'[c] = "done" /\ op'[c] = op[c],
         \A c \in Calls : pc'[c] = "replenishing" =>
           \/ pc[c] = "replenishing" /\ cx'[c] = cx[c]
           \/ cx'[c] \in contexts /\ contextExecutors'[cx'[c]] = NoExecutor,
         contexts' \subseteq contexts,
         \A x \in contexts \ contexts' : contextExecutors'[x] = NoExecutor
  PROVE  HoldInv'
<1>a. \A f \in Executors : f # NoExecutor
  BY BoundAssumption DEF Executors, NoExecutor
<1>1. \A f \in Executors \ R : \A x \in Calls :
        contextExecutors'[x] = f <=> contextExecutors[x] = f
  BY <1>a
<1>2. \A f \in Executors \ R : (Free(f)' <=> Free(f)) /\ (OneHolder(f)' <=> OneHolder(f))
  BY <1>1 DEF Free, OneHolder
<1>3. \A f \in available' : stage'[f] = "ready"
  BY DEF HoldInv, StaysReady, TypeOK
<1>4. \A x \in Calls : contextExecutors'[x] # NoExecutor =>
        stage'[contextExecutors'[x]] = "ready" /\ x \in contexts'
  BY DEF HoldInv, StaysReady, TypeOK
<1>5. \A x \in contexts' : pc'[x] = "done" /\ op'[x] = "create"
  BY DEF HoldInv, TypeOK
<1>6. ASSUME NEW f \in Executors, maker'[f] # None, op'[maker'[f]] = "create"
      PROVE  contextExecutors'[maker'[f]] \in {NoExecutor, f}
  <2>1. maker'[f] \in Calls /\ contextExecutors[maker'[f]] \in {NoExecutor, f}
    <3>1. CASE maker[f] = maker'[f] /\ op[maker[f]] = "create"
      BY <1>6, <3>1 DEF HoldInv, TypeOK
    <3>2. CASE maker'[f] \in Calls \ contexts
      BY <3>2 DEF HoldInv
    <3> QED
      BY <1>6, <3>1, <3>2 DEF MakersStay
  <2> QED
    BY <2>1
<1>7. \A c \in Calls : pc'[c] = "replenishing" =>
        cx'[c] \in Calls /\ pc'[cx'[c]] = "done" /\ contextExecutors'[cx'[c]] = NoExecutor
  <2> SUFFICES ASSUME NEW c \in Calls, pc'[c] = "replenishing"
               PROVE  cx'[c] \in Calls /\ pc'[cx'[c]] = "done"
                                       /\ contextExecutors'[cx'[c]] = NoExecutor
    OBVIOUS
  <2>1. CASE pc[c] = "replenishing" /\ cx'[c] = cx[c]
    BY <2>1 DEF HoldInv
  <2>2. CASE cx'[c] \in contexts /\ contextExecutors'[cx'[c]] = NoExecutor
    BY <2>2 DEF HoldInv, TypeOK
  <2> QED
    BY <2>1, <2>2
<1>8. \A f \in Executors : f \in pool' <=> Live(f)'
  BY DEF HoldInv
<1>9. \A f \in Executors : Live(f)' => hasLock'[f]
  BY DEF HoldInv
<1>10. \A f \in Executors : Live(f)' => (f \in available' <=> Free(f)') /\ OneHolder(f)'
  BY <1>2 DEF HoldInv
<1> QED
  BY <1>3, <1>4, <1>5, <1>6, <1>7, <1>8, <1>9, <1>10 DEF HoldInv

\* A call goes on that neither borrows an executor nor has ended.
LEMMA HoldersMove ==
  ASSUME NEW c \in Calls, pc[c] # "done",
         pc[c] \in {"queued", "running", "returning"} => op[c] # "run",
         pc'[c] \in {"queued", "running", "returning"} => op'[c] # "run",
         pc'[c] # "replenishing",
         \A b \in Calls : b # c =>
           pc'[b] = pc[b] /\ op'[b] = op[b] /\ cx'[b] = cx[b] /\ ex'[b] = ex[b]
  PROVE  HoldersStay
<1>1. \A e \in Executors : ~ Borrowing(c, e) /\ ~ Borrowing(c, e)'
  BY DEF Borrowing
<1>2. \A b \in Calls, e \in Executors : b # c => (Borrowing(b, e)' <=> Borrowing(b, e))
  BY DEF Borrowing
<1> QED
  BY <1>1, <1>2 DEF HoldersStay

\* One executor changes hands: the others are held as before.
LEMMA OthersHeld ==
  ASSUME NEW f \in Executors,
         \A c \in Calls : Borrowing(c, f)' <=> Borrowing(c, f),
         \A x \in Calls : contextExecutors'[x] = f <=> contextExecutors[x] = f
  PROVE  (Free(f)' <=> Free(f)) /\ (OneHolder(f)' <=> OneHolder(f))
BY DEF Free, OneHolder

\* Every step keeps HoldInv.
LEMMA HoldStep ==
  ASSUME TypeOK, SpawnInv, PoolLineInv, LineInv, HoldInv, Next
  PROVE  HoldInv'
<1>a. ASSUME NEW c \in Calls, NEW o, NEW x, Receive(c, o, x)
      PROVE  /\ pc[c] = "idle" /\ op'[c] = o
             /\ \A b \in Calls : b # c => op'[b] = op[b] /\ cx'[b] = cx[b]
             /\ \A b \in Calls : pc[b] # "idle" => op'[b] = op[b]
  BY <1>a DEF Receive, TypeOK
<1>b. \A e \in Executors : e # NoExecutor
  BY BoundAssumption DEF Executors, NoExecutor
<1>c. ASSUME UNCHANGED << op, cx, pc, ex >>
      PROVE  HoldersStay
  BY <1>c DEF HoldersStay, Borrowing
<1>1. ASSUME NEW c \in Calls, CallPool(c)
      PROVE  HoldInv'
  <2>1. LiveStays /\ MakersStay
    BY <1>1, <1>a, ProcessesStay DEF CallPool, procVars
  <2>2. pc[c] = "idle" /\ pc'[c] = "pooling" /\ \A b \in Calls : b # c => pc'[b] = pc[b]
    BY <1>1, <1>a DEF CallPool, TypeOK
  <2>3. HoldersStay
    BY <1>1, <1>a, <2>2, HoldersMove DEF CallPool
  <2> QED
    BY <1>1, <2>1, <2>3, HoldKept DEF CallPool
<1>2. ASSUME NEW c \in Calls, NEW x \in Calls, CallExec(c, x)
      PROVE  HoldInv'
  <2>1. LiveStays /\ MakersStay
    BY <1>2, <1>a, ProcessesStay DEF CallExec
  <2>2. pc' = [pc EXCEPT ![c] = "queued"] \/ pc' = [pc EXCEPT ![c] = "done"]
    BY <1>2 DEF CallExec, End
  <2>3. pc'[c] \in {"queued", "done"} /\ \A b \in Calls : b # c => pc'[b] = pc[b]
    BY <2>2 DEF TypeOK
  <2>4. \A b \in Calls : b # c => ex'[b] = ex[b]
    BY <1>2 DEF CallExec, TypeOK
  <2>5. pc[c] = "idle" /\ op'[c] = "exec"
    BY <1>2, <1>a DEF CallExec
  <2>6. HoldersStay
    BY <1>2, <1>a, <2>3, <2>4, <2>5, HoldersMove DEF CallExec
  <2> QED
    BY <1>2, <2>1, <2>6, HoldKept DEF CallExec, poolVars
<1>3. ASSUME NEW c \in Calls, NEW x \in Calls, CallDeleteWithoutExecutor(c, x)
      PROVE  HoldInv'
  <2>1. LiveStays /\ MakersStay
    BY <1>3, <1>a, ProcessesStay DEF CallDeleteWithoutExecutor, procVars
  <2>2. pc'[c] = "done" /\ \A b \in Calls : b # c => pc'[b] = pc[b]
    BY <1>3 DEF CallDeleteWithoutExecutor, End, TypeOK
  <2>3. HoldersStay
    BY <1>3, <1>a, <2>2, HoldersMove DEF CallDeleteWithoutExecutor
  <2> QED
    BY <1>3, <2>1, <2>3, HoldKept DEF CallDeleteWithoutExecutor
<1>4. ASSUME NEW c \in Calls, NEW x \in Calls, CallDelete(c, x)
      PROVE  HoldInv'
  <2> DEFINE e == contextExecutors[x]
  <2>1. PICK n \in Nat : KillAndSpawn({e}, n, c)
    BY <1>4, DeleteSpawns
  <2>2. e \in Executors /\ {e} \in SUBSET Executors /\ stage[e] = "ready"
    BY <1>4, DeleteSpawns
  <2>3. \A f \in {e} : stage[f] = "ready"
    BY <2>2
  <2>4. \A f \in Executors :
          \/ stage[f] = "unused" /\ f # e /\ maker'[f] = c /\ stage'[f] = "starting"
          \/ /\ maker'[f] = maker[f] /\ stage'[f] = stage[f]
             /\ IF f = e THEN proc'[f] = Killed(f)
                         ELSE proc'[f] = proc[f] /\ hasLock'[f] = hasLock[f]
    <3> HIDE DEF e
    <3>1. c \in Calls \cup {None}
      OBVIOUS
    <3>2. \A f \in Executors :
            \/ /\ stage[f] = "unused" /\ f \notin {e}
               /\ maker'[f] = c /\ stage'[f] = "starting"
            \/ /\ maker'[f] = maker[f] /\ stage'[f] = stage[f]
               /\ IF f \in {e} THEN proc'[f] = Killed(f) /\ ~ hasLock'[f]
                               ELSE proc'[f] = proc[f] /\ hasLock'[f] = hasLock[f]
      BY <2>1, <2>2, <2>3, <3>1, KillAndSpawnEach
    <3> QED
      BY <3>2
  <2>5. /\ op'[c] = "delete" /\ cx'[c] = x /\ pc[c] = "idle"
        /\ \A b \in Calls : b # c =>
             pc'[b] = pc[b] /\ op'[b] = op[b] /\ cx'[b] = cx[b]
        /\ pc'[c] \in {"replenishing", "done"}
        /\ ex' = ex /\ available' = available
    <3>1. UNCHANGED << ex, available >>
      BY <1>4, DeleteSpawns
    <3>2. /\ op'[c] = "delete" /\ cx'[c] = x /\ pc[c] = "idle"
          /\ pc'[c] \in {"replenishing", "done"}
      BY <1>4, DeleteSpawns
    <3>3. \A b \in Calls : b # c => pc'[b] = pc[b] /\ op'[b] = op[b] /\ cx'[b] = cx[b]
      <4>1. \A b \in Calls : b # c =>
              pc'[b] = pc[b] /\ op'[b] = op[b] /\ cx'[b] = cx[b] /\ outcome'[b] = outcome[b]
        BY <1>4, DeleteSpawns
      <4> QED
        BY <4>1
    <3> QED
      BY <3>1, <3>2, <3>3
  <2>6. /\ x \in contexts /\ e # NoExecutor
        /\ contextExecutors' = [contextExecutors EXCEPT ![x] = NoExecutor]
        /\ pool' = pool \ {e}
        /\ contexts' \in {contexts, contexts \ {x}}
    BY <1>4 DEF CallDelete
  <2>7. contextExecutors'[x] = NoExecutor
        /\ \A y \in Calls : y # x => contextExecutors'[y] = contextExecutors[y]
    BY <2>6 DEF TypeOK
  <2> HIDE DEF e
  <2>8. StaysReady
    BY <2>4 DEF StaysReady
  <2>9. MakersStay
    BY <2>4, <2>5 DEF MakersStay, SpawnInv, TypeOK
  <2>10. \A f \in Executors : Live(f)' <=> Live(f) /\ f \notin {e}
    BY <2>2, <2>4 DEF Live, Killed
  <2>11. \A f \in Executors \ {e} : Live(f) => hasLock'[f] = hasLock[f]
    BY <2>4 DEF Live
  <2>12. \A b \in Calls, f \in Executors : Borrowing(b, f)' <=> Borrowing(b, f)
    BY <2>5 DEF Borrowing
  <2>13. \A b \in Calls : pc[b] = "done" => pc'[b] = "done" /\ op'[b] = op[b]
    BY <2>5
  <2>14. \A b \in Calls : pc'[b] = "replenishing" =>
           \/ pc[b] = "replenishing" /\ cx'[b] = cx[b]
           \/ cx'[b] \in contexts /\ contextExecutors'[cx'[b]] = NoExecutor
    BY <2>5, <2>6, <2>7
  <2>15. \A y \in Calls :
           \/ contextExecutors'[y] = contextExecutors[y]
           \/ contextExecutors'[y] = NoExecutor /\ contextExecutors[y] \in {e} \cup {NoExecutor}
    BY <2>7 DEF e
  <2>16. contexts' \subseteq contexts /\ \A y \in contexts \ contexts' : contextExecutors'[y] = NoExecutor
    BY <2>6, <2>7
  <2>17. available' \subseteq available /\ \A f \in Executors \ {e} : f \in available' <=> f \in available
    BY <2>5
  <2> QED
    BY <2>2, <2>6, <2>8, <2>9, <2>10, <2>11, <2>12, <2>13, <2>14, <2>15, <2>16, <2>17, HoldRetired
<1>5. ASSUME NEW c \in Calls, SpawnForCall(c)
      PROVE  HoldInv'
  <2>1. /\ pc[c] = "pooling" /\ UNCHANGED << op, cx, ex >>
        /\ pc' = [pc EXCEPT ![c] = "done"] \/ pc' = [pc EXCEPT ![c] = "spawning"]
        /\ UNCHANGED procVars \/ KillAndSpawn({}, 1, c)
        /\ UNCHANGED << pool, available, contextExecutors, contexts >>
    BY <1>5 DEF SpawnForCall, OwnsPool, End
  <2>2. pc'[c] \in {"done", "spawning"} /\ \A b \in Calls : b # c => pc'[b] = pc[b]
    BY <2>1 DEF TypeOK
  <2>3. HoldersStay
    BY <2>1, <2>2, HoldersMove
  <2>4. LiveStays /\ MakersStay
    <3>1. CASE UNCHANGED procVars
      BY <2>1, <3>1, ProcessesStay DEF procVars
    <3>2. CASE KillAndSpawn({}, 1, c)
      BY <2>1, <3>2, SpawnsStay, IdleHasNoContext
    <3> QED
      BY <2>1, <3>1, <3>2
  <2> QED
    BY <2>1, <2>3, <2>4, HoldKept
<1>6. ASSUME NEW c \in Calls, NEW e \in Executors, Borrow(c, e)
      PROVE  HoldInv'
  <2>1. /\ pc[c] = "pooling" /\ op[c] = "run" /\ e \in available
        /\ available' = available \ {e}
        /\ ex' = [ex EXCEPT ![c] = e]
        /\ pc' = [pc EXCEPT ![c] = "queued"] \/ pc' = [pc EXCEPT ![c] = "returning"]
        /\ UNCHANGED << op, cx, maker, stage, proc, hasLock, pool, contextExecutors, contexts >>
    BY <1>6 DEF Borrow, OwnsPool
  <2>2. /\ ex'[c] = e /\ pc'[c] \in {"queued", "returning"}
        /\ \A b \in Calls : b # c => pc'[b] = pc[b] /\ ex'[b] = ex[b]
    BY <2>1 DEF TypeOK
  <2>3. Borrowing(c, e)'
    BY <2>1, <2>2 DEF Borrowing
  <2>4. \A b \in Calls : b # c => \A f \in Executors : Borrowing(b, f)' <=> Borrowing(b, f)
    BY <2>1, <2>2 DEF Borrowing
  <2>5. \A f \in Executors : f # e => ~ Borrowing(c, f)' /\ ~ Borrowing(c, f)
    BY <2>1, <2>2 DEF Borrowing
  <2>6. \A f \in Executors : f # e => (Free(f)' <=> Free(f)) /\ (OneHolder(f)' <=> OneHolder(f))
    BY <2>1, <2>4, <2>5, OthersHeld
  <2>7. StaysReady /\ stage'[e] = "ready" /\ \A f \in Executors : Live(f)' <=> Live(f)
    BY <2>1 DEF StaysReady, HoldInv, Live
  <2>8. \A f \in Executors : (f \in pool' <=> Live(f)') /\ (Live(f)' => hasLock'[f])
    BY <2>1, <2>7 DEF HoldInv
  <2>9. Live(e)' => Free(e)
    BY <2>1, <2>7 DEF HoldInv
  <2>10. Live(e)' => (e \in available' <=> Free(e)') /\ OneHolder(e)'
    BY <2>1, <2>3, <2>4, <2>9 DEF Free, OneHolder
  <2>11. \A b \in Calls : /\ pc[b] = "done" => pc'[b] = "done"
                          /\ pc'[b] = "replenishing" => pc[b] = "replenishing"
    BY <2>1, <2>2
  <2>12. contexts \subseteq contexts' /\ contexts' \subseteq Calls
    BY <2>1 DEF TypeOK
  <2> QED
    BY <2>1, <2>6, <2>7, <2>8, <2>10, <2>11, <2>12, HoldMoved
<1>7. ASSUME NEW c \in Calls, NEW e \in Executors, Reserve(c, e)
      PROVE  HoldInv'
  <2>1. /\ pc[c] = "pooling" /\ op[c] = "create" /\ e \in available
        /\ available' = available \ {e}
        /\ contextExecutors' = [contextExecutors EXCEPT ![c] = e]
        /\ contexts' = contexts \cup {c}
        /\ pc' = [pc EXCEPT ![c] = "done"]
        /\ UNCHANGED << op, cx, ex, maker, stage, proc, hasLock, pool >>
    BY <1>7 DEF Reserve, OwnsPool, End, procVars
  <2>2. /\ pc'[c] = "done" /\ contextExecutors'[c] = e
        /\ \A b \in Calls : b # c =>
             pc'[b] = pc[b] /\ contextExecutors'[b] = contextExecutors[b]
    BY <2>1 DEF TypeOK
  <2>3. \A b \in Calls, f \in Executors : Borrowing(b, f)' <=> Borrowing(b, f)
    BY <2>1, <2>2 DEF Borrowing
  <2>4. contextExecutors[c] = NoExecutor
    BY <2>1, IdleHasNoContext
  <2>5. \A f \in Executors : f # e =>
          \A x \in Calls : contextExecutors'[x] = f <=> contextExecutors[x] = f
    BY <2>2, <2>4, <1>b
  <2>6. \A f \in Executors : f # e => (Free(f)' <=> Free(f)) /\ (OneHolder(f)' <=> OneHolder(f))
    BY <2>3, <2>5, OthersHeld
  <2>7. StaysReady /\ stage'[e] = "ready" /\ \A f \in Executors : Live(f)' <=> Live(f)
    BY <2>1 DEF StaysReady, HoldInv, Live
  <2>8. \A f \in Executors : (f \in pool' <=> Live(f)') /\ (Live(f)' => hasLock'[f])
    BY <2>1, <2>7 DEF HoldInv
  <2>9. Live(e)' => Free(e)
    BY <2>1, <2>7 DEF HoldInv
  <2>10. Live(e)' => (e \in available' <=> Free(e)') /\ OneHolder(e)'
    BY <2>1, <2>2, <2>3, <2>9 DEF Free, OneHolder
  <2>11. \A b \in Calls : /\ pc[b] = "done" => pc'[b] = "done"
                          /\ pc'[b] = "replenishing" => pc[b] = "replenishing"
    BY <2>1, <2>2
  <2>12. \A f \in Executors : maker[f] # c
    BY <2>1, NoneAssumption DEF SpawnInv
  <2>13. \A x \in Calls :
           \/ contextExecutors'[x] = contextExecutors[x]
           \/ /\ pc[x] # "done" /\ contextExecutors'[x] = e /\ x \in contexts'
              /\ \A f \in Executors : maker[f] = x => f = e
    BY <2>1, <2>2, <2>12
  <2>14. contexts' \subseteq Calls /\ contexts \subseteq contexts'
    BY <2>1 DEF TypeOK
  <2>15. \A x \in contexts' : x \in contexts \/ (pc'[x] = "done" /\ op[x] = "create")
    BY <2>1, <2>2
  <2>16. available' \subseteq available \cup {e}
         /\ \A f \in Executors : f # e => (f \in available' <=> f \in available)
    BY <2>1
  <2> QED
    BY <2>1, <2>6, <2>7, <2>8, <2>10, <2>11, <2>13, <2>14, <2>15, <2>16, HoldMoved
<1>8. ASSUME NEW c \in Calls, Return(c)
      PROVE  HoldInv'
  <2>0. PICK e : e = ex[c]
    OBVIOUS
  <2>1. /\ pc[c] = "returning" /\ available' = available \cup {e}
        /\ pc' = [pc EXCEPT ![c] = "done"]
        /\ UNCHANGED << op, cx, ex, maker, stage, proc, hasLock, pool, contextExecutors, contexts >>
    BY <1>8, <2>0 DEF Return, OwnsPool, procVars
  <2>2. op[c] = "run" /\ e \in Executors /\ stage[e] = "ready"
    BY <2>0, <2>1 DEF LineInv
  <2>3. pc'[c] = "done" /\ \A b \in Calls : b # c => pc'[b] = pc[b]
    BY <2>1 DEF TypeOK
  <2>4. Borrowing(c, e)
    BY <2>0, <2>1, <2>2 DEF Borrowing
  <2>5. \A f \in Executors : ~ Borrowing(c, f)'
    BY <2>3 DEF Borrowing
  <2>6. \A f \in Executors : f # e => ~ Borrowing(c, f)
    BY <2>0 DEF Borrowing
  <2>7. \A b \in Calls : b # c => \A f \in Executors : Borrowing(b, f)' <=> Borrowing(b, f)
    BY <2>1, <2>3 DEF Borrowing
  <2>8. \A f \in Executors : f # e => (Free(f)' <=> Free(f)) /\ (OneHolder(f)' <=> OneHolder(f))
    BY <2>1, <2>5, <2>6, <2>7, OthersHeld
  <2>9. StaysReady /\ stage'[e] = "ready" /\ \A f \in Executors : Live(f)' <=> Live(f)
    BY <2>1, <2>2 DEF StaysReady, Live
  <2>10. \A f \in Executors : (f \in pool' <=> Live(f)') /\ (Live(f)' => hasLock'[f])
    BY <2>1, <2>9 DEF HoldInv
  <2>11. Live(e)' => OneHolder(e)
    BY <2>2, <2>9 DEF HoldInv
  <2>12. Live(e)' => (e \in available' <=> Free(e)') /\ OneHolder(e)'
    BY <2>1, <2>2, <2>4, <2>5, <2>7, <2>11 DEF Free, OneHolder
  <2>13. \A b \in Calls : /\ pc[b] = "done" => pc'[b] = "done"
                          /\ pc'[b] = "replenishing" => pc[b] = "replenishing"
    BY <2>1, <2>3
  <2>14. available' \subseteq available \cup {e}
         /\ \A f \in Executors : f # e => (f \in available' <=> f \in available)
    BY <2>1
  <2>15. contexts \subseteq contexts' /\ contexts' \subseteq Calls
    BY <2>1 DEF TypeOK
  <2> QED
    BY <2>1, <2>2, <2>8, <2>9, <2>10, <2>12, <2>13, <2>14, <2>15, HoldMoved
<1>9. ASSUME NEW c \in Calls, Begin(c)
      PROVE  HoldInv'
  <2>1. pc[c] = "queued" /\ pc'[c] = "running" /\ \A b \in Calls : b # c => pc'[b] = pc[b]
    BY <1>9 DEF Begin, TypeOK
  <2>2. HoldersStay
    BY <1>9, <2>1 DEF Begin, HoldersStay, Borrowing
  <2>3. LiveStays /\ MakersStay
    BY <1>9, ProcessesStay DEF Begin
  <2> QED
    BY <1>9, <2>2, <2>3, HoldKept DEF Begin, poolVars
<1>10. ASSUME NEW c \in Calls, ExecTimesOut(c)
       PROVE  HoldInv'
  <2>1. HoldersStay
    BY <1>10, HoldersFinish DEF ExecTimesOut
  <2>2. LiveStays /\ MakersStay
    BY <1>10, ProcessesStay DEF ExecTimesOut
  <2> QED
    BY <1>10, <2>1, <2>2, HoldKept DEF ExecTimesOut
<1>11. ASSUME NEW c \in Calls, Replenished(c)
       PROVE  HoldInv'
  <2>1. pc[c] = "replenishing" /\ pc'[c] = "done" /\ \A b \in Calls : b # c => pc'[b] = pc[b]
    BY <1>11 DEF Replenished, End, TypeOK
  <2>2. HoldersStay
    BY <1>11, <2>1, HoldersMove DEF Replenished
  <2>3. LiveStays /\ MakersStay
    BY <1>11, ProcessesStay DEF Replenished, procVars
  <2>4. contextExecutors[cx[c]] = NoExecutor /\ contexts' = contexts \ {cx[c]}
    BY <1>11, <2>1 DEF Replenished, HoldInv
  <2> QED
    BY <1>11, <2>2, <2>3, <2>4, HoldKept DEF Replenished
<1>12. ASSUME NEW e \in Executors, ReadyIdle(e)
       PROVE  HoldInv'
  <2>1. Ready(e) /\ available' = available \cup {e}
        /\ UNCHANGED << op, cx, pc, ex, contextExecutors, contexts >>
    BY <1>12 DEF ReadyIdle, callVars
  <2>2. /\ StaysReady /\ stage'[e] = "ready" /\ stage[e] = "starting" /\ maker' = maker
        /\ \A f \in Executors : f # e => (Live(f)' <=> Live(f))
        /\ \A f \in Executors : (f \in pool' <=> Live(f)') /\ (Live(f)' => hasLock'[f])
    BY <2>1, ReadyIsLive
  <2>3. Free(e)
    BY <2>2, HeldIsReady
  <2>4. \A f \in Executors : (Free(f)' <=> Free(f)) /\ (OneHolder(f)' <=> OneHolder(f))
    BY <2>1 DEF Free, OneHolder, Borrowing
  <2>5. (e \in available' <=> Free(e)') /\ OneHolder(e)'
    BY <2>1, <2>3, <2>4 DEF Free, OneHolder
  <2>6. contexts \subseteq contexts' /\ contexts' \subseteq Calls
    BY <2>1 DEF TypeOK
  <2> QED
    BY <2>1, <2>2, <2>4, <2>5, <2>6, HoldMoved
<1>13. ASSUME NEW e \in Executors, ReadyToRun(e)
       PROVE  HoldInv'
  <2>0. PICK c : c = maker[e]
    OBVIOUS
  <2>1. /\ Ready(e) /\ Purpose(e) = "run"
        /\ ex' = [ex EXCEPT ![c] = e] /\ pc' = [pc EXCEPT ![c] = "queued"]
        /\ UNCHANGED << op, cx, available, contextExecutors, contexts >>
    BY <1>13, <2>0 DEF ReadyToRun
  <2>2. /\ StaysReady /\ stage'[e] = "ready" /\ stage[e] = "starting" /\ maker' = maker
        /\ \A f \in Executors : f # e => (Live(f)' <=> Live(f))
        /\ \A f \in Executors : (f \in pool' <=> Live(f)') /\ (Live(f)' => hasLock'[f])
    BY <2>1, ReadyIsLive
  <2>3. c \in Calls /\ op[c] = "run" /\ pc[c] = "spawning"
    BY <2>0, <2>1, <2>2, SpawnerOwns
  <2>4. /\ ex'[c] = e /\ pc'[c] = "queued"
        /\ \A b \in Calls : b # c => pc'[b] = pc[b] /\ ex'[b] = ex[b]
    BY <2>1, <2>3 DEF TypeOK
  <2>5. Free(e) /\ e \notin available
    BY <2>2, HeldIsReady
  <2>6. Borrowing(c, e)'
    BY <2>1, <2>3, <2>4 DEF Borrowing
  <2>7. \A b \in Calls : b # c => \A f \in Executors : Borrowing(b, f)' <=> Borrowing(b, f)
    BY <2>1, <2>4 DEF Borrowing
  <2>8. \A f \in Executors : f # e => ~ Borrowing(c, f)' /\ ~ Borrowing(c, f)
    BY <2>3, <2>4 DEF Borrowing
  <2>9. \A f \in Executors : f # e => (Free(f)' <=> Free(f)) /\ (OneHolder(f)' <=> OneHolder(f))
    BY <2>1, <2>7, <2>8, OthersHeld
  <2>10. (e \in available' <=> Free(e)') /\ OneHolder(e)'
    BY <2>1, <2>3, <2>5, <2>6, <2>7 DEF Free, OneHolder
  <2>11. \A b \in Calls : /\ pc[b] = "done" => pc'[b] = "done"
                          /\ pc'[b] = "replenishing" => pc[b] = "replenishing"
    BY <2>3, <2>4
  <2>12. contexts \subseteq contexts' /\ contexts' \subseteq Calls
    BY <2>1 DEF TypeOK
  <2> QED
    BY <2>1, <2>2, <2>9, <2>10, <2>11, <2>12, HoldMoved
<1>14. ASSUME NEW e \in Executors, ReadyForContext(e)
       PROVE  HoldInv'
  <2> DEFINE c == maker[e]
  <2>1. /\ Ready(e) /\ Purpose(e) = "create"
        /\ contextExecutors' = [contextExecutors EXCEPT ![c] = e]
        /\ contexts' = contexts \cup {c} /\ pc' = [pc EXCEPT ![c] = "done"]
        /\ UNCHANGED << op, cx, ex, available >>
    BY <1>14 DEF ReadyForContext, End
  <2>2. /\ StaysReady /\ stage'[e] = "ready" /\ stage[e] = "starting" /\ maker' = maker
        /\ \A f \in Executors : f # e => (Live(f)' <=> Live(f))
        /\ \A f \in Executors : (f \in pool' <=> Live(f)') /\ (Live(f)' => hasLock'[f])
    BY <2>1, ReadyIsLive
  <2>3. c \in Calls /\ c # None /\ op[c] = "create" /\ pc[c] = "spawning"
    BY <2>1, <2>2, SpawnerOwns
  <2>4. \A f \in Executors : maker[f] = c => f = e
    BY <2>3 DEF SpawnInv
  <2> HIDE DEF c
  <2>5. /\ contextExecutors'[c] = e /\ pc'[c] = "done"
        /\ \A b \in Calls : b # c =>
             pc'[b] = pc[b] /\ contextExecutors'[b] = contextExecutors[b]
    BY <2>1, <2>3 DEF TypeOK
  <2>6. Free(e) /\ e \notin available
    BY <2>2, HeldIsReady
  <2>7. \A b \in Calls, f \in Executors : Borrowing(b, f)' <=> Borrowing(b, f)
    BY <2>1, <2>3, <2>5 DEF Borrowing
  <2>8. contextExecutors[c] = NoExecutor
    BY <2>3, IdleHasNoContext
  <2>9. \A f \in Executors : f # e =>
          \A x \in Calls : contextExecutors'[x] = f <=> contextExecutors[x] = f
    BY <2>5, <2>8, <1>b
  <2>10. \A f \in Executors : f # e => (Free(f)' <=> Free(f)) /\ (OneHolder(f)' <=> OneHolder(f))
    BY <2>7, <2>9, OthersHeld
  <2>11. (e \in available' <=> Free(e)') /\ OneHolder(e)'
    BY <2>1, <2>3, <2>5, <2>6, <2>7 DEF Free, OneHolder
  <2>12. \A b \in Calls : /\ pc[b] = "done" => pc'[b] = "done"
                          /\ pc'[b] = "replenishing" => pc[b] = "replenishing"
    BY <2>3, <2>5
  <2>13. \A x \in Calls :
           \/ contextExecutors'[x] = contextExecutors[x]
           \/ /\ pc[x] # "done" /\ contextExecutors'[x] = e /\ x \in contexts'
              /\ \A f \in Executors : maker[f] = x => f = e
    BY <2>1, <2>3, <2>4, <2>5
  <2>14. contexts' \subseteq Calls /\ contexts \subseteq contexts'
    BY <2>1, <2>3 DEF TypeOK
  <2>15. \A x \in contexts' : x \in contexts \/ (pc'[x] = "done" /\ op[x] = "create")
    BY <2>1, <2>3, <2>5
  <2> QED
    BY <2>1, <2>2, <2>10, <2>11, <2>12, <2>13, <2>14, <2>15, HoldMoved
<1>15. ASSUME NEW e \in Executors, SpawnTimesOut(e)
       PROVE  HoldInv'
  BY <1>15, HoldRejected DEF SpawnTimesOut, TypeOK
<1>16. ASSUME NEW e \in Executors, SpawnErrors(e)
       PROVE  HoldInv'
  BY <1>16, HoldRejected DEF SpawnErrors, TypeOK
<1>17. ASSUME NEW e \in Executors, ExitsWhileStarting(e)
       PROVE  HoldInv'
  <2>1. stage[e] = "starting" /\ hasLock' = [hasLock EXCEPT ![e] = FALSE]
    BY <1>17 DEF ExitsWhileStarting
  <2>2. \A f \in Executors : f # e => hasLock'[f] = hasLock[f]
    BY <2>1 DEF TypeOK
  <2>3. \A f \in Executors : f # e => proc'[f] = proc[f]
    BY <1>17 DEF ExitsWhileStarting, TypeOK
  <2>4. CASE Reject(e)
    BY <2>1, <2>2, <2>3, <2>4, HoldRejected
  <2>5. CASE UNCHANGED << callVars, maker, stage, poolVars >>
    <3>1. LiveStays
      BY <2>1, <2>2, <2>3, <2>5 DEF LiveStays, StaysReady, Live
    <3>2. MakersStay
      BY <2>5 DEF MakersStay, callVars
    <3>3. HoldersStay
      BY <2>5, <1>c DEF callVars
    <3> QED
      BY <2>5, <3>1, <3>2, <3>3, HoldKept DEF poolVars
  <2> QED
    BY <1>17, <2>4, <2>5 DEF ExitsWhileStarting
<1>18. ASSUME NEW e \in Executors, Exit(e)
       PROVE  HoldInv'
  <2>1. /\ stage[e] = "ready" /\ proc[e] = "running"
        /\ pool' = pool \ {e} /\ available' = available \ {e}
        /\ UNCHANGED << op, cx, pc, ex, maker, stage, contexts >>
        /\ contextExecutors' =
             [x \in Calls |-> IF x = HandlerContext(e) THEN NoExecutor ELSE contextExecutors[x]]
    BY <1>18 DEF Exit, callVars
  <2>2. \A f \in Executors : f # e => hasLock'[f] = hasLock[f]
    BY <1>18 DEF Exit, TypeOK
  <2>3. proc'[e] # "running" /\ \A f \in Executors : f # e => proc'[f] = proc[f]
    BY <1>18 DEF Exit, TypeOK
  <2>4. \A f \in Executors : Live(f)' <=> Live(f) /\ f \notin {e}
    BY <2>1, <2>3 DEF Live
  <2>5. \A x \in Calls : x = HandlerContext(e) => contextExecutors[x] \in {e} \cup {NoExecutor}
    <3>1. \A x \in Calls : x = HandlerContext(e) =>
            maker[e] # None /\ op[maker[e]] = "create" /\ x = maker[e]
      BY NoneAssumption DEF HandlerContext, Purpose
    <3> QED
      BY <3>1 DEF HoldInv
  <2>6. \A x \in Calls :
          \/ contextExecutors'[x] = contextExecutors[x]
          \/ contextExecutors'[x] = NoExecutor /\ contextExecutors[x] \in {e} \cup {NoExecutor}
    BY <2>1, <2>5
  <2>7. \A c \in Calls, f \in Executors : Borrowing(c, f)' <=> Borrowing(c, f)
    BY <2>1 DEF Borrowing
  <2>8. StaysReady /\ MakersStay
    BY <2>1 DEF StaysReady, MakersStay
  <2>9. {e} \in SUBSET Executors
    OBVIOUS
  <2>10. \A f \in Executors \ {e} : (f \in available' <=> f \in available) /\ hasLock'[f] = hasLock[f]
    BY <2>1, <2>2
  <2> QED
    BY <2>1, <2>4, <2>6, <2>7, <2>8, <2>9, <2>10, HoldRetired
<1>19. ASSUME NEW e \in Executors, NEW d \in Calls, Respond(e, d)
       PROVE  HoldInv'
  <2>1. LiveStays /\ MakersStay
    BY <1>19, ProcessesStay DEF Respond, callVars
  <2> QED
    BY <1>19, <2>1, <1>c, HoldKept DEF Respond, callVars, poolVars
<1>20. ASSUME NEW e \in Executors, NEW n \in 1..Len(out[e]), Deliver(e, n)
       PROVE  HoldInv'
  <2>1. /\ UNCHANGED << op, cx, ex, maker, stage, proc, hasLock >>
        /\ UNCHANGED << pool, available, contextExecutors, contexts >>
    BY <1>20 DEF Deliver, callVars
  <2>2. UNCHANGED pc \/ \E c \in Calls : pc[c] = "running" /\ Finish(c, "ok")
    BY <1>20 DEF Deliver, callVars
  <2>3. HoldersStay
    BY <2>1, <2>2, <1>c, HoldersFinish
  <2>4. LiveStays /\ MakersStay
    BY <2>1, ProcessesStay
  <2> QED
    BY <2>1, <2>3, <2>4, HoldKept
<1>21. CASE WarmUp
  <2>1. UNCHANGED << op, cx, pc, ex, pool, available, contextExecutors, contexts >>
    BY <1>21 DEF WarmUp, callVars
  <2>2. LiveStays /\ MakersStay
    <3>1. CASE UNCHANGED procVars
      BY <2>1, <3>1, ProcessesStay DEF procVars
    <3>2. CASE KillAndSpawn({}, 1, None)
      <4>1. None \notin contexts
        BY NoneAssumption DEF TypeOK
      <4> QED
        BY <2>1, <3>2, <4>1, SpawnsStay
    <3> QED
      BY <1>21, <3>1, <3>2 DEF WarmUp
  <2> QED
    BY <2>1, <2>2, <1>c, HoldKept
<1>22. ASSUME NEW old \in SUBSET available, CleanIdle(old)
       PROVE  HoldInv'
  <2>1. /\ KillAndSpawn(old, 0, None)
        /\ available' = available \ old /\ pool' = pool \ old
        /\ UNCHANGED << op, cx, pc, ex, contextExecutors, contexts >>
    BY <1>22 DEF CleanIdle, callVars
  <2>2. old \in SUBSET Executors /\ \A f \in old : stage[f] = "ready"
    BY DEF TypeOK, HoldInv
  <2>3. \A f \in Executors :
          \/ stage[f] = "unused" /\ f \notin old /\ maker'[f] = None /\ stage'[f] = "starting"
          \/ /\ maker'[f] = maker[f] /\ stage'[f] = stage[f]
             /\ IF f \in old THEN proc'[f] = Killed(f)
                             ELSE proc'[f] = proc[f] /\ hasLock'[f] = hasLock[f]
    BY <2>1, <2>2, KillAndSpawnEach
  <2>4. \A f \in Executors : Live(f)' <=> Live(f) /\ f \notin old
    BY <2>2, <2>3 DEF Live, Killed
  <2>5. \A f \in Executors \ old : Live(f) => hasLock'[f] = hasLock[f]
    BY <2>3 DEF Live
  <2>6. StaysReady /\ MakersStay
    BY <2>1, <2>3 DEF StaysReady, MakersStay
  <2>7. \A c \in Calls, f \in Executors : Borrowing(c, f)' <=> Borrowing(c, f)
    BY <2>1 DEF Borrowing
  <2>8. \A f \in Executors \ old : f \in available' <=> f \in available
    BY <2>1
  <2> QED
    BY <2>1, <2>2, <2>4, <2>5, <2>6, <2>7, <2>8, HoldRetired
<1> QED
  BY <1>1, <1>2, <1>3, <1>4, <1>5, <1>6, <1>7, <1>8, <1>9, <1>10, <1>11, <1>12,
     <1>13, <1>14, <1>15, <1>16, <1>17, <1>18, <1>19, <1>20, <1>21, <1>22
     DEF Next, NewCall, Pooling

-----------------------------------------------------------------------------
(***************************************************************************)
(* AnswerInv                                                               *)
(***************************************************************************)

\* A call that has asked stays with its executor, and a run that has timed out
\* stays so.
AskedStay ==
  /\ \A c \in Calls : ~ Fresh(c) => ~ Fresh(c)' /\ ex'[c] = ex[c]
  /\ \A c \in Calls : outcome[c] = "timedout" => outcome'[c] = "timedout"
  /\ \A c \in Calls : pc'[c] \notin {"returning", "done"} => outcome'[c] = "none"

\* An executor stays late.
LEMMA LateStays ==
  ASSUME AnswerInv, AskedStay, NEW e, Late(e)
  PROVE  Late(e)'
<1>1. PICK d \in Calls : ex[d] = e /\ outcome[d] = "timedout"
  BY DEF Late
<1>2. ~ Fresh(d)
  BY <1>1 DEF AnswerInv, Fresh
<1> QED
  BY <1>1, <1>2 DEF AskedStay, Late

\* What was asked stays asked, as long as the call waits or has timed out.
LEMMA AskedStays ==
  ASSUME AnswerInv, AskedStay, NEW d \in Calls, NEW e, Asked(d, e),
         pc[d] = "running" => (pc'[d] = "running" \/ outcome'[d] = "timedout" \/ Late(e))
  PROVE  Asked(d, e)'
<1>1. ex'[d] = e /\ ~ Fresh(d)'
  BY DEF Asked, AskedStay
<1>2. pc'[d] = "running" \/ Late(e)'
  <2>1. CASE Late(e)
    BY <2>1, LateStays
  <2>2. CASE outcome'[d] = "timedout"
    BY <1>1, <2>2 DEF Late
  <2> QED
    BY <2>1, <2>2 DEF Asked
<1> QED
  BY <1>1, <1>2 DEF Asked

\* What was given stays given.
LEMMA GivenStays ==
  ASSUME TypeOK, NoneAssumption, AnswerInv, AskedStay,
         NEW c \in Calls, NEW d \in Calls, result[c] = d
  PROVE  /\ ~ Fresh(c)' /\ ~ Fresh(d)'
         /\ ex'[d] = ex'[c]
         /\ d = c \/ Late(ex[c])'
<1>1. /\ ~ Fresh(c) /\ ~ Fresh(d) /\ ex[d] = ex[c]
      /\ d = c \/ Late(ex[c])
  BY DEF AnswerInv
<1>2. ~ Fresh(c)' /\ ~ Fresh(d)' /\ ex'[c] = ex[c] /\ ex'[d] = ex[c]
  BY <1>1 DEF AskedStay
<1>3. PICK e : e = ex[c]
  OBVIOUS
<1>4. Late(e) => Late(e)'
  BY LateStays
<1>5. Late(ex[c]) => Late(ex[c])'
  BY <1>2, <1>3, <1>4 DEF Late
<1> QED
  BY <1>1, <1>2, <1>5

\* Nobody is given an answer.
LEMMA ResultsKept ==
  ASSUME TypeOK, AnswerInv, AskedStay, result' = result
  PROVE  \A c \in Calls : result'[c] # None =>
           /\ ~ Fresh(c)' /\ ~ Fresh(result[c])'
           /\ ex'[result'[c]] = ex'[c]
           /\ result'[c] = c \/ Late(ex[c])'
           /\ \A d \in Calls : result'[d] = result'[c] => d = c
<1> SUFFICES ASSUME NEW c \in Calls, result'[c] # None
             PROVE  /\ ~ Fresh(c)' /\ ~ Fresh(result[c])'
                    /\ ex'[result'[c]] = ex'[c]
                    /\ result'[c] = c \/ Late(ex[c])'
                    /\ \A d \in Calls : result'[d] = result'[c] => d = c
  OBVIOUS
<1>1. PICK d \in Calls : result[c] = d /\ result'[c] = d
  BY DEF TypeOK
<1>2. /\ ~ Fresh(c)' /\ ~ Fresh(d)' /\ ex'[d] = ex'[c] /\ (d = c \/ Late(ex[c])')
  BY <1>1, NoneAssumption, GivenStays
<1>3. \A b \in Calls : result'[b] = d => b = c
  BY <1>1 DEF AnswerInv
<1> QED
  BY <1>1, <1>2, <1>3 DEF Fresh

\* Answers that stay where they are, or get lost.
LEMMA AnswersKept ==
  ASSUME TypeOK, AnswerInv, AskedStay, result' = result,
         \A c \in Calls : pc[c] = "running" => pc'[c] = "running" \/ outcome'[c] = "timedout",
         \A e \in Executors : inbox'[e] \subseteq inbox[e],
         \A e \in Executors :
           Distinct(out'[e]) /\ Members(out'[e]) \subseteq Members(out[e]),
         \A c \in Calls : buf'[c] = buf[c] \/ buf'[c] = << >>,
         \A c \in Calls : pc[c] = "running" /\ buf'[c] # << >> => pc'[c] = "running"
  PROVE  AnswerInv'
<1>1. \A d \in Calls : NotGiven(d)' <=> NotGiven(d)
  BY DEF NotGiven
<1>2. \A c \in Calls : Members(buf'[c]) \subseteq Members(buf[c])
  BY EmptyMembers
<1>3. \A d \in Calls, e \in Executors : Asked(d, e) => Asked(d, e)'
  BY AskedStays
<1>4. \A e \in Executors : \A d \in inbox[e] : d \in Calls
  BY DEF TypeOK
<1>5. \A e \in Executors : \A d \in inbox'[e] : Asked(d, e)' /\ NotGiven(d)' /\ Unanswered(d)'
  <2> SUFFICES ASSUME NEW e \in Executors, NEW d \in inbox'[e]
               PROVE  Asked(d, e)' /\ NotGiven(d)' /\ Unanswered(d)'
    OBVIOUS
  <2>1. d \in inbox[e] /\ d \in Calls
    BY <1>4
  <2>2. Asked(d, e) /\ NotGiven(d) /\ Unanswered(d)
    BY <2>1 DEF AnswerInv
  <2>3. Unanswered(d)'
    BY <1>2, <2>2 DEF Unanswered
  <2> QED
    BY <1>1, <1>3, <2>1, <2>2, <2>3
<1>6. \A e \in Executors, d \in Calls, k \in {1, 2} :
        << d, k >> \in Members(out'[e]) =>
          /\ Asked(d, e)' /\ NotGiven(d)'
          /\ \A c \in Calls : << d, k >> \notin Members(buf'[c])
  <2> SUFFICES ASSUME NEW e \in Executors, NEW d \in Calls, NEW k \in {1, 2},
                      << d, k >> \in Members(out'[e])
               PROVE  /\ Asked(d, e)' /\ NotGiven(d)'
                      /\ \A c \in Calls : << d, k >> \notin Members(buf'[c])
    OBVIOUS
  <2>1. << d, k >> \in Members(out[e])
    OBVIOUS
  <2>2. /\ Asked(d, e) /\ NotGiven(d)
        /\ \A c \in Calls : << d, k >> \notin Members(buf[c])
    BY <2>1 DEF AnswerInv
  <2> QED
    BY <1>1, <1>2, <1>3, <2>2
<1>7. \A c, d \in Calls, k \in {1, 2} :
        << d, k >> \in Members(buf'[c]) =>
          pc'[c] = "running" /\ Asked(d, ex[c])' /\ NotGiven(d)'
  <2> SUFFICES ASSUME NEW c \in Calls, NEW d \in Calls, NEW k \in {1, 2},
                      << d, k >> \in Members(buf'[c])
               PROVE  pc'[c] = "running" /\ Asked(d, ex[c])' /\ NotGiven(d)'
    OBVIOUS
  <2>1. << d, k >> \in Members(buf[c]) /\ buf'[c] # << >>
    BY <1>2, EmptyMembers
  <2>2. pc[c] = "running" /\ Asked(d, ex[c]) /\ NotGiven(d)
    BY <2>1 DEF AnswerInv
  <2>3. pc'[c] = "running"
    BY <2>1, <2>2
  <2>4. ex'[c] = ex[c]
    BY <2>2 DEF AskedStay, Fresh
  <2>5. PICK e : e = ex[c]
    OBVIOUS
  <2>6. Asked(d, e)'
    BY <2>2, <2>5, AskedStays
  <2>7. Asked(d, ex[c])'
    BY <2>4, <2>5, <2>6 DEF Asked, Late
  <2> QED
    BY <1>1, <2>2, <2>3, <2>7
<1>8. \A c \in Calls : result'[c] # None =>
        /\ ~ Fresh(c)' /\ ~ Fresh(result[c])'
        /\ ex'[result'[c]] = ex'[c]
        /\ result'[c] = c \/ Late(ex[c])'
        /\ \A d \in Calls : result'[d] = result'[c] => d = c
  BY ResultsKept
<1>9. \A e \in Executors : Distinct(out'[e])
  OBVIOUS
<1>10. \A c \in Calls : pc'[c] \notin {"returning", "done"} => outcome'[c] = "none"
  BY DEF AskedStay
<1> QED
  BY <1>5, <1>6, <1>7, <1>8, <1>9, <1>10 DEF AnswerInv

\* Calls go on and answers stay where they are.
LEMMA AnswersRest ==
  ASSUME TypeOK, AnswerInv, NEW c \in Calls, pc[c] # "running",
         \A b \in Calls : b # c =>
           pc'[b] = pc[b] /\ ex'[b] = ex[b] /\ outcome'[b] = outcome[b],
         ~ Fresh(c) => ~ Fresh(c)' /\ ex'[c] = ex[c],
         pc[c] \in {"returning", "done"} => outcome'[c] = outcome[c],
         pc'[c] \notin {"returning", "done"} => outcome'[c] = "none",
         UNCHANGED << inbox, out, buf, result >>
  PROVE  AnswerInv'
<1>1. AskedStay
  BY DEF AskedStay, AnswerInv, Fresh
<1>2. \A b \in Calls : pc[b] = "running" => pc'[b] = "running"
  OBVIOUS
<1>3. \A e \in Executors : Distinct(out'[e]) /\ Members(out'[e]) \subseteq Members(out[e])
  BY DEF AnswerInv
<1> QED
  BY <1>1, <1>2, <1>3, AnswersKept

\* A run writes its request.
LEMMA AnswersBegin ==
  ASSUME TypeOK, LineInv, AnswerInv, NEW c \in Calls, Begin(c)
  PROVE  AnswerInv'
<1>1. PICK e \in Executors : e = ex[c]
  BY DEF Begin, LineInv
<1>2. /\ pc[c] = "queued" /\ pc'[c] = "running"
      /\ \A b \in Calls : b # c => pc'[b] = pc[b]
      /\ UNCHANGED << ex, outcome, result, out >>
  BY DEF Begin, TypeOK
<1>3. buf'[c] = << >> /\ \A b \in Calls : b # c => buf'[b] = buf[b]
  BY DEF Begin, TypeOK
<1>4. /\ inbox'[e] \in {inbox[e], inbox[e] \cup {c}}
      /\ \A f \in Executors : f # e => inbox'[f] = inbox[f]
  BY <1>1 DEF Begin, TypeOK
<1>5. Fresh(c) /\ ~ Fresh(c)' /\ \A b \in Calls : b # c => (Fresh(b)' <=> Fresh(b))
  BY <1>2 DEF Fresh
<1>6. AskedStay
  BY <1>2, <1>5 DEF AskedStay, AnswerInv
<1>7. \A d \in Calls, f \in Executors : Asked(d, f) => Asked(d, f)'
  BY <1>2, <1>6, AskedStays
<1>8. /\ Asked(c, e)' /\ NotGiven(c) /\ Unanswered(c)
  <2>1. Asked(c, e)'
    BY <1>1, <1>2, <1>5 DEF Asked
  <2>2. NotGiven(c)
    BY <1>5, NoneAssumption DEF NotGiven, AnswerInv
  <2>3. Unanswered(c)
    BY <1>5 DEF Unanswered, AnswerInv, Asked
  <2> QED
    BY <2>1, <2>2, <2>3
<1>9. \A b \in Calls : Members(buf'[b]) \subseteq Members(buf[b])
  BY <1>3, EmptyMembers
<1>10. \A d \in Calls : (NotGiven(d)' <=> NotGiven(d)) /\ (Unanswered(d) => Unanswered(d)')
  BY <1>2, <1>9 DEF NotGiven, Unanswered
<1>11. \A f \in Executors : \A d \in inbox'[f] : Asked(d, f)' /\ NotGiven(d)' /\ Unanswered(d)'
  <2> SUFFICES ASSUME NEW f \in Executors, NEW d \in inbox'[f]
               PROVE  Asked(d, f)' /\ NotGiven(d)' /\ Unanswered(d)'
    OBVIOUS
  <2>1. CASE d \in inbox[f]
    <3>1. d \in Calls
      BY <2>1 DEF TypeOK
    <3>2. Asked(d, f) /\ NotGiven(d) /\ Unanswered(d)
      BY <2>1 DEF AnswerInv
    <3> QED
      BY <1>7, <1>10, <3>1, <3>2
  <2>2. CASE d = c /\ f = e
    BY <1>8, <1>10, <2>2
  <2> QED
    BY <1>4, <2>1, <2>2
<1>12. \A f \in Executors, d \in Calls, k \in {1, 2} :
         << d, k >> \in Members(out'[f]) =>
           /\ Asked(d, f)' /\ NotGiven(d)'
           /\ \A b \in Calls : << d, k >> \notin Members(buf'[b])
  <2> SUFFICES ASSUME NEW f \in Executors, NEW d \in Calls, NEW k \in {1, 2},
                      << d, k >> \in Members(out'[f])
               PROVE  /\ Asked(d, f)' /\ NotGiven(d)'
                      /\ \A b \in Calls : << d, k >> \notin Members(buf'[b])
    OBVIOUS
  <2>1. << d, k >> \in Members(out[f])
    BY <1>2
  <2>2. /\ Asked(d, f) /\ NotGiven(d)
        /\ \A b \in Calls : << d, k >> \notin Members(buf[b])
    BY <2>1 DEF AnswerInv
  <2> QED
    BY <1>7, <1>9, <1>10, <2>2
<1>13. \A b, d \in Calls, k \in {1, 2} :
         << d, k >> \in Members(buf'[b]) =>
           pc'[b] = "running" /\ Asked(d, ex[b])' /\ NotGiven(d)'
  <2> SUFFICES ASSUME NEW b \in Calls, NEW d \in Calls, NEW k \in {1, 2},
                      << d, k >> \in Members(buf'[b])
               PROVE  pc'[b] = "running" /\ Asked(d, ex[b])' /\ NotGiven(d)'
    OBVIOUS
  <2>1. << d, k >> \in Members(buf[b]) /\ b # c
    BY <1>3, <1>9, EmptyMembers
  <2>2. pc[b] = "running" /\ Asked(d, ex[b]) /\ NotGiven(d)
    BY <2>1 DEF AnswerInv
  <2>3. PICK f \in Executors : f = ex[b]
    BY <2>2 DEF LineInv
  <2>4. Asked(d, f)'
    BY <1>7, <2>2, <2>3
  <2>5. Asked(d, ex[b])'
    BY <1>2, <2>3, <2>4 DEF Asked, Late
  <2> QED
    BY <1>2, <1>10, <2>1, <2>2, <2>5
<1>14. \A b \in Calls : result'[b] # None =>
         /\ ~ Fresh(b)' /\ ~ Fresh(result[b])'
         /\ ex'[result'[b]] = ex'[b]
         /\ result'[b] = b \/ Late(ex[b])'
         /\ \A d \in Calls : result'[d] = result'[b] => d = b
  BY <1>6, <1>2, ResultsKept
<1>15. \A f \in Executors : Distinct(out'[f])
  BY <1>2 DEF AnswerInv
<1>16. \A b \in Calls : pc'[b] \notin {"returning", "done"} => outcome'[b] = "none"
  BY <1>6 DEF AskedStay
<1> QED
  BY <1>11, <1>12, <1>13, <1>14, <1>15, <1>16 DEF AnswerInv

\* An executor answers a request.
LEMMA AnswersRespond ==
  ASSUME TypeOK, AnswerInv, NEW e \in Executors, NEW a \in Calls, Respond(e, a)
  PROVE  AnswerInv'
<1>1. /\ a \in inbox[e]
      /\ inbox'[e] = inbox[e] \ {a} /\ \A f \in Executors : f # e => inbox'[f] = inbox[f]
      /\ out'[e] = out[e] \o Response(a) /\ \A f \in Executors : f # e => out'[f] = out[f]
      /\ UNCHANGED << op, cx, pc, ex, buf, outcome, result >>
  BY DEF Respond, TypeOK, callVars
<1>2. /\ Response(a) \in Seq(Calls \X {1, 2})
      /\ Members(Response(a)) = {<< a, 1 >>, << a, 2 >>}
      /\ Distinct(Response(a))
  <2>1. /\ Response(a) \in Seq(Calls \X {1, 2}) /\ Len(Response(a)) = 2
        /\ Response(a)[1] = << a, 1 >> /\ Response(a)[2] = << a, 2 >>
    BY DEF Response
  <2>2. \A i \in 1..2 : i = 1 \/ i = 2
    OBVIOUS
  <2>3. << a, 1 >> # << a, 2 >>
    OBVIOUS
  <2> HIDE DEF Response
  <2>4. Members(Response(a)) = {<< a, 1 >>, << a, 2 >>}
    BY <2>1, <2>2 DEF Members
  <2>5. Distinct(Response(a))
    BY <2>1, <2>2, <2>3 DEF Distinct
  <2> QED
    BY <2>1, <2>4, <2>5
<1>3. /\ Asked(a, e) /\ NotGiven(a) /\ Unanswered(a)
  BY <1>1 DEF AnswerInv
<1>4. out[e] \in Seq(Calls \X {1, 2}) /\ Distinct(out[e])
  BY DEF TypeOK, AnswerInv
<1>5. Members(out[e]) \cap Members(Response(a)) = {}
  BY <1>2, <1>3 DEF Unanswered
<1>6. /\ Members(out'[e]) = Members(out[e]) \cup {<< a, 1 >>, << a, 2 >>}
      /\ Distinct(out'[e])
  <2> DEFINE s == out[e]
             r == Response(a)
  <2>1. s \in Seq(Calls \X {1, 2}) /\ r \in Seq(Calls \X {1, 2})
        /\ Distinct(s) /\ Distinct(r) /\ Members(s) \cap Members(r) = {}
    BY <1>2, <1>4, <1>5
  <2> HIDE DEF s, r
  <2>2. Members(s \o r) = Members(s) \cup Members(r) /\ Distinct(s \o r)
    BY <2>1, ConcatMembers
  <2>3. out'[e] = s \o r
    BY <1>1 DEF s, r
  <2> QED
    BY <1>2, <2>2, <2>3 DEF s, r
<1>7. AskedStay
  BY <1>1 DEF AskedStay, AnswerInv, Fresh
<1>8. \A d \in Calls, f \in Executors : Asked(d, f)' <=> Asked(d, f)
  BY <1>1 DEF Asked, Fresh, Late
<1>9. \A d \in Calls : NotGiven(d)' <=> NotGiven(d)
  BY <1>1 DEF NotGiven
<1>10. \A f \in Executors, d \in Calls, k \in {1, 2} :
         << d, k >> \in Members(out'[f]) =>
           << d, k >> \in Members(out[f]) \/ (d = a /\ f = e)
  <2> SUFFICES ASSUME NEW f \in Executors, NEW d \in Calls, NEW k \in {1, 2},
                      << d, k >> \in Members(out'[f]), << d, k >> \notin Members(out[f])
               PROVE  d = a /\ f = e
    OBVIOUS
  <2>1. f = e
    BY <1>1
  <2>2. << d, k >> = << a, 1 >> \/ << d, k >> = << a, 2 >>
    BY <1>6, <2>1
  <2> QED
    BY <2>1, <2>2
<1>11. \A f \in Executors : \A d \in inbox'[f] :
         d \in inbox[f] /\ d \in Calls /\ d # a
  <2> SUFFICES ASSUME NEW f \in Executors, NEW d \in inbox'[f]
               PROVE  d \in inbox[f] /\ d \in Calls /\ d # a
    OBVIOUS
  <2>1. d \in inbox[f] /\ d \in Calls
    BY <1>1 DEF TypeOK
  <2>2. f # e => d # a
    BY <1>3, <2>1 DEF AnswerInv, Asked
  <2> QED
    BY <1>1, <2>1, <2>2
<1>12. \A f \in Executors : \A d \in inbox'[f] : Asked(d, f)' /\ NotGiven(d)' /\ Unanswered(d)'
  <2> SUFFICES ASSUME NEW f \in Executors, NEW d \in inbox'[f]
               PROVE  Asked(d, f)' /\ NotGiven(d)' /\ Unanswered(d)'
    OBVIOUS
  <2>1. d \in inbox[f] /\ d \in Calls /\ d # a
    BY <1>11
  <2>2. Asked(d, f) /\ NotGiven(d) /\ Unanswered(d)
    BY <2>1 DEF AnswerInv
  <2>3. Unanswered(d)'
    BY <1>1, <1>10, <2>1, <2>2 DEF Unanswered
  <2> QED
    BY <1>8, <1>9, <2>1, <2>2, <2>3
<1>13. \A f \in Executors, d \in Calls, k \in {1, 2} :
         << d, k >> \in Members(out'[f]) =>
           /\ Asked(d, f)' /\ NotGiven(d)'
           /\ \A b \in Calls : << d, k >> \notin Members(buf'[b])
  <2> SUFFICES ASSUME NEW f \in Executors, NEW d \in Calls, NEW k \in {1, 2},
                      << d, k >> \in Members(out'[f])
               PROVE  /\ Asked(d, f)' /\ NotGiven(d)'
                      /\ \A b \in Calls : << d, k >> \notin Members(buf'[b])
    OBVIOUS
  <2>1. CASE << d, k >> \in Members(out[f])
    BY <1>1, <1>8, <1>9, <2>1 DEF AnswerInv
  <2>2. CASE d = a /\ f = e
    BY <1>1, <1>3, <1>8, <1>9, <2>2 DEF Unanswered
  <2> QED
    BY <1>10, <2>1, <2>2
<1>14. \A b, d \in Calls, k \in {1, 2} :
         << d, k >> \in Members(buf'[b]) =>
           pc'[b] = "running" /\ Asked(d, ex[b])' /\ NotGiven(d)'
  <2> SUFFICES ASSUME NEW b \in Calls, NEW d \in Calls, NEW k \in {1, 2},
                      << d, k >> \in Members(buf'[b])
               PROVE  pc'[b] = "running" /\ Asked(d, ex[b])' /\ NotGiven(d)'
    OBVIOUS
  <2>1. << d, k >> \in Members(buf[b])
    BY <1>1
  <2>2. pc[b] = "running" /\ Asked(d, ex[b]) /\ NotGiven(d)
    BY <2>1 DEF AnswerInv
  <2>3. Asked(d, ex[b])'
    BY <1>1, <2>2 DEF Asked, Fresh, Late
  <2> QED
    BY <1>1, <1>9, <2>2, <2>3
<1>15. \A f \in Executors : Distinct(out'[f])
  BY <1>1, <1>6 DEF AnswerInv
<1>16. \A b \in Calls : pc'[b] \notin {"returning", "done"} => outcome'[b] = "none"
  BY <1>7 DEF AskedStay
<1> QED
  BY <1>1, <1>7, <1>12, <1>13, <1>14, <1>15, <1>16, ResultsKept DEF AnswerInv

\* What stdout keeps and what it delivers.
LEMMA Delivery ==
  ASSUME TypeOK, AnswerInv, NEW e \in Executors, NEW n \in 1..Len(out[e]), Deliver(e, n)
  PROVE  /\ SubSeq(out[e], 1, n) \in Seq(Calls \X {1, 2})
         /\ Members(SubSeq(out[e], 1, n)) \subseteq Members(out[e])
         /\ Members(SubSeq(out[e], 1, n)) \cap Members(out'[e]) = {}
         /\ Members(out'[e]) \subseteq Members(out[e])
         /\ Distinct(out'[e])
         /\ \A f \in Executors : f # e => out'[f] = out[f]
         /\ inbox' = inbox
<1> DEFINE s == out[e]
<1>1. s \in Seq(Calls \X {1, 2}) /\ n \in 1..Len(s) /\ Distinct(s)
  BY DEF TypeOK, AnswerInv
<1>2. out' = [out EXCEPT ![e] = SubSeq(s, n + 1, Len(s))] /\ inbox' = inbox
  BY DEF Deliver
<1>3. out'[e] = SubSeq(s, n + 1, Len(s)) /\ \A f \in Executors : f # e => out'[f] = out[f]
  BY <1>2 DEF TypeOK
<1> HIDE DEF s
<1>4. /\ SubSeq(s, 1, n) \in Seq(Calls \X {1, 2})
      /\ Members(SubSeq(s, 1, n)) \subseteq Members(s)
      /\ Members(SubSeq(s, n + 1, Len(s))) \subseteq Members(s)
      /\ Distinct(SubSeq(s, n + 1, Len(s)))
      /\ Members(SubSeq(s, 1, n)) \cap Members(SubSeq(s, n + 1, Len(s))) = {}
  BY <1>1, SplitMembers
<1> QED
  BY <1>2, <1>3, <1>4 DEF s

\* A chunk that does not end the run that listens.
LEMMA AnswersCollect ==
  ASSUME TypeOK, AnswerInv, NEW e \in Executors, NEW n \in 1..Len(out[e]), Deliver(e, n),
         NEW c \in Calls, pc[c] = "running", ex[c] = e,
         buf' = [buf EXCEPT ![c] = @ \o SubSeq(out[e], 1, n)],
         UNCHANGED << op, cx, pc, ex, outcome, result >>
  PROVE  AnswerInv'
<1> DEFINE chunk == SubSeq(out[e], 1, n)
<1>1. /\ chunk \in Seq(Calls \X {1, 2})
      /\ Members(chunk) \subseteq Members(out[e])
      /\ Members(chunk) \cap Members(out'[e]) = {}
      /\ Members(out'[e]) \subseteq Members(out[e])
      /\ Distinct(out'[e])
      /\ \A f \in Executors : f # e => out'[f] = out[f]
      /\ inbox' = inbox
  BY Delivery
<1>2. buf[c] \in Seq(Calls \X {1, 2})
      /\ buf'[c] = buf[c] \o chunk /\ \A b \in Calls : b # c => buf'[b] = buf[b]
  BY DEF TypeOK
<1> HIDE DEF chunk
<1>3. Members(buf'[c]) = Members(buf[c]) \cup Members(chunk)
  <2>1. PICK s : s = buf[c]
    OBVIOUS
  <2>2. Members(s \o chunk) = Members(s) \cup Members(chunk)
    BY <1>1, <1>2, <2>1, ConcatMembers
  <2> QED
    BY <1>2, <2>1, <2>2
<1>4. AskedStay
  BY DEF AskedStay, AnswerInv, Fresh
<1>5. \A d \in Calls, f \in Executors : Asked(d, f)' <=> Asked(d, f)
  BY DEF Asked, Fresh, Late
<1>6. \A d \in Calls : NotGiven(d)' <=> NotGiven(d)
  BY DEF NotGiven
<1>7. \A d \in Calls, k \in {1, 2} : << d, k >> \in Members(chunk) =>
        Asked(d, e) /\ NotGiven(d) /\ << d, k >> \in Members(out[e])
  BY <1>1 DEF AnswerInv
<1>8. \A f \in Executors : Members(out'[f]) \subseteq Members(out[f])
  BY <1>1
<1>9. \A f \in Executors : \A d \in inbox'[f] : Asked(d, f)' /\ NotGiven(d)' /\ Unanswered(d)'
  <2> SUFFICES ASSUME NEW f \in Executors, NEW d \in inbox'[f]
               PROVE  Asked(d, f)' /\ NotGiven(d)' /\ Unanswered(d)'
    OBVIOUS
  <2>1. d \in inbox[f] /\ d \in Calls
    BY <1>1 DEF TypeOK
  <2>2. Asked(d, f) /\ NotGiven(d) /\ Unanswered(d)
    BY <2>1 DEF AnswerInv
  <2>3. \A k \in {1, 2} : << d, k >> \notin Members(chunk)
    BY <1>1, <2>2 DEF Unanswered
  <2>4. Unanswered(d)'
    BY <1>2, <1>3, <1>8, <2>2, <2>3 DEF Unanswered
  <2> QED
    BY <1>5, <1>6, <2>1, <2>2, <2>4
<1>10. \A f \in Executors, d \in Calls, k \in {1, 2} :
         << d, k >> \in Members(out'[f]) =>
           /\ Asked(d, f)' /\ NotGiven(d)'
           /\ \A b \in Calls : << d, k >> \notin Members(buf'[b])
  <2> SUFFICES ASSUME NEW f \in Executors, NEW d \in Calls, NEW k \in {1, 2},
                      << d, k >> \in Members(out'[f])
               PROVE  /\ Asked(d, f)' /\ NotGiven(d)'
                      /\ \A b \in Calls : << d, k >> \notin Members(buf'[b])
    OBVIOUS
  <2>1. /\ Asked(d, f) /\ NotGiven(d)
        /\ \A b \in Calls : << d, k >> \notin Members(buf[b])
    BY <1>8 DEF AnswerInv
  <2>2. << d, k >> \notin Members(chunk)
    <3>1. CASE f = e
      BY <1>1, <3>1
    <3>2. CASE f # e
      BY <1>7, <2>1, <3>2 DEF Asked
    <3> QED
      BY <3>1, <3>2
  <2> QED
    BY <1>2, <1>3, <1>5, <1>6, <2>1, <2>2
<1>11. \A b, d \in Calls, k \in {1, 2} :
         << d, k >> \in Members(buf'[b]) =>
           pc'[b] = "running" /\ Asked(d, ex[b])' /\ NotGiven(d)'
  <2> SUFFICES ASSUME NEW b \in Calls, NEW d \in Calls, NEW k \in {1, 2},
                      << d, k >> \in Members(buf'[b])
               PROVE  pc'[b] = "running" /\ Asked(d, ex[b])' /\ NotGiven(d)'
    OBVIOUS
  <2>1. << d, k >> \in Members(buf[b]) \/ (b = c /\ << d, k >> \in Members(chunk))
    BY <1>2, <1>3
  <2>2. pc[b] = "running" /\ Asked(d, ex[b]) /\ NotGiven(d)
    BY <1>7, <2>1 DEF AnswerInv
  <2>3. Asked(d, ex[b])'
    BY <2>2 DEF Asked, Fresh, Late
  <2> QED
    BY <1>6, <2>2, <2>3
<1>12. \A f \in Executors : Distinct(out'[f])
  BY <1>1 DEF AnswerInv
<1>13. \A b \in Calls : pc'[b] \notin {"returning", "done"} => outcome'[b] = "none"
  BY <1>4 DEF AskedStay
<1> QED
  BY <1>4, <1>9, <1>10, <1>11, <1>12, <1>13, ResultsKept DEF AnswerInv

\* A chunk that completes the answer of call d ends the run that listens.
LEMMA AnswersGiven ==
  ASSUME TypeOK, LineInv, AnswerInv,
         NEW e \in Executors, NEW n \in 1..Len(out[e]), Deliver(e, n),
         NEW c \in Calls, NEW d \in Calls, pc[c] = "running", ex[c] = e,
         buf[c] \o SubSeq(out[e], 1, n) = Response(d),
         result' = [result EXCEPT ![c] = d], Finish(c, "ok"),
         UNCHANGED << op, cx, ex >>
  PROVE  AnswerInv'
<1> DEFINE chunk == SubSeq(out[e], 1, n)
<1>1. /\ chunk \in Seq(Calls \X {1, 2})
      /\ Members(chunk) \subseteq Members(out[e])
      /\ Members(chunk) \cap Members(out'[e]) = {}
      /\ Members(out'[e]) \subseteq Members(out[e])
      /\ Distinct(out'[e])
      /\ \A f \in Executors : f # e => out'[f] = out[f]
      /\ inbox' = inbox
  BY Delivery
<1> HIDE DEF chunk
<1>2. << d, 1 >> \in Members(buf[c]) \cup Members(chunk)
      /\ << d, 2 >> \in Members(buf[c]) \cup Members(chunk)
  <2>1. PICK s : s = buf[c]
    OBVIOUS
  <2>2. s \in Seq(Calls \X {1, 2})
    BY <2>1 DEF TypeOK
  <2>3. Members(s \o chunk) = Members(s) \cup Members(chunk)
    BY <1>1, <2>2, ConcatMembers
  <2>4. Len(Response(d)) = 2 /\ Response(d)[1] = << d, 1 >> /\ Response(d)[2] = << d, 2 >>
    BY DEF Response
  <2>5. << d, 1 >> \in Members(Response(d)) /\ << d, 2 >> \in Members(Response(d))
    BY <2>4 DEF Members
  <2> QED
    BY <2>1, <2>3, <2>5 DEF chunk
<1>3. \A k \in {1, 2} : << d, k >> \in Members(buf[c]) \/ << d, k >> \in Members(chunk)
  BY <1>2
<1>4. Asked(d, e) /\ NotGiven(d)
  <2>1. CASE << d, 1 >> \in Members(buf[c])
    BY <2>1 DEF AnswerInv
  <2>2. CASE << d, 1 >> \in Members(out[e])
    BY <2>2 DEF AnswerInv
  <2> QED
    BY <1>1, <1>2, <2>1, <2>2
<1>5. /\ pc'[c] \in {"returning", "done"} /\ outcome'[c] = "ok" /\ buf'[c] = << >>
      /\ \A b \in Calls : b # c =>
           pc'[b] = pc[b] /\ outcome'[b] = outcome[b] /\ buf'[b] = buf[b]
      /\ result'[c] = d /\ \A b \in Calls : b # c => result'[b] = result[b]
  <2>1. pc' = [pc EXCEPT ![c] = "returning"] \/ pc' = [pc EXCEPT ![c] = "done"]
    BY DEF Finish
  <2>2. pc'[c] \in {"returning", "done"} /\ \A b \in Calls : b # c => pc'[b] = pc[b]
    BY <2>1 DEF TypeOK
  <2>3. outcome'[c] = "ok" /\ \A b \in Calls : b # c => outcome'[b] = outcome[b]
    BY DEF Finish, TypeOK
  <2>4. buf'[c] = << >> /\ \A b \in Calls : b # c => buf'[b] = buf[b]
    BY DEF Finish, TypeOK
  <2>5. result'[c] = d /\ \A b \in Calls : b # c => result'[b] = result[b]
    BY DEF TypeOK
  <2> QED
    BY <2>2, <2>3, <2>4, <2>5
<1>6. AskedStay
  <2>1. outcome[c] = "none"
    BY DEF AnswerInv
  <2> QED
    BY <1>5, <2>1 DEF AskedStay, AnswerInv, Fresh
\* Only one run listens to e.
<1>7. \A b \in Calls : pc[b] = "running" /\ ex[b] = e => b = c
  BY DEF LineInv
<1>8. d = c \/ Late(e)
  BY <1>4, <1>7 DEF Asked
<1>9. \A b \in Calls, f \in Executors : b # d /\ Asked(b, f) => Asked(b, f)'
  <2> SUFFICES ASSUME NEW b \in Calls, NEW f \in Executors, b # d, Asked(b, f)
               PROVE  Asked(b, f)'
    OBVIOUS
  <2>1. CASE b = c
    <3>1. f = e /\ Late(f)
      BY <1>8, <2>1 DEF Asked
    <3> QED
      BY <1>6, <3>1, AskedStays
  <2>2. CASE b # c
    BY <1>5, <1>6, <2>2, AskedStays
  <2> QED
    BY <2>1, <2>2
<1>10. \A b \in Calls : b # d /\ NotGiven(b) => NotGiven(b)'
  BY <1>5 DEF NotGiven
<1>11. \A b \in Calls : Members(buf'[b]) \subseteq Members(buf[b])
  BY <1>5, EmptyMembers
<1>12. \A f \in Executors : Members(out'[f]) \subseteq Members(out[f])
  BY <1>1
\* Nothing of the answer is left.
<1>13. \A f \in Executors, k \in {1, 2} : << d, k >> \notin Members(out'[f])
  <2> SUFFICES ASSUME NEW f \in Executors, NEW k \in {1, 2}, << d, k >> \in Members(out'[f])
               PROVE  FALSE
    OBVIOUS
  <2>1. << d, k >> \in Members(out[f])
    BY <1>12
  <2>2. f = e /\ << d, k >> \notin Members(buf[c])
    BY <1>4, <2>1 DEF AnswerInv, Asked
  <2> QED
    BY <1>1, <1>3, <2>2
<1>14. \A b \in Calls, k \in {1, 2} : << d, k >> \notin Members(buf'[b])
  <2> SUFFICES ASSUME NEW b \in Calls, NEW k \in {1, 2}, << d, k >> \in Members(buf'[b])
               PROVE  FALSE
    OBVIOUS
  <2>1. << d, k >> \in Members(buf[b])
    BY <1>11
  <2>2. pc[b] = "running" /\ ex[b] = e
    BY <1>4, <2>1 DEF AnswerInv, Asked
  <2>3. b = c
    BY <1>7, <2>2
  <2> QED
    BY <1>5, <2>3, EmptyMembers
<1>15. \A f \in Executors : \A b \in inbox'[f] : Asked(b, f)' /\ NotGiven(b)' /\ Unanswered(b)'
  <2> SUFFICES ASSUME NEW f \in Executors, NEW b \in inbox'[f]
               PROVE  Asked(b, f)' /\ NotGiven(b)' /\ Unanswered(b)'
    OBVIOUS
  <2>1. b \in inbox[f] /\ b \in Calls
    BY <1>1 DEF TypeOK
  <2>2. Asked(b, f) /\ NotGiven(b) /\ Unanswered(b)
    BY <2>1 DEF AnswerInv
  <2>3. b # d
    BY <1>1, <1>2, <2>2 DEF Unanswered
  <2>4. Unanswered(b)'
    BY <1>11, <1>12, <2>2 DEF Unanswered
  <2> QED
    BY <1>9, <1>10, <2>1, <2>2, <2>3, <2>4
<1>16. \A f \in Executors, b \in Calls, k \in {1, 2} :
         << b, k >> \in Members(out'[f]) =>
           /\ Asked(b, f)' /\ NotGiven(b)'
           /\ \A a \in Calls : << b, k >> \notin Members(buf'[a])
  <2> SUFFICES ASSUME NEW f \in Executors, NEW b \in Calls, NEW k \in {1, 2},
                      << b, k >> \in Members(out'[f])
               PROVE  /\ Asked(b, f)' /\ NotGiven(b)'
                      /\ \A a \in Calls : << b, k >> \notin Members(buf'[a])
    OBVIOUS
  <2>1. b # d
    BY <1>13
  <2>2. /\ Asked(b, f) /\ NotGiven(b)
        /\ \A a \in Calls : << b, k >> \notin Members(buf[a])
    BY <1>12 DEF AnswerInv
  <2> QED
    BY <1>9, <1>10, <1>11, <2>1, <2>2
<1>17. \A a, b \in Calls, k \in {1, 2} :
         << b, k >> \in Members(buf'[a]) =>
           pc'[a] = "running" /\ Asked(b, ex[a])' /\ NotGiven(b)'
  <2> SUFFICES ASSUME NEW a \in Calls, NEW b \in Calls, NEW k \in {1, 2},
                      << b, k >> \in Members(buf'[a])
               PROVE  pc'[a] = "running" /\ Asked(b, ex[a])' /\ NotGiven(b)'
    OBVIOUS
  <2>1. b # d /\ a # c
    BY <1>5, <1>14, EmptyMembers
  <2>2. pc[a] = "running" /\ Asked(b, ex[a]) /\ NotGiven(b)
    BY <1>11 DEF AnswerInv
  <2>3. PICK f \in Executors : f = ex[a]
    BY <2>2 DEF LineInv
  <2>4. Asked(b, f)'
    BY <1>9, <2>1, <2>2, <2>3
  <2>5. Asked(b, ex[a])'
    BY <2>3, <2>4 DEF Asked, Late
  <2> QED
    BY <1>5, <1>10, <2>1, <2>2, <2>5
<1>18. \A b \in Calls : result'[b] # None =>
         /\ ~ Fresh(b)' /\ ~ Fresh(result[b])'
         /\ ex'[result'[b]] = ex'[b]
         /\ result'[b] = b \/ Late(ex[b])'
         /\ \A a \in Calls : result'[a] = result'[b] => a = b
  <2> SUFFICES ASSUME NEW b \in Calls, result'[b] # None
               PROVE  /\ ~ Fresh(b)' /\ ~ Fresh(result[b])'
                      /\ ex'[result'[b]] = ex'[b]
                      /\ result'[b] = b \/ Late(ex[b])'
                      /\ \A a \in Calls : result'[a] = result'[b] => a = b
    OBVIOUS
  <2>1. CASE b = c
    <3>1. ~ Fresh(c)' /\ ~ Fresh(d)' /\ ex'[c] = e /\ ex'[d] = e
      BY <1>4, <1>6 DEF Asked, AskedStay, Fresh
    <3>2. d = c \/ Late(ex[c])'
      <4>1. Late(e) => Late(e)'
        BY <1>6, LateStays
      <4> QED
        BY <1>8, <4>1 DEF Late
    <3>3. \A a \in Calls : result'[a] = d => a = c
      BY <1>4, <1>5 DEF NotGiven
    <3> QED
      BY <1>5, <2>1, <3>1, <3>2, <3>3 DEF Fresh
  <2>2. CASE b # c
    <3>1. PICK a \in Calls : result[b] = a /\ result'[b] = a
      BY <1>5, <2>2 DEF TypeOK
    <3>2. /\ ~ Fresh(b)' /\ ~ Fresh(a)' /\ ex'[a] = ex'[b] /\ (a = b \/ Late(ex[b])')
      BY <1>6, <3>1, NoneAssumption, GivenStays
    <3>3. a # d
      BY <1>4, <3>1 DEF NotGiven
    <3>4. \A g \in Calls : result[g] = a => g = b
      BY <3>1, NoneAssumption DEF AnswerInv
    <3>5. \A g \in Calls : result'[g] = a => g = b
      BY <1>5, <3>3, <3>4
    <3> QED
      BY <3>1, <3>2, <3>5 DEF Fresh
  <2> QED
    BY <2>1, <2>2
<1>19. \A f \in Executors : Distinct(out'[f])
  BY <1>1 DEF AnswerInv
<1>20. \A b \in Calls : pc'[b] \notin {"returning", "done"} => outcome'[b] = "none"
  BY <1>6 DEF AskedStay
<1> QED
  BY <1>15, <1>16, <1>17, <1>18, <1>19, <1>20 DEF AnswerInv

\* Every step keeps AnswerInv.
LEMMA AnswerStep ==
  ASSUME TypeOK, SpawnInv, PoolLineInv, LineInv, HoldInv, AnswerInv, Next
  PROVE  AnswerInv'
<1>a. ASSUME NEW c \in Calls, pc[c] # "running", NEW v, pc' = [pc EXCEPT ![c] = v],
             v \in {"idle", "pooling", "spawning", "queued"} => Fresh(c),
             \A b \in Calls : b # c => ex'[b] = ex[b] /\ outcome'[b] = outcome[b],
             ~ Fresh(c) => ex'[c] = ex[c],
             pc[c] \in {"returning", "done"} => v = "done" /\ outcome'[c] = outcome[c],
             v \notin {"returning", "done"} => outcome'[c] = outcome[c],
             UNCHANGED << inbox, out, buf, result >>
      PROVE  AnswerInv'
  <2>1. pc'[c] = v /\ \A b \in Calls : b # c => pc'[b] = pc[b]
    BY <1>a DEF TypeOK
  <2>2. ~ Fresh(c) => ~ Fresh(c)'
    BY <1>a, <2>1 DEF Fresh
  <2>3. v \notin {"returning", "done"} => outcome'[c] = "none"
    BY <1>a DEF AnswerInv
  <2> QED
    BY <1>a, <2>1, <2>2, <2>3, AnswersRest
<1>b. ASSUME UNCHANGED << pc, ex, outcome, inbox, out, buf, result >>
      PROVE  AnswerInv'
  <2>1. AskedStay
    BY <1>b DEF AskedStay, AnswerInv, Fresh
  <2>2. \A e \in Executors : Distinct(out'[e]) /\ Members(out'[e]) \subseteq Members(out[e])
    BY <1>b DEF AnswerInv
  <2> QED
    BY <1>b, <2>1, <2>2, AnswersKept
<1>c. ASSUME NEW c \in Calls, pc[c] # "running", NEW how, End(c, how),
             pc[c] \notin {"returning", "done"},
             UNCHANGED << ex, inbox, out, buf, result >>
      PROVE  AnswerInv'
  <2>1. \A b \in Calls : b # c => outcome'[b] = outcome[b]
    BY <1>c DEF End, TypeOK
  <2> QED
    BY <1>c, <2>1, <1>a DEF End
<1>d. ASSUME NEW dying, NEW n, NEW c, KillAndSpawn(dying, n, c)
      PROVE  UNCHANGED << inbox, out >>
  BY <1>d DEF KillAndSpawn
<1>e. ASSUME NEW c \in Calls, pc[c] = "idle"
      PROVE  Fresh(c)
  BY <1>e DEF Fresh
<1>1. ASSUME NEW c \in Calls, CallPool(c)
      PROVE  AnswerInv'
  BY <1>1, <1>a, <1>e DEF CallPool, Receive, procVars
<1>2. ASSUME NEW c \in Calls, NEW x \in Calls, CallExec(c, x)
      PROVE  AnswerInv'
  <2> DEFINE e == contextExecutors[x]
  <2>1. pc[c] = "idle" /\ UNCHANGED << inbox, out, buf, result >>
    BY <1>2 DEF CallExec, Receive
  <2>2. \/ /\ ex' = [ex EXCEPT ![c] = e]
           /\ pc' = [pc EXCEPT ![c] = "queued"] /\ outcome' = outcome
        \/ End(c, "failed") /\ ex' = ex
    BY <1>2 DEF CallExec
  <2>3. CASE /\ ex' = [ex EXCEPT ![c] = e]
             /\ pc' = [pc EXCEPT ![c] = "queued"] /\ outcome' = outcome
    <3>1. \A b \in Calls : b # c => ex'[b] = ex[b]
      BY <2>3 DEF TypeOK
    <3> QED
      BY <2>1, <2>3, <3>1, <1>a, <1>e
  <2>4. CASE End(c, "failed") /\ ex' = ex
    BY <2>1, <2>4, <1>c
  <2> QED
    BY <2>2, <2>3, <2>4
<1>3. ASSUME NEW c \in Calls, NEW x \in Calls, CallDeleteWithoutExecutor(c, x)
      PROVE  AnswerInv'
  BY <1>3, <1>c DEF CallDeleteWithoutExecutor, Receive, procVars
<1>4. ASSUME NEW c \in Calls, NEW x \in Calls, CallDelete(c, x)
      PROVE  AnswerInv'
  <2>1. pc[c] = "idle" /\ UNCHANGED << ex, buf, result, inbox, out >>
    BY <1>4, DeleteSpawns
  <2>2. \/ pc' = [pc EXCEPT ![c] = "replenishing"] /\ outcome' = outcome
        \/ \E how \in {"ok", "failed"} : End(c, how)
    BY <1>4 DEF CallDelete
  <2>3. CASE pc' = [pc EXCEPT ![c] = "replenishing"] /\ outcome' = outcome
    BY <2>1, <2>3, <1>a, <1>e
  <2>4. CASE \E how \in {"ok", "failed"} : End(c, how)
    BY <2>1, <2>4, <1>c
  <2> QED
    BY <2>2, <2>3, <2>4
<1>5. ASSUME NEW c \in Calls, SpawnForCall(c)
      PROVE  AnswerInv'
  <2>1. pc[c] = "pooling" /\ UNCHANGED << ex, buf, result, inbox, out >>
    BY <1>5, <1>d DEF SpawnForCall, OwnsPool, procVars
  <2>2. \/ End(c, "failed")
        \/ pc' = [pc EXCEPT ![c] = "spawning"] /\ outcome' = outcome
    BY <1>5 DEF SpawnForCall
  <2>3. CASE End(c, "failed")
    BY <2>1, <2>3, <1>c
  <2>4. CASE pc' = [pc EXCEPT ![c] = "spawning"] /\ outcome' = outcome
    BY <2>1, <2>4, <1>a DEF Fresh
  <2> QED
    BY <2>2, <2>3, <2>4
<1>6. ASSUME NEW c \in Calls, NEW e \in Executors, Borrow(c, e)
      PROVE  AnswerInv'
  <2>1. /\ pc[c] = "pooling" /\ ex' = [ex EXCEPT ![c] = e]
        /\ UNCHANGED << inbox, out, buf, result >>
    BY <1>6 DEF Borrow, OwnsPool
  <2>2. \A b \in Calls : b # c => ex'[b] = ex[b]
    BY <2>1 DEF TypeOK
  <2>3. Fresh(c)
    BY <2>1 DEF Fresh
  <2>4. \/ pc' = [pc EXCEPT ![c] = "queued"] /\ outcome' = outcome
        \/ /\ pc' = [pc EXCEPT ![c] = "returning"]
           /\ outcome' = [outcome EXCEPT ![c] = "failed"]
    BY <1>6 DEF Borrow
  <2>5. CASE pc' = [pc EXCEPT ![c] = "queued"] /\ outcome' = outcome
    BY <2>1, <2>2, <2>3, <2>5, <1>a
  <2>6. CASE /\ pc' = [pc EXCEPT ![c] = "returning"]
             /\ outcome' = [outcome EXCEPT ![c] = "failed"]
    <3>1. \A b \in Calls : b # c => outcome'[b] = outcome[b]
      BY <2>6 DEF TypeOK
    <3> QED
      BY <2>1, <2>2, <2>3, <2>6, <3>1, <1>a
  <2> QED
    BY <2>4, <2>5, <2>6
<1>7. ASSUME NEW c \in Calls, NEW e \in Executors, Reserve(c, e)
      PROVE  AnswerInv'
  BY <1>7, <1>c DEF Reserve, OwnsPool, procVars
<1>8. ASSUME NEW c \in Calls, Return(c)
      PROVE  AnswerInv'
  BY <1>8, <1>a DEF Return, OwnsPool, procVars
<1>9. ASSUME NEW c \in Calls, Begin(c)
      PROVE  AnswerInv'
  BY <1>9, AnswersBegin
<1>10. ASSUME NEW c \in Calls, ExecTimesOut(c)
       PROVE  AnswerInv'
  <2>1. pc[c] = "running" /\ Finish(c, "timedout") /\ UNCHANGED << ex, inbox, out, result >>
    BY <1>10 DEF ExecTimesOut
  <2>2. pc' = [pc EXCEPT ![c] = "returning"] \/ pc' = [pc EXCEPT ![c] = "done"]
    BY <2>1 DEF Finish
  <2>3. pc'[c] \in {"returning", "done"} /\ \A b \in Calls : b # c => pc'[b] = pc[b]
    BY <2>2 DEF TypeOK
  <2>4. outcome'[c] = "timedout" /\ \A b \in Calls : b # c => outcome'[b] = outcome[b]
    BY <2>1 DEF Finish, TypeOK
  <2>5. buf'[c] = << >> /\ \A b \in Calls : b # c => buf'[b] = buf[b]
    BY <2>1 DEF Finish, TypeOK
  <2>6. AskedStay
    BY <2>1, <2>3, <2>4 DEF AskedStay, AnswerInv, Fresh
  <2>7. \A e \in Executors : Distinct(out'[e]) /\ Members(out'[e]) \subseteq Members(out[e])
    BY <2>1 DEF AnswerInv
  <2> QED
    BY <2>1, <2>3, <2>4, <2>5, <2>6, <2>7, AnswersKept
<1>11. ASSUME NEW c \in Calls, Replenished(c)
       PROVE  AnswerInv'
  BY <1>11, <1>c DEF Replenished, procVars
<1>12. ASSUME NEW e \in Executors, ReadyIdle(e)
       PROVE  AnswerInv'
  BY <1>12, <1>b DEF ReadyIdle, Ready, callVars
<1>13. ASSUME NEW e \in Executors, ReadyToRun(e)
       PROVE  AnswerInv'
  <2>1. PICK c \in Calls : c = maker[e] /\ pc[c] = "spawning"
    BY <1>13, SpawnerOwns DEF ReadyToRun, Ready
  <2>2. /\ ex' = [ex EXCEPT ![c] = e] /\ pc' = [pc EXCEPT ![c] = "queued"]
        /\ UNCHANGED << inbox, out, buf, outcome, result >>
    BY <1>13, <2>1 DEF ReadyToRun, Ready
  <2>3. \A b \in Calls : b # c => ex'[b] = ex[b]
    BY <2>2 DEF TypeOK
  <2> QED
    BY <2>1, <2>2, <2>3, <1>a DEF Fresh
<1>14. ASSUME NEW e \in Executors, ReadyForContext(e)
       PROVE  AnswerInv'
  <2>1. PICK c \in Calls : c = maker[e] /\ pc[c] = "spawning"
    BY <1>14, SpawnerOwns DEF ReadyForContext, Ready
  <2>2. End(c, "ok") /\ UNCHANGED << ex, inbox, out, buf, result >>
    BY <1>14, <2>1 DEF ReadyForContext, Ready
  <2> QED
    BY <2>1, <2>2, <1>c
<1>f. ASSUME NEW e \in Executors, stage[e] = "starting", Reject(e)
      PROVE  AnswerInv'
  <2>1. CASE Purpose(e) \in {"run", "create"}
    <3>1. PICK c \in Calls : c = maker[e] /\ pc[c] = "spawning"
      BY <1>f, <2>1, SpawnerOwns
    <3> QED
      BY <1>f, <2>1, <3>1, <1>c DEF Reject
  <2>2. CASE Purpose(e) \notin {"run", "create"}
    BY <1>f, <2>2, <1>b DEF Reject
  <2> QED
    BY <2>1, <2>2
<1>15. ASSUME NEW e \in Executors, SpawnTimesOut(e)
       PROVE  AnswerInv'
  BY <1>15, <1>f DEF SpawnTimesOut
<1>16. ASSUME NEW e \in Executors, SpawnErrors(e)
       PROVE  AnswerInv'
  BY <1>16, <1>f DEF SpawnErrors
<1>17. ASSUME NEW e \in Executors, ExitsWhileStarting(e)
       PROVE  AnswerInv'
  BY <1>17, <1>b, <1>f DEF ExitsWhileStarting, callVars
<1>18. ASSUME NEW e \in Executors, Exit(e)
       PROVE  AnswerInv'
  BY <1>18, <1>b DEF Exit, callVars
<1>19. ASSUME NEW e \in Executors, NEW d \in Calls, Respond(e, d)
       PROVE  AnswerInv'
  BY <1>19, AnswersRespond
<1>20. ASSUME NEW e \in Executors, NEW n \in 1..Len(out[e]), Deliver(e, n)
       PROVE  AnswerInv'
  <2> DEFINE chunk == SubSeq(out[e], 1, n)
  <2>1. CASE UNCHANGED callVars
    <3>1. UNCHANGED << pc, ex, buf, outcome, result >>
      BY <2>1 DEF callVars
    <3>2. AskedStay
      BY <3>1 DEF AskedStay, AnswerInv, Fresh
    <3>3. \A f \in Executors :
            /\ Distinct(out'[f]) /\ Members(out'[f]) \subseteq Members(out[f])
            /\ inbox'[f] \subseteq inbox[f]
      BY <1>20, Delivery DEF AnswerInv
    <3> QED
      BY <3>1, <3>2, <3>3, AnswersKept
  <2>2. ASSUME NEW c \in Calls, pc[c] = "running", ex[c] = e,
               NEW d \in Calls, buf[c] \o chunk = Response(d),
               result' = [result EXCEPT ![c] = d], Finish(c, "ok"),
               UNCHANGED << op, cx, ex >>
        PROVE  AnswerInv'
    BY <1>20, <2>2, AnswersGiven
  <2>3. ASSUME NEW c \in Calls, pc[c] = "running", ex[c] = e,
               buf' = [buf EXCEPT ![c] = @ \o chunk],
               UNCHANGED << pc, outcome, result, line, poolLine, op, cx, ex >>
        PROVE  AnswerInv'
    BY <1>20, <2>3, AnswersCollect
  <2> QED
    BY <1>20, <2>1, <2>2, <2>3 DEF Deliver
<1>21. CASE WarmUp
  <2>1. UNCHANGED << inbox, out >>
    BY <1>21, <1>d DEF WarmUp, procVars
  <2> QED
    BY <1>21, <2>1, <1>b DEF WarmUp, callVars
<1>22. ASSUME NEW old \in SUBSET available, CleanIdle(old)
       PROVE  AnswerInv'
  <2>1. UNCHANGED << inbox, out >>
    BY <1>22, <1>d DEF CleanIdle
  <2> QED
    BY <1>22, <2>1, <1>b DEF CleanIdle, callVars
<1> QED
  BY <1>1, <1>2, <1>3, <1>4, <1>5, <1>6, <1>7, <1>8, <1>9, <1>10, <1>11, <1>12,
     <1>13, <1>14, <1>15, <1>16, <1>17, <1>18, <1>19, <1>20, <1>21, <1>22
     DEF Next, NewCall, Pooling

\* What a step may do to a process: it is spawned, starts, or fails to start,
\* and one that has started ends.
LEMMA ProcessMoves ==
  ASSUME TypeOK, SpawnInv, HoldInv, Next, NEW e \in Executors
  PROVE  \/ stage'[e] = stage[e] /\ proc'[e] = proc[e]
         \/ stage[e] = "unused" /\ stage'[e] = "starting" /\ proc'[e] = "running"
         \/ /\ stage[e] = "starting" /\ stage'[e] = "ready"
            /\ proc[e] = "running" /\ proc'[e] = "running"
         \/ /\ stage[e] = "starting" /\ stage'[e] \in {"starting", "failed"}
            /\ proc'[e] = proc[e] \/ proc[e] = "running"
         \/ /\ stage[e] = "ready" /\ stage'[e] = "ready"
            /\ proc[e] = "running" /\ proc'[e] \in {"killed", "exited", "signaled"}
<1> DEFINE Moves ==
      \/ stage'[e] = stage[e] /\ proc'[e] = proc[e]
      \/ stage[e] = "unused" /\ stage'[e] = "starting" /\ proc'[e] = "running"
      \/ /\ stage[e] = "starting" /\ stage'[e] = "ready"
         /\ proc[e] = "running" /\ proc'[e] = "running"
      \/ /\ stage[e] = "starting" /\ stage'[e] \in {"starting", "failed"}
         /\ proc'[e] = proc[e] \/ proc[e] = "running"
      \/ /\ stage[e] = "ready" /\ stage'[e] = "ready"
         /\ proc[e] = "running" /\ proc'[e] \in {"killed", "exited", "signaled"}
<1>a. ASSUME NEW dying \in SUBSET Executors, NEW n \in Nat, NEW c \in Calls \cup {None},
             KillAndSpawn(dying, n, c), \A f \in dying : stage[f] = "ready"
      PROVE  Moves
  <2>1. \/ stage[e] = "unused" /\ stage'[e] = "starting" /\ proc'[e] = "running"
        \/ /\ stage'[e] = stage[e]
           /\ IF e \in dying THEN proc'[e] = Killed(e) ELSE proc'[e] = proc[e]
    BY <1>a, KillAndSpawnEach
  <2> QED
    BY <1>a, <2>1 DEF Killed
<1>b. ASSUME UNCHANGED << stage, proc >>
      PROVE  Moves
  BY <1>b
<1>c. ASSUME NEW f \in Executors, Ready(f)
      PROVE  Moves
  BY <1>c DEF Ready, TypeOK
<1>d. ASSUME NEW n \in Nat, NEW c \in Calls \cup {None}, KillAndSpawn({}, n, c)
      PROVE  Moves
  <2>1. {} \in SUBSET Executors /\ \A f \in {} : stage[f] = "ready"
    OBVIOUS
  <2> QED
    BY <1>a, <1>d, <2>1
<1>1. ASSUME NEW c \in Calls, NewCall(c)
      PROVE  Moves
  <2>1. ASSUME NEW x \in Calls, CallDelete(c, x)
        PROVE  Moves
    <3>1. PICK n \in Nat : KillAndSpawn({contextExecutors[x]}, n, c)
      BY <2>1, DeleteSpawns, ZenonT(60)
    <3>2. PICK f \in Executors : f = contextExecutors[x] /\ stage[f] = "ready"
      BY <2>1, DeleteSpawns, ZenonT(60)
    <3>3. {f} \in SUBSET Executors /\ KillAndSpawn({f}, n, c)
      BY <3>1, <3>2
    <3>4. \A g \in {f} : stage[g] = "ready"
      BY <3>2
    <3> QED
      BY <1>a, <3>3, <3>4
  <2> QED
    BY <1>1, <2>1, <1>b DEF NewCall, CallPool, CallExec, CallDeleteWithoutExecutor, procVars
<1>2. ASSUME NEW c \in Calls, Pooling(c)
      PROVE  Moves
  <2>1. CASE SpawnForCall(c)
    BY <2>1, <1>b, <1>d DEF SpawnForCall, procVars
  <2>2. CASE ~ SpawnForCall(c)
    BY <1>2, <2>2, <1>b DEF Pooling, Borrow, Reserve, Return, procVars
  <2> QED
    BY <2>1, <2>2
<1>3. ASSUME NEW c \in Calls, Begin(c) \/ ExecTimesOut(c) \/ Replenished(c)
      PROVE  Moves
  BY <1>3, <1>b DEF Begin, ExecTimesOut, Replenished, procVars
<1>4. ASSUME NEW f \in Executors, ReadyIdle(f) \/ ReadyToRun(f) \/ ReadyForContext(f)
      PROVE  Moves
  BY <1>4, <1>c DEF ReadyIdle, ReadyToRun, ReadyForContext
<1>5. ASSUME NEW f \in Executors, SpawnTimesOut(f)
      PROVE  Moves
  BY <1>5 DEF SpawnTimesOut, Reject, Killed, TypeOK
<1>6. ASSUME NEW f \in Executors, SpawnErrors(f)
      PROVE  Moves
  BY <1>6 DEF SpawnErrors, Reject, TypeOK
<1>7. ASSUME NEW f \in Executors, ExitsWhileStarting(f)
      PROVE  Moves
  BY <1>7 DEF ExitsWhileStarting, Reject, TypeOK
<1>8. ASSUME NEW f \in Executors, Exit(f)
      PROVE  Moves
  BY <1>8 DEF Exit, TypeOK
<1>9. ASSUME NEW f \in Executors, \/ \E d \in Calls : Respond(f, d)
                                  \/ \E n \in 1..Len(out[f]) : Deliver(f, n)
      PROVE  Moves
  BY <1>9, <1>b DEF Respond, Deliver
<1>10. ASSUME WarmUp
       PROVE  Moves
  BY <1>10, <1>b, <1>d DEF WarmUp, procVars
<1>11. ASSUME NEW old \in SUBSET available, CleanIdle(old)
       PROVE  Moves
  <2>1. old \in SUBSET Executors /\ \A f \in old : stage[f] = "ready"
    BY DEF TypeOK, HoldInv
  <2> QED
    BY <1>11, <2>1, <1>a DEF CleanIdle
<1> HIDE DEF Moves
<1>12. ASSUME NEW c \in Calls,
              NewCall(c) \/ Pooling(c) \/ Begin(c) \/ ExecTimesOut(c) \/ Replenished(c)
       PROVE  Moves
  BY <1>1, <1>2, <1>3, <1>12
<1>13. ASSUME NEW f \in Executors,
              \/ ReadyIdle(f) \/ ReadyToRun(f) \/ ReadyForContext(f)
              \/ SpawnTimesOut(f) \/ SpawnErrors(f) \/ ExitsWhileStarting(f)
              \/ Exit(f)
              \/ \E d \in Calls : Respond(f, d)
              \/ \E n \in 1..Len(out[f]) : Deliver(f, n)
       PROVE  Moves
  BY <1>4, <1>5, <1>6, <1>7, <1>8, <1>9, <1>13
<1>14. Moves
  BY <1>10, <1>11, <1>12, <1>13 DEF Next
<1> QED
  BY <1>14 DEF Moves

\* Every step keeps Started.
LEMMA StartedStep ==
  ASSUME TypeOK, SpawnInv, HoldInv, Started, Next
  PROVE  Started'
<1> SUFFICES ASSUME NEW e \in Executors, stage'[e] = "ready" PROVE proc'[e] # "none"
  BY DEF Started
<1> QED
  BY ProcessMoves DEF Started

-----------------------------------------------------------------------------
(***************************************************************************)
(* The invariant holds                                                     *)
(***************************************************************************)

\* It holds at first.
LEMMA InitIInv == Init => IInv
<1> SUFFICES ASSUME Init PROVE IInv
  OBVIOUS
<1>a. \A e \in Executors : e # NoExecutor
  BY BoundAssumption DEF Executors, NoExecutor
<1>1. TypeOK
  BY SizeAssumption, BoundAssumption DEF Init, TypeOK, PcStates, ProcStates
<1>2. SpawnInv
  BY NoneAssumption DEF Init, SpawnInv
<1>3. PoolLineInv
  BY EmptyMembers DEF Init, PoolLineInv, InPoolLine
<1>4. LineInv
  BY EmptyMembers DEF Init, LineInv
<1>5. HoldInv
  BY <1>a, NoneAssumption DEF Init, HoldInv, Live
<1>6. AnswerInv
  BY EmptyMembers DEF Init, AnswerInv
<1>7. Started
  BY DEF Init, Started
<1> QED
  BY <1>1, <1>2, <1>3, <1>4, <1>5, <1>6, <1>7 DEF IInv

\* Every step keeps it.
LEMMA NextIInv == IInv /\ [Next]_vars => IInv'
<1> SUFFICES ASSUME IInv, [Next]_vars PROVE IInv'
  OBVIOUS
<1>1. CASE Next
  BY <1>1, TypeStep, SpawnStep, PoolLineStep, LineStep, HoldStep, AnswerStep,
     StartedStep DEF IInv
<1>2. CASE UNCHANGED vars
  <2>1. UNCHANGED << op, cx, pc, ex, buf, outcome, result >>
    BY <1>2 DEF vars, callVars
  <2>2. UNCHANGED << spawned, maker, stage, proc, hasLock, line, inbox, out >>
    BY <1>2 DEF vars, procVars
  <2>3. UNCHANGED << pool, available, contextExecutors, contexts, poolLine, warmed >>
    BY <1>2 DEF vars, poolVars
  <2>4. TypeOK'
    BY <2>1, <2>2, <2>3 DEF IInv, TypeOK
  <2>5. SpawnInv'
    BY <2>1, <2>2, <2>3 DEF IInv, SpawnInv
  <2>6. PoolLineInv'
    BY <2>1, <2>2, <2>3 DEF IInv, PoolLineInv
  <2>7. LineInv'
    BY <2>1, <2>2, <2>3 DEF IInv, LineInv
  <2>8. HoldInv'
    BY <2>1, <2>2, <2>3 DEF IInv, HoldInv, Live, Free, OneHolder, Borrowing
  <2>9. AnswerInv'
    BY <2>1, <2>2, <2>3 DEF IInv, AnswerInv, Asked, NotGiven, Unanswered, Fresh, Late
  <2>10. Started'
    BY <2>2 DEF IInv, Started
  <2> QED
    BY <2>4, <2>5, <2>6, <2>7, <2>8, <2>9, <2>10 DEF IInv
<1> QED
  BY <1>1, <1>2

\* The inductive invariant holds in every behaviour of the pool.
THEOREM PoolInvariant == Spec => []IInv
<1>1. Init => IInv
  BY InitIInv
<1>2. IInv /\ [Next]_vars => IInv'
  BY NextIInv
<1> QED
  BY <1>1, <1>2, PTL DEF Spec

\* An executor has no holder when nobody borrows it and it is no context's.
LEMMA HolderFree ==
  ASSUME NEW e \in Executors
  PROVE  Holder(e) = {} <=> Free(e)
BY DEF Holder, Free

\* The types of the variables are what they are said to be.
THEOREM TypeCorrect == Spec => []TypeOK
<1>1. IInv => TypeOK
  BY DEF IInv
<1> QED
  BY <1>1, PoolInvariant, PTL

\* The books of the pool balance, whatever overlaps, times out or fails.
THEOREM PoolBalances == Spec => []PoolAccounts
<1>1. ASSUME IInv
      PROVE  PoolAccounts
  <2>1. \A e \in Executors :
          Live(e) => e \in pool /\ hasLock[e] /\ (e \in available <=> Holder(e) = {})
    BY <1>1, HolderFree DEF IInv, HoldInv
  <2>2. \A e \in pool : Live(e)
    BY <1>1 DEF IInv, HoldInv, TypeOK
  <2>3. \A x \in Calls : contextExecutors[x] # NoExecutor => x \in contexts
    BY <1>1 DEF IInv, HoldInv
  <2> QED
    BY <2>1, <2>2, <2>3 DEF PoolAccounts, Live
<1>2. IInv => PoolAccounts
  BY <1>1
<1> QED
  BY <1>2, PoolInvariant, PTL

\* Results go to users of the executor that made them, to none twice, and to
\* their own caller as long as no run of the executor has timed out.
THEOREM AnswersStayInTurn == Spec => []AnswersInTurn
<1>1. ASSUME IInv
      PROVE  AnswersInTurn
  BY <1>1 DEF IInv, AnswerInv, AnswersInTurn, Late
<1>2. IInv => AnswersInTurn
  BY <1>1
<1> QED
  BY <1>2, PoolInvariant, PTL

-----------------------------------------------------------------------------
(***************************************************************************)
(* The pool implements ExecutorLease                                       *)
(***************************************************************************)

\* Executor e stays in the hands it is in.
HandsStay(e) ==
  /\ \A c \in Calls : Borrowing(c, e)' <=> Borrowing(c, e)
  /\ \A x \in Calls : contextExecutors'[x] = e <=> contextExecutors[x] = e

\* Run c, or context x, and nobody else holds executor e.
HeldByRun(c, e) ==
  /\ \A b \in Calls : Borrowing(b, e) <=> b = c
  /\ \A x \in Calls : contextExecutors[x] # e

HeldByContext(x, e) ==
  /\ \A b \in Calls : ~ Borrowing(b, e)
  /\ \A y \in Calls : contextExecutors[y] = e <=> y = x

\* What becomes of an executor that serves: it stays in its hands, is taken by
\* one, or is given back by its run.
LEMMA HandsMove ==
  ASSUME TypeOK, SpawnInv, PoolLineInv, LineInv, HoldInv, Started, Next,
         NEW e \in Executors, ~ Retired(e), ~ Retired(e)'
  PROVE  \/ HandsStay(e)
         \/ Free(e) /\ \E c \in Calls : HeldByRun(c, e)' \/ HeldByContext(c, e)'
         \/ Free(e)' /\ \E c \in Calls : HeldByRun(c, e)
<1> DEFINE Moves ==
      \/ HandsStay(e)
      \/ Free(e) /\ \E c \in Calls : HeldByRun(c, e)' \/ HeldByContext(c, e)'
      \/ Free(e)' /\ \E c \in Calls : HeldByRun(c, e)
<1> USE DEF Moves
<1>a. ASSUME HoldersStay, UNCHANGED contextExecutors
      PROVE  Moves
  BY <1>a DEF HoldersStay, HandsStay
<1>b. ASSUME UNCHANGED << op, pc, ex, contextExecutors >>
      PROVE  Moves
  BY <1>b DEF HandsStay, Borrowing
<1>c. stage[e] = "ready" => Live(e)
  BY DEF Live, Started, Retired
<1>d. ASSUME NEW c \in Calls, NEW o, NEW x, Receive(c, o, x)
      PROVE  pc[c] = "idle" /\ op'[c] = o
             /\ \A b \in Calls : b # c => op'[b] = op[b] /\ cx'[b] = cx[b]
  BY <1>d DEF Receive, TypeOK
<1>e. e # NoExecutor
  BY BoundAssumption DEF Executors, NoExecutor
\* A call that is not given an executor goes on.
<1>f. ASSUME NEW c \in Calls, pc[c] \notin {"queued", "running", "returning"},
             pc'[c] \in {"queued", "running", "returning"} => op'[c] # "run",
             \A b \in Calls : b # c =>
               pc'[b] = pc[b] /\ op'[b] = op[b] /\ ex'[b] = ex[b]
      PROVE  \A b \in Calls, f \in Executors : Borrowing(b, f)' <=> Borrowing(b, f)
  <2>1. \A f \in Executors : ~ Borrowing(c, f)' /\ ~ Borrowing(c, f)
    BY <1>f DEF Borrowing
  <2>2. \A b \in Calls, f \in Executors : b # c => (Borrowing(b, f)' <=> Borrowing(b, f))
    BY <1>f DEF Borrowing
  <2> QED
    BY <2>1, <2>2
<1>g. ASSUME NEW c \in Calls, pc[c] \notin {"queued", "running", "returning"}, NEW v,
             pc' = [pc EXCEPT ![c] = v], v \notin {"queued", "running", "returning"},
             \A b \in Calls : b # c => op'[b] = op[b], ex' = ex, UNCHANGED contextExecutors
      PROVE  Moves
  <2>1. pc'[c] = v /\ \A b \in Calls : b # c => pc'[b] = pc[b]
    BY <1>g DEF TypeOK
  <2> QED
    BY <1>f, <1>g, <2>1 DEF HandsStay
<1>1. ASSUME NEW c \in Calls, CallPool(c)
      PROVE  Moves
  BY <1>1, <1>d, <1>g DEF CallPool
<1>2. ASSUME NEW c \in Calls, NEW x \in Calls, CallExec(c, x)
      PROVE  Moves
  <2>1. pc' = [pc EXCEPT ![c] = "queued"] \/ pc' = [pc EXCEPT ![c] = "done"]
    BY <1>2 DEF CallExec, End
  <2>2. pc'[c] \in {"queued", "done"} /\ \A b \in Calls : b # c => pc'[b] = pc[b]
    BY <2>1 DEF TypeOK
  <2>3. \A b \in Calls : b # c => ex'[b] = ex[b]
    BY <1>2 DEF CallExec, TypeOK
  <2>4. /\ pc[c] = "idle" /\ op'[c] = "exec" /\ UNCHANGED contextExecutors
        /\ \A b \in Calls : b # c => op'[b] = op[b]
    BY <1>2, <1>d DEF CallExec, poolVars
  <2> QED
    BY <1>f, <2>2, <2>3, <2>4 DEF HandsStay
<1>3. ASSUME NEW c \in Calls, NEW x \in Calls, CallDeleteWithoutExecutor(c, x)
      PROVE  Moves
  BY <1>3, <1>d, <1>g DEF CallDeleteWithoutExecutor, End
<1>4. ASSUME NEW c \in Calls, NEW x \in Calls, CallDelete(c, x)
      PROVE  Moves
  <2>1. PICK n \in Nat : KillAndSpawn({contextExecutors[x]}, n, c)
    BY <1>4, DeleteSpawns, ZenonT(60)
  <2>2. PICK f \in Executors : f = contextExecutors[x] /\ stage[f] = "ready"
    BY <1>4, DeleteSpawns, ZenonT(60)
  <2>3. {f} \in SUBSET Executors /\ KillAndSpawn({f}, n, c)
    BY <2>1, <2>2
  <2>4. \A g \in {f} : stage[g] = "ready"
    BY <2>2
  <2>5. f # e
    <3>1. proc'[f] = Killed(f)
      BY <2>2, <2>3, <2>4, KillAndSpawnEach
    <3> QED
      BY <2>2, <3>1, <1>c DEF Killed, Live, Retired
  <2>6. contextExecutors' = [contextExecutors EXCEPT ![x] = NoExecutor]
    BY <1>4 DEF CallDelete
  <2>7. \A y \in Calls : contextExecutors'[y] = e <=> contextExecutors[y] = e
    BY <2>2, <2>5, <2>6, <1>e DEF TypeOK
  <2>8. pc[c] = "idle" /\ pc'[c] \in {"replenishing", "done"} /\ ex' = ex
    BY <1>4, DeleteSpawns
  <2>9. \A b \in Calls : b # c =>
          pc'[b] = pc[b] /\ op'[b] = op[b] /\ cx'[b] = cx[b] /\ outcome'[b] = outcome[b]
    BY <1>4, DeleteSpawns
  <2> QED
    BY <2>7, <2>8, <2>9, <1>f DEF HandsStay
<1>5. ASSUME NEW c \in Calls, SpawnForCall(c)
      PROVE  Moves
  <2>1. /\ pc[c] = "pooling" /\ UNCHANGED << op, ex, contextExecutors >>
        /\ pc' = [pc EXCEPT ![c] = "done"] \/ pc' = [pc EXCEPT ![c] = "spawning"]
    BY <1>5 DEF SpawnForCall, OwnsPool, End
  <2> QED
    BY <2>1, <1>g
<1>6. ASSUME NEW c \in Calls, NEW f \in Executors, Borrow(c, f)
      PROVE  Moves
  <2>1. /\ pc[c] = "pooling" /\ op[c] = "run" /\ f \in available
        /\ ex' = [ex EXCEPT ![c] = f]
        /\ pc' = [pc EXCEPT ![c] = "queued"] \/ pc' = [pc EXCEPT ![c] = "returning"]
        /\ UNCHANGED << op, contextExecutors >>
    BY <1>6 DEF Borrow, OwnsPool
  <2>2. /\ ex'[c] = f /\ pc'[c] \in {"queued", "returning"}
        /\ \A b \in Calls : b # c => pc'[b] = pc[b] /\ ex'[b] = ex[b]
    BY <2>1 DEF TypeOK
  <2>3. \A b \in Calls : b # c => (Borrowing(b, e)' <=> Borrowing(b, e))
    BY <2>1, <2>2 DEF Borrowing
  <2>4. CASE f = e
    <3>1. Free(e)
      BY <2>1, <2>4, <1>c DEF HoldInv
    <3>2. Borrowing(c, e)'
      BY <2>1, <2>2, <2>4 DEF Borrowing
    <3>3. HeldByRun(c, e)'
      BY <2>1, <2>3, <3>1, <3>2 DEF HeldByRun, Free
    <3> QED
      BY <3>1, <3>3
  <2>5. CASE f # e
    <3>1. ~ Borrowing(c, e)' /\ ~ Borrowing(c, e)
      BY <2>1, <2>2, <2>5 DEF Borrowing
    <3> QED
      BY <2>1, <2>3, <3>1 DEF HandsStay
  <2> QED
    BY <2>4, <2>5
<1>7. ASSUME NEW c \in Calls, NEW f \in Executors, Reserve(c, f)
      PROVE  Moves
  <2>1. /\ pc[c] = "pooling" /\ f \in available /\ pc' = [pc EXCEPT ![c] = "done"]
        /\ contextExecutors' = [contextExecutors EXCEPT ![c] = f]
        /\ UNCHANGED << op, ex >>
    BY <1>7 DEF Reserve, OwnsPool, End
  <2>2. pc'[c] = "done" /\ \A b \in Calls : b # c => pc'[b] = pc[b]
    BY <2>1 DEF TypeOK
  <2>3. \A b \in Calls : Borrowing(b, e)' <=> Borrowing(b, e)
    BY <1>f, <2>1, <2>2
  <2>4. contextExecutors[c] = NoExecutor
    BY <2>1, IdleHasNoContext
  <2>5. contextExecutors'[c] = f
        /\ \A x \in Calls : x # c => contextExecutors'[x] = contextExecutors[x]
    BY <2>1 DEF TypeOK
  <2>6. CASE f = e
    <3>1. Free(e)
      BY <2>1, <2>6, <1>c DEF HoldInv
    <3>2. HeldByContext(c, e)'
      BY <2>3, <2>5, <2>6, <3>1 DEF HeldByContext, Free
    <3> QED
      BY <3>1, <3>2
  <2>7. CASE f # e
    BY <2>3, <2>4, <2>5, <2>7, <1>e DEF HandsStay
  <2> QED
    BY <2>6, <2>7
<1>8. ASSUME NEW c \in Calls, Return(c)
      PROVE  Moves
  <2>1. /\ pc[c] = "returning" /\ pc' = [pc EXCEPT ![c] = "done"]
        /\ UNCHANGED << op, ex, contextExecutors >>
    BY <1>8 DEF Return, OwnsPool
  <2>2. PICK f \in Executors : f = ex[c] /\ stage[f] = "ready" /\ op[c] = "run"
    BY <2>1 DEF LineInv
  <2>3. pc'[c] = "done" /\ \A b \in Calls : b # c => pc'[b] = pc[b]
    BY <2>1 DEF TypeOK
  <2>4. \A b \in Calls : b # c => (Borrowing(b, e)' <=> Borrowing(b, e))
    BY <2>1, <2>3 DEF Borrowing
  <2>5. ~ Borrowing(c, e)'
    BY <2>3 DEF Borrowing
  <2>6. CASE f = e
    <3>1. OneHolder(e) /\ Borrowing(c, e)
      BY <2>1, <2>2, <2>6, <1>c DEF HoldInv, Borrowing
    <3>2. HeldByRun(c, e)
      BY <3>1 DEF OneHolder, HeldByRun
    <3>3. Free(e)'
      BY <2>1, <2>4, <2>5, <3>2 DEF HeldByRun, Free
    <3> QED
      BY <3>2, <3>3
  <2>7. CASE f # e
    <3>1. ~ Borrowing(c, e)
      BY <2>2, <2>7 DEF Borrowing
    <3> QED
      BY <2>1, <2>4, <2>5, <3>1 DEF HandsStay
  <2> QED
    BY <2>6, <2>7
<1>9. ASSUME NEW c \in Calls, Begin(c)
      PROVE  Moves
  <2>1. pc[c] = "queued" /\ pc'[c] = "running" /\ \A b \in Calls : b # c => pc'[b] = pc[b]
    BY <1>9 DEF Begin, TypeOK
  <2> QED
    BY <1>9, <2>1 DEF Begin, poolVars, HandsStay, Borrowing
<1>10. ASSUME NEW c \in Calls, ExecTimesOut(c)
       PROVE  Moves
  BY <1>10, <1>a, HoldersFinish DEF ExecTimesOut
<1>11. ASSUME NEW c \in Calls, Replenished(c)
       PROVE  Moves
  BY <1>11, <1>g DEF Replenished, End
<1>12. ASSUME NEW f \in Executors, ReadyIdle(f)
       PROVE  Moves
  BY <1>12, <1>b DEF ReadyIdle, callVars
<1>13. ASSUME NEW f \in Executors, ReadyToRun(f)
       PROVE  Moves
  <2>1. /\ Ready(f) /\ Purpose(f) = "run" /\ stage[f] = "starting"
    BY <1>13 DEF ReadyToRun, Ready
  <2>2. PICK c \in Calls : c = maker[f] /\ op[c] = "run" /\ pc[c] = "spawning"
    BY <2>1, SpawnerOwns
  <2>3. /\ ex' = [ex EXCEPT ![c] = f] /\ pc' = [pc EXCEPT ![c] = "queued"]
        /\ UNCHANGED << op, contextExecutors >>
    BY <1>13, <2>2 DEF ReadyToRun
  <2>4. /\ ex'[c] = f /\ pc'[c] = "queued"
        /\ \A b \in Calls : b # c => pc'[b] = pc[b] /\ ex'[b] = ex[b]
    BY <2>3 DEF TypeOK
  <2>5. \A b \in Calls : b # c => (Borrowing(b, e)' <=> Borrowing(b, e))
    BY <2>3, <2>4 DEF Borrowing
  <2>6. CASE f = e
    <3>1. Free(e)
      BY <2>1, <2>6, HeldIsReady
    <3>2. Borrowing(c, e)'
      BY <2>2, <2>3, <2>4, <2>6 DEF Borrowing
    <3>3. HeldByRun(c, e)'
      BY <2>3, <2>5, <3>1, <3>2 DEF HeldByRun, Free
    <3> QED
      BY <3>1, <3>3
  <2>7. CASE f # e
    <3>1. ~ Borrowing(c, e)' /\ ~ Borrowing(c, e)
      BY <2>2, <2>4, <2>7 DEF Borrowing
    <3> QED
      BY <2>3, <2>5, <3>1 DEF HandsStay
  <2> QED
    BY <2>6, <2>7
<1>14. ASSUME NEW f \in Executors, ReadyForContext(f)
       PROVE  Moves
  <2>1. /\ Ready(f) /\ Purpose(f) = "create" /\ stage[f] = "starting"
    BY <1>14 DEF ReadyForContext, Ready
  <2>2. PICK c \in Calls : c = maker[f] /\ pc[c] = "spawning"
    BY <2>1, SpawnerOwns
  <2>3. /\ contextExecutors' = [contextExecutors EXCEPT ![c] = f]
        /\ pc' = [pc EXCEPT ![c] = "done"] /\ UNCHANGED << op, ex >>
    BY <1>14, <2>2 DEF ReadyForContext, End
  <2>4. pc'[c] = "done" /\ \A b \in Calls : b # c => pc'[b] = pc[b]
    BY <2>3 DEF TypeOK
  <2>5. \A b \in Calls : Borrowing(b, e)' <=> Borrowing(b, e)
    BY <1>f, <2>2, <2>3, <2>4
  <2>6. contextExecutors[c] = NoExecutor
    BY <2>2, IdleHasNoContext
  <2>7. contextExecutors'[c] = f
        /\ \A x \in Calls : x # c => contextExecutors'[x] = contextExecutors[x]
    BY <2>3 DEF TypeOK
  <2>8. CASE f = e
    <3>1. Free(e)
      BY <2>1, <2>8, HeldIsReady
    <3>2. HeldByContext(c, e)'
      BY <2>5, <2>7, <2>8, <3>1 DEF HeldByContext, Free
    <3> QED
      BY <3>1, <3>2
  <2>9. CASE f # e
    BY <2>5, <2>6, <2>7, <2>9, <1>e DEF HandsStay
  <2> QED
    BY <2>8, <2>9
<1>h. ASSUME NEW f \in Executors, stage[f] = "starting", Reject(f)
      PROVE  Moves
  <2>1. UNCHANGED << op, ex, contextExecutors >>
    BY <1>h DEF Reject
  <2>2. CASE Purpose(f) \in {"run", "create"}
    <3>1. PICK c \in Calls : c = maker[f] /\ pc[c] = "spawning"
      BY <1>h, <2>2, SpawnerOwns
    <3> QED
      BY <1>g, <1>h, <2>1, <2>2, <3>1 DEF Reject, End
  <2>3. CASE Purpose(f) \notin {"run", "create"}
    BY <1>b, <1>h, <2>1, <2>3 DEF Reject
  <2> QED
    BY <2>2, <2>3
<1>15. ASSUME NEW f \in Executors, SpawnTimesOut(f)
       PROVE  Moves
  BY <1>15, <1>h DEF SpawnTimesOut
<1>16. ASSUME NEW f \in Executors, SpawnErrors(f)
       PROVE  Moves
  BY <1>16, <1>h DEF SpawnErrors
<1>17. ASSUME NEW f \in Executors, ExitsWhileStarting(f)
       PROVE  Moves
  BY <1>17, <1>b, <1>h DEF ExitsWhileStarting, callVars, poolVars
<1>18. ASSUME NEW f \in Executors, Exit(f)
       PROVE  Moves
  <2>1. /\ UNCHANGED << op, pc, ex >>
        /\ contextExecutors' =
             [x \in Calls |-> IF x = HandlerContext(f) THEN NoExecutor ELSE contextExecutors[x]]
    BY <1>18 DEF Exit, callVars
  <2>2. f # e
    BY <1>18 DEF Exit, Retired, TypeOK
  <2>3. \A x \in Calls : x = HandlerContext(f) => contextExecutors[x] \in {f, NoExecutor}
    <3>1. \A x \in Calls : x = HandlerContext(f) =>
            maker[f] # None /\ op[maker[f]] = "create" /\ x = maker[f]
      BY NoneAssumption DEF HandlerContext, Purpose
    <3> QED
      BY <3>1 DEF HoldInv
  <2>4. \A x \in Calls : contextExecutors'[x] = e <=> contextExecutors[x] = e
    BY <2>1, <2>2, <2>3, <1>e
  <2> QED
    BY <2>1, <2>4 DEF HandsStay, Borrowing
<1>19. ASSUME NEW f \in Executors, NEW d \in Calls, Respond(f, d)
       PROVE  Moves
  BY <1>19, <1>b DEF Respond, callVars, poolVars
<1>20. ASSUME NEW f \in Executors, NEW n \in 1..Len(out[f]), Deliver(f, n)
       PROVE  Moves
  <2>1. UNCHANGED << op, cx, ex, contextExecutors >>
    BY <1>20 DEF Deliver, callVars
  <2>2. UNCHANGED pc \/ \E c \in Calls : pc[c] = "running" /\ Finish(c, "ok")
    BY <1>20 DEF Deliver, callVars
  <2> QED
    BY <2>1, <2>2, <1>a, <1>b, HoldersFinish
<1>21. ASSUME WarmUp
       PROVE  Moves
  BY <1>21, <1>b DEF WarmUp, callVars
<1>22. ASSUME NEW old \in SUBSET available, CleanIdle(old)
       PROVE  Moves
  BY <1>22, <1>b DEF CleanIdle, callVars
<1> HIDE DEF Moves
<1>23. Moves
  BY <1>1, <1>2, <1>3, <1>4, <1>5, <1>6, <1>7, <1>8, <1>9, <1>10, <1>11, <1>12,
     <1>13, <1>14, <1>15, <1>16, <1>17, <1>18, <1>19, <1>20, <1>21, <1>22
     DEF Next, NewCall, Pooling
<1> QED
  BY <1>23 DEF Moves

\* An executor never comes back from retirement.
LEMMA RetiredStays ==
  ASSUME TypeOK, SpawnInv, HoldInv, Next, NEW e \in Executors, Retired(e)
  PROVE  Retired(e)'
BY ProcessMoves DEF Retired, SpawnInv, TypeOK, ProcStates

\* Every step of the pool is a step of each lease, or leaves it alone.
LEMMA LeaseStep ==
  ASSUME IInv, Next, NEW e \in Executors
  PROVE  Lease(e)!Next \/ UNCHANGED Lease(e)!vars
<1>1. CASE Retired(e)
  <2>1. Retired(e)'
    BY <1>1, RetiredStays DEF IInv
  <2> QED
    BY <1>1, <2>1 DEF Lease!vars
<1>2. CASE ~ Retired(e) /\ Retired(e)'
  BY <1>2 DEF Lease!Next, Lease!Retire
<1>3. CASE ~ Retired(e) /\ ~ Retired(e)'
  <2>0. Retired(e) = FALSE /\ Retired(e)' = FALSE
    BY <1>3 DEF Retired
  <2>1. CASE HandsStay(e)
    <3>1. Holder(e)' = Holder(e)
      BY <2>1 DEF HandsStay, Holder
    <3> QED
      BY <2>0, <3>1 DEF Lease!vars
  <2>2. CASE Free(e) /\ \E c \in Calls : HeldByRun(c, e)' \/ HeldByContext(c, e)'
    <3>1. PICK c \in Calls : HeldByRun(c, e)' \/ HeldByContext(c, e)'
      BY <2>2
    <3>2. Holder(e) = {}
      BY <2>2, HolderFree
    <3>3. \E h \in {<< "run", c >>, << "context", c >>} : Holder(e)' = {h}
      BY <3>1 DEF HeldByRun, HeldByContext, Holder
    <3>4. Lease(e)!Take
      BY <2>0, <3>2, <3>3
         DEF Lease!Take, Lease!Clients, Lease!Run, Lease!Context
    <3> QED
      BY <3>4 DEF Lease!Next
  <2>3. CASE Free(e)' /\ \E c \in Calls : HeldByRun(c, e)
    <3>1. PICK c \in Calls : HeldByRun(c, e)
      BY <2>3
    <3>2. Holder(e) = {<< "run", c >>}
      BY <3>1 DEF HeldByRun, Holder
    <3>3. Holder(e)' = {}
      BY <2>3 DEF Holder, Free
    <3>4. Lease(e)!GiveBack
      BY <2>0, <3>2, <3>3 DEF Lease!GiveBack, Lease!Run
    <3> QED
      BY <3>4 DEF Lease!Next
  <2> QED
    BY <1>3, <2>1, <2>2, <2>3, HandsMove DEF IInv
<1> QED
  BY <1>1, <1>2, <1>3

\* Whatever calls overlap, time out or fail, each executor serves one run or one
\* context at a time, a context keeps it, and a retired one serves nobody.
THEOREM PoolLeases == Spec => LeasesSpec
<1>1. ASSUME Init
      PROVE  \A e \in Executors : Lease(e)!Init
  <2> SUFFICES ASSUME NEW e \in Executors PROVE Lease(e)!Init
    OBVIOUS
  <2>1. e # NoExecutor
    BY BoundAssumption DEF Executors, NoExecutor
  <2>2. Holder(e) = {}
    BY <1>1, <2>1 DEF Init, Holder, Borrowing
  <2>3. Retired(e) = FALSE
    BY <1>1 DEF Init, Retired
  <2> QED
    BY <2>2, <2>3 DEF Lease!Init
<1>2. ASSUME IInv, [Next]_vars
      PROVE  [\A e \in Executors : Lease(e)!Next \/ UNCHANGED Lease(e)!vars]_vars
  BY <1>2, LeaseStep
<1> QED
  BY <1>1, <1>2, PoolInvariant, PTL DEF Spec, LeasesSpec

=============================================================================
