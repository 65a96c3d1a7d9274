------------------------ MODULE SessionManagerProofs ------------------------
(***************************************************************************)
(* Proofs about SessionManager, for every set of requests and session ids. *)
(***************************************************************************)
EXTENDS SessionManager, TLAPS

-----------------------------------------------------------------------------
(***************************************************************************)
(* Types                                                                   *)
(***************************************************************************)

\* Releasing a mutex keeps the types, whoever is next.
LEMMA ReleaseType ==
  ASSUME TypeOK, NEW r \in Requests, lockOf[r] \in Requests,
         NEW next \in PcStates, Release(r, next)
  PROVE  /\ pc' \in [Requests -> PcStates]
         /\ owner' \in [Requests -> Requests \cup {None}]
         /\ queue' \in [Requests -> Seq(Requests)]
<1> DEFINE m == lockOf[r]
<1> queue[m] \in Seq(Requests)
  BY DEF TypeOK
<1>1. CASE queue[m] = << >>
  BY <1>1 DEF TypeOK, Release
<1>2. CASE queue[m] # << >>
  <2>1. Head(queue[m]) \in Requests /\ Tail(queue[m]) \in Seq(Requests)
    BY <1>2
  <2>2. "granted" \in PcStates
    BY DEF PcStates
  <2>3. /\ owner' = [owner EXCEPT ![m] = Head(queue[m])]
        /\ queue' = [queue EXCEPT ![m] = Tail(queue[m])]
        /\ pc' = [pc EXCEPT ![r] = next, ![Head(queue[m])] = "granted"]
    BY <1>2 DEF Release
  <2>4. pc' \in [Requests -> PcStates]
    BY <2>1, <2>2, <2>3 DEF TypeOK
  <2>5. owner' \in [Requests -> Requests \cup {None}]
    BY <2>1, <2>3 DEF TypeOK
  <2>6. queue' \in [Requests -> Seq(Requests)]
    BY <2>1, <2>3 DEF TypeOK
  <2> QED
    BY <2>4, <2>5, <2>6
<1> QED
  BY <1>1, <1>2

\* The state of the mutexes agrees with where the requests are: the owner of
\* a mutex is the one request in its turn with it, and its queue holds, each
\* once, requests that wait for it.
MutexInv ==
  /\ \A r \in Requests :
       pc[r] \in Holding => lockOf[r] \in Requests /\ owner[lockOf[r]] = r
  /\ \A m \in Requests :
       owner[m] # None => pc[owner[m]] \in Holding /\ lockOf[owner[m]] = m
  /\ \A m \in Requests : owner[m] = None => queue[m] = << >>
  /\ \A m \in Requests : \A i \in 1..Len(queue[m]) :
       pc[queue[m][i]] = "queued" /\ lockOf[queue[m][i]] = m
  /\ \A m \in Requests : \A i, j \in 1..Len(queue[m]) :
       queue[m][i] = queue[m][j] => i = j

\* Steps that neither take nor release a mutex.
LEMMA MutexKept ==
  ASSUME TypeOK, MutexInv, UNCHANGED << lockOf, owner, queue >>,
         \A q \in Requests : pc'[q] \in Holding <=> pc[q] \in Holding,
         \A q \in Requests : pc[q] = "queued" => pc'[q] = "queued"
  PROVE  MutexInv'
<1>1. \A m \in Requests : \A i \in 1..Len(queue[m]) : queue[m][i] \in Requests
  BY DEF TypeOK
<1>2. \A m \in Requests : owner[m] # None => owner[m] \in Requests
  BY DEF TypeOK
<1> QED
  BY <1>1, <1>2 DEF MutexInv

\* Leaving the mutex, to its next owner if one is waiting.
LEMMA MutexReleased ==
  ASSUME TypeOK, MutexInv, NEW r \in Requests, pc[r] \in Holding,
         NEW next \in PcStates \ (Holding \cup {"queued", "idle"}),
         Release(r, next), UNCHANGED lockOf
  PROVE  MutexInv'
<1> DEFINE m == lockOf[r]
           h == Head(queue[m])
<1>1. m \in Requests /\ owner[m] = r
  BY DEF MutexInv
<1>2. queue[m] \in Seq(Requests)
  BY <1>1 DEF TypeOK
<1>a. "granted" \in Holding /\ "queued" \notin Holding
  BY DEF Holding
<1>3. CASE queue[m] = << >>
  <2>1. /\ owner' = [owner EXCEPT ![m] = None]
        /\ pc' = [pc EXCEPT ![r] = next]
        /\ queue' = queue
    BY <1>3 DEF Release
  <2>2. \A q \in Requests : q # r => pc'[q] = pc[q]
    BY <2>1 DEF TypeOK
  <2>3. pc'[r] = next
    BY <2>1 DEF TypeOK
  <2>4. \A k \in Requests : k # m => owner'[k] = owner[k] /\ owner[k] # r
    BY <2>1, <1>1, NoneAssumption DEF TypeOK, MutexInv
  <2>5. owner'[m] = None
    BY <1>1, <2>1 DEF TypeOK
  <2>6. \A k \in Requests : \A i \in 1..Len(queue[k]) :
          queue[k][i] \in Requests /\ queue[k][i] # r
    BY <1>a DEF TypeOK, MutexInv
  <2>7. \A q \in Requests : pc[q] \in Holding /\ q # r => lockOf[q] # m
    BY <1>1 DEF MutexInv
  <2>8. \A k \in Requests : owner[k] # None => owner[k] \in Requests
    BY DEF TypeOK
  <2> QED
    BY <1>1, <1>3, <2>1, <2>2, <2>3, <2>4, <2>5, <2>6, <2>7, <2>8, NoneAssumption
       DEF MutexInv
<1>4. CASE queue[m] # << >>
  <2>1. /\ owner' = [owner EXCEPT ![m] = h]
        /\ pc' = [pc EXCEPT ![r] = next, ![h] = "granted"]
        /\ queue' = [queue EXCEPT ![m] = Tail(queue[m])]
    BY <1>4 DEF Release
  <2>2. h \in Requests /\ h = queue[m][1] /\ 1 \in 1..Len(queue[m])
    BY <1>2, <1>4
  <2>3. pc[h] = "queued" /\ lockOf[h] = m
    BY <1>1, <2>2 DEF MutexInv
  <2>4. h # r
    BY <2>3, <1>a
  <2>5. /\ pc'[r] = next
        /\ pc'[h] = "granted"
        /\ \A q \in Requests : q # r /\ q # h => pc'[q] = pc[q]
    BY <2>1, <2>2, <2>4 DEF TypeOK
  <2>6. owner'[m] = h /\ \A k \in Requests : k # m => owner'[k] = owner[k]
    BY <1>1, <2>1 DEF TypeOK
  <2>7. /\ queue'[m] = Tail(queue[m])
        /\ \A k \in Requests : k # m => queue'[k] = queue[k]
    BY <1>1, <2>1 DEF TypeOK
  <2>8. /\ Len(Tail(queue[m])) = Len(queue[m]) - 1
        /\ \A i \in 1..Len(Tail(queue[m])) :
             /\ Tail(queue[m])[i] = queue[m][i + 1]
             /\ i + 1 \in 1..Len(queue[m]) /\ i + 1 # 1
    BY <1>2, <1>4
  <2>9. \A k \in Requests : k # m => owner[k] # r /\ owner[k] # h
    BY <1>1, <2>2, <2>3, <1>a, NoneAssumption DEF MutexInv
  <2>10. \A k \in Requests : \A i \in 1..Len(queue[k]) :
           /\ queue[k][i] \in Requests
           /\ queue[k][i] # r
           /\ k # m => queue[k][i] # h
    <3> SUFFICES ASSUME NEW k \in Requests, NEW i \in 1..Len(queue[k])
                 PROVE  /\ queue[k][i] \in Requests
                        /\ queue[k][i] # r
                        /\ k # m => queue[k][i] # h
      OBVIOUS
    <3>1. queue[k] \in Seq(Requests)
      BY DEF TypeOK
    <3>2. queue[k][i] \in Requests
      BY <3>1
    <3>3. pc[queue[k][i]] = "queued" /\ lockOf[queue[k][i]] = k
      BY DEF MutexInv
    <3> QED
      BY <1>a, <2>3, <3>2, <3>3
  <2>11. \A i \in 1..Len(queue'[m]) : queue'[m][i] # h
    BY <1>1, <2>2, <2>7, <2>8 DEF MutexInv
  <2>12. \A q \in Requests : pc[q] \in Holding /\ q # r => lockOf[q] # m
    BY <1>1 DEF MutexInv
  <2>13. \A k \in Requests : owner[k] # None => owner[k] \in Requests
    BY DEF TypeOK
  <2>14. \A q \in Requests :
           pc'[q] \in Holding => lockOf'[q] \in Requests /\ owner'[lockOf'[q]] = q
    BY <1>1, <2>3, <2>5, <2>6, <2>12 DEF MutexInv
  <2>15. \A k \in Requests :
           owner'[k] # None => pc'[owner'[k]] \in Holding /\ lockOf'[owner'[k]] = k
    BY <1>1, <1>a, <2>3, <2>5, <2>6, <2>9, <2>13 DEF MutexInv
  <2>16. \A k \in Requests : owner'[k] = None => queue'[k] = << >>
    BY <2>2, <2>6, <2>7, NoneAssumption DEF MutexInv
  <2>17. \A k \in Requests : \A i \in 1..Len(queue'[k]) :
           pc'[queue'[k][i]] = "queued" /\ lockOf'[queue'[k][i]] = k
    <3> TAKE k \in Requests
    <3> TAKE i \in 1..Len(queue'[k])
    <3>1. CASE k = m
      <4>1. queue'[m][i] = queue[m][i + 1] /\ i + 1 \in 1..Len(queue[m])
        BY <2>7, <2>8, <3>1
      <4>2. /\ queue[m][i + 1] \in Requests
            /\ queue[m][i + 1] # r /\ queue[m][i + 1] # h
        BY <1>1, <2>10, <2>11, <3>1, <4>1
      <4> QED
        BY <1>1, <2>5, <3>1, <4>1, <4>2 DEF MutexInv
    <3>2. CASE k # m
      BY <2>5, <2>7, <2>10, <3>2 DEF MutexInv
    <3> QED
      BY <3>1, <3>2
  <2>18. \A k \in Requests : \A i, j \in 1..Len(queue'[k]) :
           queue'[k][i] = queue'[k][j] => i = j
    <3> TAKE k \in Requests
    <3> TAKE i, j \in 1..Len(queue'[k])
    <3>1. CASE k = m
      <4>1. /\ queue'[m][i] = queue[m][i + 1] /\ i + 1 \in 1..Len(queue[m])
            /\ queue'[m][j] = queue[m][j + 1] /\ j + 1 \in 1..Len(queue[m])
        BY <2>7, <2>8, <3>1
      <4> QED
        BY <1>1, <3>1, <4>1 DEF MutexInv
    <3>2. CASE k # m
      BY <2>7, <3>2 DEF MutexInv
    <3> QED
      BY <3>1, <3>2
  <2> QED
    BY <2>14, <2>15, <2>16, <2>17, <2>18 DEF MutexInv
<1> QED
  BY <1>3, <1>4

\* Taking a mutex, at once or after a wait.
LEMMA MutexAcquired ==
  ASSUME TypeOK, MutexInv, NEW r \in Requests, pc[r] = "idle",
         NEW m \in Requests, Acquire(r, m)
  PROVE  /\ MutexInv'
         /\ pc' \in [Requests -> PcStates]
         /\ lockOf' \in [Requests -> Requests \cup {None}]
         /\ owner' \in [Requests -> Requests \cup {None}]
         /\ queue' \in [Requests -> Seq(Requests)]
         /\ pc'[r] \in {"granted", "queued"}
         /\ \A q \in Requests : q # r => pc'[q] = pc[q]
<1>1. /\ lockOf'[r] = m
      /\ lockOf' \in [Requests -> Requests \cup {None}]
      /\ \A q \in Requests : q # r => lockOf'[q] = lockOf[q]
  BY DEF Acquire, TypeOK
<1>2. "idle" \notin Holding /\ "queued" \notin Holding /\ "granted" \in Holding
  BY DEF Holding
<1>3. "queued" \in PcStates /\ "granted" \in PcStates
  BY DEF PcStates
<1>4. \A k \in Requests : \A i \in 1..Len(queue[k]) :
        queue[k][i] \in Requests /\ queue[k][i] # r
  <2> SUFFICES ASSUME NEW k \in Requests, NEW i \in 1..Len(queue[k])
               PROVE  queue[k][i] \in Requests /\ queue[k][i] # r
    OBVIOUS
  <2>1. queue[k] \in Seq(Requests)
    BY DEF TypeOK
  <2>2. pc[queue[k][i]] = "queued"
    BY DEF MutexInv
  <2> QED
    BY <2>1, <2>2
<1>5. \A k \in Requests : owner[k] # None => owner[k] \in Requests /\ owner[k] # r
  BY <1>2 DEF TypeOK, MutexInv
<1>6. CASE owner[m] = None
  <2>1. /\ owner' = [owner EXCEPT ![m] = r]
        /\ pc' = [pc EXCEPT ![r] = "granted"]
        /\ queue' = queue
    BY <1>6 DEF Acquire
  <2>2. /\ pc'[r] = "granted" /\ pc' \in [Requests -> PcStates]
        /\ \A q \in Requests : q # r => pc'[q] = pc[q]
    BY <1>3, <2>1 DEF TypeOK
  <2>3. /\ owner'[m] = r /\ owner' \in [Requests -> Requests \cup {None}]
        /\ \A k \in Requests : k # m => owner'[k] = owner[k]
    BY <2>1 DEF TypeOK
  <2>a. \A q \in Requests :
          pc'[q] \in Holding => lockOf'[q] \in Requests /\ owner'[lockOf'[q]] = q
    BY <1>1, <1>6, <2>2, <2>3, NoneAssumption DEF MutexInv
  <2>b. \A k \in Requests :
          owner'[k] # None => pc'[owner'[k]] \in Holding /\ lockOf'[owner'[k]] = k
    BY <1>1, <1>2, <1>5, <2>2, <2>3 DEF MutexInv
  <2>c. \A k \in Requests : owner'[k] = None => queue'[k] = << >>
    BY <2>1, <2>3, NoneAssumption DEF MutexInv
  <2>d. \A k \in Requests : \A i \in 1..Len(queue'[k]) :
          pc'[queue'[k][i]] = "queued" /\ lockOf'[queue'[k][i]] = k
    BY <1>1, <1>4, <2>1, <2>2 DEF MutexInv
  <2>e. \A k \in Requests : \A i, j \in 1..Len(queue'[k]) :
          queue'[k][i] = queue'[k][j] => i = j
    BY <2>1 DEF MutexInv
  <2>4. MutexInv'
    BY <2>a, <2>b, <2>c, <2>d, <2>e DEF MutexInv
  <2> QED
    BY <1>1, <2>1, <2>2, <2>3, <2>4 DEF TypeOK
<1>7. CASE owner[m] # None
  <2>1. /\ queue' = [queue EXCEPT ![m] = Append(queue[m], r)]
        /\ pc' = [pc EXCEPT ![r] = "queued"]
        /\ owner' = owner
    BY <1>7 DEF Acquire
  <2>2. /\ pc'[r] = "queued" /\ pc' \in [Requests -> PcStates]
        /\ \A q \in Requests : q # r => pc'[q] = pc[q]
    BY <1>3, <2>1 DEF TypeOK
  <2>3. /\ queue'[m] = Append(queue[m], r)
        /\ queue' \in [Requests -> Seq(Requests)]
        /\ \A k \in Requests : k # m => queue'[k] = queue[k]
    BY <2>1 DEF TypeOK
  <2>4. /\ Len(queue'[m]) = Len(queue[m]) + 1 /\ Len(queue[m]) \in Nat
        /\ queue'[m][Len(queue[m]) + 1] = r
        /\ \A i \in 1..Len(queue[m]) : queue'[m][i] = queue[m][i]
    BY <2>3 DEF TypeOK
  <2>5. \A k \in Requests : \A i \in 1..Len(queue'[k]) :
          pc'[queue'[k][i]] = "queued" /\ lockOf'[queue'[k][i]] = k
    <3> SUFFICES ASSUME NEW k \in Requests, NEW i \in 1..Len(queue'[k])
                 PROVE  pc'[queue'[k][i]] = "queued" /\ lockOf'[queue'[k][i]] = k
      OBVIOUS
    <3>1. CASE k = m /\ i = Len(queue[m]) + 1
      BY <1>1, <2>2, <2>4, <3>1
    <3>2. CASE ~(k = m /\ i = Len(queue[m]) + 1)
      <4>1. i \in 1..Len(queue[k]) /\ queue'[k][i] = queue[k][i]
        BY <2>3, <2>4, <3>2
      <4>2. pc[queue[k][i]] = "queued" /\ lockOf[queue[k][i]] = k
        BY <4>1 DEF MutexInv
      <4> QED
        BY <1>1, <1>4, <2>2, <4>1, <4>2
    <3> QED
      BY <3>1, <3>2
  <2>6. \A k \in Requests : \A i, j \in 1..Len(queue'[k]) :
          queue'[k][i] = queue'[k][j] => i = j
    <3> SUFFICES ASSUME NEW k \in Requests, NEW i \in 1..Len(queue'[k]),
                        NEW j \in 1..Len(queue'[k]), queue'[k][i] = queue'[k][j]
                 PROVE  i = j
      OBVIOUS
    <3>1. CASE k # m
      <4>1. queue'[k] = queue[k]
        BY <2>3, <3>1
      <4> QED
        BY <4>1 DEF MutexInv
    <3>2. CASE k = m
      <4> DEFINE n == Len(queue[m])
      <4>1. CASE i \in 1..n /\ j \in 1..n
        <5>1. queue[m][i] = queue[m][j]
          BY <2>4, <3>2, <4>1
        <5> QED
          BY <4>1, <5>1 DEF MutexInv
      <4>2. CASE i \in 1..n /\ j = n + 1
        BY <1>4, <2>4, <3>2, <4>2
      <4>3. CASE i = n + 1 /\ j \in 1..n
        BY <1>4, <2>4, <3>2, <4>3
      <4>4. CASE i = n + 1 /\ j = n + 1
        BY <4>4
      <4> QED
        BY <2>4, <3>2, <4>1, <4>2, <4>3, <4>4
    <3> QED
      BY <3>1, <3>2
  <2>7. \A q \in Requests :
          pc'[q] \in Holding => lockOf'[q] \in Requests /\ owner'[lockOf'[q]] = q
    BY <1>1, <1>2, <2>1, <2>2 DEF MutexInv
  <2>8. \A k \in Requests :
          owner'[k] # None => pc'[owner'[k]] \in Holding /\ lockOf'[owner'[k]] = k
    BY <1>1, <1>5, <2>1, <2>2 DEF MutexInv
  <2>9. \A k \in Requests : owner'[k] = None => queue'[k] = << >>
    BY <1>7, <2>1, <2>3 DEF MutexInv
  <2>10. MutexInv'
    BY <2>5, <2>6, <2>7, <2>8, <2>9 DEF MutexInv
  <2> QED
    BY <1>1, <2>1, <2>2, <2>3, <2>10 DEF TypeOK
<1> QED
  BY <1>6, <1>7

\* Releasing a mutex moves nobody but the request itself and one waiter.
LEMMA ReleaseMoves ==
  ASSUME TypeOK, MutexInv, NEW r \in Requests, pc[r] \in Holding,
         NEW next \in PcStates, Release(r, next)
  PROVE  /\ pc'[r] = next
         /\ \A q \in Requests :
              q # r => \/ pc'[q] = pc[q]
                       \/ pc[q] = "queued" /\ pc'[q] = "granted"
<1> DEFINE m == lockOf[r]
           h == Head(queue[m])
<1>1. m \in Requests /\ queue[m] \in Seq(Requests)
  BY DEF MutexInv, TypeOK
<1>2. CASE queue[m] = << >>
  BY <1>2 DEF Release, TypeOK
<1>3. CASE queue[m] # << >>
  <2>1. h \in Requests /\ h = queue[m][1] /\ 1 \in 1..Len(queue[m])
    BY <1>1, <1>3
  <2>2. pc[h] = "queued"
    BY <1>1, <2>1 DEF MutexInv
  <2>3. h # r
    BY <2>2 DEF Holding
  <2>4. pc' = [pc EXCEPT ![r] = next, ![h] = "granted"]
    BY <1>3 DEF Release
  <2> QED
    BY <2>1, <2>2, <2>3, <2>4 DEF TypeOK
<1> QED
  BY <1>2, <1>3

-----------------------------------------------------------------------------
(***************************************************************************)
(* The inductive invariant                                                 *)
(***************************************************************************)

\* A turn begins no more commands than it may, counted from none.
CmdInv ==
  \A r \in Requests :
    /\ pc[r] \in {"idle", "queued", "granted", "initializing", "joining"} => cmds[r] = 0
    /\ pc[r] = "ready" => cmds[r] < MaxCommands

\* Where a request is tells the state of the session it makes, and a
\* deleteSession destroys a session of the id it was given.
SessInv ==
  /\ \A r \in Requests :
       /\ pc[r] \in {"idle", "queued", "granted", "joining"} => shell[r] = "none"
       /\ pc[r] \in {"initializing", "creating"} => shell[r] = "starting"
       /\ pc[r] # "idle" => sid[r] \in SessionIds
       /\ pc[r] = "destroying" =>
            /\ sessOf[r] \in Requests
            /\ sid[sessOf[r]] = sid[r]
            /\ shell[sessOf[r]] \in {"dead", "closing", "exited", "gone"}
  /\ FreshCreations
  /\ NoGhostSession

IInv == TypeOK /\ MutexInv /\ CmdInv /\ SessInv

\* The invariant holds at first.
LEMMA InitIInv == Init => IInv
<1> SUFFICES ASSUME Init PROVE IInv
  OBVIOUS
<1> USE DEF Init
<1>1. TypeOK
  BY MaxCommandsAssumption DEF TypeOK, PcStates, ShellStates
<1>2. MutexInv
  BY DEF MutexInv, Holding
<1>3. CmdInv
  BY DEF CmdInv
<1>4. SessInv
  BY NoneAssumption DEF SessInv, FreshCreations, NoGhostSession
<1> QED
  BY <1>1, <1>2, <1>3, <1>4 DEF IInv

\* Every step keeps the types,
LEMMA NextType == IInv /\ [Next]_vars => TypeOK'
<1> SUFFICES ASSUME IInv, [Next]_vars PROVE TypeOK'
  OBVIOUS
<1> USE DEF IInv, requestVars, mapVars, mutexVars
<1>1. CASE UNCHANGED vars
  BY <1>1 DEF vars, TypeOK
<1>2. ASSUME NEW r \in Requests, NEW o \in LockedOps, NEW s \in SessionIds,
             CallLocked(r, o, s)
      PROVE  TypeOK'
  <2> DEFINE m == IF sessionLocks[s] = None THEN r ELSE sessionLocks[s]
  <2>1. m \in Requests /\ Acquire(r, m) /\ pc[r] = "idle"
    BY <1>2 DEF CallLocked, TypeOK
  <2>2. /\ pc' \in [Requests -> PcStates]
        /\ lockOf' \in [Requests -> Requests \cup {None}]
        /\ owner' \in [Requests -> Requests \cup {None}]
        /\ queue' \in [Requests -> Seq(Requests)]
    BY <2>1, MutexAcquired
  <2>3. sessionLocks' \in [SessionIds -> Requests \cup {None}]
    BY <1>2 DEF CallLocked, TypeOK
  <2>4. /\ op' \in [Requests -> Ops \cup {None}]
        /\ sid' \in [Requests -> SessionIds \cup {None}]
    BY <1>2 DEF CallLocked, TypeOK
  <2> QED
    BY <1>2, <2>2, <2>3, <2>4 DEF CallLocked, TypeOK
<1>3. ASSUME NEW r \in Requests, NEW s \in SessionIds, CallCreate(r, s)
      PROVE  TypeOK'
  BY <1>3 DEF CallCreate, TypeOK, PcStates, ShellStates
<1>4. ASSUME NEW r \in Requests, NEW s \in SessionIds, CallDelete(r, s)
      PROVE  TypeOK'
  <2>1. pc' \in [Requests -> PcStates]
    BY <1>4 DEF CallDelete, TypeOK, PcStates
  <2>2. shell' \in [Requests -> ShellStates]
    <3>1. CASE sessions[s] = None
      BY <1>4, <3>1 DEF CallDelete, TypeOK
    <3>2. CASE sessions[s] # None
      <4>1. shell' = [shell EXCEPT ![sessions[s]] =
                        IF shell[sessions[s]] = "live" THEN "closing"
                        ELSE shell[sessions[s]]]
        BY <1>4, <3>2 DEF CallDelete
      <4> QED
        BY <3>2, <4>1 DEF TypeOK, ShellStates
    <3> QED
      BY <3>1, <3>2
  <2>3. sessOf' \in [Requests -> Requests \cup {None}]
    BY <1>4 DEF CallDelete, TypeOK
  <2>4. op' \in [Requests -> Ops \cup {None}] /\ sid' \in [Requests -> SessionIds \cup {None}]
    BY <1>4 DEF CallDelete, TypeOK
  <2> QED
    BY <1>4, <2>1, <2>2, <2>3, <2>4 DEF CallDelete, TypeOK
<1>5. ASSUME NEW r \in Requests, GetOrCreate(r)
      PROVE  TypeOK'
  <2>1. pc' \in [Requests -> PcStates]
    BY <1>5 DEF GetOrCreate, StartCreating, TypeOK, PcStates
  <2>2. shell' \in [Requests -> ShellStates]
    BY <1>5 DEF GetOrCreate, StartCreating, TypeOK, ShellStates
  <2>3. sessOf' \in [Requests -> Requests \cup {None}]
    <3>1. sid[r] \in SessionIds
      BY <1>5 DEF GetOrCreate, SessInv
    <3> QED
      BY <1>5, <3>1 DEF GetOrCreate, StartCreating, TypeOK
  <2>4. creatingLocks' \in [SessionIds -> Requests \cup {None}]
    BY <1>5 DEF GetOrCreate, StartCreating, TypeOK
  <2> QED
    BY <1>5, <2>1, <2>2, <2>3, <2>4 DEF GetOrCreate, TypeOK
<1>6. ASSUME NEW r \in Requests, CreateSucceeds(r)
      PROVE  TypeOK'
  BY <1>6 DEF CreateSucceeds, Resume, TypeOK, PcStates, ShellStates
<1>r. ASSUME NEW r \in Requests, pc[r] \in Holding, NEW next \in PcStates,
             Release(r, next)
      PROVE  /\ pc' \in [Requests -> PcStates]
             /\ owner' \in [Requests -> Requests \cup {None}]
             /\ queue' \in [Requests -> Seq(Requests)]
  <2>1. lockOf[r] \in Requests
    BY <1>r DEF MutexInv
  <2> QED
    BY <1>r, <2>1, ReleaseType
<1>d. "done" \in PcStates /\ "streaming" \in PcStates
  BY DEF PcStates
<1>7. ASSUME NEW r \in Requests, CreateFails(r)
      PROVE  TypeOK'
  <2>1. pc[r] \in Holding /\ Release(r, "done")
    BY <1>7 DEF CreateFails, Holding
  <2>2. /\ shell' \in [Requests -> ShellStates]
        /\ creatingLocks' \in [SessionIds -> Requests \cup {None}]
        /\ sessionLocks' \in [SessionIds -> Requests \cup {None}]
    BY <1>7 DEF CreateFails, TypeOK, ShellStates
  <2> QED
    BY <1>7, <1>r, <1>d, <2>1, <2>2 DEF CreateFails, TypeOK
<1>8. ASSUME NEW r \in Requests, PendingCreateSettles(r)
      PROVE  TypeOK'
  <2>1. pc' \in [Requests -> PcStates]
    BY <1>8 DEF PendingCreateSettles, StartCreating, TypeOK, PcStates
  <2>2. shell' \in [Requests -> ShellStates]
    BY <1>8 DEF PendingCreateSettles, StartCreating, TypeOK, ShellStates
  <2>3. sessOf' \in [Requests -> Requests \cup {None}]
    BY <1>8 DEF PendingCreateSettles, StartCreating, TypeOK
  <2>4. creatingLocks' \in [SessionIds -> Requests \cup {None}]
    BY <1>8 DEF PendingCreateSettles, StartCreating, TypeOK
  <2> QED
    BY <1>8, <2>1, <2>2, <2>3, <2>4 DEF PendingCreateSettles, TypeOK
<1>9. ASSUME NEW r \in Requests, BeginCommand(r)
      PROVE  TypeOK'
  <2>1. cmds[r] + 1 \in 0..MaxCommands
    BY <1>9, MaxCommandsAssumption DEF BeginCommand, Resume, CmdInv, TypeOK
  <2> QED
    BY <1>9, <2>1 DEF BeginCommand, Resume, TypeOK, PcStates
<1>10. ASSUME NEW r \in Requests,
              NotReady(r) \/ EndTurn(r) \/ CommandTimesOut(r) \/ ExecRejected(r)
                \/ StartEvent(r)
       PROVE  TypeOK'
  <2>1. /\ pc[r] \in Holding /\ (Release(r, "done") \/ Release(r, "streaming"))
        /\ UNCHANGED << op, sid, lockOf, sessOf, cmds, mapVars, shell >>
    BY <1>10 DEF NotReady, EndTurn, CommandTimesOut, ExecRejected, StartEvent, Holding
  <2> QED
    BY <1>r, <1>d, <2>1 DEF TypeOK
<1>11. ASSUME NEW r \in Requests,
              NextCommand(r) \/ BackgroundStreamEnds(r) \/ StreamHangs(r)
       PROVE  TypeOK'
  BY <1>11 DEF NextCommand, BackgroundStreamEnds, StreamHangs, Resume, TypeOK, PcStates
<1>12. ASSUME NEW r \in Requests, CreateSessionEnds(r)
       PROVE  TypeOK'
  <2>1. pc' \in [Requests -> PcStates]
    BY <1>12 DEF CreateSessionEnds, Resume, TypeOK, PcStates
  <2>2. shell' \in [Requests -> ShellStates]
    BY <1>12 DEF CreateSessionEnds, Resume, TypeOK, ShellStates
  <2>3. sessions' \in [SessionIds -> Requests \cup {None}]
    BY <1>12 DEF CreateSessionEnds, Resume, TypeOK
  <2> QED
    BY <1>12, <2>1, <2>2, <2>3 DEF CreateSessionEnds, TypeOK
<1>13. ASSUME NEW r \in Requests, DeleteEnds(r)
       PROVE  TypeOK'
  BY <1>13 DEF DeleteEnds, Resume, TypeOK, PcStates, ShellStates
<1>14. ASSUME NEW r \in Requests, ShellExits(r)
       PROVE  TypeOK'
  BY <1>14 DEF ShellExits, TypeOK, ShellStates
<1>15. ASSUME NEW r \in Requests, ShellDies(r)
       PROVE  TypeOK'
  BY <1>15 DEF ShellDies, TypeOK, PcStates, ShellStates
<1> QED
  BY <1>1, <1>2, <1>3, <1>4, <1>5, <1>6, <1>7, <1>8, <1>9, <1>10, <1>11, <1>12,
     <1>13, <1>14, <1>15
     DEF Next, Call, Step

\* who owns a mutex and who waits for it,
LEMMA NextMutex == IInv /\ [Next]_vars => MutexInv'
<1> SUFFICES ASSUME IInv, [Next]_vars PROVE MutexInv'
  OBVIOUS
<1> USE DEF IInv, requestVars, mapVars, mutexVars
<1>1. CASE UNCHANGED vars
  BY <1>1, MutexKept DEF vars
<1>2. ASSUME NEW r \in Requests, NEW o \in LockedOps, NEW s \in SessionIds,
             CallLocked(r, o, s)
      PROVE  MutexInv'
  <2> DEFINE m == IF sessionLocks[s] = None THEN r ELSE sessionLocks[s]
  <2>1. m \in Requests /\ Acquire(r, m) /\ pc[r] = "idle"
    BY <1>2 DEF CallLocked, TypeOK
  <2> QED
    BY <2>1, MutexAcquired
<1>3. ASSUME NEW r \in Requests, NEW s \in SessionIds,
             CallCreate(r, s) \/ CallDelete(r, s)
      PROVE  MutexInv'
  <2>1. /\ UNCHANGED << lockOf, owner, queue >>
        /\ pc[r] = "idle"
        /\ \/ pc' = [pc EXCEPT ![r] = "done"]
           \/ pc' = [pc EXCEPT ![r] = "creating"]
           \/ pc' = [pc EXCEPT ![r] = "destroying"]
    BY <1>3 DEF CallCreate, CallDelete
  <2>2. \A q \in Requests : /\ pc'[q] \in Holding <=> pc[q] \in Holding
                            /\ pc[q] = "queued" => pc'[q] = "queued"
    BY <2>1 DEF TypeOK, Holding
  <2> QED
    BY <2>1, <2>2, MutexKept
<1>4. ASSUME NEW r \in Requests,
             \/ GetOrCreate(r) \/ CreateSucceeds(r) \/ PendingCreateSettles(r)
             \/ BeginCommand(r) \/ NextCommand(r) \/ BackgroundStreamEnds(r)
             \/ StreamHangs(r) \/ CreateSessionEnds(r) \/ DeleteEnds(r)
      PROVE  MutexInv'
  <2>1. UNCHANGED << lockOf, owner, queue >>
    BY <1>4 DEF GetOrCreate, CreateSucceeds, PendingCreateSettles, BeginCommand,
                NextCommand, BackgroundStreamEnds, StreamHangs, CreateSessionEnds,
                DeleteEnds
  <2>2. \A q \in Requests : /\ pc'[q] \in Holding <=> pc[q] \in Holding
                            /\ pc[q] = "queued" => pc'[q] = "queued"
    BY <1>4 DEF GetOrCreate, StartCreating, CreateSucceeds, PendingCreateSettles,
                BeginCommand, NextCommand, BackgroundStreamEnds, StreamHangs,
                CreateSessionEnds, DeleteEnds, Resume, TypeOK, Holding
  <2> QED
    BY <2>1, <2>2, MutexKept
<1>5. ASSUME NEW r \in Requests,
             \/ CreateFails(r) \/ NotReady(r) \/ EndTurn(r) \/ CommandTimesOut(r)
             \/ ExecRejected(r) \/ StartEvent(r)
      PROVE  MutexInv'
  <2>1. /\ pc[r] \in Holding /\ (Release(r, "done") \/ Release(r, "streaming"))
        /\ UNCHANGED lockOf
    BY <1>5 DEF CreateFails, NotReady, EndTurn, CommandTimesOut, ExecRejected,
                StartEvent, Holding
  <2>2. {"done", "streaming"} \subseteq PcStates \ (Holding \cup {"queued", "idle"})
    BY DEF PcStates, Holding
  <2> QED
    BY <2>1, <2>2, MutexReleased
<1>6. ASSUME NEW r \in Requests, ShellExits(r)
      PROVE  MutexInv'
  BY <1>6, MutexKept DEF ShellExits
<1>7. ASSUME NEW o \in Requests, ShellDies(o)
      PROVE  MutexInv'
  <2>1. \A q \in Requests : /\ pc'[q] \in Holding <=> pc[q] \in Holding
                            /\ pc[q] = "queued" => pc'[q] = "queued"
    BY <1>7 DEF ShellDies, TypeOK, Holding
  <2> QED
    BY <1>7, <2>1, MutexKept DEF ShellDies
<1> QED
  BY <1>1, <1>2, <1>3, <1>4, <1>5, <1>6, <1>7 DEF Next, Call, Step

\* The requests that leave their mutex in a step: what else the step changes.
LEMMA ReleaseSteps ==
  ASSUME IInv, NEW r \in Requests,
         \/ CreateFails(r) \/ NotReady(r) \/ EndTurn(r) \/ CommandTimesOut(r)
         \/ ExecRejected(r) \/ StartEvent(r)
  PROVE  /\ UNCHANGED << op, sid, lockOf, sessOf, cmds, sessions >>
         /\ pc[r] \in Holding
         /\ pc'[r] \in {"done", "streaming"}
         /\ \A q \in Requests :
              q # r => \/ pc'[q] = pc[q]
                       \/ pc[q] = "queued" /\ pc'[q] = "granted"
         /\ CreateFails(r) \/ UNCHANGED << shell, creatingLocks, sessionLocks >>
<1>1. /\ pc[r] \in Holding /\ (Release(r, "done") \/ Release(r, "streaming"))
      /\ UNCHANGED << op, sid, lockOf, sessOf, cmds, sessions >>
      /\ CreateFails(r) \/ UNCHANGED << shell, creatingLocks, sessionLocks >>
  BY DEF CreateFails, NotReady, EndTurn, CommandTimesOut, ExecRejected,
         StartEvent, Holding, mapVars
<1>2. "done" \in PcStates /\ "streaming" \in PcStates
  BY DEF PcStates
<1> QED
  BY <1>1, <1>2, ReleaseMoves DEF IInv

\* how far a request is with its commands,
LEMMA NextCmd == IInv /\ [Next]_vars => CmdInv'
<1> SUFFICES ASSUME IInv, [Next]_vars PROVE CmdInv'
  OBVIOUS
<1> USE DEF IInv, requestVars, mapVars, mutexVars
<1>1. CASE UNCHANGED vars
  BY <1>1 DEF vars, CmdInv
<1>2. ASSUME NEW r \in Requests, NEW o \in LockedOps, NEW s \in SessionIds,
             CallLocked(r, o, s)
      PROVE  CmdInv'
  <2> DEFINE m == IF sessionLocks[s] = None THEN r ELSE sessionLocks[s]
  <2>1. m \in Requests /\ Acquire(r, m) /\ pc[r] = "idle" /\ UNCHANGED cmds
    BY <1>2 DEF CallLocked, TypeOK
  <2>2. /\ pc'[r] \in {"granted", "queued"}
        /\ \A q \in Requests : q # r => pc'[q] = pc[q]
    BY <2>1, MutexAcquired
  <2> QED
    BY <2>1, <2>2 DEF CmdInv
<1>3. ASSUME NEW r \in Requests, NEW s \in SessionIds,
             CallCreate(r, s) \/ CallDelete(r, s)
      PROVE  CmdInv'
  BY <1>3 DEF CallCreate, CallDelete, CmdInv, TypeOK
<1>4. ASSUME NEW r \in Requests,
             \/ GetOrCreate(r) \/ CreateSucceeds(r) \/ PendingCreateSettles(r)
      PROVE  CmdInv'
  BY <1>4, MaxCommandsAssumption
     DEF GetOrCreate, StartCreating, CreateSucceeds, PendingCreateSettles, Resume,
         CmdInv, TypeOK
<1>5. ASSUME NEW r \in Requests, BeginCommand(r)
      PROVE  CmdInv'
  BY <1>5 DEF BeginCommand, Resume, CmdInv, TypeOK
<1>6. ASSUME NEW r \in Requests,
             \/ NextCommand(r) \/ BackgroundStreamEnds(r) \/ StreamHangs(r)
             \/ CreateSessionEnds(r) \/ DeleteEnds(r)
      PROVE  CmdInv'
  BY <1>6 DEF NextCommand, BackgroundStreamEnds, StreamHangs, CreateSessionEnds,
              DeleteEnds, Resume, CmdInv, TypeOK
<1>7. ASSUME NEW r \in Requests,
             \/ CreateFails(r) \/ NotReady(r) \/ EndTurn(r) \/ CommandTimesOut(r)
             \/ ExecRejected(r) \/ StartEvent(r)
      PROVE  CmdInv'
  BY <1>7, ReleaseSteps DEF CmdInv
<1>8. ASSUME NEW r \in Requests, ShellExits(r) \/ ShellDies(r)
      PROVE  CmdInv'
  BY <1>8 DEF ShellExits, ShellDies, CmdInv, TypeOK
<1> QED
  BY <1>1, <1>2, <1>3, <1>4, <1>5, <1>6, <1>7, <1>8 DEF Next, Call, Step

\* Sessions that are published or being destroyed are past their creation.
LEMMA SessFacts ==
  ASSUME TypeOK, SessInv
  PROVE  /\ \A t \in SessionIds : sessions[t] # None =>
              /\ sessions[t] \in Requests
              /\ pc[sessions[t]] \notin {"idle", "queued", "granted", "joining",
                                        "initializing", "creating"}
         /\ \A q \in Requests : pc[q] = "destroying" =>
              pc[sessOf[q]] \notin {"idle", "queued", "granted", "joining",
                                    "initializing", "creating"}
         /\ \A t \in SessionIds : creatingLocks[t] # None =>
              creatingLocks[t] \in Requests
<1>1. \A t \in SessionIds : sessions[t] # None =>
        /\ sessions[t] \in Requests
        /\ shell[sessions[t]] \in {"live", "dead", "closing", "exited"}
  BY DEF TypeOK, SessInv, NoGhostSession
<1>2. \A q \in Requests : pc[q] = "destroying" =>
        /\ sessOf[q] \in Requests
        /\ shell[sessOf[q]] \in {"dead", "closing", "exited", "gone"}
  BY DEF SessInv
<1>3. \A q \in Requests :
        /\ pc[q] \in {"idle", "queued", "granted", "joining"} => shell[q] = "none"
        /\ pc[q] \in {"initializing", "creating"} => shell[q] = "starting"
  BY DEF SessInv
<1>4. \A t \in SessionIds : creatingLocks[t] # None => creatingLocks[t] \in Requests
  BY DEF TypeOK
<1> QED
  BY <1>1, <1>2, <1>3, <1>4

\* and how far the session is that a request makes.
LEMMA NextSess == IInv /\ [Next]_vars => SessInv'
<1> SUFFICES ASSUME IInv, [Next]_vars PROVE SessInv'
  OBVIOUS
<1>s. /\ \A t \in SessionIds : sessions[t] # None =>
            /\ sessions[t] \in Requests
            /\ pc[sessions[t]] \notin {"idle", "queued", "granted", "joining",
                                      "initializing", "creating"}
      /\ \A q \in Requests : pc[q] = "destroying" =>
            pc[sessOf[q]] \notin {"idle", "queued", "granted", "joining",
                                  "initializing", "creating"}
      /\ \A t \in SessionIds : creatingLocks[t] # None => creatingLocks[t] \in Requests
  BY SessFacts DEF IInv
<1> USE NoneAssumption
    DEF IInv, requestVars, mapVars, mutexVars, SessInv, FreshCreations, NoGhostSession
<1>1. CASE UNCHANGED vars
  BY <1>1 DEF vars
<1>2. ASSUME NEW r \in Requests, NEW o \in LockedOps, NEW s \in SessionIds,
             CallLocked(r, o, s)
      PROVE  SessInv'
  <2> DEFINE m == IF sessionLocks[s] = None THEN r ELSE sessionLocks[s]
  <2>1. m \in Requests /\ Acquire(r, m) /\ pc[r] = "idle"
    BY <1>2 DEF CallLocked, TypeOK
  <2>2. /\ pc'[r] \in {"granted", "queued"}
        /\ \A q \in Requests : q # r => pc'[q] = pc[q]
    BY <2>1, MutexAcquired
  <2>3. /\ UNCHANGED << sessOf, sessions, creatingLocks, shell >>
        /\ sid' = [sid EXCEPT ![r] = s]
    BY <1>2 DEF CallLocked
  <2> QED
    BY <2>1, <2>2, <2>3 DEF TypeOK
<1>3. ASSUME NEW r \in Requests, NEW s \in SessionIds, CallCreate(r, s)
      PROVE  SessInv'
  <2>1. /\ pc[r] = "idle" /\ UNCHANGED << sessOf, sessions, creatingLocks >>
        /\ sid' = [sid EXCEPT ![r] = s]
        /\ \/ pc' = [pc EXCEPT ![r] = "done"] /\ shell' = shell
           \/ /\ pc' = [pc EXCEPT ![r] = "creating"]
              /\ shell' = [shell EXCEPT ![r] = "starting"]
    BY <1>3 DEF CallCreate
  <2>a. \A q \in Requests :
          pc'[q] \in {"idle", "queued", "granted", "joining"} => shell'[q] = "none"
    BY <2>1 DEF TypeOK
  <2>b. \A q \in Requests :
          pc'[q] \in {"initializing", "creating"} => shell'[q] = "starting"
    BY <2>1 DEF TypeOK
  <2>c. \A q \in Requests : pc'[q] # "idle" => sid'[q] \in SessionIds
    BY <2>1 DEF TypeOK
  <2>d. \A q \in Requests : pc'[q] = "destroying" =>
          /\ sessOf'[q] \in Requests
          /\ sid'[sessOf'[q]] = sid'[q]
          /\ shell'[sessOf'[q]] \in {"dead", "closing", "exited", "gone"}
    BY <2>1 DEF TypeOK
  <2>e. FreshCreations'
    BY <2>1 DEF TypeOK
  <2>f. NoGhostSession'
    BY <2>1 DEF TypeOK
  <2> QED
    BY <2>a, <2>b, <2>c, <2>d, <2>e, <2>f
<1>4. ASSUME NEW r \in Requests, NEW s \in SessionIds, CallDelete(r, s)
      PROVE  SessInv'
  <2>1. /\ pc[r] = "idle" /\ UNCHANGED << sessions, creatingLocks >>
        /\ sid' = [sid EXCEPT ![r] = s]
        /\ \/ pc' = [pc EXCEPT ![r] = "done"] /\ UNCHANGED << sessOf, shell >>
           \/ /\ sessions[s] # None
              /\ pc' = [pc EXCEPT ![r] = "destroying"]
              /\ sessOf' = [sessOf EXCEPT ![r] = sessions[s]]
              /\ shell' = [shell EXCEPT ![sessions[s]] =
                              IF shell[sessions[s]] = "live" THEN "closing"
                              ELSE shell[sessions[s]]]
    BY <1>4 DEF CallDelete
  <2>2. sessions[s] # None => sessions[s] \in Requests /\ pc[sessions[s]] # "idle"
    BY <1>s
  <2>a. \A q \in Requests :
          pc'[q] \in {"idle", "queued", "granted", "joining"} => shell'[q] = "none"
    BY <2>1, <2>2 DEF TypeOK
  <2>b. \A q \in Requests :
          pc'[q] \in {"initializing", "creating"} => shell'[q] = "starting"
    BY <2>1, <2>2 DEF TypeOK
  <2>c. \A q \in Requests : pc'[q] # "idle" => sid'[q] \in SessionIds
    BY <2>1, <2>2 DEF TypeOK
  <2>d. \A q \in Requests : pc'[q] = "destroying" =>
          /\ sessOf'[q] \in Requests
          /\ sid'[sessOf'[q]] = sid'[q]
          /\ shell'[sessOf'[q]] \in {"dead", "closing", "exited", "gone"}
    BY <2>1, <2>2 DEF TypeOK
  <2>e. FreshCreations'
    BY <2>1, <2>2 DEF TypeOK
  <2>f. NoGhostSession'
    BY <2>1, <2>2 DEF TypeOK
  <2> QED
    BY <2>a, <2>b, <2>c, <2>d, <2>e, <2>f
<1>5. ASSUME NEW r \in Requests, GetOrCreate(r)
      PROVE  SessInv'
  <2>1. /\ pc[r] = "granted" /\ UNCHANGED << sid, sessions >>
        /\ \/ pc' = [pc EXCEPT ![r] = "ready"] /\ UNCHANGED << creatingLocks, shell >>
           \/ pc' = [pc EXCEPT ![r] = "joining"] /\ UNCHANGED << creatingLocks, shell >>
           \/ /\ pc' = [pc EXCEPT ![r] = "initializing"]
              /\ creatingLocks' = [creatingLocks EXCEPT ![sid[r]] = r]
              /\ shell' = [shell EXCEPT ![r] = "starting"]
    BY <1>5 DEF GetOrCreate, StartCreating
  <2>2. \A q \in Requests : q # r => sessOf'[q] = sessOf[q]
    BY <1>5 DEF GetOrCreate, TypeOK
  <2>3. /\ pc'[r] \in {"ready", "joining", "initializing"}
        /\ \A q \in Requests : q # r => pc'[q] = pc[q] /\ shell'[q] = shell[q]
    BY <2>1 DEF TypeOK
  <2>a. \A q \in Requests :
          pc'[q] \in {"idle", "queued", "granted", "joining"} => shell'[q] = "none"
    BY <1>s, <2>1, <2>2, <2>3 DEF TypeOK
  <2>b. \A q \in Requests :
          pc'[q] \in {"initializing", "creating"} => shell'[q] = "starting"
    BY <1>s, <2>1, <2>2, <2>3 DEF TypeOK
  <2>c. \A q \in Requests : pc'[q] # "idle" => sid'[q] \in SessionIds
    BY <1>s, <2>1, <2>2, <2>3 DEF TypeOK
  <2>d. \A q \in Requests : pc'[q] = "destroying" =>
          /\ sessOf'[q] \in Requests
          /\ sid'[sessOf'[q]] = sid'[q]
          /\ shell'[sessOf'[q]] \in {"dead", "closing", "exited", "gone"}
    <3> SUFFICES ASSUME NEW q \in Requests, pc'[q] = "destroying"
                 PROVE  /\ sessOf'[q] \in Requests
                        /\ sid'[sessOf'[q]] = sid'[q]
                        /\ shell'[sessOf'[q]] \in {"dead", "closing", "exited", "gone"}
      OBVIOUS
    <3>1. q # r /\ pc[q] = "destroying" /\ sessOf'[q] = sessOf[q]
      BY <2>2, <2>3
    <3>2. sessOf[q] \in Requests /\ sessOf[q] # r
      BY <1>s, <2>1, <3>1
    <3> QED
      BY <2>1, <2>3, <3>1, <3>2
  <2>e. FreshCreations'
    BY <1>s, <2>1, <2>2, <2>3 DEF TypeOK
  <2>f. NoGhostSession'
    BY <1>s, <2>1, <2>2, <2>3 DEF TypeOK
  <2> QED
    BY <2>a, <2>b, <2>c, <2>d, <2>e, <2>f
<1>6. ASSUME NEW r \in Requests, CreateSucceeds(r)
      PROVE  SessInv'
  BY <1>6 DEF CreateSucceeds, Resume, TypeOK
<1>7. ASSUME NEW r \in Requests, PendingCreateSettles(r)
      PROVE  SessInv'
  <2>1. /\ pc[r] = "joining" /\ UNCHANGED << sid, sessions >>
        /\ \/ pc' = [pc EXCEPT ![r] = "ready"] /\ UNCHANGED << creatingLocks, shell >>
           \/ /\ pc' = [pc EXCEPT ![r] = "initializing"]
              /\ creatingLocks' = [creatingLocks EXCEPT ![sid[r]] = r]
              /\ shell' = [shell EXCEPT ![r] = "starting"]
    BY <1>7 DEF PendingCreateSettles, StartCreating
  <2>2. \A q \in Requests : q # r => sessOf'[q] = sessOf[q]
    BY <1>7 DEF PendingCreateSettles, TypeOK
  <2>3. /\ pc'[r] \in {"ready", "initializing"}
        /\ \A q \in Requests : q # r => pc'[q] = pc[q] /\ shell'[q] = shell[q]
    BY <2>1 DEF TypeOK
  <2>a. \A q \in Requests :
          pc'[q] \in {"idle", "queued", "granted", "joining"} => shell'[q] = "none"
    BY <1>s, <2>1, <2>2, <2>3 DEF TypeOK
  <2>b. \A q \in Requests :
          pc'[q] \in {"initializing", "creating"} => shell'[q] = "starting"
    BY <1>s, <2>1, <2>2, <2>3 DEF TypeOK
  <2>c. \A q \in Requests : pc'[q] # "idle" => sid'[q] \in SessionIds
    BY <1>s, <2>1, <2>2, <2>3 DEF TypeOK
  <2>d. \A q \in Requests : pc'[q] = "destroying" =>
          /\ sessOf'[q] \in Requests
          /\ sid'[sessOf'[q]] = sid'[q]
          /\ shell'[sessOf'[q]] \in {"dead", "closing", "exited", "gone"}
    <3> SUFFICES ASSUME NEW q \in Requests, pc'[q] = "destroying"
                 PROVE  /\ sessOf'[q] \in Requests
                        /\ sid'[sessOf'[q]] = sid'[q]
                        /\ shell'[sessOf'[q]] \in {"dead", "closing", "exited", "gone"}
      OBVIOUS
    <3>1. q # r /\ pc[q] = "destroying" /\ sessOf'[q] = sessOf[q]
      BY <2>2, <2>3
    <3>2. sessOf[q] \in Requests /\ sessOf[q] # r
      BY <1>s, <2>1, <3>1
    <3> QED
      BY <2>1, <2>3, <3>1, <3>2
  <2>e. FreshCreations'
    BY <1>s, <2>1, <2>2, <2>3 DEF TypeOK
  <2>f. NoGhostSession'
    BY <1>s, <2>1, <2>2, <2>3 DEF TypeOK
  <2> QED
    BY <2>a, <2>b, <2>c, <2>d, <2>e, <2>f
<1>8. ASSUME NEW r \in Requests, CreateFails(r)
      PROVE  SessInv'
  <2>1. /\ pc[r] = "initializing" /\ UNCHANGED << sid, sessOf, sessions >>
        /\ shell' = [shell EXCEPT ![r] = "failed"]
        /\ creatingLocks' = [creatingLocks EXCEPT ![sid[r]] = None]
    BY <1>8 DEF CreateFails
  <2>2. /\ pc'[r] \in {"done", "streaming"}
        /\ \A q \in Requests :
             q # r => \/ pc'[q] = pc[q]
                      \/ pc[q] = "queued" /\ pc'[q] = "granted"
    BY <1>8, ReleaseSteps
  <2>3. /\ shell'[r] = "failed"
        /\ \A q \in Requests : q # r => shell'[q] = shell[q]
        /\ sid[r] \in SessionIds /\ creatingLocks'[sid[r]] = None
        /\ \A t \in SessionIds : t # sid[r] => creatingLocks'[t] = creatingLocks[t]
    BY <2>1 DEF TypeOK
  <2>a. \A q \in Requests :
          pc'[q] \in {"idle", "queued", "granted", "joining"} => shell'[q] = "none"
    BY <1>s, <2>1, <2>2, <2>3
  <2>b. \A q \in Requests :
          pc'[q] \in {"initializing", "creating"} => shell'[q] = "starting"
    BY <1>s, <2>1, <2>2, <2>3
  <2>c. \A q \in Requests : pc'[q] # "idle" => sid'[q] \in SessionIds
    BY <1>s, <2>1, <2>2, <2>3
  <2>d. \A q \in Requests : pc'[q] = "destroying" =>
          /\ sessOf'[q] \in Requests
          /\ sid'[sessOf'[q]] = sid'[q]
          /\ shell'[sessOf'[q]] \in {"dead", "closing", "exited", "gone"}
    BY <1>s, <2>1, <2>2, <2>3
  <2>e. FreshCreations'
    BY <1>s, <2>1, <2>2, <2>3
  <2>f. NoGhostSession'
    BY <1>s, <2>1, <2>2, <2>3
  <2> QED
    BY <2>a, <2>b, <2>c, <2>d, <2>e, <2>f
<1>9. ASSUME NEW r \in Requests,
             NotReady(r) \/ EndTurn(r) \/ CommandTimesOut(r) \/ ExecRejected(r)
               \/ StartEvent(r)
      PROVE  SessInv'
  <2>1. UNCHANGED << shell, creatingLocks, sessions, sid, sessOf >>
    BY <1>9 DEF NotReady, EndTurn, CommandTimesOut, ExecRejected, StartEvent
  <2>2. pc[r] \in {"ready", "running", "rejected"}
    BY <1>9 DEF NotReady, EndTurn, CommandTimesOut, ExecRejected, StartEvent
  <2>3. /\ pc'[r] \in {"done", "streaming"}
        /\ \A q \in Requests :
             q # r => \/ pc'[q] = pc[q]
                      \/ pc[q] = "queued" /\ pc'[q] = "granted"
    BY <1>9, ReleaseSteps
  <2>a. \A q \in Requests :
          pc'[q] \in {"idle", "queued", "granted", "joining"} => shell'[q] = "none"
    BY <1>s, <2>1, <2>2, <2>3
  <2>b. \A q \in Requests :
          pc'[q] \in {"initializing", "creating"} => shell'[q] = "starting"
    BY <2>1, <2>3
  <2>c. \A q \in Requests : pc'[q] # "idle" => sid'[q] \in SessionIds
    BY <1>s, <2>1, <2>2, <2>3
  <2>d. \A q \in Requests : pc'[q] = "destroying" =>
          /\ sessOf'[q] \in Requests
          /\ sid'[sessOf'[q]] = sid'[q]
          /\ shell'[sessOf'[q]] \in {"dead", "closing", "exited", "gone"}
    BY <1>s, <2>1, <2>2, <2>3
  <2>e. FreshCreations'
    BY <1>s, <2>1, <2>2, <2>3
  <2>f. NoGhostSession'
    BY <1>s, <2>1, <2>2, <2>3
  <2> QED
    BY <2>a, <2>b, <2>c, <2>d, <2>e, <2>f
<1>10. ASSUME NEW r \in Requests,
             BeginCommand(r) \/ NextCommand(r) \/ BackgroundStreamEnds(r) \/ StreamHangs(r)
      PROVE  SessInv'
  BY <1>10 DEF BeginCommand, NextCommand, BackgroundStreamEnds, StreamHangs, Resume, TypeOK
<1>11. ASSUME NEW r \in Requests, CreateSessionEnds(r)
      PROVE  SessInv'
  <2>1. /\ pc[r] = "creating" /\ pc' = [pc EXCEPT ![r] = "done"]
        /\ UNCHANGED << sid, sessOf, creatingLocks >>
        /\ \/ /\ shell' = [shell EXCEPT ![r] = "live"]
              /\ sessions' = [sessions EXCEPT ![sid[r]] = r]
           \/ /\ shell' = [shell EXCEPT ![r] = "failed"]
              /\ sessions' = sessions
    BY <1>11 DEF CreateSessionEnds, Resume
  <2>2. /\ pc'[r] = "done" /\ shell'[r] \in {"live", "failed"}
        /\ \A q \in Requests : q # r => pc'[q] = pc[q] /\ shell'[q] = shell[q]
        /\ sid[r] \in SessionIds
        /\ sessions'[sid[r]] \in {r, sessions[sid[r]]}
        /\ sessions'[sid[r]] = r => shell'[r] = "live" \/ sessions[sid[r]] = r
        /\ \A t \in SessionIds : t # sid[r] => sessions'[t] = sessions[t]
    BY <2>1 DEF TypeOK
  <2>a. \A q \in Requests :
          pc'[q] \in {"idle", "queued", "granted", "joining"} => shell'[q] = "none"
    BY <1>s, <2>1, <2>2
  <2>b. \A q \in Requests :
          pc'[q] \in {"initializing", "creating"} => shell'[q] = "starting"
    BY <1>s, <2>1, <2>2
  <2>c. \A q \in Requests : pc'[q] # "idle" => sid'[q] \in SessionIds
    BY <1>s, <2>1, <2>2
  <2>d. \A q \in Requests : pc'[q] = "destroying" =>
          /\ sessOf'[q] \in Requests
          /\ sid'[sessOf'[q]] = sid'[q]
          /\ shell'[sessOf'[q]] \in {"dead", "closing", "exited", "gone"}
    BY <1>s, <2>1, <2>2
  <2>e. FreshCreations'
    BY <1>s, <2>1, <2>2
  <2>f. NoGhostSession'
    BY <1>s, <2>1, <2>2
  <2> QED
    BY <2>a, <2>b, <2>c, <2>d, <2>e, <2>f
<1>12. ASSUME NEW r \in Requests, DeleteEnds(r)
      PROVE  SessInv'
  BY <1>12 DEF DeleteEnds, Resume, TypeOK
<1>13. ASSUME NEW r \in Requests, ShellExits(r)
      PROVE  SessInv'
  BY <1>13 DEF ShellExits, TypeOK
<1>14. ASSUME NEW r \in Requests, ShellDies(r)
      PROVE  SessInv'
  <2>1. /\ shell[r] = "live" /\ shell' = [shell EXCEPT ![r] = "dead"]
        /\ UNCHANGED << sid, sessOf, sessions, creatingLocks >>
        /\ \A q \in Requests : \/ pc'[q] = pc[q]
                               \/ pc[q] = "running" /\ pc'[q] = "rejected"
    BY <1>14 DEF ShellDies
  <2> QED
    BY <2>1 DEF TypeOK
<1> QED
  BY <1>1, <1>2, <1>3, <1>4, <1>5, <1>6, <1>7, <1>8, <1>9, <1>10, <1>11, <1>12, <1>13, <1>14
     DEF Next, Call, Step

\* So the invariant holds for ever.
LEMMA Inductive == Spec => []IInv
<1>1. IInv /\ [Next]_vars => IInv'
  BY NextType, NextMutex, NextCmd, NextSess DEF IInv
<1> QED
  BY InitIInv, <1>1, PTL DEF Spec

-----------------------------------------------------------------------------

\* Every variable keeps its type: in particular a turn never begins more than
\* MaxCommands commands.
THEOREM TypeCorrect == Spec => []TypeOK
<1>1. IInv => TypeOK
  BY DEF IInv
<1> QED
  BY <1>1, Inductive, PTL

\* No path of executeInSession, withSession or executeStreamInSession, error
\* paths included, leaves a mutex owned by a request that is gone or a request
\* waiting on a free mutex.
THEOREM MutexesReleased == Spec => []NoMutexLeak
<1>1. IInv => NoMutexLeak
  BY DEF IInv, MutexInv, NoMutexLeak
<1> QED
  BY <1>1, Inductive, PTL

\* creatingLocks only holds creations still running, whatever is deleted or
\* fails meanwhile.
THEOREM CreationsAreFresh == Spec => []FreshCreations
<1>1. IInv => FreshCreations
  BY DEF IInv, SessInv
<1> QED
  BY <1>1, Inductive, PTL

\* A lookup never returns a session that is not initialised or whose deletion
\* has ended, with concurrent creations and deletions of the same id.
THEOREM NoGhosts == Spec => []NoGhostSession
<1>1. IInv => NoGhostSession
  BY DEF IInv, SessInv
<1> QED
  BY <1>1, Inductive, PTL

-----------------------------------------------------------------------------
(***************************************************************************)
(* While no session is deleted and no creation fails                       *)
(***************************************************************************)

\* Nobody drops a mutex: no deleteSession, no failed creation.
NothingDropped == "delete" \notin Ops /\ ~InitMayFail

\* Every request waits for, or has its turn with, the mutex its id has in the
\* map.  This is what deletions and failed creations break.
LockInv ==
  /\ \A r \in Requests :
       /\ pc[r] = "idle" => lockOf[r] = None
       /\ pc[r] \in Holding \cup {"queued"} =>
            lockOf[r] # None /\ lockOf[r] = sessionLocks[sid[r]]
       /\ pc[r] # "destroying"
       /\ lockOf[r] # None => pc[lockOf[r]] # "idle"
  /\ \A s \in SessionIds :
       sessionLocks[s] # None => pc[sessionLocks[s]] # "idle" /\ sid[sessionLocks[s]] = s

\* No mutex was captured at first.
LEMMA InitLock == Init => LockInv
  BY DEF Init, LockInv, Holding

\* A step that starts no locked operation drops no mutex and moves nobody
\* into a turn who was not waiting for one.
LEMMA OtherSteps ==
  ASSUME IInv, LockInv, NothingDropped, [Next]_vars,
         \A r \in Requests, o \in LockedOps, s \in SessionIds : ~CallLocked(r, o, s)
  PROVE  /\ UNCHANGED << lockOf, sessionLocks >>
         /\ \A q \in Requests : pc[q] # "idle" => pc'[q] # "idle" /\ sid'[q] = sid[q]
         /\ \A q \in Requests :
              pc'[q] \in Holding \cup {"queued"} => pc[q] \in Holding \cup {"queued"}
         /\ \A q \in Requests : pc'[q] # "destroying"
<1> DEFINE Turn == Holding \cup {"queued"}
           Kept == /\ UNCHANGED << lockOf, sessionLocks >>
                   /\ \A q \in Requests : pc[q] # "idle" => pc'[q] # "idle" /\ sid'[q] = sid[q]
                   /\ \A q \in Requests : pc'[q] \in Turn => pc[q] \in Turn
                   /\ \A q \in Requests : pc'[q] # "destroying"
<1> USE DEF IInv, requestVars, mapVars, mutexVars
<1>d. \A q \in Requests : pc[q] # "destroying"
  BY DEF LockInv
<1>1. CASE UNCHANGED vars
  BY <1>1, <1>d DEF vars
<1>2. ASSUME NEW r \in Requests, NEW s \in SessionIds, CallCreate(r, s)
      PROVE  Kept
  BY <1>2, <1>d DEF CallCreate, TypeOK, Holding
<1>3. ASSUME NEW r \in Requests, NEW s \in SessionIds, CallDelete(r, s)
      PROVE  Kept
  BY <1>3 DEF CallDelete, NothingDropped
<1>4. ASSUME NEW r \in Requests,
             \/ GetOrCreate(r) \/ CreateSucceeds(r) \/ PendingCreateSettles(r)
             \/ BeginCommand(r) \/ NextCommand(r) \/ BackgroundStreamEnds(r)
             \/ StreamHangs(r) \/ CreateSessionEnds(r)
      PROVE  Kept
  <2>1. /\ UNCHANGED << lockOf, sessionLocks, sid >>
        /\ pc[r] # "idle"
        /\ pc[r] \in Holding \/ pc'[r] \in {"done", "lost"}
        /\ pc'[r] \notin {"idle", "destroying"}
        /\ \A q \in Requests : q # r => pc'[q] = pc[q]
    BY <1>4 DEF GetOrCreate, StartCreating, CreateSucceeds, PendingCreateSettles,
                BeginCommand, NextCommand, BackgroundStreamEnds, StreamHangs,
                CreateSessionEnds, Resume, TypeOK, Holding
  <2>2. {"done", "lost"} \cap Turn = {}
    BY DEF Holding
  <2> QED
    BY <1>d, <2>1, <2>2
<1>5. ASSUME NEW r \in Requests, DeleteEnds(r) \/ CreateFails(r)
      PROVE  Kept
  BY <1>5, <1>d DEF DeleteEnds, CreateFails, Resume, NothingDropped
<1>6. ASSUME NEW r \in Requests,
             \/ NotReady(r) \/ EndTurn(r) \/ CommandTimesOut(r)
             \/ ExecRejected(r) \/ StartEvent(r)
      PROVE  Kept
  <2>1. UNCHANGED << lockOf, sessionLocks, sid >>
    BY <1>6 DEF NotReady, EndTurn, CommandTimesOut, ExecRejected, StartEvent
  <2>2. /\ pc'[r] \in {"done", "streaming"}
        /\ \A q \in Requests :
             q # r => \/ pc'[q] = pc[q]
                      \/ pc[q] = "queued" /\ pc'[q] = "granted"
    BY <1>6, ReleaseSteps
  <2>3. {"done", "streaming"} \cap (Turn \cup {"idle", "destroying"}) = {}
    BY DEF Holding
  <2> QED
    BY <1>d, <2>1, <2>2, <2>3
<1>7. ASSUME NEW r \in Requests, ShellExits(r)
      PROVE  Kept
  BY <1>7, <1>d DEF ShellExits
<1>8. ASSUME NEW o \in Requests, ShellDies(o)
      PROVE  Kept
  <2>1. /\ UNCHANGED << lockOf, sessionLocks, sid >>
        /\ \A q \in Requests : \/ pc'[q] = pc[q]
                               \/ pc[q] = "running" /\ pc'[q] = "rejected"
    BY <1>8 DEF ShellDies
  <2> QED
    BY <1>d, <2>1 DEF Holding
<1>9. Kept
  BY <1>1, <1>2, <1>3, <1>4, <1>5, <1>6, <1>7, <1>8 DEF Next, Call, Step
<1> QED
  BY <1>9

\* Where nothing drops a mutex, the captured ones stay those in the map.
LEMMA NextLock == NothingDropped /\ IInv /\ LockInv /\ [Next]_vars => LockInv'
<1> SUFFICES ASSUME NothingDropped, IInv, LockInv, [Next]_vars
             PROVE  LockInv'
  OBVIOUS
<1> USE NoneAssumption DEF IInv
<1>1. CASE \A r \in Requests, o \in LockedOps, s \in SessionIds : ~CallLocked(r, o, s)
  <2>1. /\ UNCHANGED << lockOf, sessionLocks >>
        /\ \A q \in Requests : pc[q] # "idle" => pc'[q] # "idle" /\ sid'[q] = sid[q]
        /\ \A q \in Requests :
             pc'[q] \in Holding \cup {"queued"} => pc[q] \in Holding \cup {"queued"}
        /\ \A q \in Requests : pc'[q] # "destroying"
    BY <1>1, OtherSteps
  <2>2. \A q \in Requests : lockOf[q] # None => lockOf[q] \in Requests
    BY DEF TypeOK
  <2>3. \A s \in SessionIds : sessionLocks[s] # None => sessionLocks[s] \in Requests
    BY DEF TypeOK
  <2>4. "idle" \notin Holding \cup {"queued"}
    BY DEF Holding
  <2>5. \A q \in Requests : pc'[q] = "idle" => pc[q] = "idle"
    BY <2>1
  <2> QED
    BY <2>1, <2>2, <2>3, <2>4, <2>5 DEF LockInv
<1>2. ASSUME NEW r \in Requests, NEW o \in LockedOps, NEW s \in SessionIds,
             CallLocked(r, o, s)
      PROVE  LockInv'
  <2> DEFINE m == IF sessionLocks[s] = None THEN r ELSE sessionLocks[s]
  <2>1. m \in Requests /\ Acquire(r, m) /\ pc[r] = "idle"
    BY <1>2 DEF CallLocked, TypeOK
  <2>2. /\ pc'[r] \in {"granted", "queued"}
        /\ \A q \in Requests : q # r => pc'[q] = pc[q]
    BY <2>1, MutexAcquired
  <2>3. /\ lockOf'[r] = m
        /\ \A q \in Requests : q # r => lockOf'[q] = lockOf[q]
    BY <2>1 DEF Acquire, TypeOK
  <2>4. /\ sid'[r] = s
        /\ \A q \in Requests : q # r => sid'[q] = sid[q]
    BY <1>2 DEF CallLocked, TypeOK
  <2>5. /\ sessionLocks'[s] = m
        /\ \A t \in SessionIds : t # s => sessionLocks'[t] = sessionLocks[t]
        /\ sessionLocks[s] # None => sessionLocks[s] = m
    BY <1>2 DEF CallLocked, TypeOK
  <2>6. /\ \A q \in Requests : lockOf[q] # None => lockOf[q] \in Requests
        /\ \A t \in SessionIds : sessionLocks[t] # None => sessionLocks[t] \in Requests
        /\ \A q \in Requests : pc[q] # "idle" => sid[q] \in SessionIds
        /\ \A q \in Holding \cup {"queued"} : q # "idle"
    BY DEF TypeOK, SessInv, Holding
  <2>7. \A q \in Requests :
          /\ pc'[q] = "idle" => lockOf'[q] = None
          /\ pc'[q] # "destroying"
          /\ lockOf'[q] # None => pc'[lockOf'[q]] # "idle"
    BY <2>1, <2>2, <2>3, <2>5, <2>6 DEF LockInv
  <2>8. \A q \in Requests : pc'[q] \in Holding \cup {"queued"} =>
          lockOf'[q] # None /\ lockOf'[q] = sessionLocks'[sid'[q]]
    <3> SUFFICES ASSUME NEW q \in Requests, pc'[q] \in Holding \cup {"queued"}
                 PROVE  lockOf'[q] # None /\ lockOf'[q] = sessionLocks'[sid'[q]]
      OBVIOUS
    <3>1. CASE q = r
      BY <2>1, <2>3, <2>4, <2>5, <3>1
    <3>2. CASE q # r
      <4>1. /\ pc[q] \in Holding \cup {"queued"} /\ sid'[q] = sid[q]
            /\ lockOf'[q] = lockOf[q] /\ sid[q] \in SessionIds
        BY <2>2, <2>3, <2>4, <2>6, <3>2
      <4>2. lockOf[q] # None /\ lockOf[q] = sessionLocks[sid[q]]
        BY <4>1 DEF LockInv
      <4> QED
        BY <2>5, <4>1, <4>2
    <3> QED
      BY <3>1, <3>2
  <2>9. \A t \in SessionIds : sessionLocks'[t] # None =>
          pc'[sessionLocks'[t]] # "idle" /\ sid'[sessionLocks'[t]] = t
    BY <2>1, <2>2, <2>4, <2>5, <2>6 DEF LockInv
  <2> QED
    BY <2>7, <2>8, <2>9 DEF LockInv
<1> QED
  BY <1>1, <1>2

\* So that holds for ever too.
LEMMA LockInductive == ASSUME NothingDropped PROVE Spec => [](IInv /\ LockInv)
<1>1. Init => IInv /\ LockInv
  BY InitIInv, InitLock
<1>2. IInv /\ LockInv /\ [Next]_vars => (IInv /\ LockInv)'
  BY NextType, NextMutex, NextCmd, NextSess, NextLock DEF IInv
<1> QED
  BY <1>1, <1>2, PTL DEF Spec

\* Commands to the same session id are serialized: while no session is deleted
\* and no creation fails, no two requests are in their turn for one id, with
\* direct createSession calls, dying shells and timeouts as they come.
THEOREM Serialization ==
  ASSUME NothingDropped
  PROVE  Spec => []Serialized
<1>1. IInv /\ LockInv => Serialized
  <2> SUFFICES ASSUME IInv, LockInv, NEW r1 \in Requests, NEW r2 \in Requests,
                      InTurn(r1), InTurn(r2), sid[r1] = sid[r2]
               PROVE  r1 = r2
    BY DEF Serialized
  <2>1. pc[r1] \in Holding /\ pc[r2] \in Holding
    BY DEF InTurn, Holding
  <2>2. lockOf[r1] = lockOf[r2]
    BY <2>1 DEF LockInv
  <2> QED
    BY <2>1, <2>2 DEF IInv, MutexInv
<1> QED
  BY <1>1, LockInductive, PTL

-----------------------------------------------------------------------------
(***************************************************************************)
(* SessionManager implements SessionTurns                                  *)
(***************************************************************************)

\* A request that calls a locked operation joins the end of the line of its
\* session id, and no other line changes.
LEMMA CallJoins ==
  ASSUME IInv, LockInv, NEW r \in Requests, NEW o \in LockedOps,
         NEW s \in SessionIds, CallLocked(r, o, s)
  PROVE  /\ LineOf(s)' = Append(LineOf(s), r)
         /\ \A t \in SessionIds : t # s => LineOf(t)' = LineOf(t)
<1> USE NoneAssumption DEF IInv
<1> DEFINE m == IF sessionLocks[s] = None THEN r ELSE sessionLocks[s]
<1>1. m \in Requests /\ Acquire(r, m) /\ pc[r] = "idle"
  BY DEF CallLocked, TypeOK
<1>2. /\ sessionLocks'[s] = m
      /\ \A t \in SessionIds : t # s => sessionLocks'[t] = sessionLocks[t]
  BY DEF CallLocked, TypeOK
<1>3. sessionLocks[s] = None => owner[m] = None
  <2> SUFFICES ASSUME sessionLocks[s] = None, owner[r] # None PROVE FALSE
    OBVIOUS
  <2>1. owner[r] \in Requests /\ lockOf[owner[r]] = r
    BY DEF MutexInv, TypeOK
  <2> QED
    BY <1>1, <2>1 DEF LockInv
<1>4. queue[m] \in Seq(Requests) /\ owner[m] \in Requests \cup {None}
  BY <1>1 DEF TypeOK
<1>5. LineOf(s)' = Append(LineOf(s), r)
  <2>1. CASE owner[m] = None
    <3>1. owner'[m] = r /\ queue'[m] = << >>
      BY <1>1, <2>1 DEF Acquire, TypeOK, MutexInv
    <3>2. LineOf(s)' = << r >> \o << >>
      BY <1>1, <1>2, <3>1 DEF LineOf
    <3>3. LineOf(s) = << >>
      BY <2>1 DEF LineOf
    <3>4. << r >> \o << >> = Append(<< >>, r)
      OBVIOUS
    <3> QED
      BY <3>2, <3>3, <3>4
  <2>2. CASE owner[m] # None
    <3>1. owner' = owner /\ queue'[m] = Append(queue[m], r) /\ sessionLocks[s] = m
      BY <1>1, <1>3, <2>2 DEF Acquire, TypeOK
    <3>2. LineOf(s)' = << owner[m] >> \o Append(queue[m], r)
      BY <1>1, <1>2, <2>2, <3>1 DEF LineOf
    <3>3. LineOf(s) = << owner[m] >> \o queue[m]
      BY <1>1, <2>2, <3>1 DEF LineOf
    <3>4. << owner[m] >> \o Append(queue[m], r) = Append(<< owner[m] >> \o queue[m], r)
      BY <1>4, <2>2
    <3> QED
      BY <3>2, <3>3, <3>4
  <2> QED
    BY <2>1, <2>2
<1>6. ASSUME NEW t \in SessionIds, t # s
      PROVE  LineOf(t)' = LineOf(t)
  <2>1. sessionLocks'[t] = sessionLocks[t]
    BY <1>2, <1>6
  <2>2. sessionLocks[t] # None => sessionLocks[t] \in Requests /\ sessionLocks[t] # m
    BY <1>1, <1>6 DEF LockInv, TypeOK
  <2>3. \A k \in Requests : k # m => owner'[k] = owner[k] /\ queue'[k] = queue[k]
    BY <1>1 DEF Acquire, TypeOK
  <2> QED
    BY <2>1, <2>2, <2>3 DEF LineOf
<1> QED
  BY <1>5, <1>6

\* A request that releases its mutex was first in the line of its id and
\* leaves it, and no other line changes.
LEMMA ReleaseDeparts ==
  ASSUME IInv, LockInv, NEW r \in Requests, pc[r] \in Holding, NEW next,
         Release(r, next), UNCHANGED sessionLocks, NEW s, s = sid[r]
  PROVE  /\ s \in SessionIds /\ LineOf(s) # << >>
         /\ LineOf(s)' = Tail(LineOf(s))
         /\ \A t \in SessionIds : t # s => LineOf(t)' = LineOf(t)
<1> USE NoneAssumption DEF IInv
<1> DEFINE m == lockOf[r]
<1>1. /\ m \in Requests /\ owner[m] = r /\ queue[m] \in Seq(Requests)
      /\ sessionLocks[s] = m /\ s \in SessionIds
  <2>1. pc[r] # "idle"
    BY DEF Holding
  <2> QED
    BY <2>1 DEF MutexInv, LockInv, SessInv, TypeOK
<1>2. LineOf(s) = << r >> \o queue[m]
  BY <1>1 DEF LineOf
<1>3. << r >> \o queue[m] # << >> /\ Tail(<< r >> \o queue[m]) = queue[m]
  BY <1>1
<1>4. LineOf(s)' = queue[m]
  <2>1. CASE queue[m] = << >>
    <3>1. owner'[m] = None
      BY <1>1, <2>1 DEF Release, TypeOK
    <3> QED
      BY <1>1, <2>1, <3>1 DEF LineOf
  <2>2. CASE queue[m] # << >>
    <3>1. owner'[m] = Head(queue[m]) /\ queue'[m] = Tail(queue[m])
      BY <1>1, <2>2 DEF Release, TypeOK
    <3>2. Head(queue[m]) \in Requests
      BY <1>1, <2>2
    <3>3. LineOf(s)' = << Head(queue[m]) >> \o Tail(queue[m])
      BY <1>1, <3>1, <3>2 DEF LineOf
    <3>4. << Head(queue[m]) >> \o Tail(queue[m]) = queue[m]
      BY <1>1, <2>2
    <3> QED
      BY <3>3, <3>4
  <2> QED
    BY <2>1, <2>2
<1>5. ASSUME NEW t \in SessionIds, t # s
      PROVE  LineOf(t)' = LineOf(t)
  <2>1. sessionLocks[t] # None => sessionLocks[t] \in Requests /\ sessionLocks[t] # m
    BY <1>1, <1>5 DEF LockInv, TypeOK
  <2>2. \A k \in Requests : k # m => owner'[k] = owner[k] /\ queue'[k] = queue[k]
    BY <1>1 DEF Release, TypeOK
  <2> QED
    BY <2>1, <2>2 DEF LineOf
<1> QED
  BY <1>1, <1>2, <1>3, <1>4, <1>5

\* While no session is deleted and no creation fails, the mutexes in the map
\* give every session id one first-come first-served line.
THEOREM ImplementsTurns ==
  ASSUME NothingDropped
  PROVE  Spec => TurnsSpec
<1> DEFINE line == [s \in SessionIds |-> LineOf(s)]
           joined == {r \in Requests : lockOf[r] # None}
<1>1. Init => Turns!Init
  BY DEF Init, Turns!Init, LineOf
<1>2. ASSUME IInv, LockInv, [Next]_vars
      PROVE  [Turns!Next]_(Turns!vars)
  <2> USE DEF requestVars, mapVars, mutexVars
  <2>s. SUFFICES \/ \E r \in Requests, s \in SessionIds : Turns!Join(r, s)
                 \/ \E s \in SessionIds : Turns!Depart(s)
                 \/ line' = line /\ joined' = joined
    BY DEF Turns!Next, Turns!vars
  <2>1. ASSUME NEW r \in Requests, NEW o \in LockedOps, NEW s \in SessionIds,
               CallLocked(r, o, s)
        PROVE  Turns!Join(r, s)
    <3>1. line' = [line EXCEPT ![s] = Append(line[s], r)]
      BY <1>2, <2>1, CallJoins
    <3>2. r \notin joined
      BY <1>2, <2>1 DEF CallLocked, LockInv
    <3>3. /\ lockOf'[r] # None
          /\ \A q \in Requests : q # r => lockOf'[q] = lockOf[q]
      BY <1>2, <2>1, NoneAssumption DEF CallLocked, Acquire, IInv, TypeOK
    <3>4. joined' = joined \cup {r}
      BY <3>3
    <3> QED
      BY <3>1, <3>2, <3>4 DEF Turns!Join
  <2>2. ASSUME NEW r \in Requests,
               \/ NotReady(r) \/ EndTurn(r) \/ CommandTimesOut(r)
               \/ ExecRejected(r) \/ StartEvent(r)
        PROVE  \E s \in SessionIds : Turns!Depart(s)
    <3> PICK s : s = sid[r]
      OBVIOUS
    <3>1. /\ pc[r] \in Holding /\ (Release(r, "done") \/ Release(r, "streaming"))
          /\ UNCHANGED << lockOf, sessionLocks >>
      BY <2>2 DEF NotReady, EndTurn, CommandTimesOut, ExecRejected, StartEvent, Holding
    <3>2. /\ s \in SessionIds /\ LineOf(s) # << >>
          /\ LineOf(s)' = Tail(LineOf(s))
          /\ \A t \in SessionIds : t # s => LineOf(t)' = LineOf(t)
      BY <1>2, <3>1, ReleaseDeparts
    <3>3. line' = [line EXCEPT ![s] = Tail(line[s])]
      BY <3>2
    <3> QED
      BY <3>1, <3>2, <3>3 DEF Turns!Depart
  <2>3. ASSUME NEW r \in Requests, CreateFails(r) \/ DeleteEnds(r)
        PROVE  FALSE
    BY <1>2, <2>3 DEF CreateFails, DeleteEnds, Resume, LockInv, NothingDropped
  <2>4. ASSUME UNCHANGED << owner, queue, sessionLocks, lockOf >>
        PROVE  line' = line /\ joined' = joined
    BY <2>4 DEF LineOf
  <2>5. ASSUME NEW r \in Requests,
               \/ \E s \in SessionIds : CallCreate(r, s) \/ CallDelete(r, s)
               \/ GetOrCreate(r) \/ CreateSucceeds(r) \/ PendingCreateSettles(r)
               \/ BeginCommand(r) \/ NextCommand(r) \/ BackgroundStreamEnds(r)
               \/ StreamHangs(r) \/ CreateSessionEnds(r) \/ ShellExits(r) \/ ShellDies(r)
        PROVE  UNCHANGED << owner, queue, sessionLocks, lockOf >>
    BY <2>5 DEF CallCreate, CallDelete, GetOrCreate, CreateSucceeds,
                PendingCreateSettles, BeginCommand, NextCommand,
                BackgroundStreamEnds, StreamHangs, CreateSessionEnds, ShellExits,
                ShellDies
  <2>6. CASE UNCHANGED vars
    BY <2>4, <2>6 DEF vars
  <2> QED
    BY <1>2, <2>1, <2>2, <2>3, <2>4, <2>5, <2>6 DEF Next, Call, Step
<1> QED
  BY <1>1, <1>2, LockInductive, PTL DEF Spec, TurnsSpec, Turns!Spec

-----------------------------------------------------------------------------
(***************************************************************************)
(* While only locked operations are called and no creation fails           *)
(***************************************************************************)

\* No createSession, no deleteSession, no failed creation.
OnlyLocked == Ops \subseteq LockedOps /\ ~InitMayFail

\* A shell that starts is the creation its id has in the table, and the id has
\* no session yet; a shell that has started is the session its id has in the
\* map.  That no creation fails is what keeps a request that joined one from
\* creating a second.
ShellInv ==
  /\ \A r \in Requests :
       /\ pc[r] \notin {"creating", "destroying"}
       /\ pc[r] = "joining" => sessOf[r] \in Requests
       /\ shell[r] \in {"none", "starting", "live", "dead"}
  /\ \A o \in Requests : shell[o] = "starting" =>
       /\ pc[o] = "initializing"
       /\ creatingLocks[sid[o]] = o
       /\ sessions[sid[o]] = None
  /\ \A o \in Requests : shell[o] \in {"live", "dead"} =>
       pc[o] # "idle" /\ sessions[sid[o]] = o

\* No session is made at first.
LEMMA InitShell == Init => ShellInv
  BY DEF Init, ShellInv

\* A step that leaves the sessions and the table of creations alone, and moves
\* no request into or out of its creation.
LEMMA ShellKept ==
  ASSUME IInv, ShellInv, UNCHANGED << sessions, creatingLocks, shell >>,
         \A q \in Requests :
           /\ pc'[q] \notin {"creating", "destroying"}
           /\ pc'[q] = "joining" => sessOf'[q] \in Requests
           /\ pc[q] = "initializing" => pc'[q] = "initializing"
           /\ pc[q] # "idle" => pc'[q] # "idle" /\ sid'[q] = sid[q]
  PROVE  ShellInv'
<1>1. \A o \in Requests : pc[o] = "idle" => shell[o] = "none"
  BY DEF IInv, SessInv
<1>2. \A o \in Requests : shell'[o] = "starting" =>
        /\ pc'[o] = "initializing"
        /\ creatingLocks'[sid'[o]] = o
        /\ sessions'[sid'[o]] = None
  BY <1>1 DEF ShellInv
<1>3. \A o \in Requests : shell'[o] \in {"live", "dead"} =>
        pc'[o] # "idle" /\ sessions'[sid'[o]] = o
  BY <1>1 DEF ShellInv
<1> QED
  BY <1>2, <1>3 DEF ShellInv

\* A request starts the creation of its session: its id has none and no other
\* creation runs, so that the table may hold this one.
LEMMA ShellStarts ==
  ASSUME IInv, ShellInv, NEW r \in Requests, pc[r] = "granted",
         sessions[sid[r]] = None, creatingLocks[sid[r]] = None,
         StartCreating(r), UNCHANGED << sid, sessOf, sessions >>
  PROVE  ShellInv'
<1> USE NoneAssumption
<1>1. /\ pc'[r] = "initializing" /\ shell'[r] = "starting"
      /\ \A q \in Requests : q # r => pc'[q] = pc[q] /\ shell'[q] = shell[q]
  BY DEF StartCreating, IInv, TypeOK
<1>2. sid[r] \in SessionIds
  BY DEF IInv, SessInv
<1>3. /\ creatingLocks'[sid[r]] = r
      /\ \A t : t # sid[r] => creatingLocks'[t] = creatingLocks[t]
  BY <1>2 DEF StartCreating, IInv, TypeOK
<1>4. \A o \in Requests : o # r /\ shell[o] = "starting" => sid[o] # sid[r]
  BY DEF ShellInv
<1>5. \A o \in Requests : shell'[o] = "starting" =>
        /\ pc'[o] = "initializing"
        /\ creatingLocks'[sid'[o]] = o
        /\ sessions'[sid'[o]] = None
  BY <1>1, <1>3, <1>4 DEF ShellInv
<1>6. \A o \in Requests : shell'[o] \in {"live", "dead"} =>
        pc'[o] # "idle" /\ sessions'[sid'[o]] = o
  BY <1>1 DEF ShellInv
<1> QED
  BY <1>1, <1>5, <1>6 DEF ShellInv

\* A creation succeeds: its id had no session, and now has this one.
LEMMA ShellPublished ==
  ASSUME IInv, ShellInv, NEW r \in Requests, CreateSucceeds(r)
  PROVE  ShellInv'
<1> USE NoneAssumption
<1>1. /\ pc[r] = "initializing" /\ pc'[r] = "ready" /\ shell'[r] = "live"
      /\ \A q \in Requests : q # r => /\ pc'[q] = pc[q] /\ shell'[q] = shell[q]
                                      /\ sessOf'[q] = sessOf[q]
      /\ UNCHANGED sid
  BY DEF CreateSucceeds, Resume, IInv, TypeOK
<1>2. sid[r] \in SessionIds /\ shell[r] = "starting"
  BY <1>1 DEF IInv, SessInv
<1>3. /\ sessions'[sid[r]] = r
      /\ \A t \in SessionIds : t # sid[r] =>
           creatingLocks'[t] = creatingLocks[t] /\ sessions'[t] = sessions[t]
  BY <1>2 DEF CreateSucceeds, IInv, TypeOK
<1>4. sessions[sid[r]] = None /\ creatingLocks[sid[r]] = r
  BY <1>2 DEF ShellInv
<1>5. \A o \in Requests : shell[o] \in {"starting", "live", "dead"} => sid[o] \in SessionIds
  BY DEF IInv, SessInv
<1>6. \A o \in Requests : o # r /\ shell[o] \in {"starting", "live", "dead"} =>
        sid[o] # sid[r]
  BY <1>4 DEF ShellInv
<1>7. \A o \in Requests : shell'[o] = "starting" =>
        /\ pc'[o] = "initializing"
        /\ creatingLocks'[sid'[o]] = o
        /\ sessions'[sid'[o]] = None
  BY <1>1, <1>3, <1>5, <1>6 DEF ShellInv
<1>8. \A o \in Requests : shell'[o] \in {"live", "dead"} =>
        pc'[o] # "idle" /\ sessions'[sid'[o]] = o
  BY <1>1, <1>3, <1>5, <1>6 DEF ShellInv
<1> QED
  BY <1>1, <1>7, <1>8 DEF ShellInv

\* Every step keeps the shells of an id to one.
LEMMA NextShell == OnlyLocked /\ IInv /\ ShellInv /\ [Next]_vars => ShellInv'
<1> SUFFICES ASSUME OnlyLocked, IInv, ShellInv, [Next]_vars
             PROVE  ShellInv'
  OBVIOUS
<1> USE NoneAssumption DEF requestVars, mapVars, mutexVars
<1>0. \A q \in Requests :
        /\ pc[q] \notin {"creating", "destroying"}
        /\ pc[q] = "joining" => sessOf[q] \in Requests
  BY DEF ShellInv
<1>1. CASE UNCHANGED vars
  BY <1>0, <1>1, ShellKept DEF vars
<1>2. ASSUME NEW r \in Requests, NEW o \in LockedOps, NEW s \in SessionIds,
             CallLocked(r, o, s)
      PROVE  ShellInv'
  <2> DEFINE m == IF sessionLocks[s] = None THEN r ELSE sessionLocks[s]
  <2>1. m \in Requests /\ Acquire(r, m) /\ pc[r] = "idle"
    BY <1>2 DEF CallLocked, IInv, TypeOK
  <2>2. /\ pc'[r] \in {"granted", "queued"}
        /\ \A q \in Requests : q # r => pc'[q] = pc[q]
    BY <2>1, MutexAcquired DEF IInv
  <2>3. /\ UNCHANGED << sessOf, sessions, creatingLocks, shell >>
        /\ \A q \in Requests : q # r => sid'[q] = sid[q]
    BY <1>2 DEF CallLocked, IInv, TypeOK
  <2> QED
    BY <1>0, <2>1, <2>2, <2>3, ShellKept
<1>3. ASSUME NEW r \in Requests, NEW s \in SessionIds,
             CallCreate(r, s) \/ CallDelete(r, s)
      PROVE  FALSE
  BY <1>3 DEF CallCreate, CallDelete, OnlyLocked, LockedOps
<1>4. ASSUME NEW r \in Requests, GetOrCreate(r)
      PROVE  ShellInv'
  <2>1. pc[r] = "granted" /\ UNCHANGED << sid, sessions >>
    BY <1>4 DEF GetOrCreate
  <2>2. CASE sessions[sid[r]] # None \/ creatingLocks[sid[r]] # None
    <3>1. /\ UNCHANGED << creatingLocks, shell >>
          /\ \/ pc' = [pc EXCEPT ![r] = "ready"]
             \/ /\ pc' = [pc EXCEPT ![r] = "joining"]
                /\ sessOf' = [sessOf EXCEPT ![r] = creatingLocks[sid[r]]]
                /\ creatingLocks[sid[r]] # None
      BY <1>4, <2>2 DEF GetOrCreate
    <3>2. sid[r] \in SessionIds
      BY <2>1 DEF IInv, SessInv
    <3>3. /\ pc'[r] \in {"ready", "joining"}
          /\ pc'[r] = "joining" => sessOf'[r] \in Requests
      BY <3>1, <3>2 DEF IInv, TypeOK
    <3>4. \A q \in Requests : q # r => pc'[q] = pc[q] /\ sessOf'[q] = sessOf[q]
      BY <1>4, <3>1 DEF GetOrCreate, IInv, TypeOK
    <3> QED
      BY <1>0, <2>1, <3>1, <3>3, <3>4, ShellKept
  <2>3. CASE sessions[sid[r]] = None /\ creatingLocks[sid[r]] = None
    BY <1>4, <2>1, <2>3, ShellStarts DEF GetOrCreate
  <2> QED
    BY <2>2, <2>3
<1>5. ASSUME NEW r \in Requests, CreateSucceeds(r)
      PROVE  ShellInv'
  BY <1>5, ShellPublished
<1>6. ASSUME NEW r \in Requests, CreateFails(r)
      PROVE  FALSE
  BY <1>6 DEF CreateFails, OnlyLocked
<1>7. ASSUME NEW r \in Requests, PendingCreateSettles(r)
      PROVE  ShellInv'
  <2>1. pc[r] = "joining" /\ shell[sessOf[r]] # "failed"
    BY <1>0, <1>7 DEF PendingCreateSettles, ShellInv
  <2>2. /\ pc' = [pc EXCEPT ![r] = "ready"]
        /\ UNCHANGED << sid, sessOf, sessions, creatingLocks, shell >>
    BY <1>7, <2>1 DEF PendingCreateSettles
  <2>3. pc'[r] = "ready" /\ \A q \in Requests : q # r => pc'[q] = pc[q]
    BY <2>2 DEF IInv, TypeOK
  <2> QED
    BY <1>0, <2>1, <2>2, <2>3, ShellKept
<1>8. ASSUME NEW r \in Requests,
             \/ BeginCommand(r) \/ NextCommand(r) \/ BackgroundStreamEnds(r)
             \/ StreamHangs(r)
      PROVE  ShellInv'
  <2>1. /\ UNCHANGED << sid, sessOf, sessions, creatingLocks, shell >>
        /\ pc[r] \in {"ready", "running", "streaming"}
        /\ pc'[r] \in {"ready", "running", "done", "stuck", "lost"}
        /\ \A q \in Requests : q # r => pc'[q] = pc[q]
    BY <1>8 DEF BeginCommand, NextCommand, BackgroundStreamEnds, StreamHangs,
                Resume, IInv, TypeOK
  <2> QED
    BY <1>0, <2>1, ShellKept
<1>9. ASSUME NEW r \in Requests,
             \/ NotReady(r) \/ EndTurn(r) \/ CommandTimesOut(r)
             \/ ExecRejected(r) \/ StartEvent(r)
      PROVE  ShellInv'
  <2>1. /\ UNCHANGED << sid, sessOf, sessions, creatingLocks, shell >>
        /\ pc[r] \in {"ready", "running", "rejected"}
    BY <1>9 DEF NotReady, EndTurn, CommandTimesOut, ExecRejected, StartEvent
  <2>2. /\ pc'[r] \in {"done", "streaming"}
        /\ \A q \in Requests :
             q # r => \/ pc'[q] = pc[q]
                      \/ pc[q] = "queued" /\ pc'[q] = "granted"
    BY <1>9, ReleaseSteps
  <2> QED
    BY <1>0, <2>1, <2>2, ShellKept
<1>10. ASSUME NEW r \in Requests, CreateSessionEnds(r) \/ DeleteEnds(r)
       PROVE  FALSE
  BY <1>0, <1>10 DEF CreateSessionEnds, DeleteEnds, Resume
<1>11. ASSUME NEW r \in Requests, ShellExits(r)
       PROVE  FALSE
  BY <1>11 DEF ShellExits, ShellInv
<1>12. ASSUME NEW o \in Requests, ShellDies(o)
       PROVE  ShellInv'
  <2>1. /\ shell[o] = "live" /\ shell'[o] = "dead"
        /\ \A q \in Requests : q # o => shell'[q] = shell[q]
        /\ UNCHANGED << sid, sessOf, sessions, creatingLocks >>
        /\ \A q \in Requests : \/ pc'[q] = pc[q]
                               \/ pc[q] = "running" /\ pc'[q] = "rejected"
    BY <1>12 DEF ShellDies, IInv, TypeOK
  <2>2. \A q \in Requests : shell'[q] \in {"live", "dead"} => shell[q] \in {"live", "dead"}
    BY <2>1
  <2>3. \A q \in Requests : shell'[q] = "starting" => shell[q] = "starting"
    BY <2>1
  <2>4. \A q \in Requests : shell'[q] \in {"live", "dead"} =>
          pc'[q] # "idle" /\ sessions'[sid'[q]] = q
    BY <2>1, <2>2 DEF ShellInv
  <2>5. \A q \in Requests : shell'[q] = "starting" =>
          /\ pc'[q] = "initializing"
          /\ creatingLocks'[sid'[q]] = q
          /\ sessions'[sid'[q]] = None
    BY <2>1, <2>3 DEF ShellInv
  <2>6. \A q \in Requests :
          /\ pc'[q] \notin {"creating", "destroying"}
          /\ pc'[q] = "joining" => sessOf'[q] \in Requests
          /\ shell'[q] \in {"none", "starting", "live", "dead"}
    BY <2>1 DEF ShellInv
  <2> QED
    BY <2>4, <2>5, <2>6 DEF ShellInv
<1> QED
  BY <1>1, <1>2, <1>3, <1>4, <1>5, <1>6, <1>7, <1>8, <1>9, <1>10, <1>11, <1>12
     DEF Next, Call, Step

\* An id never has two shells as long as its requests only run commands and no
\* initialize() throws: concurrent first commands of an id, dying shells and
\* timeouts never make a second one.
THEOREM OneShell ==
  ASSUME OnlyLocked
  PROVE  Spec => []OneShellPerId
<1>1. Init => IInv /\ ShellInv
  BY InitIInv, InitShell
<1>2. IInv /\ ShellInv /\ [Next]_vars => (IInv /\ ShellInv)'
  BY NextType, NextMutex, NextCmd, NextSess, NextShell DEF IInv
<1>3. ShellInv => OneShellPerId
  BY DEF ShellInv, OneShellPerId
<1> QED
  BY <1>1, <1>2, <1>3, PTL DEF Spec

=============================================================================
