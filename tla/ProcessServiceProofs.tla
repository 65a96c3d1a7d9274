------------------------ MODULE ProcessServiceProofs ------------------------
(***************************************************************************)
(* Proofs about ProcessService, for every set of processes and calls and   *)
(* every bound on the output.                                              *)
(***************************************************************************)
EXTENDS ProcessService, TLAPS

-----------------------------------------------------------------------------
(***************************************************************************)
(* Records and updates                                                     *)
(***************************************************************************)

Statuses == {"running"} \cup Terminal

Codes == {"none", "zero", "nonzero"}

\* A record is what its four fields say.
LEMMA RecordType ==
  ASSUME NEW s \in Statuses, NEW n \in 0..MaxOutput, NEW x \in Codes, NEW b \in BOOLEAN
  PROVE  [status |-> s, out |-> n, exit |-> x, pid |-> b] \in Records
BY DEF Records, Statuses, Codes

\* What an event or a kill says of a process is a record of it.
LEMMA DataType ==
  ASSUME NEW s \in Statuses, NEW x \in Codes, NEW b \in BOOLEAN
  PROVE  /\ Data(s, x, b) \in Records
         /\ Data(s, x, b).status = s
         /\ Data(s, x, b).pid = b
<1>1. 0 \in 0..MaxOutput
  BY BoundAssumption
<1> QED
  BY <1>1, RecordType DEF Data

\* The fields of a record, and what it is without its number of lines.
LEMMA RecordFields ==
  ASSUME NEW r \in Records
  PROVE  /\ r.status \in Statuses /\ r.out \in 0..MaxOutput
         /\ r.exit \in Codes /\ r.pid \in BOOLEAN
         /\ r = [status |-> r.status, out |-> r.out, exit |-> r.exit, pid |-> r.pid]
BY DEF Records, Statuses, Codes

\* Merging keeps the output and the pid of a record; a final status stays
\* final, and one that is given is taken.
LEMMA MergeFacts ==
  ASSUME NEW r \in Records, NEW d \in Records
  PROVE  /\ Merge(r, d) \in Records
         /\ Merge(r, d).out = r.out
         /\ Merge(r, d).status = IF d.status = "running" THEN r.status ELSE d.status
         /\ Merge(r, d).pid = (r.pid \/ d.pid)
<1> DEFINE s == IF d.status = "running" THEN r.status ELSE d.status
           x == IF d.exit = "none" THEN r.exit ELSE d.exit
           b == r.pid \/ d.pid
<1>1. /\ r.status \in Statuses /\ r.out \in 0..MaxOutput /\ r.exit \in Codes
      /\ d.status \in Statuses /\ d.exit \in Codes
      /\ r = [status |-> r.status, out |-> r.out, exit |-> r.exit, pid |-> r.pid]
  BY RecordFields
<1>2. s \in Statuses /\ x \in Codes
  BY <1>1
<1>3. b \in BOOLEAN
  OBVIOUS
<1>4. Merge(r, d) = [r EXCEPT !.status = s, !.exit = x, !.pid = b]
  BY <1>1 DEF Merge
<1> HIDE DEF s, x, b
<1>5. Merge(r, d) = [status |-> s, out |-> r.out, exit |-> x, pid |-> b]
  BY <1>1, <1>4
<1>6. Merge(r, d) \in Records
  BY <1>1, <1>2, <1>3, <1>5, RecordType
<1>7. Merge(r, d).out = r.out /\ Merge(r, d).status = s /\ Merge(r, d).pid = b
  BY <1>5
<1> QED
  BY <1>6, <1>7 DEF s, b

\* An entry of a function is replaced by one of the same kind.
LEMMA EntryType ==
  ASSUME NEW S, NEW T, NEW f \in [S -> T], NEW x, NEW y \in T
  PROVE  [f EXCEPT ![x] = y] \in [S -> T]
OBVIOUS

\* The first part of update(): at most the record of p changes; its file is
\* begun when it is final, and read when the record is not in memory.
LEMMA StartFacts ==
  ASSUME TypeOK, NEW a \in Actors, NEW p \in Procs, NEW data \in Records,
         Start(a, p, data)
  PROVE  /\ rec' \in [Procs -> Records]
         /\ disk' \in [Procs -> Files]
         /\ up' \in [Actors -> Updates]
         /\ \A q \in Procs : q # p => rec'[q] = rec[q] /\ disk'[q] = disk[q]
         /\ \A b \in Actors : b # a => up'[b] = up[b]
         /\ rec'[p] = Merge(rec[p], data) \/ (rec'[p] = rec[p] /\ p \notin processes /\ a \notin Procs)
         /\ \/ /\ p \in processes /\ rec'[p].status \in Terminal
               /\ disk'[p] = Partial
               /\ up'[a] = [kind |-> "memory", of |-> p, data |-> rec'[p]]
            \/ /\ p \notin processes /\ disk' = disk
               /\ up'[a] = [kind |-> "read", of |-> p, data |-> data]
            \/ p \in processes /\ disk' = disk /\ up' = up
<1> DEFINE merged == Merge(rec[p], data)
<1>1. rec[p] \in Records /\ merged \in Records
  BY MergeFacts DEF TypeOK
<1>2. rec' = IF p \in processes \/ a \in Procs THEN [rec EXCEPT ![p] = merged] ELSE rec
  BY DEF Start
<1>3. rec' \in [Procs -> Records]
  BY <1>1, <1>2 DEF TypeOK
<1>4. \A q \in Procs : q # p => rec'[q] = rec[q]
  BY <1>2 DEF TypeOK
<1>5. rec'[p] = IF p \in processes \/ a \in Procs THEN merged ELSE rec[p]
  BY <1>2 DEF TypeOK
<1>6. Partial \in Files
  BY DEF Files
<1>7. \A k \in {"memory", "read"}, r \in Records :
        [kind |-> k, of |-> p, data |-> r] \in Updates
  BY DEF Updates
<1>8. CASE p \in processes /\ merged.status \in Terminal
  <2>1. disk' = [disk EXCEPT ![p] = Partial]
    BY <1>8 DEF Start
  <2>2. up' = [up EXCEPT ![a] = [kind |-> "memory", of |-> p, data |-> merged]]
    BY <1>8 DEF Start
  <2>3. disk' \in [Procs -> Files] /\ disk'[p] = Partial
    BY <1>6, <2>1 DEF TypeOK
  <2>4. [kind |-> "memory", of |-> p, data |-> merged] \in Updates
    BY <1>1, <1>7
  <2>5. up' \in [Actors -> Updates]
    BY <2>2, <2>4 DEF TypeOK
  <2>6. up'[a] = [kind |-> "memory", of |-> p, data |-> merged]
    BY <2>2 DEF TypeOK
  <2>7. \A b \in Actors : b # a => up'[b] = up[b]
    BY <2>2 DEF TypeOK
  <2>8. \A q \in Procs : q # p => disk'[q] = disk[q]
    BY <2>1 DEF TypeOK
  <2> QED
    BY <1>3, <1>4, <1>5, <1>8, <2>3, <2>5, <2>6, <2>7, <2>8
<1>9. CASE p \notin processes
  <2>1. /\ disk' = disk
        /\ up' = [up EXCEPT ![a] = [kind |-> "read", of |-> p, data |-> data]]
    BY <1>9 DEF Start
  <2>2. [kind |-> "read", of |-> p, data |-> data] \in Updates
    BY <1>7
  <2>3. up' \in [Actors -> Updates]
    BY <2>1, <2>2 DEF TypeOK
  <2>4. up'[a] = [kind |-> "read", of |-> p, data |-> data]
    BY <2>1 DEF TypeOK
  <2>5. \A b \in Actors : b # a => up'[b] = up[b]
    BY <2>1 DEF TypeOK
  <2>6. disk' \in [Procs -> Files]
    BY <2>1 DEF TypeOK
  <2> QED
    BY <1>3, <1>4, <1>5, <1>9, <2>1, <2>3, <2>4, <2>5, <2>6
<1>10. CASE p \in processes /\ merged.status \notin Terminal
  <2>1. disk' = disk /\ up' = up
    BY <1>10 DEF Start
  <2> QED
    BY <1>3, <1>4, <1>5, <1>10, <2>1 DEF TypeOK
<1> QED
  BY <1>8, <1>9, <1>10

-----------------------------------------------------------------------------
(***************************************************************************)
(* The inductive invariant                                                 *)
(***************************************************************************)

\* An update() is under way for a process that waits for it, or for a call
\* that has sent a kill, and concerns that process; what it writes is final.
UpInv ==
  \A a \in Actors : up[a].kind # "none" =>
    /\ up[a].of \in Procs /\ up[a].data \in Records
    /\ a \in Procs => up[a].of = a /\ route[a] \in {"pid", "complete"}
    /\ a \in Calls => pc[a] = "update" /\ up[a].of = target[a]
    /\ up[a].kind \in {"memory", "file"} => up[a].data.status \in Terminal

\* A log stream listens to the one process it is about, and was given no more
\* than its record has.
ListenInv ==
  \A p \in Procs : \A i \in DOMAIN listeners[p] :
    LET c == listeners[p][i]
    IN /\ op[c] = "stream" /\ target[c] = p
       /\ pc[c] \in {"open", "closed", "cancelled"}
       /\ seen[c] <= rec[p].out

\* A call under way is about a process, one that stores a kill has sent it, and
\* only a call that is over has an answer.
CallInv ==
  \A c \in Calls :
    /\ pc[c] \in {"get", "await", "signal", "update"} => target[c] \in Procs
    /\ pc[c] = "update" => signalled[target[c]]
    /\ pc[c] = "scan" => op[c] = "killAll"
    /\ result[c] # None => pc[c] \in {"open", "closed", "cancelled", "done"}

IInv == TypeOK /\ UpInv /\ ListenInv /\ CallInv /\ Findable

\* The record r of p has all the output it will ever have, unless p was killed.
Whole(p, r) == signalled[p] \/ (r.out = made[p] - late[p] /\ exit[p] # "none")

\* Before the last event of a process only a kill has ended its record, and
\* after it the record is final and whole, or the session has failed.
RecInv ==
  \A p \in Procs :
    /\ rec[p].status \in Terminal => Whole(p, rec[p]) \/ rec[p].status = "error"
    /\ rec[p].status \in Terminal /\ route[p] \notin {"complete", "done", "aborted"} =>
         signalled[p]
    /\ route[p] \in {"complete", "done"} => rec[p].status \in Terminal
    /\ route[p] = "pid" \/ Streaming(p) => rec[p].pid \/ rec[p].status \in Terminal

\* What is in a file, or about to be, is whole.
FileInv ==
  /\ \A p \in Procs : disk[p] \in Records => Whole(p, disk[p])
  /\ \A a \in Actors :
       up[a].kind \in {"memory", "file"} => Whole(up[a].of, up[a].data)

\* And so is what a call was told.
ResultInv ==
  \A c \in Calls :
    LET p == target[c]
    IN result[c] # None =>
         /\ p \in Procs
         /\ result[c].status \in Terminal \/ p \in began[c] =>
              Whole(p, result[c]) \/ result[c].status = "error" \/ route[p] = "aborted"

OutInv == RecInv /\ FileInv /\ ResultInv

\* The invariant holds at first.
LEMMA InitIInv == Init => IInv
<1> SUFFICES ASSUME Init PROVE IInv
  OBVIOUS
<1>1. New \in Records
  BY BoundAssumption DEF New, Records
<1>2. NoUpdate \in Updates /\ NoUpdate.kind = "none"
  BY DEF NoUpdate, Updates
<1>3. TypeOK
  <2>1. 0 \in 0..MaxOutput
    BY BoundAssumption
  <2>2. /\ made \in [Procs -> 0..MaxOutput]
        /\ exit \in [Procs -> {"none", "zero", "nonzero"}]
        /\ late \in [Procs -> 0..MaxOutput]
        /\ seen \in [Calls -> 0..MaxOutput]
    BY <2>1 DEF Init
  <2>3. /\ orphan \in [Procs -> BOOLEAN] /\ tracked \in [Procs -> BOOLEAN]
        /\ signalled \in [Procs -> BOOLEAN] /\ broken \in [Procs -> BOOLEAN]
    BY DEF Init
  <2>4. /\ rec \in [Procs -> Records] /\ listeners \in [Procs -> Seq(Calls)]
        /\ up \in [Actors -> Updates] /\ disk \in [Procs -> Files]
    BY <1>1, <1>2 DEF Init, Files
  <2>5. \A p \in Procs : disk[p] \in Records => disk[p].status \in Terminal
    BY FilesAssumption DEF Init
  <2>6. /\ route \in [Procs -> {"none", "stored", "spawned", "pid", "next",
                                 "complete", "done", "aborted", "refused"}]
        /\ processes \subseteq Procs
        /\ op \in [Calls -> Ops \cup {"none"}]
        /\ target \in [Calls -> Procs \cup {None}]
        /\ pc \in [Calls -> {"idle", "scan", "get", "await", "signal", "update",
                             "open", "closed", "cancelled", "done", "failed"}]
        /\ todo \in [Calls -> SUBSET Procs]
        /\ result \in [Calls -> Records \cup {None}]
        /\ began \in [Calls -> SUBSET Procs]
    BY DEF Init
  <2> QED
    BY <2>2, <2>3, <2>4, <2>5, <2>6 DEF TypeOK
<1>4. UpInv
  BY <1>2 DEF Init, UpInv
<1>5. ListenInv
  BY DEF Init, ListenInv
<1>6. CallInv
  BY DEF Init, CallInv
<1>7. Findable
  BY DEF Init, Findable
<1> QED
  BY <1>3, <1>4, <1>5, <1>6, <1>7 DEF IInv

-----------------------------------------------------------------------------
(***************************************************************************)
(* What the steps of a call or an update() change                          *)
(***************************************************************************)

\* What follows an update(): the events of a process go on or end, or the call
\* that has sent a kill is over, or a killAll goes on.
LEMMA AfterFacts ==
  ASSUME TypeOK, UpInv, NEW a \in Actors, up[a].kind # "none", NEW threw \in BOOLEAN,
         AfterUpdate(a, up[a].of, threw)
  PROVE  /\ result' = result
         /\ tracked' \in [Procs -> BOOLEAN]
         /\ a \in Procs =>
              /\ pc' = pc
              /\ \A p \in Procs : p # a => route'[p] = route[p]
              /\ \/ route[a] = "complete" /\ route'[a] = "done"
                 \/ route[a] = "pid" /\ route'[a] \in {"next", "refused"}
              /\ route' \in [Procs -> {"none", "stored", "spawned", "pid", "next",
                                       "complete", "done", "aborted", "refused"}]
         /\ a \in Calls =>
              /\ route' = route
              /\ \A c \in Calls : c # a => pc'[c] = pc[c]
              /\ pc'[a] \in {"scan", "failed", "done"}
              /\ pc'[a] = "scan" => op[a] = "killAll"
              /\ pc' \in [Calls -> {"idle", "scan", "get", "await", "signal", "update",
                                    "open", "closed", "cancelled", "done", "failed"}]
<1>1. CASE a \in Procs
  <2>1. /\ route' = [route EXCEPT ![a] = CASE route[a] = "complete" -> "done"
                                           [] route[a] # "complete" /\ threw -> "refused"
                                           [] OTHER -> "next"]
        /\ tracked' = [tracked EXCEPT ![a] = tracked[a] /\ route[a] # "complete"]
        /\ UNCHANGED << pc, result >>
    BY <1>1 DEF AfterUpdate
  <2>2. route[a] \in {"pid", "complete"} /\ a \notin Calls
    BY <1>1, NameAssumption DEF UpInv
  <2>3. (tracked[a] /\ route[a] # "complete") \in BOOLEAN
    OBVIOUS
  <2>4. tracked' \in [Procs -> BOOLEAN]
    BY <2>1, <2>3 DEF TypeOK
  <2>5. \/ route[a] = "complete" /\ route' = [route EXCEPT ![a] = "done"]
        \/ route[a] = "pid" /\ route' = [route EXCEPT ![a] = "refused"]
        \/ route[a] = "pid" /\ route' = [route EXCEPT ![a] = "next"]
    BY <2>1, <2>2
  <2>6. /\ \A p \in Procs : p # a => route'[p] = route[p]
        /\ \/ route[a] = "complete" /\ route'[a] = "done"
           \/ route[a] = "pid" /\ route'[a] \in {"next", "refused"}
        /\ route' \in [Procs -> {"none", "stored", "spawned", "pid", "next",
                                 "complete", "done", "aborted", "refused"}]
    <3>1. ASSUME NEW x \in {"next", "done", "refused"}, route' = [route EXCEPT ![a] = x]
          PROVE  /\ route'[a] = x
                 /\ \A p \in Procs : p # a => route'[p] = route[p]
                 /\ route' \in [Procs -> {"none", "stored", "spawned", "pid", "next",
                                          "complete", "done", "aborted", "refused"}]
      BY <1>1, <3>1 DEF TypeOK
    <3> QED
      BY <2>5, <3>1
  <2> QED
    BY <2>1, <2>2, <2>4, <2>6
<1>2. CASE a \notin Procs
  <2>1. a \in Calls
    BY <1>2 DEF Actors
  <2>2. /\ pc' = [pc EXCEPT ![a] = Settled(a, threw)]
        /\ UNCHANGED << route, tracked, result >>
    BY <1>2 DEF AfterUpdate
  <2>3. /\ Settled(a, threw) \in {"scan", "failed", "done"}
        /\ Settled(a, threw) = "scan" => op[a] = "killAll"
    BY DEF Settled
  <2> QED
    BY <1>2, <2>1, <2>2, <2>3 DEF TypeOK
<1> QED
  BY <1>1, <1>2

\* An update() that had to read the file ends there, or goes on to write the
\* merged record.
LEMMA UpdateReadFacts ==
  ASSUME TypeOK, UpInv, NEW a \in Actors, UpdateRead(a), NEW p, p = up[a].of
  PROVE  /\ up[a].kind = "read" /\ p \in Procs /\ up[a].data \in Records
         /\ up' \in [Actors -> Updates]
         /\ \A b \in Actors : b # a => up'[b] = up[b]
         /\ \/ /\ disk[p] \in Records
               /\ up'[a] = [kind |-> "file", of |-> p, data |-> Merge(disk[p], up[a].data)]
               /\ disk' = [disk EXCEPT ![p] = Partial]
               /\ UNCHANGED << route, tracked, pc, result >>
            \/ /\ disk[p] \notin Records /\ disk' = disk
               /\ up'[a] = NoUpdate
               /\ AfterUpdate(a, p, TRUE)
<1>1. up[a].kind = "read" /\ p \in Procs /\ up[a].data \in Records
  BY DEF UpdateRead, UpInv
<1>2. CASE disk[p] \in Records
  <2>1. /\ up' = [up EXCEPT ![a] = [kind |-> "file", of |-> p, data |-> Merge(disk[p], up[a].data)]]
        /\ disk' = [disk EXCEPT ![p] = Partial]
        /\ UNCHANGED << route, tracked, pc, result >>
    BY <1>2 DEF UpdateRead
  <2>2. Merge(disk[p], up[a].data) \in Records
    BY <1>1, <1>2, MergeFacts
  <2>3. [kind |-> "file", of |-> p, data |-> Merge(disk[p], up[a].data)] \in Updates
    BY <1>1, <2>2 DEF Updates
  <2>4. up' \in [Actors -> Updates]
    BY <2>1, <2>3 DEF TypeOK
  <2>5. up'[a] = [kind |-> "file", of |-> p, data |-> Merge(disk[p], up[a].data)]
    BY <2>1 DEF TypeOK
  <2>6. \A b \in Actors : b # a => up'[b] = up[b]
    BY <2>1 DEF TypeOK
  <2> QED
    BY <1>1, <1>2, <2>1, <2>4, <2>5, <2>6
<1>3. CASE disk[p] \notin Records
  <2>1. up' = [up EXCEPT ![a] = NoUpdate] /\ disk' = disk /\ AfterUpdate(a, p, TRUE)
    BY <1>3 DEF UpdateRead
  <2>2. NoUpdate \in Updates
    BY DEF NoUpdate, Updates
  <2>3. up' \in [Actors -> Updates]
    BY <2>1, <2>2 DEF TypeOK
  <2>4. up'[a] = NoUpdate /\ \A b \in Actors : b # a => up'[b] = up[b]
    BY <2>1 DEF TypeOK
  <2> QED
    BY <1>1, <1>3, <2>1, <2>3, <2>4
<1> QED
  BY <1>2, <1>3

\* A write that returns: the record is in the file, or the file is broken.
LEMMA UpdateWrittenFacts ==
  ASSUME TypeOK, UpInv, NEW a \in Actors, UpdateWritten(a), NEW p, p = up[a].of
  PROVE  /\ up[a].kind \in {"memory", "file"} /\ p \in Procs /\ up[a].data \in Records
         /\ up' \in [Actors -> Updates] /\ up'[a] = NoUpdate
         /\ \A b \in Actors : b # a => up'[b] = up[b]
         /\ processes' \in {processes, processes \ {p}}
         /\ \E threw \in BOOLEAN : AfterUpdate(a, p, threw)
         /\ \/ disk' = [disk EXCEPT ![p] = up[a].data] /\ broken' = broken
            \/ disk' = [disk EXCEPT ![p] = Partial] /\ broken' = [broken EXCEPT ![p] = TRUE]
<1>1. up[a].kind \in {"memory", "file"} /\ p \in Procs /\ up[a].data \in Records
  BY DEF UpdateWritten, UpInv
<1>2. up' = [up EXCEPT ![a] = NoUpdate] /\ Forget(a, p)
  BY DEF UpdateWritten
<1>3. NoUpdate \in Updates
  BY DEF NoUpdate, Updates
<1>4. up' \in [Actors -> Updates]
  BY <1>2, <1>3 DEF TypeOK
<1>5. up'[a] = NoUpdate /\ \A b \in Actors : b # a => up'[b] = up[b]
  BY <1>2 DEF TypeOK
<1>6. processes' \in {processes, processes \ {p}}
  BY <1>2 DEF Forget
<1>7. \/ /\ disk' = [disk EXCEPT ![p] = up[a].data] /\ broken' = broken
         /\ AfterUpdate(a, p, FALSE)
      \/ /\ disk' = [disk EXCEPT ![p] = Partial]
         /\ broken' = [broken EXCEPT ![p] = TRUE]
         /\ AfterUpdate(a, p, up[a].kind = "file")
  BY DEF UpdateWritten
<1>8. FALSE \in BOOLEAN /\ (up[a].kind = "file") \in BOOLEAN
  OBVIOUS
<1>9. \E threw \in BOOLEAN : AfterUpdate(a, p, threw)
  BY <1>7, <1>8
<1> QED
  BY <1>1, <1>4, <1>5, <1>6, <1>7, <1>9

\* How a call c, in an operation o on p, goes on once the record is looked up:
\* it waits, or is over with the record r of p.
Moves(c, o, p, r) ==
  /\ \A d \in Calls : d # c => pc'[d] = pc[d] /\ seen'[d] = seen[d] /\ result'[d] = result[d]
  /\ \/ /\ pc'[c] \in {"get", "signal", "await", "scan", "failed", "done"}
        /\ pc'[c] = "scan" => op[c] = "killAll"
        /\ UNCHANGED << seen, listeners, result >>
     \/ /\ o \in {"get", "stream"} /\ r \in Records
        /\ result'[c] = r
        /\ \/ o = "get" /\ pc'[c] = "done" /\ UNCHANGED << seen, listeners >>
           \/ /\ o = "stream" /\ pc'[c] \in {"open", "closed"} /\ seen'[c] = r.out
              /\ \/ listeners' = listeners
                 \/ r = rec[p] /\ listeners' = [listeners EXCEPT ![p] = Append(listeners[p], c)]
  /\ pc' \in [Calls -> {"idle", "scan", "get", "await", "signal", "update",
                        "open", "closed", "cancelled", "done", "failed"}]
  /\ seen' \in [Calls -> 0..MaxOutput]
  /\ result' \in [Calls -> Records \cup {None}]
  /\ listeners' \in [Procs -> Seq(Calls)]

\* A call that goes on without an answer.
LEMMA GoesMoves ==
  ASSUME TypeOK, NEW c \in Calls, NEW o, NEW p \in Procs, NEW r,
         NEW to \in {"get", "signal", "await", "scan", "failed", "done"},
         to = "scan" => op[c] = "killAll", Goes(c, to)
  PROVE  Moves(c, o, p, r)
BY DEF Goes, Moves, TypeOK

\* A call that is answered.
LEMMA AnswerMoves ==
  ASSUME TypeOK, NEW c \in Calls, NEW o, NEW p \in Procs, NEW r \in Records,
         NEW live \in BOOLEAN, live => r = rec[p], Answer(c, o, p, r, live)
  PROVE  Moves(c, o, p, r) /\ result'[c] = r
<1>1. o \in {"get", "stream"} /\ result' = [result EXCEPT ![c] = r]
  BY DEF Answer
<1>2. /\ result'[c] = r /\ \A d \in Calls : d # c => result'[d] = result[d]
      /\ result' \in [Calls -> Records \cup {None}]
  BY <1>1 DEF TypeOK
<1>3. CASE o = "get"
  <2>1. pc' = [pc EXCEPT ![c] = "done"] /\ UNCHANGED << seen, listeners >>
    BY <1>3 DEF Answer
  <2> QED
    BY <1>2, <1>3, <2>1 DEF Moves, TypeOK
<1>4. CASE o = "stream"
  <2>1. /\ pc' = [pc EXCEPT ![c] = IF r.status \in Terminal THEN "closed" ELSE "open"]
        /\ seen' = [seen EXCEPT ![c] = r.out]
        /\ listeners' = IF live THEN [listeners EXCEPT ![p] = Append(listeners[p], c)]
                        ELSE listeners
    BY <1>4 DEF Answer
  <2>2. /\ pc'[c] \in {"open", "closed"} /\ \A d \in Calls : d # c => pc'[d] = pc[d]
        /\ pc' \in [Calls -> {"idle", "scan", "get", "await", "signal", "update",
                              "open", "closed", "cancelled", "done", "failed"}]
    BY <2>1 DEF TypeOK
  <2>3. r.out \in 0..MaxOutput
    BY RecordFields
  <2>4. /\ seen'[c] = r.out /\ \A d \in Calls : d # c => seen'[d] = seen[d]
        /\ seen' \in [Calls -> 0..MaxOutput]
    BY <2>1, <2>3 DEF TypeOK
  <2>5. Append(listeners[p], c) \in Seq(Calls)
    BY DEF TypeOK
  <2>6. /\ listeners' \in [Procs -> Seq(Calls)]
        /\ \/ listeners' = listeners
           \/ r = rec[p] /\ listeners' = [listeners EXCEPT ![p] = Append(listeners[p], c)]
    BY <2>1, <2>5 DEF TypeOK
  <2> QED
    BY <1>2, <1>4, <2>2, <2>4, <2>6 DEF Moves
<1> QED
  BY <1>1, <1>3, <1>4

\* The look into memory.
LEMMA LookupMoves ==
  ASSUME TypeOK, NEW c \in Calls, NEW o, NEW p \in Procs, Lookup(c, o, p)
  PROVE  /\ Moves(c, o, p, rec[p]) /\ pc'[c] # "scan"
         /\ result' # result => ~ MustWait(p)
<1>1. rec[p] \in Records
  BY DEF TypeOK
<1>2. CASE \E to \in {"get", "signal", "await"} : Goes(c, to)
  BY <1>2, GoesMoves DEF Goes, TypeOK
<1>3. CASE ~ MustWait(p) /\ Answer(c, o, p, rec[p], TRUE)
  <2>1. Moves(c, o, p, rec[p])
    BY <1>1, <1>3, AnswerMoves
  <2>2. pc'[c] # "scan"
    BY <1>3 DEF Answer, TypeOK
  <2> QED
    BY <1>3, <2>1, <2>2
<1> QED
  BY <1>2, <1>3 DEF Lookup

\* The listeners an event reaches are streams about the process that are open.
LEMMA ReachedFacts ==
  ASSUME TypeOK, ListenInv, NEW p \in Procs, NEW c \in Reached(p)
  PROVE  c \in Calls /\ pc[c] = "open" /\ target[c] = p /\ seen[c] <= rec[p].out
<1>1. PICK i \in DOMAIN listeners[p] :
        listeners[p][i] = c /\ \A j \in 1..i : ~ Dead(listeners[p][j])
  BY DEF Reached
<1>2. listeners[p] \in Seq(Calls)
  BY DEF TypeOK
<1>3. i \in Nat /\ i >= 1
  BY <1>2
<1>4. i \in 1..i
  BY <1>3
<1>5. ~ Dead(c)
  BY <1>1, <1>4
<1>6. target[c] = p /\ seen[c] <= rec[p].out
  BY <1>1 DEF ListenInv
<1>7. c \in Calls
  BY DEF Reached
<1> QED
  BY <1>5, <1>6, <1>7 DEF Dead

\* Closing the listeners that are reached.
LEMMA ClosesReached ==
  ASSUME TypeOK, ListenInv, NEW p \in Procs,
         pc' = [c \in Calls |-> IF c \in Reached(p) THEN "closed" ELSE pc[c]]
  PROVE  /\ \A c \in Calls : pc'[c] = pc[c] \/ (pc[c] = "open" /\ pc'[c] = "closed")
         /\ pc' \in [Calls -> {"idle", "scan", "get", "await", "signal", "update",
                               "open", "closed", "cancelled", "done", "failed"}]
<1>1. \A c \in Calls : c \in Reached(p) => pc[c] = "open"
  BY ReachedFacts
<1> QED
  BY <1>1 DEF TypeOK

\* An output event: one more line in the record and for those it reaches.
LEMMA OutputFacts ==
  ASSUME TypeOK, ListenInv, NEW p \in Procs, OutputEvent(p)
  PROVE  /\ route[p] = "next" /\ rec[p].out < made[p] - late[p]
         /\ rec'[p] = [status |-> rec[p].status, out |-> rec[p].out + 1,
                       exit |-> rec[p].exit, pid |-> rec[p].pid]
         /\ rec' \in [Procs -> Records]
         /\ \A q \in Procs : q # p => rec'[q] = rec[q]
         /\ seen' \in [Calls -> 0..MaxOutput]
         /\ \A c \in Calls : \/ seen'[c] = seen[c]
                             \/ target[c] = p /\ seen'[c] <= rec[p].out + 1
         /\ route' \in {route, [route EXCEPT ![p] = "aborted"]}
<1>1. /\ route[p] = "next" /\ rec[p].out < made[p] - late[p]
      /\ rec' = [rec EXCEPT ![p].out = rec[p].out + 1]
      /\ seen' = [c \in Calls |-> IF c \in Reached(p) THEN seen[c] + 1 ELSE seen[c]]
      /\ route' = [route EXCEPT ![p] = IF Throws(p) THEN "aborted" ELSE route[p]]
  BY DEF OutputEvent
<1>2. /\ rec[p] \in Records /\ made[p] \in 0..MaxOutput /\ late[p] \in 0..MaxOutput
      /\ MaxOutput \in Nat
  BY BoundAssumption DEF TypeOK
<1>3. /\ rec[p].status \in Statuses /\ rec[p].out \in 0..MaxOutput
      /\ rec[p].exit \in Codes /\ rec[p].pid \in BOOLEAN
      /\ rec[p] = [status |-> rec[p].status, out |-> rec[p].out,
                   exit |-> rec[p].exit, pid |-> rec[p].pid]
  BY <1>2, RecordFields
<1>4. PICK r : r = [status |-> rec[p].status, out |-> rec[p].out + 1,
                    exit |-> rec[p].exit, pid |-> rec[p].pid]
  OBVIOUS
<1>5. rec[p].out + 1 \in 0..MaxOutput
  BY <1>1, <1>2, <1>3
<1>6. r \in Records
  BY <1>3, <1>4, <1>5, RecordType
<1>7. [rec[p] EXCEPT !.out = rec[p].out + 1] = r
  BY <1>3, <1>4
<1>8. rec' = [rec EXCEPT ![p] = r]
  BY <1>1, <1>7
<1>9. rec' \in [Procs -> Records] /\ rec'[p] = r /\ \A q \in Procs : q # p => rec'[q] = rec[q]
  BY <1>6, <1>8 DEF TypeOK
<1>10. \A c \in Calls : c \in Reached(p) => target[c] = p /\ seen[c] <= rec[p].out
  BY ReachedFacts
<1>11. seen \in [Calls -> 0..MaxOutput]
  BY DEF TypeOK
<1>12. ASSUME NEW c \in Calls
       PROVE  /\ seen'[c] \in 0..MaxOutput
              /\ seen'[c] = seen[c] \/ (target[c] = p /\ seen'[c] <= rec[p].out + 1)
  <2>1. CASE c \in Reached(p)
    <3>1. seen'[c] = seen[c] + 1 /\ seen[c] \in 0..MaxOutput
      BY <1>1, <1>11, <2>1
    <3>2. target[c] = p /\ seen[c] <= rec[p].out
      BY <1>10, <2>1
    <3> QED
      BY <1>2, <1>3, <1>5, <3>1, <3>2
  <2>2. CASE c \notin Reached(p)
    BY <1>1, <1>11, <2>2
  <2> QED
    BY <2>1, <2>2
<1>13. seen' \in [Calls -> 0..MaxOutput]
  BY <1>1, <1>12
<1>14. route' \in {route, [route EXCEPT ![p] = "aborted"]}
  BY <1>1 DEF TypeOK
<1> QED
  BY <1>1, <1>4, <1>9, <1>12, <1>13, <1>14

\* The 'complete' event: the record is final, and if no listener throws the
\* store is told.
LEMMA CompleteFacts ==
  ASSUME TypeOK, ListenInv, NEW p \in Procs, CompleteEvent(p)
  PROVE  /\ route[p] = "next" /\ exit[p] # "none" /\ Drained(p)
         /\ \A c \in Calls : pc'[c] = pc[c] \/ (pc[c] = "open" /\ pc'[c] = "closed")
         /\ pc' \in [Calls -> {"idle", "scan", "get", "await", "signal", "update",
                               "open", "closed", "cancelled", "done", "failed"}]
         /\ \E data \in Records :
              /\ data.status \in {"completed", "failed"}
              /\ \/ Start(p, p, data) /\ route' = [route EXCEPT ![p] = "complete"]
                 \/ /\ rec' = [rec EXCEPT ![p] = Merge(rec[p], data)]
                    /\ route' = [route EXCEPT ![p] = "aborted"]
                    /\ UNCHANGED << disk, up >>
<1>1. /\ route[p] = "next" /\ exit[p] # "none" /\ Drained(p)
      /\ pc' = [c \in Calls |-> IF c \in Reached(p) THEN "closed" ELSE pc[c]]
  BY DEF CompleteEvent
<1>2. PICK data : data = Data(interpretExitCode(exit[p]), exit[p], FALSE)
  OBVIOUS
<1>3. /\ interpretExitCode(exit[p]) \in Statuses /\ exit[p] \in Codes
      /\ interpretExitCode(exit[p]) \in {"completed", "failed"}
  BY DEF interpretExitCode, Statuses, Terminal, Codes, TypeOK
<1>4. data \in Records /\ data.status \in {"completed", "failed"}
  BY <1>2, <1>3, DataType
<1>5. \/ Start(p, p, data) /\ route' = [route EXCEPT ![p] = "complete"]
      \/ /\ rec' = [rec EXCEPT ![p] = Merge(rec[p], data)]
         /\ route' = [route EXCEPT ![p] = "aborted"]
         /\ UNCHANGED << disk, up >>
  BY <1>2 DEF CompleteEvent
<1> QED
  BY <1>1, <1>4, <1>5, ClosesReached

\* The 'error' event: only the record in memory is changed.
LEMMA ErrorFacts ==
  ASSUME TypeOK, ListenInv, NEW p \in Procs, ErrorEvent(p)
  PROVE  /\ route[p] \in {"stored", "spawned", "next"}
         /\ \A c \in Calls : pc'[c] = pc[c] \/ (pc[c] = "open" /\ pc'[c] = "closed")
         /\ pc' \in [Calls -> {"idle", "scan", "get", "await", "signal", "update",
                               "open", "closed", "cancelled", "done", "failed"}]
         /\ rec'[p].status = "error" /\ rec'[p].out = rec[p].out
         /\ rec' \in [Procs -> Records]
         /\ \A q \in Procs : q # p => rec'[q] = rec[q]
         /\ \E x \in {"aborted", "done"} : route' = [route EXCEPT ![p] = x]
<1>1. /\ route[p] \in {"stored", "spawned", "next"}
      /\ pc' = [c \in Calls |-> IF c \in Reached(p) THEN "closed" ELSE pc[c]]
      /\ rec' = [rec EXCEPT ![p].status = "error"]
      /\ route' = [route EXCEPT ![p] = IF Throws(p) THEN "aborted" ELSE "done"]
  BY DEF ErrorEvent
<1>2. rec[p] \in Records
  BY DEF TypeOK
<1>3. /\ rec[p].out \in 0..MaxOutput /\ rec[p].exit \in Codes /\ rec[p].pid \in BOOLEAN
      /\ rec[p] = [status |-> rec[p].status, out |-> rec[p].out,
                   exit |-> rec[p].exit, pid |-> rec[p].pid]
  BY <1>2, RecordFields
<1>4. PICK r : r = [status |-> "error", out |-> rec[p].out,
                    exit |-> rec[p].exit, pid |-> rec[p].pid]
  OBVIOUS
<1>5. "error" \in Statuses
  BY DEF Statuses, Terminal
<1>6. r \in Records
  BY <1>3, <1>4, <1>5, RecordType
<1>7. [rec[p] EXCEPT !.status = "error"] = r
  BY <1>3, <1>4
<1>8. rec' = [rec EXCEPT ![p] = r]
  BY <1>1, <1>7
<1>9. rec' \in [Procs -> Records] /\ rec'[p] = r /\ \A q \in Procs : q # p => rec'[q] = rec[q]
  BY <1>6, <1>8 DEF TypeOK
<1>10. r.status = "error" /\ r.out = rec[p].out
  BY <1>4
<1> QED
  BY <1>1, <1>9, <1>10, ClosesReached

\* The 'start' event.
LEMMA StartEventFacts ==
  ASSUME TypeOK, NEW p \in Procs, StartEvent(p)
  PROVE  /\ route[p] = "spawned"
         /\ \E data \in Records : data.status = "running" /\ data.pid /\ Start(p, p, data)
         /\ \E x \in {"next", "pid"} : /\ route' = [route EXCEPT ![p] = x]
                                       /\ x = "next" => up'[p] = NoUpdate
<1>1. Data("running", "none", TRUE) \in Records
  BY DataType DEF Statuses, Codes
<1>2. Data("running", "none", TRUE).status = "running" /\ Data("running", "none", TRUE).pid
  BY DEF Data
<1> QED
  BY <1>1, <1>2 DEF StartEvent

\* A kill that is stored.
LEMMA MarkKilledFacts ==
  ASSUME TypeOK, CallInv, NEW c \in Calls, MarkKilled(c)
  PROVE  /\ pc[c] = "update" /\ up[c] = NoUpdate /\ target[c] \in Procs
         /\ signalled[target[c]]
         /\ \E data \in Records : data.status = "killed" /\ Start(c, target[c], data)
<1>1. Data("killed", "none", FALSE) \in Records
  BY DataType DEF Statuses, Codes, Terminal
<1>2. Data("killed", "none", FALSE).status = "killed"
  BY DEF Data
<1> QED
  BY <1>1, <1>2 DEF MarkKilled, CallInv

-----------------------------------------------------------------------------
(***************************************************************************)
(* Every step keeps the types                                              *)
(***************************************************************************)

\* An update() that starts: no file holds a process that runs.
LEMMA StartKeepsFiles ==
  ASSUME TypeOK, NEW a \in Actors, NEW p \in Procs, NEW data \in Records,
         Start(a, p, data)
  PROVE  \A q \in Procs : disk'[q] \in Records => disk'[q].status \in Terminal
<1>1. \A q \in Procs : q # p => disk'[q] = disk[q]
  BY StartFacts
<1>2. disk'[p] = Partial \/ disk' = disk
  BY StartFacts
<1> QED
  BY <1>1, <1>2, FilesAssumption DEF TypeOK

\* Steps of the commands and of a start that waits for its session.
LEMMA TypeOfCommands ==
  ASSUME TypeOK, NEW p \in Procs,
         \/ Writes(p) \/ Exits(p) \/ startProcess(p) \/ StartFails(p) \/ Spawn(p)
  PROVE  TypeOK'
<1> USE DEF cmdVars, storeVars, callVars
<1>1. CASE Writes(p)
  <2>1. made[p] + 1 \in 0..MaxOutput
    BY <1>1, BoundAssumption DEF Writes, TypeOK
  <2>2. made' \in [Procs -> 0..MaxOutput]
    BY <1>1, <2>1 DEF Writes, TypeOK
  <2> QED
    BY <1>1, <2>2 DEF Writes, TypeOK
<1>2. CASE Exits(p)
  <2>1. exit' \in [Procs -> {"none", "zero", "nonzero"}]
    BY <1>2 DEF Exits, TypeOK
  <2>2. PICK n \in 0..(made[p] - rec[p].out) : late' = [late EXCEPT ![p] = n]
    BY <1>2 DEF Exits
  <2>3. made[p] \in 0..MaxOutput /\ rec[p].out \in 0..MaxOutput
    BY RecordFields DEF TypeOK
  <2>4. n \in 0..MaxOutput
    BY <2>3, BoundAssumption
  <2>5. late' \in [Procs -> 0..MaxOutput]
    BY <2>2, <2>4 DEF TypeOK
  <2> QED
    BY <1>2, <2>1, <2>5 DEF Exits, TypeOK
<1>3. CASE startProcess(p)
  <2>1. /\ route' \in [Procs -> {"none", "stored", "spawned", "pid", "next",
                                 "complete", "done", "aborted", "refused"}]
        /\ processes' \subseteq Procs
    BY <1>3 DEF startProcess, TypeOK
  <2> QED
    BY <1>3, <2>1 DEF startProcess, TypeOK
<1>4. CASE StartFails(p)
  <2>1. route' \in [Procs -> {"none", "stored", "spawned", "pid", "next",
                              "complete", "done", "aborted", "refused"}]
    BY <1>4 DEF StartFails, TypeOK
  <2> QED
    BY <1>4, <2>1 DEF StartFails, TypeOK
<1>5. CASE Spawn(p)
  <2>1. route' \in [Procs -> {"none", "stored", "spawned", "pid", "next",
                              "complete", "done", "aborted", "refused"}]
    BY <1>5 DEF Spawn, TypeOK
  <2>2. tracked' \in [Procs -> BOOLEAN]
    BY <1>5 DEF Spawn, TypeOK
  <2> QED
    BY <1>5, <2>1, <2>2 DEF Spawn, TypeOK
<1> QED
  BY <1>1, <1>2, <1>3, <1>4, <1>5

\* Steps of the events of a process.
LEMMA TypeOfEvents ==
  ASSUME TypeOK, ListenInv, NEW p \in Procs,
         \/ StartEvent(p) \/ OutputEvent(p) \/ CompleteEvent(p) \/ ErrorEvent(p)
  PROVE  TypeOK'
<1> USE DEF cmdVars, storeVars, callVars
<1>0. \A x \in {"next", "pid", "complete", "aborted", "done"} :
        [route EXCEPT ![p] = x] \in
          [Procs -> {"none", "stored", "spawned", "pid", "next",
                     "complete", "done", "aborted", "refused"}]
  BY DEF TypeOK
<1>a. p \in Actors
  BY DEF Actors
<1>1. CASE StartEvent(p)
  <2>1. PICK data \in Records : Start(p, p, data)
    BY <1>1, StartEventFacts
  <2>2. /\ rec' \in [Procs -> Records]
        /\ disk' \in [Procs -> Files]
        /\ up' \in [Actors -> Updates]
    BY <1>a, <2>1, StartFacts
  <2>3. \A q \in Procs : disk'[q] \in Records => disk'[q].status \in Terminal
    BY <1>a, <2>1, StartKeepsFiles
  <2>4. route' \in [Procs -> {"none", "stored", "spawned", "pid", "next",
                              "complete", "done", "aborted", "refused"}]
    BY <1>0, <1>1, StartEventFacts
  <2> QED
    BY <1>1, <2>2, <2>3, <2>4 DEF StartEvent, TypeOK
<1>2. CASE OutputEvent(p)
  <2>1. /\ rec' \in [Procs -> Records]
        /\ seen' \in [Calls -> 0..MaxOutput]
        /\ route' \in {route, [route EXCEPT ![p] = "aborted"]}
    BY <1>2, OutputFacts
  <2>2. route' \in [Procs -> {"none", "stored", "spawned", "pid", "next",
                              "complete", "done", "aborted", "refused"}]
    BY <1>0, <2>1 DEF TypeOK
  <2> QED
    BY <1>2, <2>1, <2>2 DEF OutputEvent, TypeOK
<1>3. CASE CompleteEvent(p)
  <2>1. PICK data \in Records :
          \/ Start(p, p, data) /\ route' = [route EXCEPT ![p] = "complete"]
          \/ /\ rec' = [rec EXCEPT ![p] = Merge(rec[p], data)]
             /\ route' = [route EXCEPT ![p] = "aborted"]
             /\ UNCHANGED << disk, up >>
    BY <1>3, CompleteFacts
  <2>2. pc' \in [Calls -> {"idle", "scan", "get", "await", "signal", "update",
                           "open", "closed", "cancelled", "done", "failed"}]
    BY <1>3, CompleteFacts
  <2>3. route' \in [Procs -> {"none", "stored", "spawned", "pid", "next",
                              "complete", "done", "aborted", "refused"}]
    BY <1>0, <2>1
  <2>4. /\ rec' \in [Procs -> Records]
        /\ disk' \in [Procs -> Files]
        /\ up' \in [Actors -> Updates]
        /\ \A q \in Procs : disk'[q] \in Records => disk'[q].status \in Terminal
    <3>1. CASE Start(p, p, data)
      BY <1>a, <3>1, StartFacts, StartKeepsFiles
    <3>2. CASE rec' = [rec EXCEPT ![p] = Merge(rec[p], data)] /\ UNCHANGED << disk, up >>
      <4>1. Merge(rec[p], data) \in Records
        BY MergeFacts DEF TypeOK
      <4>2. rec' \in [Procs -> Records]
        BY <3>2, <4>1 DEF TypeOK
      <4> QED
        BY <3>2, <4>2 DEF TypeOK
    <3> QED
      BY <2>1, <3>1, <3>2
  <2> QED
    BY <1>3, <2>2, <2>3, <2>4 DEF CompleteEvent, TypeOK
<1>4. CASE ErrorEvent(p)
  <2>1. /\ pc' \in [Calls -> {"idle", "scan", "get", "await", "signal", "update",
                              "open", "closed", "cancelled", "done", "failed"}]
        /\ rec' \in [Procs -> Records]
        /\ \E x \in {"aborted", "done"} : route' = [route EXCEPT ![p] = x]
    BY <1>4, ErrorFacts
  <2>2. route' \in [Procs -> {"none", "stored", "spawned", "pid", "next",
                              "complete", "done", "aborted", "refused"}]
    BY <1>0, <2>1
  <2>3. tracked' \in [Procs -> BOOLEAN]
    BY <1>4 DEF ErrorEvent, TypeOK
  <2> QED
    BY <1>4, <2>1, <2>2, <2>3 DEF ErrorEvent, TypeOK
<1> QED
  BY <1>1, <1>2, <1>3, <1>4

\* Steps of an update().
LEMMA TypeOfUpdates ==
  ASSUME TypeOK, UpInv, NEW a \in Actors, UpdateRead(a) \/ UpdateWritten(a)
  PROVE  TypeOK'
<1> PICK p : p = up[a].of
  OBVIOUS
<1>1. ASSUME up[a].kind # "none", \E threw \in BOOLEAN : AfterUpdate(a, p, threw)
      PROVE  /\ result' = result
             /\ tracked' \in [Procs -> BOOLEAN]
             /\ route' \in [Procs -> {"none", "stored", "spawned", "pid", "next",
                                      "complete", "done", "aborted", "refused"}]
             /\ pc' \in [Calls -> {"idle", "scan", "get", "await", "signal", "update",
                                   "open", "closed", "cancelled", "done", "failed"}]
  <2>1. a \in Procs \/ a \in Calls
    BY DEF Actors
  <2>2. CASE a \in Procs
    BY <1>1, <2>2, AfterFacts DEF TypeOK
  <2>3. CASE a \in Calls
    BY <1>1, <2>3, AfterFacts DEF TypeOK
  <2> QED
    BY <2>1, <2>2, <2>3
<1>2. Partial \in Files /\ Records \subseteq Files
  BY DEF Files
<1>3. CASE UpdateRead(a)
  <2>1. /\ up[a].kind = "read" /\ p \in Procs
        /\ up' \in [Actors -> Updates]
        /\ \/ /\ disk' = [disk EXCEPT ![p] = Partial]
              /\ UNCHANGED << route, tracked, pc, result >>
           \/ disk' = disk /\ AfterUpdate(a, p, TRUE)
    BY <1>3, UpdateReadFacts
  <2>2. /\ result' = result
        /\ tracked' \in [Procs -> BOOLEAN]
        /\ route' \in [Procs -> {"none", "stored", "spawned", "pid", "next",
                                 "complete", "done", "aborted", "refused"}]
        /\ pc' \in [Calls -> {"idle", "scan", "get", "await", "signal", "update",
                              "open", "closed", "cancelled", "done", "failed"}]
    <3>1. CASE UNCHANGED << route, tracked, pc, result >>
      BY <3>1 DEF TypeOK
    <3>2. CASE AfterUpdate(a, p, TRUE)
      <4>1. up[a].kind # "none" /\ \E threw \in BOOLEAN : AfterUpdate(a, p, threw)
        BY <2>1, <3>2
      <4> QED
        BY <1>1, <4>1
    <3> QED
      BY <2>1, <3>1, <3>2
  <2>3. /\ disk' \in [Procs -> Files]
        /\ \A q \in Procs : disk'[q] \in Records => disk'[q].status \in Terminal
    BY <1>2, <2>1, FilesAssumption DEF TypeOK
  <2> QED
    BY <1>3, <2>1, <2>2, <2>3 DEF UpdateRead, TypeOK
<1>4. CASE UpdateWritten(a)
  <2>1. /\ up[a].kind \in {"memory", "file"} /\ p \in Procs /\ up[a].data \in Records
        /\ up' \in [Actors -> Updates]
        /\ processes' \in {processes, processes \ {p}}
        /\ \E threw \in BOOLEAN : AfterUpdate(a, p, threw)
        /\ \/ disk' = [disk EXCEPT ![p] = up[a].data] /\ broken' = broken
           \/ disk' = [disk EXCEPT ![p] = Partial] /\ broken' = [broken EXCEPT ![p] = TRUE]
    BY <1>4, UpdateWrittenFacts
  <2>2. up[a].data.status \in Terminal
    BY <2>1 DEF UpInv
  <2>3. /\ disk' \in [Procs -> Files]
        /\ \A q \in Procs : disk'[q] \in Records => disk'[q].status \in Terminal
    BY <1>2, <2>1, <2>2, FilesAssumption DEF TypeOK
  <2>4. broken' \in [Procs -> BOOLEAN] /\ processes' \subseteq Procs
    BY <2>1 DEF TypeOK
  <2>5. up[a].kind # "none"
    BY <2>1
  <2> QED
    BY <1>1, <1>4, <2>1, <2>3, <2>4, <2>5 DEF UpdateWritten, TypeOK
<1> QED
  BY <1>3, <1>4

\* What Moves says of types.
LEMMA MovesType ==
  ASSUME NEW c \in Calls, NEW o, NEW p \in Procs, NEW r, Moves(c, o, p, r)
  PROVE  /\ pc' \in [Calls -> {"idle", "scan", "get", "await", "signal", "update",
                               "open", "closed", "cancelled", "done", "failed"}]
         /\ seen' \in [Calls -> 0..MaxOutput]
         /\ result' \in [Calls -> Records \cup {None}]
         /\ listeners' \in [Procs -> Seq(Calls)]
BY DEF Moves

\* A getProcess, killProcess or log stream that begins.
LEMMA CallFacts ==
  ASSUME TypeOK, NEW c \in Calls, Call(c)
  PROVE  /\ pc[c] = "idle"
         /\ began' = [began EXCEPT ![c] = {p \in Procs : Streaming(p) /\ exit[p] # "none"}]
         /\ \E o \in Ops \ {"killAll"}, p \in Procs :
              /\ op' = [op EXCEPT ![c] = o]
              /\ target' = [target EXCEPT ![c] = p]
              /\ Lookup(c, o, p) /\ Moves(c, o, p, rec[p]) /\ pc'[c] # "scan"
              /\ result' # result => ~ MustWait(p)
BY LookupMoves DEF Call

\* A killAll that goes on is over, or looks up its next process.
LEMMA KillNextFacts ==
  ASSUME TypeOK, CallInv, NEW c \in Calls, KillNext(c)
  PROVE  /\ pc[c] = "scan" /\ op[c] = "killAll"
         /\ todo' \in [Calls -> SUBSET Procs]
         /\ UNCHANGED << seen, listeners, result >>
         /\ \A d \in Calls : d # c => pc'[d] = pc[d] /\ target'[d] = target[d]
         /\ \/ pc'[c] = "done" /\ target'[c] = target[c]
            \/ pc'[c] \in {"get", "signal"} /\ target'[c] \in Procs
         /\ target' \in [Calls -> Procs \cup {None}]
         /\ pc' \in [Calls -> {"idle", "scan", "get", "await", "signal", "update",
                               "open", "closed", "cancelled", "done", "failed"}]
<1>1. pc[c] = "scan" /\ op[c] = "killAll"
  BY DEF KillNext, CallInv
<1>2. PICK left : left = {p \in todo[c] : target[c] # None \/ rec[p].status = "running"}
  OBVIOUS
<1>3. left \subseteq Procs
  BY <1>2 DEF TypeOK
<1>4. \/ todo' = [todo EXCEPT ![c] = {}] /\ Goes(c, "done") /\ target' = target
      \/ \E p \in left : /\ todo' = [todo EXCEPT ![c] = left \ {p}]
                         /\ target' = [target EXCEPT ![c] = p]
                         /\ Lookup(c, "killAll", p)
  BY <1>2 DEF KillNext
<1>5. CASE todo' = [todo EXCEPT ![c] = {}] /\ Goes(c, "done") /\ target' = target
  BY <1>1, <1>5 DEF Goes, TypeOK
<1>6. ASSUME NEW p \in left, todo' = [todo EXCEPT ![c] = left \ {p}],
             target' = [target EXCEPT ![c] = p], Lookup(c, "killAll", p)
      PROVE  /\ todo' \in [Calls -> SUBSET Procs]
             /\ UNCHANGED << seen, listeners, result >>
             /\ \A d \in Calls : d # c => pc'[d] = pc[d] /\ target'[d] = target[d]
             /\ pc'[c] \in {"get", "signal"} /\ target'[c] \in Procs
             /\ target' \in [Calls -> Procs \cup {None}]
             /\ pc' \in [Calls -> {"idle", "scan", "get", "await", "signal", "update",
                                   "open", "closed", "cancelled", "done", "failed"}]
  <2>1. Goes(c, "get") \/ Goes(c, "signal")
    BY <1>6 DEF Lookup, Answer, Kills
  <2>2. todo' \in [Calls -> SUBSET Procs]
    BY <1>3, <1>6 DEF TypeOK
  <2>3. /\ target' \in [Calls -> Procs \cup {None}] /\ target'[c] \in Procs
        /\ \A d \in Calls : d # c => target'[d] = target[d]
    BY <1>3, <1>6 DEF TypeOK
  <2> QED
    BY <2>1, <2>2, <2>3 DEF Goes, TypeOK
<1> QED
  BY <1>1, <1>4, <1>5, <1>6

\* A record that is read from a file.
LEMMA GetReadFacts ==
  ASSUME TypeOK, CallInv, NEW c \in Calls, GetRead(c)
  PROVE  /\ pc[c] = "get" /\ target[c] \in Procs
         /\ Moves(c, op[c], target[c], disk[target[c]])
         /\ result' # result => disk[target[c]] \in Records
<1> PICK p : p = target[c]
  OBVIOUS
<1>1. pc[c] = "get" /\ p \in Procs
  BY DEF GetRead, CallInv
<1>2. CASE Goes(c, Settled(c, TRUE))
  <2>1. /\ Settled(c, TRUE) \in {"scan", "failed"}
        /\ Settled(c, TRUE) = "scan" => op[c] = "killAll"
    BY DEF Settled
  <2>2. Moves(c, op[c], p, disk[p])
    BY <1>1, <1>2, <2>1, GoesMoves
  <2> QED
    BY <1>1, <1>2, <2>2 DEF Goes
<1>3. CASE Goes(c, "signal")
  <2>1. Moves(c, op[c], p, disk[p])
    BY <1>1, <1>3, GoesMoves
  <2> QED
    BY <1>1, <1>3, <2>1 DEF Goes
<1>4. CASE disk[p] \in Records /\ Answer(c, op[c], p, disk[p], FALSE)
  BY <1>1, <1>4, AnswerMoves
<1> QED
  BY <1>2, <1>3, <1>4 DEF GetRead

\* A call that has waited for the last event.
LEMMA GetWaitedFacts ==
  ASSUME TypeOK, CallInv, NEW c \in Calls, GetWaited(c)
  PROVE  /\ pc[c] = "await" /\ target[c] \in Procs /\ Ended(target[c])
         /\ Moves(c, op[c], target[c], rec[target[c]])
<1>1. /\ pc[c] = "await" /\ target[c] \in Procs /\ Ended(target[c])
      /\ Answer(c, op[c], target[c], rec[target[c]], TRUE)
  BY DEF GetWaited, CallInv
<1>2. rec[target[c]] \in Records
  BY <1>1 DEF TypeOK
<1> QED
  BY <1>1, <1>2, AnswerMoves

\* Steps of the calls.
LEMMA TypeOfCalls ==
  ASSUME TypeOK, CallInv, NEW c \in Calls,
         \/ Call(c) \/ KillAll(c) \/ KillNext(c) \/ GetRead(c) \/ GetWaited(c)
         \/ Signal(c) \/ MarkKilled(c) \/ Cancel(c)
  PROVE  TypeOK'
<1> USE DEF cmdVars, storeVars, callVars
<1>1. CASE Call(c)
  <2>1. PICK o \in Ops \ {"killAll"}, p \in Procs :
          /\ op' = [op EXCEPT ![c] = o]
          /\ target' = [target EXCEPT ![c] = p]
          /\ Moves(c, o, p, rec[p])
    BY <1>1, CallFacts
  <2>2. /\ op' \in [Calls -> Ops \cup {"none"}]
        /\ target' \in [Calls -> Procs \cup {None}]
    BY <2>1 DEF TypeOK
  <2>3. {q \in Procs : Streaming(q) /\ exit[q] # "none"} \in SUBSET Procs
    OBVIOUS
  <2>4. began' \in [Calls -> SUBSET Procs]
    BY <1>1, <2>3, CallFacts DEF TypeOK
  <2> QED
    BY <1>1, <2>1, <2>2, <2>4, MovesType DEF Call, TypeOK
<1>2. CASE KillAll(c)
  <2>1. /\ op' \in [Calls -> Ops \cup {"none"}]
        /\ pc' \in [Calls -> {"idle", "scan", "get", "await", "signal", "update",
                              "open", "closed", "cancelled", "done", "failed"}]
        /\ todo' \in [Calls -> SUBSET Procs]
    BY <1>2 DEF KillAll, TypeOK
  <2>2. {p \in Procs : Streaming(p)} \in SUBSET Procs
    OBVIOUS
  <2>3. began' \in [Calls -> SUBSET Procs]
    BY <1>2, <2>2 DEF KillAll, TypeOK
  <2> QED
    BY <1>2, <2>1, <2>3 DEF KillAll, TypeOK
<1>3. CASE KillNext(c)
  <2>1. /\ todo' \in [Calls -> SUBSET Procs]
        /\ UNCHANGED << seen, listeners, result >>
        /\ target' \in [Calls -> Procs \cup {None}]
        /\ pc' \in [Calls -> {"idle", "scan", "get", "await", "signal", "update",
                              "open", "closed", "cancelled", "done", "failed"}]
    BY <1>3, KillNextFacts
  <2> QED
    BY <1>3, <2>1 DEF KillNext, TypeOK
<1>4. CASE GetRead(c)
  <2>1. /\ pc' \in [Calls -> {"idle", "scan", "get", "await", "signal", "update",
                              "open", "closed", "cancelled", "done", "failed"}]
        /\ seen' \in [Calls -> 0..MaxOutput]
        /\ result' \in [Calls -> Records \cup {None}]
        /\ listeners' \in [Procs -> Seq(Calls)]
    BY <1>4, GetReadFacts, MovesType
  <2> QED
    BY <1>4, <2>1 DEF GetRead, TypeOK
<1>5. CASE GetWaited(c)
  <2>1. /\ pc' \in [Calls -> {"idle", "scan", "get", "await", "signal", "update",
                              "open", "closed", "cancelled", "done", "failed"}]
        /\ seen' \in [Calls -> 0..MaxOutput]
        /\ result' \in [Calls -> Records \cup {None}]
        /\ listeners' \in [Procs -> Seq(Calls)]
    BY <1>5, GetWaitedFacts, MovesType
  <2> QED
    BY <1>5, <2>1 DEF GetWaited, TypeOK
<1>6. CASE Signal(c)
  <2>1. tracked' \in [Procs -> BOOLEAN]
    BY <1>6 DEF Signal, TypeOK
  <2>2. signalled' \in [Procs -> BOOLEAN]
    BY <1>6 DEF Signal, TypeOK
  <2>3. orphan' = orphan \/ \E b \in BOOLEAN : orphan' = [orphan EXCEPT ![target[c]] = b]
    <3>1. orphan' = orphan \/ \E trap \in BOOLEAN : orphan' = [orphan EXCEPT ![target[c]] = ~ trap]
      BY <1>6 DEF Signal
    <3>2. \A trap \in BOOLEAN : (~ trap) \in BOOLEAN
      OBVIOUS
    <3> QED
      BY <3>1, <3>2
  <2>4. orphan' \in [Procs -> BOOLEAN]
    BY <2>3 DEF TypeOK
  <2>5. pc' \in [Calls -> {"idle", "scan", "get", "await", "signal", "update",
                           "open", "closed", "cancelled", "done", "failed"}]
    BY <1>6 DEF Signal, Settled, TypeOK
  <2> QED
    BY <1>6, <2>1, <2>2, <2>4, <2>5 DEF Signal, TypeOK
<1>7. CASE MarkKilled(c)
  <2>1. PICK data \in Records : Start(c, target[c], data)
    BY <1>7, MarkKilledFacts
  <2>2. c \in Actors /\ target[c] \in Procs
    BY <1>7, MarkKilledFacts DEF Actors
  <2>3. /\ rec' \in [Procs -> Records]
        /\ disk' \in [Procs -> Files]
        /\ up' \in [Actors -> Updates]
    BY <2>1, <2>2, StartFacts
  <2>4. \A q \in Procs : disk'[q] \in Records => disk'[q].status \in Terminal
    BY <2>1, <2>2, StartKeepsFiles
  <2> QED
    BY <1>7, <2>3, <2>4 DEF MarkKilled, TypeOK
<1>8. CASE Cancel(c)
  <2>1. pc' \in [Calls -> {"idle", "scan", "get", "await", "signal", "update",
                           "open", "closed", "cancelled", "done", "failed"}]
    BY <1>8 DEF Cancel, TypeOK
  <2> QED
    BY <1>8, <2>1 DEF Cancel, TypeOK
<1> QED
  BY <1>1, <1>2, <1>3, <1>4, <1>5, <1>6, <1>7, <1>8

\* Every step keeps the types.
LEMMA NextType == TypeOK /\ UpInv /\ ListenInv /\ CallInv /\ [Next]_vars => TypeOK'
<1> SUFFICES ASSUME TypeOK, UpInv, ListenInv, CallInv, [Next]_vars PROVE TypeOK'
  OBVIOUS
<1>1. CASE UNCHANGED vars
  BY <1>1 DEF vars, cmdVars, storeVars, callVars, TypeOK
<1>2. CASE Next
  BY <1>2, TypeOfCommands, TypeOfEvents, TypeOfUpdates, TypeOfCalls
     DEF Next, Events, Store, Continue
<1> QED
  BY <1>1, <1>2

-----------------------------------------------------------------------------
(***************************************************************************)
(* Every step keeps the updates                                            *)
(***************************************************************************)

\* A step that concerns no update().
LEMMA UpKept ==
  ASSUME TypeOK, UpInv, UNCHANGED up,
         \A p \in Procs : route[p] \in {"pid", "complete"} => route'[p] = route[p],
         \A c \in Calls : pc[c] = "update" => pc'[c] = "update" /\ target'[c] = target[c]
  PROVE  UpInv'
BY DEF UpInv

\* An update() that starts.
LEMMA UpStarted ==
  ASSUME TypeOK, UpInv, NEW a \in Actors, NEW p \in Procs, NEW data \in Records,
         Start(a, p, data), up[a].kind = "none",
         \A q \in Procs : q # a => route'[q] = route[q],
         \A c \in Calls : pc[c] = "update" => pc'[c] = "update" /\ target'[c] = target[c],
         a \in Procs => p = a /\ (up'[a].kind = "none" \/ route'[a] \in {"pid", "complete"}),
         a \in Calls => p = target[a] /\ pc[a] = "update"
  PROVE  UpInv'
<1>1. \A b \in Actors : b # a => up'[b] = up[b]
  BY StartFacts
<1>2. rec'[p] \in Records
  BY StartFacts
<1>3. \/ rec'[p].status \in Terminal /\ up'[a] = [kind |-> "memory", of |-> p, data |-> rec'[p]]
      \/ up'[a] = [kind |-> "read", of |-> p, data |-> data]
      \/ up' = up
  BY StartFacts
<1>4. up'[a].kind # "none" =>
        /\ up'[a].of = p /\ up'[a].data \in Records
        /\ up'[a].kind \in {"memory", "file"} => up'[a].data.status \in Terminal
  BY <1>2, <1>3
<1>5. ASSUME NEW b \in Actors, up'[b].kind # "none"
      PROVE  /\ up'[b].of \in Procs /\ up'[b].data \in Records
             /\ b \in Procs => up'[b].of = b /\ route'[b] \in {"pid", "complete"}
             /\ b \in Calls => pc'[b] = "update" /\ up'[b].of = target'[b]
             /\ up'[b].kind \in {"memory", "file"} => up'[b].data.status \in Terminal
  <2>1. CASE b = a
    BY <1>4, <1>5, <2>1
  <2>2. CASE b # a
    BY <1>1, <1>5, <2>2 DEF UpInv
  <2> QED
    BY <2>1, <2>2
<1> QED
  BY <1>5 DEF UpInv

\* An update() that goes on or ends.
LEMMA UpUpdated ==
  ASSUME TypeOK, UpInv, NEW a \in Actors, UpdateRead(a) \/ UpdateWritten(a)
  PROVE  UpInv'
<1> PICK p : p = up[a].of
  OBVIOUS
<1>0. target' = target
  BY DEF UpdateRead, UpdateWritten
<1>1. ASSUME up[a].kind # "none", up'[a] = NoUpdate, \E threw \in BOOLEAN : AfterUpdate(a, p, threw),
             \A b \in Actors : b # a => up'[b] = up[b]
      PROVE  UpInv'
  <2>1. \A b \in Actors : b # a /\ b \in Procs => route'[b] = route[b]
    BY <1>1, AfterFacts DEF Actors
  <2>2. \A b \in Actors : b # a /\ b \in Calls => pc'[b] = pc[b]
    BY <1>1, AfterFacts DEF Actors
  <2>3. up'[a].kind = "none"
    BY <1>1 DEF NoUpdate
  <2> QED
    BY <1>0, <1>1, <2>1, <2>2, <2>3 DEF UpInv
<1>2. CASE UpdateRead(a)
  <2>1. /\ up[a].kind = "read" /\ p \in Procs /\ up[a].data \in Records
        /\ \A b \in Actors : b # a => up'[b] = up[b]
        /\ \/ /\ disk[p] \in Records
              /\ up'[a] = [kind |-> "file", of |-> p, data |-> Merge(disk[p], up[a].data)]
              /\ UNCHANGED << route, pc >>
           \/ up'[a] = NoUpdate /\ AfterUpdate(a, p, TRUE)
    BY <1>2, UpdateReadFacts
  <2>2. CASE /\ disk[p] \in Records
             /\ up'[a] = [kind |-> "file", of |-> p, data |-> Merge(disk[p], up[a].data)]
             /\ UNCHANGED << route, pc >>
    <3>1. /\ Merge(disk[p], up[a].data) \in Records
          /\ Merge(disk[p], up[a].data).status \in Terminal
      <4>1. disk[p].status \in Terminal /\ up[a].data.status \in Statuses
        BY <2>1, <2>2, RecordFields DEF TypeOK
      <4> QED
        BY <2>1, <2>2, <4>1, MergeFacts DEF Statuses
    <3> QED
      BY <1>0, <2>1, <2>2, <3>1 DEF UpInv
  <2>3. CASE up'[a] = NoUpdate /\ AfterUpdate(a, p, TRUE)
    BY <1>1, <2>1, <2>3
  <2> QED
    BY <2>1, <2>2, <2>3
<1>3. CASE UpdateWritten(a)
  <2>1. /\ up[a].kind # "none" /\ up'[a] = NoUpdate
        /\ \A b \in Actors : b # a => up'[b] = up[b]
        /\ \E threw \in BOOLEAN : AfterUpdate(a, p, threw)
    BY <1>3, UpdateWrittenFacts
  <2> QED
    BY <1>1, <2>1
<1> QED
  BY <1>2, <1>3

\* Every step keeps the updates.
LEMMA NextUp == TypeOK /\ UpInv /\ ListenInv /\ CallInv /\ [Next]_vars => UpInv'
<1> SUFFICES ASSUME TypeOK, UpInv, ListenInv, CallInv, [Next]_vars PROVE UpInv'
  OBVIOUS
<1>a. Procs \subseteq Actors /\ Calls \subseteq Actors
  BY DEF Actors
<1>b. \A q \in Procs : up[q].kind # "none" => route[q] \in {"pid", "complete"}
  BY <1>a DEF UpInv
<1>1. CASE UNCHANGED vars
  BY <1>1, UpKept DEF vars, callVars
<1>2. ASSUME NEW p \in Procs,
             \/ Writes(p) \/ Exits(p) \/ startProcess(p) \/ StartFails(p) \/ Spawn(p)
             \/ OutputEvent(p)
      PROVE  UpInv'
  <2>1. UNCHANGED << up, pc, target >>
    BY <1>2 DEF Writes, Exits, startProcess, StartFails, Spawn, OutputEvent,
                callVars, storeVars
  <2>2. \/ route' = route
        \/ route[p] \in {"none", "stored", "next"} /\ \A q \in Procs : q # p => route'[q] = route[q]
    BY <1>2 DEF Writes, Exits, startProcess, StartFails, Spawn, OutputEvent, TypeOK
  <2> QED
    BY <2>1, <2>2, UpKept
<1>3. ASSUME NEW p \in Procs, StartEvent(p)
      PROVE  UpInv'
  <2>1. /\ route[p] = "spawned" /\ UNCHANGED << pc, target >>
    BY <1>3 DEF StartEvent, callVars
  <2>2. PICK data \in Records : Start(p, p, data)
    BY <1>3, StartEventFacts
  <2>3. PICK x \in {"next", "pid"} : /\ route' = [route EXCEPT ![p] = x]
                                     /\ x = "next" => up'[p] = NoUpdate
    BY <1>3, StartEventFacts
  <2>4. route'[p] = x /\ \A q \in Procs : q # p => route'[q] = route[q]
    BY <2>3 DEF TypeOK
  <2>5. up'[p].kind = "none" \/ route'[p] \in {"pid", "complete"}
    BY <2>3, <2>4 DEF NoUpdate
  <2>6. up[p].kind = "none" /\ p \in Actors /\ p \notin Calls
    BY <1>a, <1>b, <2>1, NameAssumption
  <2> QED
    BY <2>1, <2>2, <2>4, <2>5, <2>6, UpStarted
<1>4. ASSUME NEW p \in Procs, CompleteEvent(p)
      PROVE  UpInv'
  <2>1. route[p] = "next" /\ target' = target
    BY <1>4 DEF CompleteEvent
  <2>2. \A c \in Calls : pc[c] = "update" => pc'[c] = "update"
    BY <1>4, CompleteFacts
  <2>3. PICK data \in Records :
          \/ Start(p, p, data) /\ route' = [route EXCEPT ![p] = "complete"]
          \/ route' = [route EXCEPT ![p] = "aborted"] /\ UNCHANGED up
    BY <1>4, CompleteFacts
  <2>4. \A q \in Procs : q # p => route'[q] = route[q]
    BY <2>3 DEF TypeOK
  <2>5. CASE Start(p, p, data) /\ route' = [route EXCEPT ![p] = "complete"]
    <3>1. route'[p] = "complete"
      BY <2>5 DEF TypeOK
    <3>2. up[p].kind = "none" /\ p \in Actors /\ p \notin Calls
      BY <1>a, <1>b, <2>1, NameAssumption
    <3> QED
      BY <2>1, <2>2, <2>4, <2>5, <3>1, <3>2, UpStarted
  <2>6. CASE UNCHANGED up
    BY <2>1, <2>2, <2>4, <2>6, UpKept
  <2> QED
    BY <2>3, <2>5, <2>6
<1>5. ASSUME NEW p \in Procs, ErrorEvent(p)
      PROVE  UpInv'
  <2>1. UNCHANGED << up, target >>
    BY <1>5 DEF ErrorEvent, storeVars
  <2>2. \A c \in Calls : pc[c] = "update" => pc'[c] = "update"
    BY <1>5, ErrorFacts
  <2>3. PICK x \in {"aborted", "done"} : route' = [route EXCEPT ![p] = x]
    BY <1>5, ErrorFacts
  <2>4. route[p] \in {"stored", "spawned", "next"}
    BY <1>5, ErrorFacts
  <2>5. \A q \in Procs : q # p => route'[q] = route[q]
    <3>1. DOMAIN route = Procs
      BY DEF TypeOK
    <3> QED
      BY <2>3, <3>1
  <2> QED
    BY <2>1, <2>2, <2>4, <2>5, UpKept
<1>6. ASSUME NEW a \in Actors, Store(a)
      PROVE  UpInv'
  BY <1>6, UpUpdated DEF Store
<1>7. ASSUME NEW c \in Calls,
             \/ Call(c) \/ KillAll(c) \/ KillNext(c) \/ GetRead(c) \/ GetWaited(c)
             \/ Signal(c) \/ Cancel(c)
      PROVE  UpInv'
  <2>1. UNCHANGED << up, route >>
    BY <1>7 DEF Call, KillAll, KillNext, GetRead, GetWaited, Signal, Cancel
  <2>2. pc[c] \in {"idle", "scan", "get", "await", "signal", "open"}
    BY <1>7 DEF Call, KillAll, KillNext, GetRead, GetWaited, Signal, Cancel
  <2>3. \A d \in Calls : d # c => pc'[d] = pc[d]
    <3>1. CASE Call(c)
      BY <3>1, CallFacts DEF Moves
    <3>2. CASE KillNext(c)
      BY <3>2, KillNextFacts
    <3>3. CASE GetRead(c)
      BY <3>3, GetReadFacts DEF Moves
    <3>4. CASE GetWaited(c)
      BY <3>4, GetWaitedFacts DEF Moves
    <3>5. CASE KillAll(c) \/ Signal(c) \/ Cancel(c)
      BY <3>5 DEF KillAll, Signal, Cancel, TypeOK
    <3> QED
      BY <1>7, <3>1, <3>2, <3>3, <3>4, <3>5
  <2>4. \A d \in Calls : d # c => target'[d] = target[d]
    <3>1. CASE Call(c)
      BY <3>1 DEF Call, TypeOK
    <3>2. CASE KillNext(c)
      BY <3>2, KillNextFacts
    <3>3. CASE ~ Call(c) /\ ~ KillNext(c)
      BY <1>7, <3>3 DEF KillAll, GetRead, GetWaited, Signal, Cancel
    <3> QED
      BY <3>1, <3>2, <3>3
  <2> QED
    BY <2>1, <2>2, <2>3, <2>4, UpKept
<1>8. ASSUME NEW c \in Calls, MarkKilled(c)
      PROVE  UpInv'
  <2>1. PICK data \in Records : Start(c, target[c], data)
    BY <1>8, MarkKilledFacts
  <2>2. pc[c] = "update" /\ up[c].kind = "none" /\ target[c] \in Procs
    BY <1>8, MarkKilledFacts DEF NoUpdate
  <2>3. UNCHANGED << route, pc, target >>
    BY <1>8 DEF MarkKilled, callVars
  <2>4. c \in Actors /\ c \notin Procs
    BY <1>a, NameAssumption
  <2> QED
    BY <2>1, <2>2, <2>3, <2>4, UpStarted
<1> QED
  BY <1>1, <1>2, <1>3, <1>4, <1>5, <1>6, <1>7, <1>8 DEF Next, Events, Continue

-----------------------------------------------------------------------------
(***************************************************************************)
(* Every step keeps the log streams and the calls                          *)
(***************************************************************************)

\* What ListenInv says of a stream c about p.
Follows(c, p) ==
  /\ op[c] = "stream" /\ target[c] = p
  /\ pc[c] \in {"open", "closed", "cancelled"}
  /\ seen[c] <= rec[p].out

\* The listeners of a record are calls.
LEMMA ListenerTypes ==
  ASSUME TypeOK
  PROVE  \A p \in Procs : \A i \in DOMAIN listeners[p] : listeners[p][i] \in Calls
<1> SUFFICES ASSUME NEW p \in Procs, NEW i \in DOMAIN listeners[p]
             PROVE  listeners[p][i] \in Calls
  OBVIOUS
<1>1. listeners[p] \in Seq(Calls)
  BY DEF TypeOK
<1> QED
  BY <1>1

\* A step that adds no listener.
LEMMA ListenKept ==
  ASSUME TypeOK, ListenInv, UNCHANGED listeners,
         \A p \in Procs, c \in Calls : Follows(c, p) => Follows(c, p)'
  PROVE  ListenInv'
BY ListenerTypes DEF ListenInv, Follows

\* A stream that was looked up may listen.
LEMMA ListenMoves ==
  ASSUME TypeOK, ListenInv, NEW c \in Calls, NEW o, NEW p \in Procs, NEW r,
         Moves(c, o, p, r), pc[c] \notin {"open", "closed", "cancelled"},
         UNCHANGED rec, op'[c] = o, target'[c] = p,
         \A d \in Calls : d # c => op'[d] = op[d] /\ target'[d] = target[d]
  PROVE  ListenInv'
<1>1. \A q \in Procs, d \in Calls : Follows(d, q) => Follows(d, q)'
  BY DEF Follows, Moves
<1>2. CASE listeners' = listeners
  BY <1>1, <1>2, ListenKept
<1>3. CASE listeners' # listeners
  <2>1. /\ o = "stream" /\ pc'[c] \in {"open", "closed"} /\ seen'[c] = rec[p].out
        /\ listeners' = [listeners EXCEPT ![p] = Append(listeners[p], c)]
    BY <1>3 DEF Moves
  <2>2. rec[p].out \in 0..MaxOutput
    BY RecordFields DEF TypeOK
  <2>3. Follows(c, p)'
    BY <2>1, <2>2 DEF Follows
  <2>4. listeners[p] \in Seq(Calls)
    BY DEF TypeOK
  <2>5. /\ listeners'[p] = Append(listeners[p], c)
        /\ \A q \in Procs : q # p => listeners'[q] = listeners[q]
    BY <2>1 DEF TypeOK
  <2>6. ASSUME NEW q \in Procs, NEW i, i \in DOMAIN listeners'[q],
               NEW d, d = listeners'[q][i]
        PROVE  Follows(d, q)'
    <3>1. CASE q = p
      <4>1. CASE i = Len(listeners[p]) + 1
        <5>1. d = c
          BY <2>4, <2>5, <2>6, <3>1, <4>1
        <5> QED
          BY <2>3, <3>1, <5>1
      <4>2. CASE i # Len(listeners[p]) + 1
        <5>1. i \in DOMAIN listeners[p] /\ d = listeners[p][i]
          BY <2>4, <2>5, <2>6, <3>1, <4>2
        <5>2. d \in Calls /\ Follows(d, p)
          BY <5>1, ListenerTypes DEF ListenInv, Follows
        <5> QED
          BY <1>1, <3>1, <5>2
      <4> QED
        BY <4>1, <4>2
    <3>2. CASE q # p
      <4>1. i \in DOMAIN listeners[q] /\ d = listeners[q][i]
        BY <2>5, <2>6, <3>2
      <4>2. d \in Calls /\ Follows(d, q)
        BY <4>1, ListenerTypes DEF ListenInv, Follows
      <4> QED
        BY <1>1, <4>2
    <3> QED
      BY <3>1, <3>2
  <2> QED
    BY <2>6 DEF ListenInv, Follows
<1> QED
  BY <1>2, <1>3

\* Every step keeps the log streams.
LEMMA NextListen == TypeOK /\ UpInv /\ ListenInv /\ CallInv /\ [Next]_vars => ListenInv'
<1> SUFFICES ASSUME TypeOK, UpInv, ListenInv, CallInv, [Next]_vars PROVE ListenInv'
  OBVIOUS
<1>a. Procs \subseteq Actors /\ Calls \subseteq Actors
  BY DEF Actors
<1>b. ASSUME NEW a \in Actors, NEW p \in Procs, NEW data \in Records, Start(a, p, data)
      PROVE  \A q \in Procs : rec'[q].out = rec[q].out
  <2>1. rec'[p] = Merge(rec[p], data) \/ rec'[p] = rec[p]
    BY <1>b, StartFacts
  <2>2. rec[p] \in Records
    BY DEF TypeOK
  <2>3. rec'[p].out = rec[p].out
    BY <2>1, <2>2, MergeFacts
  <2>4. \A q \in Procs : q # p => rec'[q] = rec[q]
    BY <1>b, StartFacts
  <2> QED
    BY <2>3, <2>4
<1>1. CASE UNCHANGED vars
  BY <1>1, ListenKept DEF vars, callVars, Follows
<1>2. ASSUME NEW p \in Procs,
             Writes(p) \/ Exits(p) \/ startProcess(p) \/ StartFails(p) \/ Spawn(p)
      PROVE  ListenInv'
  <2>1. UNCHANGED << listeners, rec, op, target, pc, seen >>
    BY <1>2 DEF Writes, Exits, startProcess, StartFails, Spawn, callVars
  <2> QED
    BY <2>1, ListenKept DEF Follows
<1>3. ASSUME NEW p \in Procs, StartEvent(p)
      PROVE  ListenInv'
  <2>1. UNCHANGED << listeners, op, target, pc, seen >>
    BY <1>3 DEF StartEvent, callVars
  <2>2. \E data \in Records : Start(p, p, data)
    BY <1>3, StartEventFacts
  <2>3. \A q \in Procs : rec'[q].out = rec[q].out
    BY <1>a, <1>b, <2>2
  <2> QED
    BY <2>1, <2>3, ListenKept DEF Follows
<1>4. ASSUME NEW p \in Procs, OutputEvent(p)
      PROVE  ListenInv'
  <2>1. UNCHANGED << listeners, op, target, pc >>
    BY <1>4 DEF OutputEvent
  <2>2. /\ rec'[p].out = rec[p].out + 1
        /\ \A q \in Procs : q # p => rec'[q] = rec[q]
        /\ \A d \in Calls : seen'[d] = seen[d] \/ (target[d] = p /\ seen'[d] <= rec[p].out + 1)
    <3>1. /\ rec'[p] = [status |-> rec[p].status, out |-> rec[p].out + 1,
                        exit |-> rec[p].exit, pid |-> rec[p].pid]
          /\ \A q \in Procs : q # p => rec'[q] = rec[q]
          /\ \A d \in Calls : seen'[d] = seen[d] \/ (target[d] = p /\ seen'[d] <= rec[p].out + 1)
      BY <1>4, OutputFacts
    <3>2. rec'[p].out = rec[p].out + 1
      BY <3>1
    <3> QED
      BY <3>1, <3>2
  <2>3. rec[p].out \in Int /\ \A d \in Calls : seen[d] \in Int
    BY RecordFields DEF TypeOK
  <2>4. ASSUME NEW q \in Procs, NEW d \in Calls, Follows(d, q)
        PROVE  Follows(d, q)'
    <3>1. CASE q = p
      BY <2>1, <2>2, <2>3, <2>4, <3>1 DEF Follows
    <3>2. CASE q # p
      BY <2>1, <2>2, <2>4, <3>2 DEF Follows
    <3> QED
      BY <3>1, <3>2
  <2> QED
    BY <2>1, <2>4, ListenKept
<1>5. ASSUME NEW p \in Procs, CompleteEvent(p)
      PROVE  ListenInv'
  <2>1. UNCHANGED << listeners, op, target, seen >>
    BY <1>5 DEF CompleteEvent
  <2>2. \A d \in Calls : pc'[d] = pc[d] \/ (pc[d] = "open" /\ pc'[d] = "closed")
    BY <1>5, CompleteFacts
  <2>3. PICK data \in Records : Start(p, p, data) \/ rec' = [rec EXCEPT ![p] = Merge(rec[p], data)]
    BY <1>5, CompleteFacts
  <2>4. CASE Start(p, p, data)
    BY <1>a, <1>b, <2>1, <2>2, <2>4, ListenKept DEF Follows
  <2>5. CASE rec' = [rec EXCEPT ![p] = Merge(rec[p], data)]
    <3>1. rec[p] \in Records
      BY DEF TypeOK
    <3>2. Merge(rec[p], data).out = rec[p].out
      BY <3>1, MergeFacts
    <3>3. \A q \in Procs : rec'[q].out = rec[q].out
      BY <2>5, <3>2 DEF TypeOK
    <3> QED
      BY <2>1, <2>2, <3>3, ListenKept DEF Follows
  <2> QED
    BY <2>3, <2>4, <2>5
<1>6. ASSUME NEW p \in Procs, ErrorEvent(p)
      PROVE  ListenInv'
  <2>1. UNCHANGED << listeners, op, target, seen >>
    BY <1>6 DEF ErrorEvent
  <2>2. /\ \A d \in Calls : pc'[d] = pc[d] \/ (pc[d] = "open" /\ pc'[d] = "closed")
        /\ rec'[p].out = rec[p].out
        /\ \A q \in Procs : q # p => rec'[q] = rec[q]
    BY <1>6, ErrorFacts
  <2> QED
    BY <2>1, <2>2, ListenKept DEF Follows
<1>7. ASSUME NEW a \in Actors, Store(a)
      PROVE  ListenInv'
  <2>1. UNCHANGED << listeners, op, target, seen, rec >>
    BY <1>7 DEF Store, UpdateRead, UpdateWritten
  <2>2. \A d \in Calls : pc'[d] = pc[d] \/ pc[d] = "update"
    <3>1. ASSUME up[a].kind # "none", NEW threw \in BOOLEAN, AfterUpdate(a, up[a].of, threw)
          PROVE  \A d \in Calls : pc'[d] = pc[d] \/ pc[d] = "update"
      <4>1. a \in Procs \/ a \in Calls
        BY DEF Actors
      <4>2. a \in Procs => pc' = pc
        BY <3>1, AfterFacts
      <4>3. a \in Calls => pc[a] = "update" /\ \A d \in Calls : d # a => pc'[d] = pc[d]
        BY <3>1, AfterFacts DEF UpInv
      <4> QED
        BY <4>1, <4>2, <4>3
    <3>2. CASE UpdateRead(a)
      <4>1. up[a].kind # "none" /\ (pc' = pc \/ AfterUpdate(a, up[a].of, TRUE))
        BY <3>2, UpdateReadFacts
      <4> QED
        BY <3>1, <4>1
    <3>3. CASE UpdateWritten(a)
      <4>1. up[a].kind # "none" /\ \E threw \in BOOLEAN : AfterUpdate(a, up[a].of, threw)
        BY <3>3, UpdateWrittenFacts
      <4> QED
        BY <3>1, <4>1
    <3> QED
      BY <1>7, <3>2, <3>3 DEF Store
  <2> QED
    BY <2>1, <2>2, ListenKept DEF Follows
<1>8. ASSUME NEW c \in Calls, Call(c)
      PROVE  ListenInv'
  <2>1. PICK o \in Ops \ {"killAll"}, p \in Procs :
          /\ op' = [op EXCEPT ![c] = o]
          /\ target' = [target EXCEPT ![c] = p]
          /\ Moves(c, o, p, rec[p])
    BY <1>8, CallFacts
  <2>2. pc[c] = "idle" /\ UNCHANGED rec
    BY <1>8 DEF Call
  <2>3. /\ op'[c] = o /\ target'[c] = p
        /\ \A d \in Calls : d # c => op'[d] = op[d] /\ target'[d] = target[d]
    BY <2>1 DEF TypeOK
  <2> QED
    BY <2>1, <2>2, <2>3, ListenMoves
<1>9. ASSUME NEW c \in Calls, GetRead(c)
      PROVE  ListenInv'
  <2>1. pc[c] = "get" /\ target[c] \in Procs /\ Moves(c, op[c], target[c], disk[target[c]])
    BY <1>9, GetReadFacts
  <2>2. UNCHANGED << rec, op, target >>
    BY <1>9 DEF GetRead
  <2> QED
    BY <2>1, <2>2, ListenMoves
<1>10. ASSUME NEW c \in Calls, GetWaited(c)
       PROVE  ListenInv'
  <2>1. pc[c] = "await" /\ target[c] \in Procs /\ Moves(c, op[c], target[c], rec[target[c]])
    BY <1>10, GetWaitedFacts
  <2>2. UNCHANGED << rec, op, target >>
    BY <1>10 DEF GetWaited
  <2> QED
    BY <2>1, <2>2, ListenMoves
<1>11. ASSUME NEW c \in Calls, KillNext(c)
       PROVE  ListenInv'
  <2>1. /\ pc[c] = "scan" /\ UNCHANGED << listeners, seen >>
        /\ \A d \in Calls : d # c => pc'[d] = pc[d] /\ target'[d] = target[d]
    BY <1>11, KillNextFacts
  <2>2. UNCHANGED << rec, op >>
    BY <1>11 DEF KillNext
  <2> QED
    BY <2>1, <2>2, ListenKept DEF Follows
<1>12. ASSUME NEW c \in Calls, KillAll(c) \/ Signal(c) \/ Cancel(c)
       PROVE  ListenInv'
  <2>1. UNCHANGED << listeners, seen, rec, target >>
    BY <1>12 DEF KillAll, Signal, Cancel
  <2>2. /\ \A d \in Calls : d # c => pc'[d] = pc[d] /\ op'[d] = op[d]
        /\ pc[c] \in {"idle", "signal"} \/ (pc[c] = "open" /\ pc'[c] = "cancelled" /\ op' = op)
    BY <1>12 DEF KillAll, Signal, Cancel, TypeOK
  <2> QED
    BY <2>1, <2>2, ListenKept DEF Follows
<1>13. ASSUME NEW c \in Calls, MarkKilled(c)
       PROVE  ListenInv'
  <2>1. UNCHANGED << listeners, op, target, pc, seen >>
    BY <1>13 DEF MarkKilled, callVars
  <2>2. target[c] \in Procs /\ \E data \in Records : Start(c, target[c], data)
    BY <1>13, MarkKilledFacts
  <2>3. \A q \in Procs : rec'[q].out = rec[q].out
    BY <1>a, <1>b, <2>2
  <2> QED
    BY <2>1, <2>3, ListenKept DEF Follows
<1> QED
  BY <1>1, <1>2, <1>3, <1>4, <1>5, <1>6, <1>7, <1>8, <1>9, <1>10, <1>11, <1>12, <1>13
     DEF Next, Events, Continue

\* A call whose place is left alone, or that is a stream that closes.
LEMMA CallKept ==
  ASSUME CallInv, UNCHANGED << op, target, result >>,
         \A p \in Procs : signalled[p] => signalled'[p],
         \A c \in Calls : \/ pc'[c] = pc[c]
                          \/ pc[c] = "open" /\ pc'[c] \in {"closed", "cancelled"}
                          \/ pc[c] = "update" /\ pc'[c] \in {"failed", "done"}
                          \/ pc[c] = "update" /\ pc'[c] = "scan" /\ op[c] = "killAll"
  PROVE  CallInv'
BY DEF CallInv

\* A call that was looked up.
LEMMA CallMoves ==
  ASSUME CallInv, NEW c \in Calls, NEW o, NEW p \in Procs, NEW r,
         Moves(c, o, p, r), pc[c] \in {"idle", "get", "await"},
         UNCHANGED signalled, target'[c] = p,
         pc'[c] # "scan" \/ op' = op,
         \A d \in Calls : d # c => op'[d] = op[d] /\ target'[d] = target[d]
  PROVE  CallInv'
<1>1. /\ pc'[c] \in {"get", "signal", "await", "scan", "failed", "done", "open", "closed"}
      /\ pc'[c] = "scan" => op'[c] = "killAll"
  BY DEF Moves
<1>2. result[c] = None
  BY DEF CallInv
<1>3. result'[c] # None => pc'[c] \in {"open", "closed", "cancelled", "done"}
  BY <1>2 DEF Moves
<1>4. \A d \in Calls : d # c => pc'[d] = pc[d] /\ result'[d] = result[d]
  BY DEF Moves
<1>5. ASSUME NEW d \in Calls
      PROVE  /\ pc'[d] \in {"get", "await", "signal", "update"} => target'[d] \in Procs
             /\ pc'[d] = "update" => signalled'[target'[d]]
             /\ pc'[d] = "scan" => op'[d] = "killAll"
             /\ result'[d] # None => pc'[d] \in {"open", "closed", "cancelled", "done"}
  <2>1. CASE d = c
    BY <1>1, <1>3, <2>1
  <2>2. CASE d # c
    BY <1>4, <2>2 DEF CallInv
  <2> QED
    BY <2>1, <2>2
<1> QED
  BY <1>5 DEF CallInv

\* Every step keeps the calls.
LEMMA NextCall == TypeOK /\ UpInv /\ ListenInv /\ CallInv /\ [Next]_vars => CallInv'
<1> SUFFICES ASSUME TypeOK, UpInv, ListenInv, CallInv, [Next]_vars PROVE CallInv'
  OBVIOUS
<1>1. CASE UNCHANGED vars
  BY <1>1, CallKept DEF vars, callVars, cmdVars
<1>2. ASSUME NEW p \in Procs,
             \/ Writes(p) \/ Exits(p) \/ startProcess(p) \/ StartFails(p) \/ Spawn(p)
             \/ StartEvent(p) \/ OutputEvent(p)
      PROVE  CallInv'
  <2>1. UNCHANGED << op, target, result, pc, signalled >>
    BY <1>2 DEF Writes, Exits, startProcess, StartFails, Spawn, StartEvent, OutputEvent,
                callVars, cmdVars
  <2> QED
    BY <2>1, CallKept
<1>3. ASSUME NEW p \in Procs, CompleteEvent(p) \/ ErrorEvent(p)
      PROVE  CallInv'
  <2>1. UNCHANGED << op, target, result, signalled >>
    BY <1>3 DEF CompleteEvent, ErrorEvent, cmdVars
  <2>2. \A c \in Calls : pc'[c] = pc[c] \/ (pc[c] = "open" /\ pc'[c] = "closed")
    BY <1>3, CompleteFacts, ErrorFacts
  <2> QED
    BY <2>1, <2>2, CallKept
<1>4. ASSUME NEW a \in Actors, Store(a)
      PROVE  CallInv'
  <2>1. UNCHANGED << op, target, signalled >>
    BY <1>4 DEF Store, UpdateRead, UpdateWritten
  <2>2. ASSUME up[a].kind # "none", NEW threw \in BOOLEAN, AfterUpdate(a, up[a].of, threw)
        PROVE  /\ result' = result
               /\ \A d \in Calls :
                    \/ pc'[d] = pc[d]
                    \/ /\ pc[d] = "update" /\ pc'[d] \in {"scan", "failed", "done"}
                       /\ pc'[d] = "scan" => op[d] = "killAll"
    <3>1. a \in Procs \/ a \in Calls
      BY DEF Actors
    <3>2. a \in Procs => pc' = pc
      BY <2>2, AfterFacts
    <3>3. a \in Calls => /\ pc[a] = "update" /\ pc'[a] \in {"scan", "failed", "done"}
                         /\ pc'[a] = "scan" => op[a] = "killAll"
                         /\ \A d \in Calls : d # a => pc'[d] = pc[d]
      BY <2>2, AfterFacts DEF UpInv
    <3>4. result' = result
      BY <2>2, AfterFacts
    <3> QED
      BY <3>1, <3>2, <3>3, <3>4
  <2>3. CASE UpdateRead(a)
    <3>1. /\ up[a].kind # "none"
          /\ UNCHANGED << pc, result >> \/ AfterUpdate(a, up[a].of, TRUE)
      BY <2>3, UpdateReadFacts
    <3>2. CASE UNCHANGED << pc, result >>
      BY <2>1, <3>2, CallKept
    <3>3. CASE AfterUpdate(a, up[a].of, TRUE)
      BY <2>1, <2>2, <3>1, <3>3, CallKept
    <3> QED
      BY <3>1, <3>2, <3>3
  <2>4. CASE UpdateWritten(a)
    <3>1. up[a].kind # "none" /\ \E threw \in BOOLEAN : AfterUpdate(a, up[a].of, threw)
      BY <2>4, UpdateWrittenFacts
    <3> QED
      BY <2>1, <2>2, <3>1, CallKept
  <2> QED
    BY <1>4, <2>3, <2>4 DEF Store
<1>5. ASSUME NEW c \in Calls, Call(c)
      PROVE  CallInv'
  <2>1. PICK o \in Ops \ {"killAll"}, p \in Procs :
          /\ op' = [op EXCEPT ![c] = o]
          /\ target' = [target EXCEPT ![c] = p]
          /\ Moves(c, o, p, rec[p]) /\ pc'[c] # "scan"
    BY <1>5, CallFacts
  <2>2. pc[c] = "idle" /\ UNCHANGED signalled
    BY <1>5 DEF Call, cmdVars
  <2>3. /\ target'[c] = p
        /\ \A d \in Calls : d # c => op'[d] = op[d] /\ target'[d] = target[d]
    BY <2>1 DEF TypeOK
  <2> QED
    BY <2>1, <2>2, <2>3, CallMoves
<1>6. ASSUME NEW c \in Calls, GetRead(c)
      PROVE  CallInv'
  <2>1. pc[c] = "get" /\ target[c] \in Procs /\ Moves(c, op[c], target[c], disk[target[c]])
    BY <1>6, GetReadFacts
  <2>2. UNCHANGED << signalled, op, target >>
    BY <1>6 DEF GetRead, cmdVars
  <2> QED
    BY <2>1, <2>2, CallMoves
<1>7. ASSUME NEW c \in Calls, GetWaited(c)
      PROVE  CallInv'
  <2>1. pc[c] = "await" /\ target[c] \in Procs /\ Moves(c, op[c], target[c], rec[target[c]])
    BY <1>7, GetWaitedFacts
  <2>2. UNCHANGED << signalled, op, target >>
    BY <1>7 DEF GetWaited, cmdVars
  <2> QED
    BY <2>1, <2>2, CallMoves
<1>8. ASSUME NEW c \in Calls, KillAll(c)
      PROVE  CallInv'
  <2>1. /\ pc[c] = "idle" /\ pc'[c] = "scan" /\ op'[c] = "killAll"
        /\ \A d \in Calls : d # c => pc'[d] = pc[d] /\ op'[d] = op[d]
        /\ UNCHANGED << target, result, signalled >>
    BY <1>8 DEF KillAll, TypeOK, cmdVars
  <2> QED
    BY <2>1 DEF CallInv
<1>9. ASSUME NEW c \in Calls, KillNext(c)
      PROVE  CallInv'
  <2>1. /\ pc[c] = "scan" /\ UNCHANGED result
        /\ \A d \in Calls : d # c => pc'[d] = pc[d] /\ target'[d] = target[d]
        /\ \/ pc'[c] = "done" /\ target'[c] = target[c]
           \/ pc'[c] \in {"get", "signal"} /\ target'[c] \in Procs
    BY <1>9, KillNextFacts
  <2>2. UNCHANGED << op, signalled >>
    BY <1>9 DEF KillNext, cmdVars
  <2> QED
    BY <2>1, <2>2 DEF CallInv
<1>10. ASSUME NEW c \in Calls, Signal(c)
       PROVE  CallInv'
  <2>1. pc[c] = "signal" /\ target[c] \in Procs /\ result[c] = None
    BY <1>10 DEF Signal, CallInv
  <2>2. UNCHANGED << op, target, result >> /\ \A d \in Calls : d # c => pc'[d] = pc[d]
    BY <1>10 DEF Signal, TypeOK
  <2>3. \/ /\ signalled' = [signalled EXCEPT ![target[c]] = TRUE]
           /\ pc'[c] = "update"
        \/ /\ signalled' = signalled
           /\ pc'[c] \in {"scan", "failed"} /\ (pc'[c] = "scan" => op[c] = "killAll")
    BY <1>10 DEF Signal, Settled, TypeOK
  <2>4. \A q \in Procs : signalled[q] => signalled'[q]
    BY <2>3 DEF TypeOK
  <2>5. pc'[c] = "update" => signalled'[target[c]]
    BY <2>1, <2>3 DEF TypeOK
  <2>6. ASSUME NEW d \in Calls
        PROVE  /\ pc'[d] \in {"get", "await", "signal", "update"} => target'[d] \in Procs
               /\ pc'[d] = "update" => signalled'[target'[d]]
               /\ pc'[d] = "scan" => op'[d] = "killAll"
               /\ result'[d] # None => pc'[d] \in {"open", "closed", "cancelled", "done"}
    <3>1. CASE d = c
      BY <2>1, <2>2, <2>3, <2>5, <3>1
    <3>2. CASE d # c
      BY <2>2, <2>4, <3>2 DEF CallInv
    <3> QED
      BY <3>1, <3>2
  <2> QED
    BY <2>6 DEF CallInv
<1>11. ASSUME NEW c \in Calls, MarkKilled(c) \/ Cancel(c)
       PROVE  CallInv'
  <2>1. UNCHANGED << op, target, result, signalled >>
    BY <1>11 DEF MarkKilled, Cancel, callVars, cmdVars
  <2>2. \A d \in Calls : pc'[d] = pc[d] \/ (pc[d] = "open" /\ pc'[d] = "cancelled")
    BY <1>11 DEF MarkKilled, Cancel, callVars, TypeOK
  <2> QED
    BY <2>1, <2>2, CallKept
<1> QED
  BY <1>1, <1>2, <1>3, <1>4, <1>5, <1>6, <1>7, <1>8, <1>9, <1>10, <1>11
     DEF Next, Events, Continue

-----------------------------------------------------------------------------
(***************************************************************************)
(* Every process that was started can be looked up                         *)
(***************************************************************************)

\* What Findable says of a process: it is in memory, its file is whole, being
\* written, or broken.
Found(p) ==
  \/ p \in processes
  \/ disk[p] \in Records
  \/ broken[p]
  \/ \E a \in Actors : up[a].of = p /\ up[a].kind \in {"memory", "file"}

\* A step that leaves the files and the updates alone.
LEMMA FindKept ==
  ASSUME Findable, UNCHANGED << disk, broken, up >>, processes \subseteq processes',
         \A p \in Procs : route'[p] # "none" => route[p] # "none" \/ p \in processes'
  PROVE  Findable'
BY DEF Findable

\* An update() that starts: the file it begins is being written.
LEMMA FindStarted ==
  ASSUME TypeOK, Findable, NEW a \in Actors, NEW p \in Procs, NEW data \in Records,
         Start(a, p, data), up[a].kind = "none", UNCHANGED << processes, broken >>,
         \A q \in Procs : route'[q] # "none" => route[q] # "none"
  PROVE  Findable'
<1>1. /\ \A q \in Procs : q # p => disk'[q] = disk[q]
      /\ \A b \in Actors : b # a => up'[b] = up[b]
      /\ \/ up'[a] = [kind |-> "memory", of |-> p, data |-> rec'[p]]
         \/ disk' = disk
  BY StartFacts
<1>2. ASSUME NEW q \in Procs, route'[q] # "none"
      PROVE  \/ q \in processes'
             \/ disk'[q] \in Records
             \/ broken'[q]
             \/ \E b \in Actors : up'[b].of = q /\ up'[b].kind \in {"memory", "file"}
  <2>1. CASE q = p /\ disk' # disk
    BY <1>1, <2>1
  <2>2. CASE q # p \/ disk' = disk
    <3>1. disk'[q] = disk[q]
      BY <1>1, <2>2
    <3>2. Found(q)
      BY <1>2 DEF Findable, Found
    <3>3. \A b \in Actors : up[b].kind \in {"memory", "file"} => up'[b] = up[b]
      BY <1>1
    <3> QED
      BY <3>1, <3>2, <3>3 DEF Found
  <2> QED
    BY <2>1, <2>2
<1> QED
  BY <1>2 DEF Findable

\* An update() that goes on or ends: its file is being written, whole or broken.
LEMMA FindUpdated ==
  ASSUME TypeOK, UpInv, Findable, NEW a \in Actors, UpdateRead(a) \/ UpdateWritten(a)
  PROVE  Findable'
<1> PICK p : p = up[a].of
  OBVIOUS
<1>1. ASSUME up[a].kind # "none", NEW threw \in BOOLEAN, AfterUpdate(a, p, threw)
      PROVE  \A q \in Procs : route'[q] # "none" => route[q] # "none"
  BY <1>1, AfterFacts DEF Actors
<1>2. CASE UpdateRead(a)
  <2>1. /\ up[a].kind = "read" /\ p \in Procs
        /\ \A b \in Actors : b # a => up'[b] = up[b]
        /\ \/ /\ up'[a] = [kind |-> "file", of |-> p, data |-> Merge(disk[p], up[a].data)]
              /\ disk' = [disk EXCEPT ![p] = Partial]
              /\ UNCHANGED route
           \/ disk' = disk /\ AfterUpdate(a, p, TRUE)
    BY <1>2, UpdateReadFacts
  <2>2. UNCHANGED << processes, broken >>
    BY <1>2 DEF UpdateRead
  <2>3. \A q \in Procs : route'[q] # "none" => route[q] # "none"
    BY <1>1, <2>1
  <2>4. ASSUME NEW q \in Procs, route'[q] # "none"
        PROVE  Found(q)'
    <3>1. Found(q)
      BY <2>3, <2>4 DEF Findable, Found
    <3>2. CASE q = p /\ disk' # disk
      <4>1. up'[a] = [kind |-> "file", of |-> p, data |-> Merge(disk[p], up[a].data)]
        BY <2>1, <3>2
      <4>2. up'[a].of = q /\ up'[a].kind = "file"
        BY <3>2, <4>1
      <4> QED
        BY <1>2, <4>2 DEF Found
    <3>3. CASE q # p \/ disk' = disk
      <4>1. disk'[q] = disk[q]
        BY <2>1, <3>3 DEF TypeOK
      <4>2. \A b \in Actors : up[b].kind \in {"memory", "file"} => up'[b] = up[b]
        BY <2>1
      <4> QED
        BY <2>2, <3>1, <4>1, <4>2 DEF Found
    <3> QED
      BY <3>2, <3>3
  <2> QED
    BY <2>4 DEF Findable, Found
<1>3. CASE UpdateWritten(a)
  <2>1. /\ up[a].kind # "none" /\ p \in Procs /\ up[a].data \in Records
        /\ \A b \in Actors : b # a => up'[b] = up[b]
        /\ processes' \in {processes, processes \ {p}}
        /\ \E threw \in BOOLEAN : AfterUpdate(a, p, threw)
        /\ \/ disk' = [disk EXCEPT ![p] = up[a].data] /\ broken' = broken
           \/ disk' = [disk EXCEPT ![p] = Partial] /\ broken' = [broken EXCEPT ![p] = TRUE]
    BY <1>3, UpdateWrittenFacts
  <2>2. \A q \in Procs : route'[q] # "none" => route[q] # "none"
    BY <1>1, <2>1
  <2>3. disk'[p] \in Records \/ broken'[p]
    BY <2>1 DEF TypeOK
  <2>4. \A q \in Procs : q # p => disk'[q] = disk[q]
    BY <2>1 DEF TypeOK
  <2>5. \A q \in Procs : q # p => (broken[q] => broken'[q])
    BY <2>1 DEF TypeOK
  <2>6. ASSUME NEW q \in Procs, route'[q] # "none"
        PROVE  Found(q)'
    <3>1. Found(q)
      BY <2>2, <2>6 DEF Findable, Found
    <3>2. CASE q = p
      BY <2>3, <3>2 DEF Found
    <3>3. CASE q # p
      <4>1. \A b \in Actors : up[b].of = q => up'[b] = up[b]
        BY <2>1, <3>3
      <4>2. q \in processes => q \in processes'
        BY <2>1, <3>3
      <4> QED
        BY <2>4, <2>5, <3>1, <3>3, <4>1, <4>2 DEF Found
    <3> QED
      BY <3>2, <3>3
  <2> QED
    BY <2>6 DEF Findable, Found
<1> QED
  BY <1>2, <1>3

\* Every step keeps Findable.
LEMMA NextFind == IInv /\ [Next]_vars => Findable'
<1> SUFFICES ASSUME IInv, [Next]_vars PROVE Findable'
  OBVIOUS
<1>a. TypeOK /\ UpInv /\ ListenInv /\ CallInv /\ Findable
  BY DEF IInv
<1>b. Procs \subseteq Actors /\ Calls \subseteq Actors
  BY DEF Actors
<1>c. \A q \in Procs : up[q].kind # "none" => route[q] \in {"pid", "complete"}
  BY <1>a, <1>b DEF UpInv
<1>1. CASE UNCHANGED vars
  BY <1>1, <1>a, FindKept DEF vars, storeVars
<1>2. ASSUME NEW p \in Procs,
             \/ Writes(p) \/ Exits(p) \/ startProcess(p) \/ StartFails(p) \/ Spawn(p)
             \/ OutputEvent(p) \/ ErrorEvent(p)
      PROVE  Findable'
  <2>1. UNCHANGED << disk, broken, up >> /\ processes \subseteq processes'
    BY <1>2 DEF Writes, Exits, startProcess, StartFails, Spawn, OutputEvent, ErrorEvent,
                storeVars
  <2>2. \/ route' = route
        \/ /\ route[p] # "none" \/ p \in processes'
           /\ \A q \in Procs : q # p => route'[q] = route[q]
    BY <1>2, <1>a DEF Writes, Exits, startProcess, StartFails, Spawn, OutputEvent,
                      ErrorEvent, TypeOK
  <2> QED
    BY <1>a, <2>1, <2>2, FindKept
<1>3. ASSUME NEW p \in Procs, StartEvent(p)
      PROVE  Findable'
  <2>1. UNCHANGED << processes, broken >> /\ route[p] = "spawned"
    BY <1>3 DEF StartEvent
  <2>2. PICK data \in Records : Start(p, p, data)
    BY <1>3, <1>a, StartEventFacts
  <2>3. \A q \in Procs : route'[q] # "none" => route[q] # "none"
    BY <1>3, <1>a, <2>1, StartEventFacts DEF TypeOK
  <2>4. p \in Actors /\ up[p].kind = "none"
    BY <1>b, <1>c, <2>1
  <2> QED
    BY <1>a, <2>1, <2>2, <2>3, <2>4, FindStarted
<1>4. ASSUME NEW p \in Procs, CompleteEvent(p)
      PROVE  Findable'
  <2>1. UNCHANGED << processes, broken >> /\ route[p] = "next"
    BY <1>4 DEF CompleteEvent
  <2>2. PICK data \in Records :
          \/ Start(p, p, data) /\ route' = [route EXCEPT ![p] = "complete"]
          \/ route' = [route EXCEPT ![p] = "aborted"] /\ UNCHANGED << disk, up >>
    BY <1>4, <1>a, CompleteFacts
  <2>3. \A q \in Procs : route'[q] # "none" => route[q] # "none"
    BY <1>a, <2>1, <2>2 DEF TypeOK
  <2>4. p \in Actors /\ up[p].kind = "none"
    BY <1>b, <1>c, <2>1
  <2>5. CASE Start(p, p, data)
    BY <1>a, <2>1, <2>3, <2>4, <2>5, FindStarted
  <2>6. CASE UNCHANGED << disk, up >>
    BY <1>a, <2>1, <2>3, <2>6, FindKept
  <2> QED
    BY <2>2, <2>5, <2>6
<1>5. ASSUME NEW a \in Actors, Store(a)
      PROVE  Findable'
  BY <1>5, <1>a, FindUpdated DEF Store
<1>6. ASSUME NEW c \in Calls,
             \/ Call(c) \/ KillAll(c) \/ KillNext(c) \/ GetRead(c) \/ GetWaited(c)
             \/ Signal(c) \/ Cancel(c)
      PROVE  Findable'
  <2>1. UNCHANGED << processes, disk, broken, up, route >>
    BY <1>6 DEF Call, KillAll, KillNext, GetRead, GetWaited, Signal, Cancel, storeVars
  <2> QED
    BY <1>a, <2>1, FindKept
<1>7. ASSUME NEW c \in Calls, MarkKilled(c)
      PROVE  Findable'
  <2>1. UNCHANGED << processes, broken, route >>
    BY <1>7 DEF MarkKilled
  <2>2. target[c] \in Procs /\ up[c].kind = "none"
    BY <1>7, <1>a, MarkKilledFacts DEF NoUpdate
  <2>3. PICK data \in Records : Start(c, target[c], data)
    BY <1>7, <1>a, MarkKilledFacts
  <2> QED
    BY <1>a, <1>b, <2>1, <2>2, <2>3, FindStarted
<1> QED
  BY <1>1, <1>2, <1>3, <1>4, <1>5, <1>6, <1>7 DEF Next, Events, Continue

\* Every step keeps the invariant.
LEMMA NextIInv == IInv /\ [Next]_vars => IInv'
<1> SUFFICES ASSUME IInv, [Next]_vars PROVE IInv'
  OBVIOUS
<1>1. TypeOK' /\ UpInv' /\ ListenInv' /\ CallInv'
  BY NextType, NextUp, NextListen, NextCall DEF IInv
<1>2. Findable'
  BY NextFind
<1> QED
  BY <1>1, <1>2 DEF IInv

\* The inductive invariant: the updates, the log streams and the calls that are
\* under way, and where the record of a process is.
THEOREM ServiceInvariant == Spec => []IInv
BY InitIInv, NextIInv, PTL DEF Spec

\* The types; only the records of processes that have ended are in files
\* (process-store.ts:71-84).
THEOREM TypeCorrect == Spec => []TypeOK
<1>1. IInv => TypeOK
  BY DEF IInv
<1> QED
  BY <1>1, ServiceInvariant, PTL

\* A process that was started can be looked up ever after, however its events,
\* kills and writes that fail follow one another (process-store.ts:36-47).
THEOREM AlwaysFindable == Spec => []Findable
<1>1. IInv => Findable
  BY DEF IInv
<1> QED
  BY <1>1, ServiceInvariant, PTL

-----------------------------------------------------------------------------
(***************************************************************************)
(* The output of a process that has ended is all there, if it is in the    *)
(* log when the exit code is read                                          *)
(***************************************************************************)

\* What RecInv says of a process.
RecOf(p) ==
  /\ rec[p].status \in Terminal => Whole(p, rec[p]) \/ rec[p].status = "error"
  /\ rec[p].status \in Terminal /\ route[p] \notin {"complete", "done", "aborted"} =>
       signalled[p]
  /\ route[p] \in {"complete", "done"} => rec[p].status \in Terminal
  /\ route[p] = "pid" \/ Streaming(p) => rec[p].pid \/ rec[p].status \in Terminal

\* The invariant holds at first.
LEMMA InitOutInv == Init => OutInv
<1> SUFFICES ASSUME Init PROVE OutInv
  OBVIOUS
<1>1. RecInv
  BY DEF Init, RecInv, Streaming, New, Terminal
<1>2. FileInv
  BY FilesAssumption DEF Init, FileInv, NoUpdate
<1>3. ResultInv
  BY DEF Init, ResultInv
<1> QED
  BY <1>1, <1>2, <1>3 DEF OutInv

\* A command that has written its exit code writes no more, and a signal that
\* was sent stays sent.
LEMMA CommandEnds ==
  ASSUME TypeOK, [Next]_vars, NEW p \in Procs
  PROVE  /\ signalled[p] => signalled'[p]
         /\ exit[p] # "none" => exit'[p] = exit[p] /\ made'[p] = made[p] /\ late'[p] = late[p]
<1>1. CASE \E q \in Procs : Writes(q)
  BY <1>1 DEF Writes, TypeOK
<1>2. CASE \E q \in Procs : Exits(q)
  BY <1>2 DEF Exits, Running, TypeOK
<1>3. CASE \E c \in Calls : Signal(c)
  <2>1. PICK c \in Calls : Signal(c)
    BY <1>3
  <2>2. UNCHANGED << made, exit, late >>
    BY <2>1 DEF Signal
  <2>3. signalled' = signalled \/ signalled' = [signalled EXCEPT ![target[c]] = TRUE]
    BY <2>1 DEF Signal
  <2>4. DOMAIN signalled = Procs
    BY DEF TypeOK
  <2> QED
    BY <2>2, <2>3, <2>4
<1>4. CASE UNCHANGED << made, exit, late, signalled >>
  BY <1>4
<1>5. CASE \E q \in Procs :
             \/ startProcess(q) \/ StartFails(q) \/ Spawn(q) \/ StartEvent(q)
             \/ OutputEvent(q) \/ CompleteEvent(q) \/ ErrorEvent(q)
  BY <1>4, <1>5 DEF startProcess, StartFails, Spawn, StartEvent, OutputEvent, CompleteEvent,
                    ErrorEvent, cmdVars
<1>6. CASE \E a \in Actors : Store(a)
  BY <1>4, <1>6 DEF Store, UpdateRead, UpdateWritten
<1>7. CASE \E c \in Calls : \/ Call(c) \/ KillAll(c) \/ KillNext(c) \/ GetRead(c)
                            \/ GetWaited(c) \/ MarkKilled(c) \/ Cancel(c)
  BY <1>4, <1>7 DEF Call, KillAll, KillNext, GetRead, GetWaited, MarkKilled, Cancel, cmdVars
<1>8. CASE UNCHANGED vars
  BY <1>4, <1>8 DEF vars, cmdVars
<1> QED
  BY <1>1, <1>2, <1>3, <1>5, <1>6, <1>7, <1>8 DEF Next, Events, Continue

\* So a record that is whole stays whole.
LEMMA WholeKept ==
  ASSUME TypeOK, [Next]_vars, NEW p \in Procs, NEW r, Whole(p, r)
  PROVE  Whole(p, r)'
BY CommandEnds DEF Whole

\* A process whose record is left alone and whose events wait, or that ends.
LEMMA RecKept ==
  ASSUME TypeOK, [Next]_vars, NEW p \in Procs, RecOf(p), rec'[p] = rec[p],
         \/ route'[p] = route[p]
         \/ route'[p] \in {"stored", "spawned", "refused"}
            /\ route[p] \notin {"complete", "done", "aborted"}
         \/ route[p] = "pid" /\ route'[p] = "next"
         \/ route[p] = "complete" /\ route'[p] = "done"
  PROVE  RecOf(p)'
<1> PICK r : r = rec[p]
  OBVIOUS
<1>1. Whole(p, r) => Whole(p, r)'
  BY WholeKept
<1>2. signalled[p] => signalled'[p]
  BY CommandEnds
<1>3. Whole(p, rec[p]) => Whole(p, rec[p])'
  BY <1>1 DEF Whole
<1> QED
  BY <1>2, <1>3 DEF RecOf, Streaming

\* Every step keeps the records.
LEMMA NextRec == IInv /\ RecInv /\ [Next]_vars => RecInv'
<1> SUFFICES ASSUME IInv, RecInv, [Next]_vars PROVE RecInv'
  OBVIOUS
<1>a. TypeOK /\ UpInv /\ ListenInv /\ CallInv
  BY DEF IInv
<1>b. \A q \in Procs : RecOf(q)
  BY DEF RecInv, RecOf
<1>c. (\A q \in Procs : RecOf(q)') => RecInv'
  BY DEF RecInv, RecOf
<1>d. Procs \subseteq Actors /\ Calls \subseteq Actors
  BY DEF Actors
<1>e. ASSUME rec' = rec,
             \A q \in Procs : \/ route'[q] = route[q]
                              \/ route'[q] \in {"stored", "spawned", "refused"}
                                 /\ route[q] \notin {"complete", "done", "aborted"}
                              \/ route[q] = "pid" /\ route'[q] = "next"
                              \/ route[q] = "complete" /\ route'[q] = "done"
      PROVE  RecInv'
  BY <1>a, <1>b, <1>c, <1>e, RecKept
<1>f. ASSUME NEW p \in Procs, RecOf(p)',
             \A q \in Procs : q # p => rec'[q] = rec[q] /\ route'[q] = route[q]
      PROVE  RecInv'
  BY <1>a, <1>b, <1>c, <1>f, RecKept
<1>g. \A q \in Procs : rec[q] \in Records
  BY <1>a DEF TypeOK
<1>1. CASE UNCHANGED vars
  BY <1>1, <1>e DEF vars
<1>2. ASSUME NEW p \in Procs,
             Writes(p) \/ Exits(p) \/ startProcess(p) \/ StartFails(p) \/ Spawn(p)
      PROVE  RecInv'
  <2>1. rec' = rec
    BY <1>2 DEF Writes, Exits, startProcess, StartFails, Spawn
  <2>2. \/ route' = route
        \/ /\ route[p] \in {"none", "stored"}
           /\ \E x \in {"stored", "spawned", "refused"} : route' = [route EXCEPT ![p] = x]
    BY <1>2 DEF Writes, Exits, startProcess, StartFails, Spawn
  <2> QED
    BY <1>a, <1>e, <2>1, <2>2 DEF TypeOK
<1>3. ASSUME NEW p \in Procs, StartEvent(p)
      PROVE  RecInv'
  <2>1. PICK data \in Records : data.status = "running" /\ data.pid /\ Start(p, p, data)
    BY <1>3, <1>a, StartEventFacts
  <2>2. route[p] = "spawned" /\ \E x \in {"next", "pid"} : route' = [route EXCEPT ![p] = x]
    BY <1>3, <1>a, StartEventFacts
  <2>3. /\ route'[p] \in {"next", "pid"}
        /\ \A q \in Procs : q # p => route'[q] = route[q]
    BY <1>a, <2>2 DEF TypeOK
  <2>4. rec'[p] = Merge(rec[p], data) /\ \A q \in Procs : q # p => rec'[q] = rec[q]
    BY <1>a, <1>d, <2>1, StartFacts
  <2>5. rec'[p].status = rec[p].status /\ rec'[p].pid
    <3>1. /\ Merge(rec[p], data).status = rec[p].status
          /\ Merge(rec[p], data).pid = (rec[p].pid \/ data.pid)
      BY <1>g, <2>1, MergeFacts
    <3>2. Merge(rec[p], data).pid
      BY <2>1, <3>1
    <3> QED
      BY <2>4, <3>1, <3>2
  <2>6. rec[p].status \in Terminal => signalled[p]
    BY <1>b, <2>2 DEF RecOf
  <2>7. signalled[p] => signalled'[p]
    BY <1>a, CommandEnds
  <2>8. RecOf(p)'
    BY <2>3, <2>5, <2>6, <2>7 DEF RecOf, Whole
  <2> QED
    BY <1>f, <2>3, <2>4, <2>8
<1>4. ASSUME NEW p \in Procs, OutputEvent(p)
      PROVE  RecInv'
  <2>1. /\ route[p] = "next"
        /\ rec'[p] = [status |-> rec[p].status, out |-> rec[p].out + 1,
                      exit |-> rec[p].exit, pid |-> rec[p].pid]
        /\ \A q \in Procs : q # p => rec'[q] = rec[q]
        /\ route' \in {route, [route EXCEPT ![p] = "aborted"]}
    BY <1>4, <1>a, OutputFacts
  <2>2. rec'[p].status = rec[p].status /\ rec'[p].pid = rec[p].pid
    BY <2>1
  <2>3. /\ route'[p] \in {"next", "aborted"}
        /\ \A q \in Procs : q # p => route'[q] = route[q]
    BY <1>a, <2>1 DEF TypeOK
  <2>4. /\ rec[p].status \in Terminal => signalled[p]
        /\ rec[p].pid \/ rec[p].status \in Terminal
    BY <1>b, <2>1 DEF RecOf, Streaming
  <2>5. signalled[p] => signalled'[p]
    BY <1>a, CommandEnds
  <2>6. RecOf(p)'
    BY <2>2, <2>3, <2>4, <2>5 DEF RecOf, Whole
  <2> QED
    BY <1>f, <2>1, <2>3, <2>6
<1>5. ASSUME NEW p \in Procs, CompleteEvent(p)
      PROVE  RecInv'
  <2>1. route[p] = "next" /\ exit[p] # "none" /\ rec[p].out = made[p] - late[p]
    BY <1>5, <1>a, CompleteFacts DEF Drained
  <2>2. PICK data \in Records :
          /\ data.status \in {"completed", "failed"}
          /\ \/ Start(p, p, data) /\ route' = [route EXCEPT ![p] = "complete"]
             \/ /\ rec' = [rec EXCEPT ![p] = Merge(rec[p], data)]
                /\ route' = [route EXCEPT ![p] = "aborted"]
    BY <1>5, <1>a, CompleteFacts
  <2>3. rec'[p] = Merge(rec[p], data) /\ \A q \in Procs : q # p => rec'[q] = rec[q]
    <3>1. CASE Start(p, p, data)
      BY <1>a, <1>d, <3>1, StartFacts
    <3>2. CASE rec' = [rec EXCEPT ![p] = Merge(rec[p], data)]
      BY <1>a, <3>2 DEF TypeOK
    <3> QED
      BY <2>2, <3>1, <3>2
  <2>4. /\ route'[p] \in {"complete", "aborted"}
        /\ \A q \in Procs : q # p => route'[q] = route[q]
    BY <1>a, <2>2 DEF TypeOK
  <2>5. rec'[p].out = rec[p].out /\ rec'[p].status \in Terminal
    BY <1>g, <2>2, <2>3, MergeFacts DEF Terminal
  <2>6. exit'[p] # "none" /\ made'[p] = made[p] /\ late'[p] = late[p]
    BY <1>a, <2>1, CommandEnds
  <2>7. RecOf(p)'
    BY <2>1, <2>4, <2>5, <2>6 DEF RecOf, Whole
  <2> QED
    BY <1>f, <2>3, <2>4, <2>7
<1>6. ASSUME NEW p \in Procs, ErrorEvent(p)
      PROVE  RecInv'
  <2>1. /\ rec'[p].status = "error"
        /\ \A q \in Procs : q # p => rec'[q] = rec[q]
        /\ \E x \in {"aborted", "done"} : route' = [route EXCEPT ![p] = x]
    BY <1>6, <1>a, ErrorFacts
  <2>2. /\ route'[p] \in {"aborted", "done"}
        /\ \A q \in Procs : q # p => route'[q] = route[q]
    BY <1>a, <2>1 DEF TypeOK
  <2>3. RecOf(p)'
    BY <2>1, <2>2 DEF RecOf, Terminal
  <2> QED
    BY <1>f, <2>1, <2>2, <2>3
<1>7. ASSUME NEW a \in Actors, Store(a)
      PROVE  RecInv'
  <2>1. rec' = rec
    BY <1>7 DEF Store, UpdateRead, UpdateWritten
  <2>2. \/ route' = route
        \/ up[a].kind # "none" /\ \E threw \in BOOLEAN : AfterUpdate(a, up[a].of, threw)
    BY <1>7, <1>a, UpdateReadFacts, UpdateWrittenFacts DEF Store
  <2>3. ASSUME up[a].kind # "none", NEW threw \in BOOLEAN, AfterUpdate(a, up[a].of, threw)
        PROVE  RecInv'
    <3>1. a \in Calls => route' = route
      BY <1>a, <2>3, AfterFacts
    <3>2. a \in Procs =>
            /\ \A q \in Procs : q # a => route'[q] = route[q]
            /\ \/ route[a] = "complete" /\ route'[a] = "done"
               \/ route[a] = "pid" /\ route'[a] \in {"next", "refused"}
      BY <1>a, <2>3, AfterFacts
    <3> QED
      BY <1>e, <2>1, <3>1, <3>2 DEF Actors
  <2> QED
    BY <1>e, <2>1, <2>2, <2>3
<1>8. ASSUME NEW c \in Calls,
             \/ Call(c) \/ KillAll(c) \/ KillNext(c) \/ GetRead(c) \/ GetWaited(c)
             \/ Signal(c) \/ Cancel(c)
      PROVE  RecInv'
  <2>1. UNCHANGED << rec, route >>
    BY <1>8 DEF Call, KillAll, KillNext, GetRead, GetWaited, Signal, Cancel
  <2> QED
    BY <1>e, <2>1
<1>9. ASSUME NEW c \in Calls, MarkKilled(c)
      PROVE  RecInv'
  <2> PICK p : p = target[c]
    OBVIOUS
  <2>1. p \in Procs /\ signalled[p] /\ \E data \in Records : Start(c, p, data)
    BY <1>9, <1>a, MarkKilledFacts
  <2>2. PICK data \in Records : data.status = "killed" /\ Start(c, p, data)
    BY <1>9, <1>a, MarkKilledFacts
  <2>3. /\ rec'[p] = Merge(rec[p], data) \/ rec'[p] = rec[p]
        /\ \A q \in Procs : q # p => rec'[q] = rec[q]
    <3>1. p \in Procs /\ c \in Actors /\ Start(c, p, data)
      BY <1>d, <2>1, <2>2
    <3> QED
      BY <1>a, <3>1, StartFacts
  <2>4. UNCHANGED << route, signalled >>
    BY <1>9 DEF MarkKilled, cmdVars
  <2>5. rec'[p] = rec[p] \/ rec'[p].status \in Terminal
    BY <1>g, <2>1, <2>2, <2>3, MergeFacts DEF Terminal
  <2>6. RecOf(p)'
    <3>1. CASE rec'[p] = rec[p]
      BY <1>a, <1>b, <2>1, <2>4, <3>1, RecKept
    <3>2. CASE rec'[p].status \in Terminal
      BY <2>1, <2>4, <3>2 DEF RecOf, Whole
    <3> QED
      BY <2>5, <3>1, <3>2
  <2> QED
    BY <1>f, <2>1, <2>3, <2>4, <2>6
<1> QED
  BY <1>1, <1>2, <1>3, <1>4, <1>5, <1>6, <1>7, <1>8, <1>9 DEF Next, Events, Continue

\* What is in a file stays whole, if what is put there is.
LEMMA FileStep ==
  ASSUME IInv, FileInv, [Next]_vars,
         \A p \in Procs : \/ disk'[p] = disk[p]
                          \/ disk'[p] \notin Records
                          \/ \E r \in Records : disk'[p] = r /\ Whole(p, r),
         \A a \in Actors :
           \/ up'[a] = up[a]
           \/ up'[a].kind \notin {"memory", "file"}
           \/ \E p \in Procs, r \in Records :
                up'[a].of = p /\ up'[a].data = r /\ (Whole(p, r) \/ Whole(p, r)')
  PROVE  FileInv'
<1>a. TypeOK /\ UpInv
  BY DEF IInv
<1>1. ASSUME NEW p \in Procs, disk'[p] \in Records
      PROVE  Whole(p, disk[p])'
  <2>1. PICK r \in Records : disk'[p] = r /\ Whole(p, r)
    BY <1>1 DEF FileInv
  <2>2. Whole(p, r)'
    BY <1>a, <2>1, WholeKept
  <2> QED
    BY <2>1, <2>2 DEF Whole
<1>2. ASSUME NEW a \in Actors, up'[a].kind \in {"memory", "file"}
      PROVE  Whole(up[a].of, up[a].data)'
  <2>1. PICK p \in Procs, r \in Records :
          up'[a].of = p /\ up'[a].data = r /\ (Whole(p, r) \/ Whole(p, r)')
    BY <1>a, <1>2 DEF FileInv, UpInv
  <2>2. Whole(p, r)'
    BY <1>a, <2>1, WholeKept
  <2> QED
    BY <2>1, <2>2 DEF Whole
<1> QED
  BY <1>1, <1>2 DEF FileInv

\* An update() that starts writes what the record then says.
LEMMA FileStarted ==
  ASSUME IInv, FileInv, [Next]_vars, NEW a \in Actors, NEW p \in Procs,
         NEW data \in Records, Start(a, p, data),
         rec'[p].status \in Terminal => Whole(p, rec[p])'
  PROVE  FileInv'
<1>a. TypeOK /\ UpInv
  BY DEF IInv
<1>1. /\ rec' \in [Procs -> Records]
      /\ \A q \in Procs : q # p => disk'[q] = disk[q]
      /\ \A b \in Actors : b # a => up'[b] = up[b]
  BY <1>a, StartFacts
<1>2. \/ rec'[p].status \in Terminal /\ disk'[p] = Partial
         /\ up'[a] = [kind |-> "memory", of |-> p, data |-> rec'[p]]
      \/ disk' = disk /\ up'[a] = [kind |-> "read", of |-> p, data |-> data]
      \/ disk' = disk /\ up' = up
  BY <1>a, StartFacts
<1>3. \A q \in Procs : disk'[q] = disk[q] \/ disk'[q] \notin Records
  BY <1>1, <1>2, FilesAssumption
<1>4. CASE /\ rec'[p].status \in Terminal
           /\ up'[a] = [kind |-> "memory", of |-> p, data |-> rec'[p]]
  <2> PICK r : r = rec'[p]
    OBVIOUS
  <2>1. r \in Records /\ Whole(p, r)'
    BY <1>1, <1>4 DEF Whole
  <2>2. up'[a].of = p /\ up'[a].data = r
    BY <1>4
  <2> QED
    BY <1>1, <1>3, <2>1, <2>2, FileStep
<1>5. CASE up'[a] = [kind |-> "read", of |-> p, data |-> data] \/ up' = up
  BY <1>1, <1>3, <1>5, FileStep
<1> QED
  BY <1>2, <1>4, <1>5

\* Every step keeps the files.
LEMMA NextFile == IInv /\ RecInv /\ FileInv /\ [Next]_vars => FileInv'
<1> SUFFICES ASSUME IInv, RecInv, FileInv, [Next]_vars PROVE FileInv'
  OBVIOUS
<1>a. TypeOK /\ UpInv /\ ListenInv /\ CallInv
  BY DEF IInv
<1>b. RecInv'
  BY NextRec
<1>c. Procs \subseteq Actors /\ Calls \subseteq Actors
  BY DEF Actors
<1>d. UNCHANGED << disk, up >> => FileInv'
  BY FileStep
<1>1. CASE UNCHANGED vars
  BY <1>1, <1>d DEF vars, storeVars
<1>2. ASSUME NEW p \in Procs,
             \/ Writes(p) \/ Exits(p) \/ startProcess(p) \/ StartFails(p) \/ Spawn(p)
             \/ OutputEvent(p) \/ ErrorEvent(p)
      PROVE  FileInv'
  BY <1>2, <1>d DEF Writes, Exits, startProcess, StartFails, Spawn, OutputEvent, ErrorEvent,
                    storeVars
<1>3. ASSUME NEW p \in Procs, StartEvent(p)
      PROVE  FileInv'
  <2>1. PICK data \in Records : Start(p, p, data)
    BY <1>3, <1>a, StartEventFacts
  <2>2. route[p] = "spawned" /\ \E x \in {"next", "pid"} : route' = [route EXCEPT ![p] = x]
    BY <1>3, <1>a, StartEventFacts
  <2>3. route'[p] \in {"next", "pid"}
    BY <1>a, <2>2 DEF TypeOK
  <2>4. rec'[p].status \in Terminal => Whole(p, rec[p])'
    BY <1>b, <2>3 DEF RecInv, Whole
  <2> QED
    BY <1>c, <2>1, <2>4, FileStarted
<1>4. ASSUME NEW p \in Procs, CompleteEvent(p)
      PROVE  FileInv'
  <2>1. PICK data \in Records :
          /\ data.status \in {"completed", "failed"}
          /\ \/ Start(p, p, data)
             \/ UNCHANGED << disk, up >>
    BY <1>4, <1>a, CompleteFacts
  <2>2. CASE Start(p, p, data)
    <3>1. rec'[p] = Merge(rec[p], data)
      BY <1>a, <1>c, <2>2, StartFacts
    <3>2. rec[p] \in Records
      BY <1>a DEF TypeOK
    <3>3. rec'[p].status # "error"
      BY <2>1, <3>1, <3>2, MergeFacts
    <3>4. rec'[p].status \in Terminal => Whole(p, rec[p])'
      BY <1>b, <3>3 DEF RecInv
    <3> QED
      BY <1>c, <2>2, <3>4, FileStarted
  <2>3. CASE UNCHANGED << disk, up >>
    BY <1>d, <2>3
  <2> QED
    BY <2>1, <2>2, <2>3
<1>5. ASSUME NEW a \in Actors, UpdateRead(a)
      PROVE  FileInv'
  <2> PICK p : p = up[a].of
    OBVIOUS
  <2>1. /\ p \in Procs /\ up[a].data \in Records
        /\ \A b \in Actors : b # a => up'[b] = up[b]
    BY <1>5, <1>a, UpdateReadFacts
  <2>2. \/ /\ disk[p] \in Records
           /\ up'[a] = [kind |-> "file", of |-> p, data |-> Merge(disk[p], up[a].data)]
           /\ disk' = [disk EXCEPT ![p] = Partial]
        \/ disk' = disk /\ up'[a] = NoUpdate
    BY <1>5, <1>a, UpdateReadFacts
  <2>3. CASE /\ disk[p] \in Records
             /\ up'[a] = [kind |-> "file", of |-> p, data |-> Merge(disk[p], up[a].data)]
             /\ disk' = [disk EXCEPT ![p] = Partial]
    <3> PICK r : r = Merge(disk[p], up[a].data)
      OBVIOUS
    <3>1. r \in Records /\ r.out = disk[p].out
      BY <2>1, <2>3, MergeFacts
    <3>2. Whole(p, r)
      BY <2>1, <2>3, <3>1 DEF FileInv, Whole
    <3>3. up'[a].of = p /\ up'[a].data = r
      BY <2>3
    <3>4. \A q \in Procs : disk'[q] = disk[q] \/ disk'[q] \notin Records
      BY <1>a, <2>1, <2>3, FilesAssumption DEF TypeOK
    <3> QED
      BY <2>1, <3>1, <3>2, <3>3, <3>4, FileStep
  <2>4. CASE disk' = disk /\ up'[a] = NoUpdate
    BY <2>1, <2>4, FileStep DEF NoUpdate
  <2> QED
    BY <2>2, <2>3, <2>4
<1>6. ASSUME NEW a \in Actors, UpdateWritten(a)
      PROVE  FileInv'
  <2> PICK p : p = up[a].of
    OBVIOUS
  <2> PICK r : r = up[a].data
    OBVIOUS
  <2>1. /\ up[a].kind \in {"memory", "file"} /\ p \in Procs /\ r \in Records
        /\ up'[a] = NoUpdate
        /\ \A b \in Actors : b # a => up'[b] = up[b]
        /\ disk' = [disk EXCEPT ![p] = r] \/ disk' = [disk EXCEPT ![p] = Partial]
    BY <1>6, <1>a, UpdateWrittenFacts
  <2>2. Whole(p, r)
    BY <2>1 DEF FileInv
  <2>3. \A q \in Procs : \/ disk'[q] = disk[q]
                         \/ disk'[q] \notin Records
                         \/ \E s \in Records : disk'[q] = s /\ Whole(q, s)
    BY <1>a, <2>1, <2>2, FilesAssumption DEF TypeOK
  <2> QED
    BY <2>1, <2>3, FileStep DEF NoUpdate
<1>7. ASSUME NEW c \in Calls,
             \/ Call(c) \/ KillAll(c) \/ KillNext(c) \/ GetRead(c) \/ GetWaited(c)
             \/ Signal(c) \/ Cancel(c)
      PROVE  FileInv'
  BY <1>7, <1>d DEF Call, KillAll, KillNext, GetRead, GetWaited, Signal, Cancel, storeVars
<1>8. ASSUME NEW c \in Calls, MarkKilled(c)
      PROVE  FileInv'
  <2> PICK p : p = target[c]
    OBVIOUS
  <2>1. p \in Procs /\ signalled[p]
    BY <1>8, <1>a, MarkKilledFacts
  <2>2. PICK data \in Records : Start(c, p, data)
    BY <1>8, <1>a, MarkKilledFacts
  <2>3. signalled'[p]
    BY <1>a, <2>1, CommandEnds
  <2> QED
    BY <1>c, <2>1, <2>2, <2>3, FileStarted DEF Whole
<1> QED
  BY <1>1, <1>2, <1>3, <1>4, <1>5, <1>6, <1>7, <1>8 DEF Next, Events, Store, Continue

\* A chain of events that a log stream has broken stays broken.
LEMMA AbortedStays ==
  ASSUME TypeOK, UpInv, ListenInv, CallInv, [Next]_vars, NEW p \in Procs, route[p] = "aborted"
  PROVE  route'[p] = "aborted"
<1>1. ASSUME NEW q \in Procs,
             \/ startProcess(q) \/ StartFails(q) \/ Spawn(q) \/ StartEvent(q)
             \/ OutputEvent(q) \/ CompleteEvent(q) \/ ErrorEvent(q)
      PROVE  route'[p] = "aborted"
  <2>1. route[q] \in {"none", "stored", "spawned", "next"}
    BY <1>1 DEF startProcess, StartFails, Spawn, StartEvent, OutputEvent, CompleteEvent,
                ErrorEvent
  <2>2. \E x : route' = [route EXCEPT ![q] = x]
    BY <1>1 DEF startProcess, StartFails, Spawn, StartEvent, OutputEvent, CompleteEvent,
                ErrorEvent
  <2> QED
    BY <2>1, <2>2 DEF TypeOK
<1>2. ASSUME NEW a \in Actors, Store(a)
      PROVE  route'[p] = "aborted"
  <2>1. \/ route' = route
        \/ up[a].kind # "none" /\ \E threw \in BOOLEAN : AfterUpdate(a, up[a].of, threw)
    BY <1>2, UpdateReadFacts, UpdateWrittenFacts DEF Store
  <2>2. ASSUME up[a].kind # "none", NEW threw \in BOOLEAN, AfterUpdate(a, up[a].of, threw)
        PROVE  route'[p] = "aborted"
    BY <2>2, AfterFacts DEF Actors
  <2> QED
    BY <2>1, <2>2
<1>3. CASE route' = route
  BY <1>3
<1>4. CASE \E q \in Procs : Writes(q) \/ Exits(q)
  BY <1>3, <1>4 DEF Writes, Exits
<1>5. CASE \E c \in Calls : \/ Call(c) \/ KillAll(c) \/ Continue(c) \/ Cancel(c)
  BY <1>3, <1>5 DEF Call, KillAll, Continue, KillNext, GetRead, GetWaited, Signal, MarkKilled,
                    Cancel
<1>6. CASE UNCHANGED vars
  BY <1>3, <1>6 DEF vars
<1> QED
  BY <1>1, <1>2, <1>3, <1>4, <1>5, <1>6 DEF Next, Events

\* What a call was told stays so, and what it is told now has to be.
LEMMA ResultStep ==
  ASSUME IInv, ResultInv, [Next]_vars,
         \A c \in Calls :
           \/ result'[c] = None
           \/ result'[c] = result[c] /\ target'[c] = target[c] /\ began'[c] = began[c]
           \/ \E p \in Procs, r \in Records :
                /\ target'[c] = p /\ result'[c] = r
                /\ r.status \in Terminal \/ p \in began'[c] =>
                     Whole(p, r) \/ r.status = "error" \/ route[p] = "aborted"
  PROVE  ResultInv'
<1>a. TypeOK /\ UpInv /\ ListenInv /\ CallInv
  BY DEF IInv
<1>1. ASSUME NEW c \in Calls, result'[c] # None
      PROVE  /\ target'[c] \in Procs
             /\ result'[c].status \in Terminal \/ target'[c] \in began'[c] =>
                  \/ Whole(target[c], result[c])'
                  \/ result'[c].status = "error"
                  \/ route'[target'[c]] = "aborted"
  <2>1. PICK p \in Procs, r \in Records :
          /\ target'[c] = p /\ result'[c] = r
          /\ r.status \in Terminal \/ p \in began'[c] =>
               Whole(p, r) \/ r.status = "error" \/ route[p] = "aborted"
    <3>1. CASE result'[c] = result[c] /\ target'[c] = target[c] /\ began'[c] = began[c]
      <4>1. result[c] \in Records
        BY <1>1, <1>a, <3>1 DEF TypeOK
      <4>2. target[c] \in Procs
        BY <1>1, <3>1 DEF ResultInv
      <4>3. result[c].status \in Terminal \/ target[c] \in began[c] =>
              \/ Whole(target[c], result[c])
              \/ result[c].status = "error"
              \/ route[target[c]] = "aborted"
        BY <1>1, <3>1 DEF ResultInv
      <4> QED
        BY <3>1, <4>1, <4>2, <4>3
    <3> QED
      BY <1>1, <3>1
  <2>2. Whole(p, r) => Whole(p, r)'
    BY <1>a, WholeKept
  <2>3. route[p] = "aborted" => route'[p] = "aborted"
    BY <1>a, AbortedStays
  <2>4. Whole(p, r)' => Whole(target[c], result[c])'
    BY <2>1 DEF Whole
  <2> QED
    BY <2>1, <2>2, <2>3, <2>4
<1> QED
  BY <1>1 DEF ResultInv

\* Every step keeps what the calls were told.
LEMMA NextResult == IInv /\ RecInv /\ FileInv /\ ResultInv /\ [Next]_vars => ResultInv'
<1> SUFFICES ASSUME IInv, RecInv, FileInv, ResultInv, [Next]_vars PROVE ResultInv'
  OBVIOUS
<1>a. TypeOK /\ UpInv /\ ListenInv /\ CallInv
  BY DEF IInv
<1>b. \A p \in Procs : rec[p] \in Records /\ RecOf(p)
  BY <1>a DEF RecInv, RecOf, TypeOK
<1>c. UNCHANGED << result, target, began >> => ResultInv'
  BY ResultStep
<1>1. CASE UNCHANGED vars
  BY <1>1, <1>c DEF vars, callVars
<1>2. ASSUME NEW p \in Procs,
             \/ Writes(p) \/ Exits(p) \/ startProcess(p) \/ StartFails(p) \/ Spawn(p)
             \/ StartEvent(p) \/ OutputEvent(p) \/ CompleteEvent(p) \/ ErrorEvent(p)
      PROVE  ResultInv'
  BY <1>2, <1>c DEF Writes, Exits, startProcess, StartFails, Spawn, StartEvent, OutputEvent,
                    CompleteEvent, ErrorEvent, callVars
<1>3. ASSUME NEW a \in Actors, Store(a)
      PROVE  ResultInv'
  <2>1. UNCHANGED << target, began >>
    BY <1>3 DEF Store, UpdateRead, UpdateWritten
  <2>2. result' = result
    BY <1>3 DEF Store, UpdateRead, UpdateWritten, AfterUpdate
  <2> QED
    BY <1>c, <2>1, <2>2
<1>4. ASSUME NEW c \in Calls, Signal(c) \/ MarkKilled(c) \/ Cancel(c)
      PROVE  ResultInv'
  BY <1>4, <1>c DEF Signal, MarkKilled, Cancel, callVars
<1>5. ASSUME NEW c \in Calls, KillAll(c) \/ KillNext(c)
      PROVE  ResultInv'
  <2>1. result[c] = None
    BY <1>5, <1>a DEF KillAll, KillNext, CallInv
  <2>2. result' = result
    BY <1>5, <1>a, KillNextFacts DEF KillAll
  <2>3. \A d \in Calls : d # c => target'[d] = target[d] /\ began'[d] = began[d]
    <3>1. CASE KillAll(c)
      BY <1>a, <3>1 DEF KillAll, TypeOK
    <3>2. CASE KillNext(c)
      <4>1. began' = began
        BY <3>2 DEF KillNext
      <4> QED
        BY <1>a, <3>2, <4>1, KillNextFacts
    <3> QED
      BY <1>5, <3>1, <3>2
  <2> QED
    BY <2>1, <2>2, <2>3, ResultStep
<1>6. ASSUME NEW c \in Calls, Call(c)
      PROVE  ResultInv'
  <2>1. /\ pc[c] = "idle"
        /\ began' = [began EXCEPT ![c] = {p \in Procs : Streaming(p) /\ exit[p] # "none"}]
    BY <1>6, <1>a, CallFacts
  <2>2. PICK o \in Ops \ {"killAll"}, p \in Procs :
          /\ target' = [target EXCEPT ![c] = p]
          /\ Moves(c, o, p, rec[p])
          /\ result' # result => ~ MustWait(p)
    BY <1>6, <1>a, CallFacts
  <2>3. result[c] = None
    BY <1>a, <2>1 DEF CallInv
  <2>4. target'[c] = p /\ \A d \in Calls : d # c => target'[d] = target[d]
    BY <1>a, <2>2 DEF TypeOK
  <2>5. /\ began'[c] = {q \in Procs : Streaming(q) /\ exit[q] # "none"}
        /\ \A d \in Calls : d # c => began'[d] = began[d]
    BY <1>a, <2>1 DEF TypeOK
  <2>6. \A d \in Calls : d # c => result'[d] = result[d]
    BY <2>2 DEF Moves
  <2>7. CASE result' = result
    BY <2>3, <2>4, <2>5, <2>6, <2>7, ResultStep
  <2>8. CASE result' # result
    <3>1. result'[c] = rec[p] /\ ~ MustWait(p)
      BY <2>2, <2>8 DEF Moves
    <3>2. p \notin began'[c]
      <4>1. Streaming(p) /\ exit[p] # "none" => rec[p].pid \/ rec[p].status \in Terminal
        BY <1>b DEF RecOf
      <4> QED
        BY <2>5, <3>1, <4>1 DEF MustWait, Running
    <3>3. rec[p].status \in Terminal => Whole(p, rec[p]) \/ rec[p].status = "error"
      BY <1>b DEF RecOf
    <3>4. \E q \in Procs, r \in Records :
            /\ target'[c] = q /\ result'[c] = r
            /\ r.status \in Terminal \/ q \in began'[c] =>
                 Whole(q, r) \/ r.status = "error" \/ route[q] = "aborted"
      BY <1>b, <2>4, <3>1, <3>2, <3>3
    <3> QED
      BY <2>4, <2>5, <2>6, <3>4, ResultStep
  <2> QED
    BY <2>7, <2>8
<1>7. ASSUME NEW c \in Calls, GetRead(c) \/ GetWaited(c)
      PROVE  ResultInv'
  <2> PICK p : p = target[c]
    OBVIOUS
  <2>1. UNCHANGED << target, began >>
    BY <1>7 DEF GetRead, GetWaited
  <2>2. p \in Procs
    BY <1>7, <1>a, GetReadFacts, GetWaitedFacts
  <2>3. \A d \in Calls : d # c => result'[d] = result[d]
    BY <1>7, <1>a, GetReadFacts, GetWaitedFacts DEF Moves
  <2>4. CASE result' = result
    BY <1>c, <2>1, <2>4
  <2>5. CASE result' # result
    <3>1. ASSUME NEW r \in Records, result'[c] = r,
                 r.status \in Terminal \/ p \in began[c] =>
                   Whole(p, r) \/ r.status = "error" \/ route[p] = "aborted"
          PROVE  ResultInv'
      BY <2>1, <2>2, <2>3, <3>1, ResultStep
    <3>2. CASE GetRead(c)
      <4>1. result'[c] = disk[p] /\ disk[p] \in Records
        BY <1>a, <2>5, <3>2, GetReadFacts DEF Moves
      <4>2. Whole(p, disk[p])
        BY <2>2, <4>1 DEF FileInv
      <4> QED
        BY <3>1, <4>1, <4>2
    <3>3. CASE GetWaited(c)
      <4>1. Ended(p) /\ Moves(c, op[c], p, rec[p])
        BY <1>a, <3>3, GetWaitedFacts
      <4>2. result'[c] = rec[p]
        BY <2>5, <4>1 DEF Moves
      <4>3. route[p] = "aborted" \/ Whole(p, rec[p]) \/ rec[p].status = "error"
        BY <1>b, <2>2, <4>1 DEF Ended, RecOf
      <4> QED
        BY <1>b, <2>2, <3>1, <4>2, <4>3
    <3> QED
      BY <1>7, <3>2, <3>3
  <2> QED
    BY <2>4, <2>5
<1> QED
  BY <1>1, <1>2, <1>3, <1>4, <1>5, <1>6, <1>7 DEF Next, Events, Continue

\* What a call says of a process that has ended is all of its output that was
\* in the log when it was read for the last time (session.ts:893-929), unless
\* it was killed, its session failed, or a log stream broke its chain of
\* events (process-service.ts:275).
THEOREM OutputIsCaptured == Spec => []OutputCaptured
<1>1. Init => IInv /\ OutInv
  BY InitIInv, InitOutInv
<1>2. IInv /\ OutInv /\ [Next]_vars => (IInv /\ OutInv)'
  BY NextIInv, NextRec, NextFile, NextResult DEF OutInv
<1>3. OutInv => OutputCaptured
  BY DEF OutInv, ResultInv, OutputCaptured, Whole
<1> QED
  BY <1>1, <1>2, <1>3, PTL DEF Spec

=============================================================================
