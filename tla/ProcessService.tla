--------------------------- MODULE ProcessService ---------------------------
(***************************************************************************)
(* Background processes of the container: services/process-service.ts with *)
(* services/process-store.ts, managers/process-manager.ts and the log      *)
(* stream of handlers/process-handler.ts.                                  *)
(*                                                                         *)
(* The command itself is what executeStreamInSession shows of it: a first  *)
(* event under the mutex of the session, then output, then 'complete' or   *)
(* 'error', each pulled when the handler of the one before has returned.   *)
(* Output is counted, not spelled out.                                     *)
(***************************************************************************)
EXTENDS Naturals, Sequences, FiniteSets, SequencesExt

CONSTANTS
  Procs,          \* processes that are started, by id
  Calls,          \* calls about them
  Ops,            \* the operations clients use
  None,           \* no process, no record
  Absent,         \* the content of a file that is not there
  Partial,        \* the content of a file that is being written: it does not parse
  MaxOutput,      \* bound: lines of output of a process
  SessionsFail,   \* may the session fail, or its shell die?
  WritesFail,     \* may a file write fail?
  ClientsCancel   \* may a client go away while it reads a log stream?

AllOps == {"get", "kill", "killAll", "stream"}

ASSUME OpsAssumption  == Ops \subseteq AllOps
ASSUME NameAssumption == Procs \cap Calls = {} /\ None \notin Procs
ASSUME BoundAssumption == MaxOutput \in Nat
ASSUME FlagAssumption ==
  {SessionsFail, WritesFail, ClientsCancel} \subseteq BOOLEAN

VARIABLES
  \* the commands, as the session runs them
  made,       \* made[p]: lines the command has written
  exit,       \* exit[p]: its exit code, once it is in the exit file
  late,       \* late[p]: lines that are not in the log when it is read for the last time
  orphan,     \* orphan[p]: has SIGTERM ended the subshell that runs it?
  tracked,    \* tracked[p]: is it in runningCommands of its session?
  signalled,  \* signalled[p]: was it sent SIGTERM?
  \* the service
  rec,        \* rec[p]: the record the event handler of p refers to
  route,      \* route[p]: how far executeCommandStream and its events are
  listeners,  \* listeners[p]: log streams that listen to the record, in order
  \* the store
  processes,  \* records in memory
  disk,       \* disk[p]: the file of p
  broken,     \* broken[p]: has a write of its file failed?
  up,         \* up[a]: the update() that p's events, or a call, are in
  \* the calls
  op, target, pc,
  todo,       \* todo[c]: processes a killAll has yet to kill
  seen,       \* seen[c]: lines a log stream was given
  result,     \* result[c]: the record a call has answered with
  began       \* history, began[c]: processes whose start had been answered when
              \* c began and, unless c is a killAll, that had ended by then

cmdVars   == << made, exit, late, orphan, tracked, signalled >>
storeVars == << processes, disk, broken >>
callVars  == << op, target, pc, todo, seen, result, began >>
vars == << cmdVars, rec, route, listeners, storeVars, up, callVars >>

Actors == Procs \cup Calls

Terminal == {"completed", "failed", "killed", "error"}

Records == [status : {"running"} \cup Terminal, out : 0..MaxOutput,
            exit : {"none", "zero", "nonzero"}, pid : BOOLEAN]

Files == Records \cup {Absent, Partial}

ASSUME FilesAssumption == Absent \notin Records /\ Partial \notin Records

Updates == [kind : {"none", "memory", "read", "file"}, of : Procs \cup {None},
            data : Records \cup {None}]

NoUpdate == [kind |-> "none", of |-> None, data |-> None]

New == [status |-> "running", out |-> 0, exit |-> "none", pid |-> FALSE]

TypeOK ==
  /\ made \in [Procs -> 0..MaxOutput]
  /\ exit \in [Procs -> {"none", "zero", "nonzero"}]
  /\ late \in [Procs -> 0..MaxOutput]
  /\ orphan \in [Procs -> BOOLEAN]
  /\ tracked \in [Procs -> BOOLEAN]
  /\ signalled \in [Procs -> BOOLEAN]
  /\ rec \in [Procs -> Records]
  /\ route \in [Procs -> {"none", "stored", "spawned", "pid", "next",
                           "complete", "done", "aborted", "refused"}]
  /\ listeners \in [Procs -> Seq(Calls)]
  /\ processes \subseteq Procs
  /\ disk \in [Procs -> Files]
  /\ broken \in [Procs -> BOOLEAN]
  /\ up \in [Actors -> Updates]
  /\ op \in [Calls -> Ops \cup {"none"}]
  /\ target \in [Calls -> Procs \cup {None}]
  /\ pc \in [Calls -> {"idle", "scan", "get", "await", "signal", "update",
                       "open", "closed", "cancelled", "done", "failed"}]
  /\ todo \in [Calls -> SUBSET Procs]
  /\ seen \in [Calls -> 0..MaxOutput]
  /\ result \in [Calls -> Records \cup {None}]
  /\ began \in [Calls -> SUBSET Procs]
  \* only a finished process is in a file
  /\ \A p \in Procs : disk[p] \in Records => disk[p].status \in Terminal

Init ==
  /\ made = [p \in Procs |-> 0]
  /\ exit = [p \in Procs |-> "none"]
  /\ late = [p \in Procs |-> 0]
  /\ orphan = [p \in Procs |-> FALSE]
  /\ tracked = [p \in Procs |-> FALSE]
  /\ signalled = [p \in Procs |-> FALSE]
  /\ rec = [p \in Procs |-> New]
  /\ route = [p \in Procs |-> "none"]
  /\ listeners = [p \in Procs |-> << >>]
  /\ processes = {}
  /\ disk = [p \in Procs |-> Absent]
  /\ broken = [p \in Procs |-> FALSE]
  /\ up = [a \in Actors |-> NoUpdate]
  /\ op = [c \in Calls |-> "none"]
  /\ target = [c \in Calls |-> None]
  /\ pc = [c \in Calls |-> "idle"]
  /\ todo = [c \in Calls |-> {}]
  /\ seen = [c \in Calls |-> 0]
  /\ result = [c \in Calls |-> None]
  /\ began = [c \in Calls |-> {}]

-----------------------------------------------------------------------------
(* The command *)

Spawned(p) == route[p] \in {"spawned", "pid", "next", "complete", "done", "aborted"}

\* Signal 0 reaches the pid: that of the subshell, which also writes the code.
Running(p) == Spawned(p) /\ exit[p] = "none" /\ ~ orphan[p]

\* A command whose subshell was killed goes on.
Writes(p) ==
  /\ Spawned(p) /\ exit[p] = "none"
  /\ made[p] < MaxOutput
  /\ made' = [made EXCEPT ![p] = @ + 1]
  /\ UNCHANGED << exit, late, orphan, tracked, signalled, rec, route, listeners, storeVars, up, callVars >>

\* Nothing waits for the labelers that copy its output to the log (SessionShell):
\* some of it may come after the last reading.
Exits(p) ==
  /\ Running(p)
  /\ \E code \in {"zero", "nonzero"} : exit' = [exit EXCEPT ![p] = code]
  /\ \E n \in 0..(made[p] - rec[p].out) : late' = [late EXCEPT ![p] = n]
  /\ UNCHANGED << made, orphan, tracked, signalled, rec, route, listeners, storeVars, up, callVars >>

-----------------------------------------------------------------------------
(* ProcessStore.update, for an actor a: the events of a process, or a call *)

\* The fields of data that are given, merged into the record r.
Merge(r, data) ==
  [r EXCEPT !.status = IF data.status = "running" THEN @ ELSE data.status,
            !.exit   = IF data.exit = "none" THEN @ ELSE data.exit,
            !.pid    = @ \/ data.pid]

Data(status, code, pid) == [status |-> status, out |-> 0, exit |-> code, pid |-> pid]

\* Mutant of Start: every update writes the file.
StartBlind(a, p, data) ==
  LET merged == Merge(rec[p], data)
  IN /\ rec' = [rec EXCEPT ![p] = merged]
     /\ disk' = [disk EXCEPT ![p] = Partial]
     /\ up' = [up EXCEPT ![a] = [kind |-> "memory", of |-> p, data |-> merged]]

\* update(), up to its first wait.  The record in memory is changed in place,
\* and its file begun when it is final; a record that is not in memory has to
\* be read.  The events have changed the record before they call update().
Start(a, p, data) ==
  LET merged == Merge(rec[p], data)
      final  == p \in processes /\ merged.status \in Terminal
  IN /\ rec' = IF p \in processes \/ a \in Procs THEN [rec EXCEPT ![p] = merged] ELSE rec
     /\ disk' = IF final THEN [disk EXCEPT ![p] = Partial] ELSE disk
     /\ up' = IF final
              THEN [up EXCEPT ![a] = [kind |-> "memory", of |-> p, data |-> merged]]
              ELSE IF p \notin processes
              THEN [up EXCEPT ![a] = [kind |-> "read", of |-> p, data |-> data]]
              ELSE up

\* A call that is over; a killAll, which counts failures, goes on.
Settled(c, failed) ==
  IF op[c] = "killAll" THEN "scan" ELSE IF failed THEN "failed" ELSE "done"

\* What follows update() for its caller: after 'start' the start is answered,
\* after 'complete' the stream ends, and a kill goes on to the next process.
AfterUpdate(a, p, threw) ==
  IF a \in Procs
  THEN /\ route' = [route EXCEPT ![a] = CASE @ = "complete" -> "done"
                                         [] @ # "complete" /\ threw -> "refused"
                                         [] OTHER -> "next"]
       /\ tracked' = [tracked EXCEPT ![a] = @ /\ route[a] # "complete"]
       /\ UNCHANGED << pc, result >>
  ELSE /\ pc' = [pc EXCEPT ![a] = Settled(a, threw)]
       /\ UNCHANGED << route, tracked, result >>

\* The file was read: it is written again, or update() throws.
UpdateRead(a) ==
  LET p == up[a].of
  IN /\ up[a].kind = "read"
     /\ \/ /\ disk[p] \in Records
           /\ up' = [up EXCEPT ![a] = [kind |-> "file", of |-> p, data |-> Merge(disk[p], up[a].data)]]
           /\ disk' = [disk EXCEPT ![p] = Partial]
           /\ UNCHANGED << route, tracked, pc, result >>
        \/ /\ disk[p] \notin Records
           /\ up' = [up EXCEPT ![a] = NoUpdate]
           /\ AfterUpdate(a, p, TRUE)
           /\ UNCHANGED disk
     /\ UNCHANGED << made, exit, late, orphan, signalled, rec, listeners, processes, broken, op, target, todo, seen, began >>

\* Mutant of Forget: a failed process is not taken for a final one.
ForgetUnlessFailed(a, p) ==
  processes' = IF up[a].kind = "memory" /\ up[a].data.status # "failed" THEN processes \ {p} ELSE processes

\* A record that was written from memory leaves it, even when the write failed.
Forget(a, p) == processes' = IF up[a].kind = "memory" THEN processes \ {p} ELSE processes

\* Bun.write returns.
UpdateWritten(a) ==
  LET p == up[a].of
  IN /\ up[a].kind \in {"memory", "file"}
     /\ up' = [up EXCEPT ![a] = NoUpdate]
     /\ Forget(a, p)
     /\ \/ /\ disk' = [disk EXCEPT ![p] = up[a].data]
           /\ AfterUpdate(a, p, FALSE)
           /\ UNCHANGED broken
        \/ /\ WritesFail
           /\ disk' = [disk EXCEPT ![p] = Partial]
           /\ broken' = [broken EXCEPT ![p] = TRUE]
           /\ AfterUpdate(a, p, up[a].kind = "file")
     /\ UNCHANGED << made, exit, late, orphan, signalled, rec, listeners, op, target, todo, seen, began >>

-----------------------------------------------------------------------------
(* executeCommandStream *)

\* Mutant of startProcess: the record is not stored before the session is ready.
startProcessUnstored(p) ==
  /\ route[p] = "none"
  /\ route' = [route EXCEPT ![p] = "stored"]
  /\ UNCHANGED << cmdVars, rec, listeners, storeVars, up, callVars >>

\* The record is stored before the start waits for its session.
startProcess(p) ==
  /\ route[p] = "none"
  /\ route' = [route EXCEPT ![p] = "stored"]
  /\ processes' = processes \cup {p}
  /\ UNCHANGED << cmdVars, rec, listeners, disk, broken, up, callVars >>

\* There is no session: the start is answered with an error.
StartFails(p) ==
  /\ SessionsFail
  /\ route[p] = "stored"
  /\ route' = [route EXCEPT ![p] = "refused"]
  /\ UNCHANGED << cmdVars, rec, listeners, storeVars, up, callVars >>

\* The command is tracked and the shell runs it; its pid file is there before
\* its 'start' event.
Spawn(p) ==
  /\ route[p] = "stored"
  /\ route' = [route EXCEPT ![p] = "spawned"]
  /\ tracked' = [tracked EXCEPT ![p] = TRUE]
  /\ UNCHANGED << made, exit, late, orphan, signalled, rec, listeners, storeVars, up, callVars >>

\* The 'start' event.  With nothing to read or write, update() ends at once.
StartEvent(p) ==
  /\ route[p] = "spawned"
  /\ Start(p, p, Data("running", "none", TRUE))
  /\ route' = [route EXCEPT ![p] = IF up'[p] = NoUpdate THEN "next" ELSE "pid"]
  /\ UNCHANGED << cmdVars, listeners, processes, broken, callVars >>

\* A controller that is closed or cancelled throws when it is written to.
Dead(c) == pc[c] # "open"

\* The listeners that are reached before one throws.
Reached(p) ==
  {c \in Calls : \E i \in DOMAIN listeners[p] :
     listeners[p][i] = c /\ \A j \in 1..i : ~ Dead(listeners[p][j])}

Throws(p) == \E i \in DOMAIN listeners[p] : Dead(listeners[p][i])

\* An event with output.  If a listener throws, so does the loop over the
\* events, and nothing reads the later ones.
OutputEvent(p) ==
  /\ route[p] = "next"
  /\ rec[p].out < made[p] - late[p]
  /\ rec' = [rec EXCEPT ![p].out = @ + 1]
  /\ seen' = [c \in Calls |-> IF c \in Reached(p) THEN seen[c] + 1 ELSE seen[c]]
  /\ route' = [route EXCEPT ![p] = IF Throws(p) THEN "aborted" ELSE @]
  /\ UNCHANGED << cmdVars, listeners, storeVars, up, op, target, pc, todo, result, began >>

interpretExitCode(code) == IF code = "zero" THEN "completed" ELSE "failed"

\* execStream reads the log once more before the end.
Drained(p) == rec[p].out = made[p] - late[p]

\* The 'complete' event: the record first, then the log streams, then the
\* store.  If a listener throws, the store is not told.
CompleteEvent(p) ==
  /\ route[p] = "next" /\ exit[p] # "none" /\ Drained(p)
  /\ pc' = [c \in Calls |-> IF c \in Reached(p) THEN "closed" ELSE pc[c]]
  /\ LET data == Data(interpretExitCode(exit[p]), exit[p], FALSE)
     IN \/ /\ ~ Throws(p)
           /\ Start(p, p, data)
           /\ route' = [route EXCEPT ![p] = "complete"]
        \/ /\ Throws(p)
           /\ rec' = [rec EXCEPT ![p] = Merge(@, data)]
           /\ route' = [route EXCEPT ![p] = "aborted"]
           /\ UNCHANGED << disk, up >>
  /\ UNCHANGED << cmdVars, listeners, processes, broken, op, target, todo, seen, result, began >>

\* An 'error' event, the first or a later one: the shell of the session died.
\* Only the record in memory is changed.
ErrorEvent(p) ==
  /\ SessionsFail
  /\ route[p] \in {"stored", "spawned", "next"}
  /\ rec' = [rec EXCEPT ![p].status = "error"]
  /\ pc' = [c \in Calls |-> IF c \in Reached(p) THEN "closed" ELSE pc[c]]
  /\ route' = [route EXCEPT ![p] = IF Throws(p) THEN "aborted" ELSE "done"]
  /\ tracked' = [tracked EXCEPT ![p] = FALSE]
  /\ UNCHANGED << made, exit, late, orphan, signalled, listeners, storeVars, up, op, target, todo, seen, result, began >>

-----------------------------------------------------------------------------
(* Calls *)

\* streamingComplete is set with the answer of the start.
Streaming(p) == route[p] \in {"next", "complete", "done", "aborted"}

Ended(p) == route[p] \in {"done", "aborted"}

\* Mutant of MustWait: getProcess never waits for the stream.
WaitsNever(p) == FALSE

\* Mutant of MustWait: getProcess waits for every process that was started.
WaitsAlways(p) == Streaming(p)

\* getProcess waits for the events of a process that has ended.
MustWait(p) ==
  Streaming(p) /\ (rec[p].status \in Terminal \/ (rec[p].pid /\ ~ Running(p)))

\* The call has its record r.  A log stream listens to it for good and, on a
\* process that has ended, closes at once.
Answer(c, o, p, r, live) ==
  /\ o \in {"get", "stream"}
  /\ result' = [result EXCEPT ![c] = r]
  /\ \/ /\ o = "get"
        /\ pc' = [pc EXCEPT ![c] = "done"]
        /\ UNCHANGED << seen, listeners >>
     \/ /\ o = "stream"
        /\ pc' = [pc EXCEPT ![c] = IF r.status \in Terminal THEN "closed" ELSE "open"]
        /\ seen' = [seen EXCEPT ![c] = r.out]
        /\ listeners' = IF live THEN [listeners EXCEPT ![p] = Append(@, c)] ELSE listeners

Goes(c, to) ==
  /\ pc' = [pc EXCEPT ![c] = to]
  /\ UNCHANGED << seen, listeners, result >>

Kills == {"kill", "killAll"}

\* store.get for an operation o: a record in memory is used at once.
Lookup(c, o, p) ==
  \/ p \notin processes /\ Goes(c, "get")
  \/ p \in processes /\ o \in Kills /\ Goes(c, "signal")
  \/ p \in processes /\ o \notin Kills /\ MustWait(p) /\ Goes(c, "await")
  \/ p \in processes /\ ~ MustWait(p) /\ Answer(c, o, p, rec[p], TRUE)

\* getProcess, killProcess and handleStream, up to their first wait.
Call(c) ==
  /\ pc[c] = "idle"
  /\ \E o \in Ops \ {"killAll"}, p \in Procs :
       /\ op' = [op EXCEPT ![c] = o]
       /\ target' = [target EXCEPT ![c] = p]
       /\ Lookup(c, o, p)
  /\ began' = [began EXCEPT ![c] = {p \in Procs : Streaming(p) /\ exit[p] # "none"}]
  /\ UNCHANGED << cmdVars, rec, route, storeVars, up, todo >>

\* killAllProcesses takes the records in memory, then scans the files, none of
\* which holds a process that runs.
KillAll(c) ==
  /\ pc[c] = "idle" /\ "killAll" \in Ops
  /\ op' = [op EXCEPT ![c] = "killAll"]
  /\ pc' = [pc EXCEPT ![c] = "scan"]
  /\ todo' = [todo EXCEPT ![c] = processes]
  /\ began' = [began EXCEPT ![c] = {p \in Procs : Streaming(p)}]
  /\ UNCHANGED << cmdVars, rec, route, listeners, storeVars, up, target, seen, result >>

\* Its loop.  The filter on the status comes after the scan, once.
KillNext(c) ==
  /\ pc[c] = "scan"
  /\ LET left == {p \in todo[c] : target[c] # None \/ rec[p].status = "running"}
     IN \/ /\ left = {}
           /\ todo' = [todo EXCEPT ![c] = {}]
           /\ Goes(c, "done")
           /\ UNCHANGED target
        \/ \E p \in left :
             /\ todo' = [todo EXCEPT ![c] = left \ {p}]
             /\ target' = [target EXCEPT ![c] = p]
             /\ Lookup(c, "killAll", p)
  /\ UNCHANGED << cmdVars, rec, route, storeVars, up, op, began >>

\* readProcessFile: a file that is missing or half written is no process.
GetRead(c) ==
  /\ pc[c] = "get"
  /\ LET p == target[c]
     IN \/ disk[p] \notin Records /\ Goes(c, Settled(c, TRUE))
        \/ disk[p] \in Records /\ op[c] \in Kills /\ Goes(c, "signal")
        \/ disk[p] \in Records /\ Answer(c, op[c], p, disk[p], FALSE)
  /\ UNCHANGED << cmdVars, rec, route, storeVars, up, op, target, todo, began >>

\* streamingComplete has settled.
GetWaited(c) ==
  /\ pc[c] = "await" /\ Ended(target[c])
  /\ Answer(c, op[c], target[c], rec[target[c]], TRUE)
  /\ UNCHANGED << cmdVars, rec, route, storeVars, up, op, target, todo, began >>

\* killCommand of the session: a command it knows, and whose subshell is there,
\* gets SIGTERM; it is forgotten in any case.  The subshell dies of it before
\* it can write an exit code, unless the command has set a trap.
Signal(c) ==
  LET p == target[c]
  IN /\ pc[c] = "signal"
     /\ tracked' = [tracked EXCEPT ![p] = FALSE]
     /\ \/ /\ tracked[p] /\ Running(p)
           /\ signalled' = [signalled EXCEPT ![p] = TRUE]
           /\ \E trap \in BOOLEAN : orphan' = [orphan EXCEPT ![p] = ~ trap]
           /\ pc' = [pc EXCEPT ![c] = "update"]
        \/ /\ ~ (tracked[p] /\ Running(p))
           /\ pc' = [pc EXCEPT ![c] = Settled(c, TRUE)]
           /\ UNCHANGED << signalled, orphan >>
     /\ UNCHANGED << made, exit, late, rec, route, listeners, storeVars, up, op, target, todo, seen, result, began >>

\* The kill is stored; the listeners of the record are not told.
MarkKilled(c) ==
  /\ pc[c] = "update" /\ up[c] = NoUpdate
  /\ Start(c, target[c], Data("killed", "none", FALSE))
  /\ UNCHANGED << cmdVars, route, listeners, processes, broken, callVars >>

\* The client goes away; nothing removes the listeners.
Cancel(c) ==
  /\ ClientsCancel
  /\ pc[c] = "open"
  /\ pc' = [pc EXCEPT ![c] = "cancelled"]
  /\ UNCHANGED << cmdVars, rec, route, listeners, storeVars, up, op, target, todo, seen, result, began >>

-----------------------------------------------------------------------------

Events(p) == Spawn(p) \/ StartEvent(p) \/ OutputEvent(p) \/ CompleteEvent(p)

Store(a) == UpdateRead(a) \/ UpdateWritten(a)

Continue(c) == KillNext(c) \/ GetRead(c) \/ GetWaited(c) \/ Signal(c) \/ MarkKilled(c)

Next ==
  \/ \E p \in Procs :
       \/ startProcess(p) \/ StartFails(p) \/ Events(p) \/ ErrorEvent(p)
       \/ Writes(p) \/ Exits(p)
  \/ \E a \in Actors : Store(a)
  \/ \E c \in Calls : Call(c) \/ KillAll(c) \/ Continue(c) \/ Cancel(c)

Spec == Init /\ [][Next]_vars

\* Continuations run, files are read and written.  Nothing is assumed of the
\* processes or of clients.
FairSpec ==
  /\ Spec
  /\ \A p \in Procs : WF_vars(Events(p))
  /\ \A a \in Actors : WF_vars(Store(a))
  /\ \A c \in Calls : WF_vars(Continue(c))

-----------------------------------------------------------------------------
(* Properties *)

\* A process that was started can be looked up ever after: it is in memory or
\* in a whole file, or its file is being written, or could not be written
\* (process-store.ts:36-47, 71-84).
Findable ==
  \A p \in Procs : route[p] # "none" =>
    \/ p \in processes
    \/ disk[p] \in Records
    \/ broken[p]
    \/ \E a \in Actors : up[a].of = p /\ up[a].kind \in {"memory", "file"}

\* What a call says of a process that had ended, or that it says has ended, is
\* all of its output that was in the log at the last reading ("to ensure all
\* output is captured", process-service.ts:275; what the labelers bring later is
\* lost), unless it was killed, its session failed, or a log stream broke the
\* chain of its events.
OutputCaptured ==
  \A c \in Calls :
    LET p == target[c]
    IN result[c] # None /\ (result[c].status \in Terminal \/ p \in began[c]) =>
         \/ result[c].out = made[p] - late[p]
         \/ signalled[p]
         \/ result[c].status = "error"
         \/ route[p] = "aborted"

\* The end of a process reaches its file, and the record leaves memory, unless
\* the session failed, a write failed, or a client left a log stream
\* (process-service.ts:166-194, 317).
Persisted ==
  \A p \in Procs :
    route[p] = "next" /\ exit[p] # "none" ~>
      \/ p \notin processes /\ disk[p] \in Records
      \/ broken[p] \/ route[p] = "aborted" \/ rec[p].status = "error"

\* Calls are answered, but for one that asks about a process while its kill is
\* being stored: it waits for a 'complete' event (process-service.ts:303) that
\* a killed subshell never causes, and a trap may put off.
Answered ==
  \A c \in Calls :
    pc[c] \in {"scan", "get", "await", "signal", "update"} ~>
      \/ pc[c] \in {"open", "closed", "cancelled", "done", "failed"}
      \/ pc[c] = "await" /\ signalled[target[c]]

=============================================================================
