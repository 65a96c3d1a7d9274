--------------------------- MODULE SessionManager ---------------------------
(***************************************************************************)
(* The session manager of the container                                    *)
(* (packages/sandbox-container/src/services/session-manager.ts): the map   *)
(* of sessions, one mutex per session id, and the table of creations in    *)
(* progress.  Every HTTP request is a process of Bun's single-threaded     *)
(* event loop: what it does between two awaits is one action, and at an    *)
(* await the other requests may run.                                       *)
(*                                                                         *)
(* A request makes at most one Mutex, one Session and one creation         *)
(* promise, so the request that made an object names it: mutex r, session  *)
(* r and promise r are those request r made.                               *)
(***************************************************************************)
EXTENDS Naturals, Sequences

CONSTANTS
  Requests,        \* the requests the server receives
  SessionIds,      \* the session ids they use
  None,            \* no object, the `undefined` of a map lookup
  Ops,             \* the operations the clients call
  InitMayFail,     \* may Session.initialize() throw?
  ShellMayDie,     \* may a shell exit that nobody destroys?
  CommandTimeout,  \* is COMMAND_TIMEOUT_MS (or timeoutMs) set?
  MaxCommands      \* commands a withSession callback runs at most

\* exec: executeInSession; with: withSession and setEnvVars; stream and
\* start: executeStreamInSession in the foreground and in the background;
\* create and delete: createSession and deleteSession.
LockedOps == {"exec", "with", "stream", "start"}
AllOps    == LockedOps \cup {"create", "delete"}

ASSUME NoneAssumption == None \notin Requests /\ None \notin SessionIds
ASSUME OpsAssumption  == Ops \subseteq AllOps
ASSUME FlagAssumption ==
  /\ InitMayFail \in BOOLEAN
  /\ ShellMayDie \in BOOLEAN
  /\ CommandTimeout \in BOOLEAN
ASSUME MaxCommandsAssumption == MaxCommands \in Nat \ {0}

VARIABLES
  \* the requests
  op,             \* op[r]: what request r calls
  sid,            \* sid[r]: the session id it names
  pc,             \* pc[r]: the await request r is suspended at
  lockOf,         \* lockOf[r]: the mutex r captured from getSessionLock
  sessOf,         \* sessOf[r]: the session object r captured or waits for
  cmds,           \* cmds[r]: commands the turn of r has begun
  \* the maps of the manager
  sessions, sessionLocks, creatingLocks,
  \* the objects the requests made
  shell,          \* shell[r]: the life of session r
  owner, queue    \* owner[m], queue[m]: the state of mutex m

requestVars == << op, sid, pc, lockOf, sessOf, cmds >>
mapVars     == << sessions, sessionLocks, creatingLocks >>
mutexVars   == << owner, queue >>
vars        == << requestVars, mapVars, shell, mutexVars >>

PcStates ==
  {"idle",          \* not received yet
   "queued",        \* in the queue of its mutex
   "granted",       \* was given its mutex, its callback has not run yet
   "initializing",  \* getOrCreateSession awaits its own createPromise
   "joining",       \* getOrCreateSession awaits another's pendingCreate
   "ready",         \* has its session, is about to call session.exec*
   "running",       \* a command of it is in the shell
   "rejected",      \* shellExitedPromise rejected under it
   "streaming",     \* background stream, continues without the mutex
   "stuck",         \* foreground stream awaiting a promise that never settles
   "lost",          \* the same of a background stream, without the mutex
   "creating",      \* createSession awaits session.initialize()
   "destroying",    \* deleteSession awaits session.destroy()
   "done"}

\* The turn of a request: it owns the mutex it captured.
Holding == {"granted", "initializing", "joining", "ready", "running",
            "rejected", "stuck"}

ShellStates ==
  {"none",          \* no such session
   "starting",      \* initialize() has not returned
   "failed",        \* initialize() threw
   "live",
   "dead",          \* the shell exited by itself, the object is kept
   "closing",       \* destroy() was called, bash still runs
   "exited",        \* bash is gone, destroy() removes the files
   "gone"}          \* destroy() has reset the object

TypeOK ==
  /\ op \in [Requests -> Ops \cup {None}]
  /\ sid \in [Requests -> SessionIds \cup {None}]
  /\ pc \in [Requests -> PcStates]
  /\ lockOf \in [Requests -> Requests \cup {None}]
  /\ sessOf \in [Requests -> Requests \cup {None}]
  /\ cmds \in [Requests -> 0..MaxCommands]
  /\ sessions \in [SessionIds -> Requests \cup {None}]
  /\ sessionLocks \in [SessionIds -> Requests \cup {None}]
  /\ creatingLocks \in [SessionIds -> Requests \cup {None}]
  /\ shell \in [Requests -> ShellStates]
  /\ owner \in [Requests -> Requests \cup {None}]
  /\ queue \in [Requests -> Seq(Requests)]

Init ==
  /\ op = [r \in Requests |-> None]
  /\ sid = [r \in Requests |-> None]
  /\ pc = [r \in Requests |-> "idle"]
  /\ lockOf = [r \in Requests |-> None]
  /\ sessOf = [r \in Requests |-> None]
  /\ cmds = [r \in Requests |-> 0]
  /\ sessions = [s \in SessionIds |-> None]
  /\ sessionLocks = [s \in SessionIds |-> None]
  /\ creatingLocks = [s \in SessionIds |-> None]
  /\ shell = [r \in Requests |-> "none"]
  /\ owner = [r \in Requests |-> None]
  /\ queue = [r \in Requests |-> << >>]

-----------------------------------------------------------------------------
(***************************************************************************)
(* Mutex.runExclusive of async-mutex.  Acquiring a free mutex takes it at  *)
(* once; releasing hands it to the first request of the queue, whose       *)
(* callback runs in a later microtask ("granted").                         *)
(***************************************************************************)

\* Mutant of Acquire: the last to wait is the first to be served.
AcquireLifo(r, m) ==
  /\ lockOf' = [lockOf EXCEPT ![r] = m]
  /\ IF owner[m] = None
       THEN /\ owner' = [owner EXCEPT ![m] = r]
            /\ pc' = [pc EXCEPT ![r] = "granted"]
            /\ UNCHANGED queue
       ELSE /\ queue' = [queue EXCEPT ![m] = << r >> \o @]
            /\ pc' = [pc EXCEPT ![r] = "queued"]
            /\ UNCHANGED owner

Acquire(r, m) ==
  /\ lockOf' = [lockOf EXCEPT ![r] = m]
  /\ IF owner[m] = None
       THEN /\ owner' = [owner EXCEPT ![m] = r]
            /\ pc' = [pc EXCEPT ![r] = "granted"]
            /\ UNCHANGED queue
       ELSE /\ queue' = [queue EXCEPT ![m] = Append(@, r)]
            /\ pc' = [pc EXCEPT ![r] = "queued"]
            /\ UNCHANGED owner

\* Mutant of Release: the mutex becomes free and nobody is woken.
ReleaseWithoutDispatch(r, next) ==
  /\ owner' = [owner EXCEPT ![lockOf[r]] = None]
  /\ pc' = [pc EXCEPT ![r] = next]
  /\ UNCHANGED queue

\* Request r leaves its mutex and goes on at `next`.
Release(r, next) ==
  LET m == lockOf[r] IN
    IF queue[m] = << >>
      THEN /\ owner' = [owner EXCEPT ![m] = None]
           /\ pc' = [pc EXCEPT ![r] = next]
           /\ UNCHANGED queue
      ELSE /\ owner' = [owner EXCEPT ![m] = Head(queue[m])]
           /\ queue' = [queue EXCEPT ![m] = Tail(@)]
           /\ pc' = [pc EXCEPT ![r] = next, ![Head(queue[m])] = "granted"]

\* Request r is suspended at await a and goes on to `next`.
Resume(r, a, next) ==
  /\ pc[r] = a
  /\ pc' = [pc EXCEPT ![r] = next]

-----------------------------------------------------------------------------
(***************************************************************************)
(* executeInSession, withSession, executeStreamInSession                   *)
(***************************************************************************)

\* A locked operation arrives: getSessionLock and the call of runExclusive.
CallLocked(r, o, s) ==
  /\ pc[r] = "idle"
  /\ o \in Ops \cap LockedOps
  /\ op' = [op EXCEPT ![r] = o]
  /\ sid' = [sid EXCEPT ![r] = s]
  /\ IF sessionLocks[s] = None
       THEN /\ sessionLocks' = [sessionLocks EXCEPT ![s] = r]
            /\ Acquire(r, r)
       ELSE /\ Acquire(r, sessionLocks[s])
            /\ UNCHANGED sessionLocks
  /\ UNCHANGED << sessOf, cmds, sessions, creatingLocks, shell >>

\* Request r starts the creation of its session and awaits createPromise.
StartCreating(r) ==
  /\ pc' = [pc EXCEPT ![r] = "initializing"]
  /\ creatingLocks' = [creatingLocks EXCEPT ![sid[r]] = r]
  /\ shell' = [shell EXCEPT ![r] = "starting"]

\* Mutant of GetOrCreate: the map of sessions is not consulted first.
GetOrCreateAlways(r) ==
  /\ pc[r] = "granted"
  /\ StartCreating(r)
  /\ UNCHANGED << op, sid, lockOf, sessOf, cmds, sessions, sessionLocks,
                  mutexVars >>

\* getOrCreateSession finds the session, or a pending creation, or creates.
GetOrCreate(r) ==
  /\ pc[r] = "granted"
  /\ LET s == sid[r] IN
       \/ /\ sessions[s] # None
          /\ sessOf' = [sessOf EXCEPT ![r] = sessions[s]]
          /\ pc' = [pc EXCEPT ![r] = "ready"]
          /\ UNCHANGED << creatingLocks, shell >>
       \/ /\ sessions[s] = None
          /\ creatingLocks[s] # None
          /\ sessOf' = [sessOf EXCEPT ![r] = creatingLocks[s]]
          /\ pc' = [pc EXCEPT ![r] = "joining"]
          /\ UNCHANGED << creatingLocks, shell >>
       \/ /\ sessions[s] = None
          /\ creatingLocks[s] = None
          /\ StartCreating(r)
          /\ UNCHANGED sessOf
  /\ UNCHANGED << op, sid, lockOf, cmds, sessions, sessionLocks, mutexVars >>

\* Mutant of CreateSucceeds: `finally` does not clear the creation.
CreateSucceedsKeepsPromise(r) ==
  /\ Resume(r, "initializing", "ready")
  /\ shell' = [shell EXCEPT ![r] = "live"]
  /\ sessOf' = [sessOf EXCEPT ![r] = r]
  /\ sessions' = [sessions EXCEPT ![sid[r]] = r]
  /\ UNCHANGED << op, sid, lockOf, cmds, sessionLocks, creatingLocks, mutexVars >>

\* createPromise resolves: the session is published, and the creator, first to
\* await the promise, goes on before anyone who joined it: `finally` clears the
\* creation and keeps the mutex.
CreateSucceeds(r) ==
  /\ Resume(r, "initializing", "ready")
  /\ shell' = [shell EXCEPT ![r] = "live"]
  /\ sessOf' = [sessOf EXCEPT ![r] = r]
  /\ sessions' = [sessions EXCEPT ![sid[r]] = r]
  /\ creatingLocks' = [creatingLocks EXCEPT ![sid[r]] = None]
  /\ UNCHANGED << op, sid, lockOf, cmds, sessionLocks, mutexVars >>

\* Mutant of CreateFails: the error path returns without releasing.
CreateFailsHolding(r) ==
  /\ InitMayFail
  /\ Resume(r, "initializing", "done")
  /\ shell' = [shell EXCEPT ![r] = "failed"]
  /\ creatingLocks' = [creatingLocks EXCEPT ![sid[r]] = None]
  /\ UNCHANGED << op, sid, lockOf, sessOf, cmds, sessions, sessionLocks, mutexVars >>

\* createPromise rejects: `finally` clears the creation and, if the id has no
\* session, its mutex; the request reports the failure and releases.
CreateFails(r) ==
  /\ InitMayFail
  /\ pc[r] = "initializing"
  /\ shell' = [shell EXCEPT ![r] = "failed"]
  /\ creatingLocks' = [creatingLocks EXCEPT ![sid[r]] = None]
  /\ sessionLocks' = [sessionLocks EXCEPT ![sid[r]] =
                         IF sessions[sid[r]] = None THEN None ELSE @]
  /\ Release(r, "done")
  /\ UNCHANGED << op, sid, lockOf, sessOf, cmds, sessions >>

\* The creation another request started has settled: its session is used, or
\* r tries itself without another look at the maps.
PendingCreateSettles(r) ==
  /\ pc[r] = "joining"
  /\ shell[sessOf[r]] # "starting"
  /\ \/ /\ shell[sessOf[r]] # "failed"
        /\ pc' = [pc EXCEPT ![r] = "ready"]
        /\ UNCHANGED << sessOf, creatingLocks, shell >>
     \/ /\ shell[sessOf[r]] = "failed"
        /\ sessOf' = [sessOf EXCEPT ![r] = None]
        /\ StartCreating(r)
  /\ UNCHANGED << op, sid, lockOf, cmds, sessions, sessionLocks, mutexVars >>

\* session.exec or the first step of session.execStream: ensureReady passes
\* and the script goes to the shell's stdin.
BeginCommand(r) ==
  /\ Resume(r, "ready", "running")
  /\ shell[sessOf[r]] \in {"live", "closing"}
  /\ cmds' = [cmds EXCEPT ![r] = @ + 1]
  /\ UNCHANGED << op, sid, lockOf, sessOf, mapVars, shell, mutexVars >>

\* ensureReady throws: the session is dead or was destroyed.
NotReady(r) ==
  /\ pc[r] = "ready"
  /\ shell[sessOf[r]] \notin {"live", "closing"}
  /\ Release(r, "done")
  /\ UNCHANGED << op, sid, lockOf, sessOf, cmds, mapVars, shell >>

\* The exit code of the last command of r is read (a withSession callback may
\* stop before running one), and the mutex is released.  A stream also ends
\* here, with an error event, when it notices that its shell died or was
\* destroyed, or when it could not start.
EndTurn(r) ==
  /\ \/ /\ pc[r] = "running"
        /\ op[r] \in {"stream", "start"} \/ shell[sessOf[r]] \in {"live", "closing"}
     \/ pc[r] = "ready" /\ op[r] = "with"
  /\ Release(r, "done")
  /\ UNCHANGED << op, sid, lockOf, sessOf, cmds, mapVars, shell >>

\* Mutant of NextCommand: one command more than the callback has.
NextCommandOffByOne(r) ==
  /\ Resume(r, "running", "ready")
  /\ op[r] = "with"
  /\ cmds[r] <= MaxCommands
  /\ shell[sessOf[r]] \in {"live", "closing"}
  /\ UNCHANGED << op, sid, lockOf, sessOf, cmds, mapVars, shell, mutexVars >>

\* A withSession callback goes on to its next command under the same mutex.
NextCommand(r) ==
  /\ Resume(r, "running", "ready")
  /\ op[r] = "with"
  /\ cmds[r] < MaxCommands
  /\ shell[sessOf[r]] \in {"live", "closing"}
  /\ UNCHANGED << op, sid, lockOf, sessOf, cmds, mapVars, shell, mutexVars >>

\* The command timeout of waitForExitCode: exec throws while the shell is
\* still busy with the command.
CommandTimesOut(r) ==
  /\ CommandTimeout
  /\ pc[r] = "running"
  /\ op[r] \in {"exec", "with"}
  /\ Release(r, "done")
  /\ UNCHANGED << op, sid, lockOf, sessOf, cmds, mapVars, shell >>

\* exec lost the race to the death of the shell.
ExecRejected(r) ==
  /\ pc[r] = "rejected"
  /\ Release(r, "done")
  /\ UNCHANGED << op, sid, lockOf, sessOf, cmds, mapVars, shell >>

\* Background mode: the start event arrived (at the latest when the wait for
\* the pid times out) and the stream continues without the mutex.
StartEvent(r) ==
  /\ pc[r] = "running"
  /\ op[r] = "start"
  /\ Release(r, "streaming")
  /\ UNCHANGED << op, sid, lockOf, sessOf, cmds, mapVars, shell >>

BackgroundStreamEnds(r) ==
  /\ Resume(r, "streaming", "done")
  /\ UNCHANGED << op, sid, lockOf, sessOf, cmds, mapVars, shell, mutexVars >>

\* A stream polls while destroy() removes the files of a shell that has
\* exited: not ready, and shellExitedPromise is never rejected.
StreamHangs(r) ==
  /\ \/ Resume(r, "running", "stuck") /\ op[r] = "stream"
     \/ Resume(r, "streaming", "lost")
  /\ shell[sessOf[r]] = "exited"
  /\ UNCHANGED << op, sid, lockOf, sessOf, cmds, mapVars, shell, mutexVars >>

-----------------------------------------------------------------------------
(***************************************************************************)
(* createSession and deleteSession, which take no mutex, and the shells    *)
(***************************************************************************)

CallCreate(r, s) ==
  /\ pc[r] = "idle"
  /\ "create" \in Ops
  /\ op' = [op EXCEPT ![r] = "create"]
  /\ sid' = [sid EXCEPT ![r] = s]
  /\ IF sessions[s] # None
       THEN /\ pc' = [pc EXCEPT ![r] = "done"]
            /\ UNCHANGED shell
       ELSE /\ pc' = [pc EXCEPT ![r] = "creating"]
            /\ shell' = [shell EXCEPT ![r] = "starting"]
  /\ UNCHANGED << lockOf, sessOf, cmds, mapVars, mutexVars >>

\* initialize() returned: the session replaces whatever the id has by now.
CreateSessionEnds(r) ==
  /\ Resume(r, "creating", "done")
  /\ \/ /\ shell' = [shell EXCEPT ![r] = "live"]
        /\ sessions' = [sessions EXCEPT ![sid[r]] = r]
     \/ /\ InitMayFail
        /\ shell' = [shell EXCEPT ![r] = "failed"]
        /\ UNCHANGED sessions
  /\ UNCHANGED << op, sid, lockOf, sessOf, cmds, sessionLocks, creatingLocks,
                  mutexVars >>

\* deleteSession looks the session up and calls destroy() on it.
CallDelete(r, s) ==
  /\ pc[r] = "idle"
  /\ "delete" \in Ops
  /\ op' = [op EXCEPT ![r] = "delete"]
  /\ sid' = [sid EXCEPT ![r] = s]
  /\ IF sessions[s] = None
       THEN /\ pc' = [pc EXCEPT ![r] = "done"]
            /\ UNCHANGED << sessOf, shell >>
       ELSE /\ pc' = [pc EXCEPT ![r] = "destroying"]
            /\ sessOf' = [sessOf EXCEPT ![r] = sessions[s]]
            /\ shell' = [shell EXCEPT ![sessions[s]] =
                            IF @ = "live" THEN "closing" ELSE @]
  /\ UNCHANGED << lockOf, cmds, mapVars, mutexVars >>

\* bash exits after SIGTERM, or after a second by SIGKILL.
ShellExits(r) ==
  /\ shell[r] = "closing"
  /\ shell' = [shell EXCEPT ![r] = "exited"]
  /\ UNCHANGED << requestVars, mapVars, mutexVars >>

\* Mutant of DeleteEnds: the destroyed session stays in the map.
DeleteEndsKeepsSession(r) ==
  /\ Resume(r, "destroying", "done")
  /\ shell[sessOf[r]] \in {"exited", "dead", "gone"}
  /\ shell' = [shell EXCEPT ![sessOf[r]] = "gone"]
  /\ sessionLocks' = [sessionLocks EXCEPT ![sid[r]] = None]
  /\ creatingLocks' = [creatingLocks EXCEPT ![sid[r]] = None]
  /\ UNCHANGED << op, sid, lockOf, sessOf, cmds, sessions, mutexVars >>

\* destroy() has removed the files and reset the object; the id loses its
\* session, its mutex and its creation, whatever they are by now.
DeleteEnds(r) ==
  /\ Resume(r, "destroying", "done")
  /\ shell[sessOf[r]] \in {"exited", "dead", "gone"}
  /\ shell' = [shell EXCEPT ![sessOf[r]] = "gone"]
  /\ sessions' = [sessions EXCEPT ![sid[r]] = None]
  /\ sessionLocks' = [sessionLocks EXCEPT ![sid[r]] = None]
  /\ creatingLocks' = [creatingLocks EXCEPT ![sid[r]] = None]
  /\ UNCHANGED << op, sid, lockOf, sessOf, cmds, mutexVars >>

\* The shell of session o exits by itself (a command ran `exit`, or it was
\* killed): every exec waiting on it is rejected, the object stays in the map.
ShellDies(o) ==
  /\ ShellMayDie
  /\ shell[o] = "live"
  /\ shell' = [shell EXCEPT ![o] = "dead"]
  /\ pc' = [r \in Requests |->
              IF pc[r] = "running" /\ sessOf[r] = o /\ op[r] \in {"exec", "with"}
                THEN "rejected" ELSE pc[r]]
  /\ UNCHANGED << op, sid, lockOf, sessOf, cmds, mapVars, mutexVars >>

-----------------------------------------------------------------------------

Call(r) ==
  \E s \in SessionIds :
    \/ \E o \in LockedOps : CallLocked(r, o, s)
    \/ CallCreate(r, s)
    \/ CallDelete(r, s)

\* What request r does on its own once it was called.
Step(r) ==
  \/ GetOrCreate(r) \/ CreateSucceeds(r) \/ CreateFails(r)
  \/ PendingCreateSettles(r) \/ BeginCommand(r) \/ NotReady(r)
  \/ EndTurn(r) \/ NextCommand(r) \/ CommandTimesOut(r) \/ ExecRejected(r)
  \/ StartEvent(r) \/ BackgroundStreamEnds(r) \/ StreamHangs(r)
  \/ CreateSessionEnds(r) \/ DeleteEnds(r)

Next == \E r \in Requests : Call(r) \/ Step(r) \/ ShellExits(r) \/ ShellDies(r)

Spec == Init /\ [][Next]_vars

\* The event loop runs every continuation that is due, initialize() and
\* destroy() return, and a command that is not stopped ends.
FairSpec ==
  Spec /\ \A r \in Requests : WF_vars(Step(r)) /\ WF_vars(ShellExits(r))

-----------------------------------------------------------------------------
(***************************************************************************)
(* Properties                                                              *)
(***************************************************************************)

\* The requests whose commands the shell of a session may run now: from the
\* first command they write to the end of their turn.
InTurn(r) ==
  \/ pc[r] \in {"running", "stuck"}
  \/ pc[r] = "ready" /\ cmds[r] > 0

\* Commands to the same session id run one at a time (executeInSession and
\* withSession): no two requests are in their turn for it, whatever shell
\* their session objects hold.
Serialized ==
  \A r1, r2 \in Requests :
    InTurn(r1) /\ InTurn(r2) /\ sid[r1] = sid[r2] => r1 = r2

\* The weaker claim that no two requests are in their turn in one shell, the
\* one a withSession callback relies on when it runs several commands.
\* Not kept by the code (README, "Where the code does not do what it says").
OneTurnPerShell ==
  \A r1, r2 \in Requests :
    InTurn(r1) /\ InTurn(r2) /\ sessOf[r1] = sessOf[r2] => r1 = r2

\* Whatever path a request takes out of its turn, error paths included, it
\* leaves no mutex owned and nobody waiting on a free one.
NoMutexLeak ==
  \A m \in Requests :
    IF owner[m] = None
      THEN queue[m] = << >>
      ELSE pc[owner[m]] \in Holding /\ lockOf[owner[m]] = m

\* creatingLocks never keeps a creation that has settled: a request that
\* joins one waits for an initialize() that is still running, never for the
\* outcome of an older attempt or of a deleted session.
FreshCreations ==
  \A s \in SessionIds :
    creatingLocks[s] # None =>
      /\ pc[creatingLocks[s]] = "initializing"
      /\ sid[creatingLocks[s]] = s
      /\ shell[creatingLocks[s]] = "starting"

\* The map of sessions only holds sessions whose initialize() has returned
\* and that no deleteSession has finished destroying.
NoGhostSession ==
  \A s \in SessionIds :
    sessions[s] # None =>
      /\ sid[sessions[s]] = s
      /\ shell[sessions[s]] \in {"live", "dead", "closing", "exited"}

\* An id never has two shells: what the creation table is there for.
OneShellPerId ==
  \A o1, o2 \in Requests :
    shell[o1] = "live" /\ shell[o2] = "live" /\ sid[o1] = sid[o2] => o1 = o2

\* A request that was received is answered: its promise settles.
Answered == \A r \in Requests : pc[r] # "idle" ~> pc[r] = "done"

\* The line of session id s as the mutex in the map keeps it: its owner, then
\* its queue.
LineOf(s) ==
  LET m == sessionLocks[s] IN
    IF m = None \/ owner[m] = None THEN << >> ELSE << owner[m] >> \o queue[m]

\* The per-session mutexes give every id one first-come first-served line.
Turns == INSTANCE SessionTurns
  WITH line <- [s \in SessionIds |-> LineOf(s)],
       joined <- {r \in Requests : lockOf[r] # None}
TurnsSpec     == Turns!Spec
TurnsFairSpec == Turns!FairSpec

=============================================================================
