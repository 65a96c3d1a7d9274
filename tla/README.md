# A TLA+ model of the sandbox SDK

The repository lets a Worker run commands, code and servers in a container. A
Durable Object (`packages/sandbox/src`) is the front; it talks, over HTTP or a
WebSocket, to a Bun server in the container
(`packages/sandbox-container/src`), and that server runs shells and
interpreters. Both halves are single-threaded event loops: nothing is
preempted, but at every `await` anything else may run. Nearly everything that
is hard to test here is about what happens at those awaits, so that is what the
models are about.

Below, `C/` stands for `packages/sandbox-container/src/` and `S/` for
`packages/sandbox/src/`.

## Inventory

| Component | State it keeps | Operations | Talks to |
|---|---|---|---|
| SessionManager (`C/services/session-manager.ts`) | `sessions`, one async-mutex per session id (`sessionLocks`), creations in progress (`creatingLocks`) | executeInSession, withSession, setEnvVars, executeStreamInSession (foreground, background), createSession, deleteSession, getSession, listSessions, killCommand, destroy | Session; called by every service that runs a command |
| Session (`C/session.ts`) | the bash process, `shellExitedPromise`, `runningCommands`, files and FIFOs of a command | initialize, exec, execStream, killCommand, destroy | bash, the file system |
| ProcessService, ProcessStore (`C/services/process-*.ts`) | process records in memory, terminal ones on disk | startProcess, executeCommand, getProcess, killProcess, killAll, list, stream logs | SessionManager (commands and their events) |
| ProcessPoolManager (`C/runtime/process-pool.ts`) | executors, the available ones, `contextExecutors`, a mutex per language and per executor | execute, reserve, release, replenish, pre-warm, idle sweep, exit handler | child processes |
| InterpreterService (`C/services/interpreter-service.ts`) | `contexts` | createContext, executeCode, deleteContext, listContexts | ProcessPoolManager |
| PortService and its store | exposed ports | expose, unexpose, proxy, markPortInactive | servers in the container |
| WebSocket adapter (`C/handlers/ws-adapter.ts`) | open sockets, an SSE buffer per streaming response | request, stream chunks, final response | the router |
| Transports (`S/clients/transport/`) | connection promise, socket, pending requests with timers | connect, fetch, fetchStream, close, disconnect, 503 retry | the container |
| Sandbox Durable Object (`S/sandbox.ts`) | `defaultSession`, `envVars`, `activeMounts`, stored `portTokens`, settings | exec, waits for processes and ports, expose and unexpose, mount and unmount buckets, sessions, onStart, onStop, destroy | the clients and their transport, durable storage |
| CodeInterpreter (`S/interpreter.ts`) | `contexts` | createCodeContext, runCode, runCodeStream, listCodeContexts, deleteCodeContext | the interpreter client |
| FileService, GitService (`C/services/`) | none but the files | shell commands, in one or in several turns of a session | SessionManager |
| OpenCode (`S/opencode/opencode.ts`) | none | find or start a server, wait for its port | the public API |
| Request handler of the Worker (`S/request-handler.ts`) | none | read a preview URL, have its token validated, forward | the Durable Object |
| Clients, router, handlers, security, errors, SSE parser, file stream | none | parsing, formatting, validation, routing | |

What makes each of the stateful ones correct, and what is hard about it:

* **SessionManager.** Commands to one session run one at a time and in the
  order of their arrival; an id has one shell; a creation is joined rather than
  repeated; no error path keeps a mutex. Hard: `deleteSession` and
  `createSession` take no part in the mutex; a failed creation drops it; a
  background stream leaves it early; shells die by themselves.
* **Session.** One outcome per command although the exit-code file, the
  watcher, the poll, the timer and the shell's death race; destroy leaves
  nothing behind.
* **ProcessService.** The final status of a process is final and reaches the
  disk. Hard: kill and completion race, the store writes before it forgets.
* **ProcessPoolManager, InterpreterService.** An executor works for one run or
  one context at a time; no process leaks; answers belong to their calls. Hard:
  five paths change the list of available executors, processes start and die at
  any time, a timed-out run goes on.
* **WebSocket adapter and transports.** Every request is settled once, by its
  own response; streams lose no event; a closed socket is replaced. Hard:
  close, timer and response race, chunks end anywhere.
* **Files.** What a read, a listing or a stream tells was true of one file at one
  moment. Hard: every operation is several shell commands, and others change the
  files between two of them.
* **Waits** (waitForLog, waitForPort, waitForExit, callbacks, OpenCode). The answer
  is true and comes; nothing goes on in the container after it. Hard: a stream, a
  timer, a lookup and a kill race on both sides of a connection.
* **The way of a request.** Done once, and the caller told the truth, whatever is
  retried, lost or restarted; both sides agree on the default session, its
  variables and the contexts. Hard: the container stops at any time and the
  Durable Object learns of it later.
* **Durable Object.** Tokens agree with exposed ports, the cached session with
  the container's life, the mounts with what is mounted. Hard: state read before
  a call to the container and written after it, and a container that stops
  meanwhile.

`PROJECT.json` lists every component, modelled or not, and the hazards, each at
its line and with the properties that cover it, and a note on what of it none covers, and why.

## Modules

| Module | Models | Kind |
|---|---|---|
| `SessionTurns` | what the mutexes of the sessions promise: a first-come first-served line per id | abstract |
| `SessionManager` | session-manager.ts, with as much of a Session's life as it sees | detailed |
| `SessionManagerProofs` | theorems about SessionManager | proofs |
| `ExecutorLease` | what the pool promises of one executor: at most one holder, a context keeps it for good | abstract |
| `ProcessPool` | process-pool.ts and the contexts of interpreter-service.ts, for one language | detailed |
| `ProcessPoolProofs` | theorems about ProcessPool | proofs |
| `PreviewUrl` | preview URLs as sandbox.ts makes and request-handler.ts reads them | operators |
| `SandboxDO` | sandbox.ts: port tokens and visits of their URLs, mounts, default session, with the container's PortService and a container that stops | detailed |
| `SandboxDOProofs` | theorems about SandboxDO, PreviewUrl and ProcessWaits | proofs |
| `RequestOnce` | what a transport promises: a call settles once, by its own answer, a stream is whole | abstract |
| `WsTransport` | ws-transport.ts with the adapter at the other end of its socket (ws-adapter.ts) | detailed |
| `WsTransportProofs` | theorems about WsTransport | proofs |
| `ProcessService` | process-service.ts, process-store.ts, the log stream of process-handler.ts | detailed |
| `ProcessServiceProofs` | theorems about ProcessService | proofs |
| `SessionShell` | session.ts: exec, execStream, killCommand, destroy, with bash and the files between them | detailed |
| `SessionShellProofs` | theorems about SessionShell | proofs |
| `FileService` | file-service.ts, the clone of git-service.ts, file-stream.ts of the SDK | detailed |
| `FileServiceProofs` | theorems about FileService | proofs |
| `ProcessWaits` | the waits of sandbox.ts, opencode.ts, and the streams and the port watch that answer them | detailed |
| `Api` | the requests of the clients, the routes, the handlers' dispatch, the errors: tables | data |
| `RequestPath` | a call from the Durable Object through base-transport.ts and containerFetch to the container and back, with interpreter.ts | detailed, over `Api` |
| `RequestPathProofs` | theorems about RequestPath | proofs |
| `MC...` | instances for TLC | |

Definitions marked "Mutant of" are not part of a model: each is a plausible
bug, put in the place of the named definition to see that a property notices.

### SessionManager

A *request* is one call of a public operation. `pc[r]` names the await it is
suspended at; an action is the code from that await to the next. A request makes
at most one mutex, one session object and one creation promise, so the three
are named after the request that made them; `lockOf` and `sessOf` are the
references a request captured, which may differ from what the maps hold now.
`sessions`, `sessionLocks` and `creatingLocks` are the maps of the code, `owner`
and `queue` the state of async-mutex, `shell` the life of a session.

The model lets the others run at every await, also at those that Bun resolves
in the next microtask; what holds here holds for each order the runtime picks.
One order is built in because the language guarantees it: the creator of a
session awaits its promise before anybody who joins it, so it publishes the
session and clears the creation in one step.

`exec` and `with` (withSession, setEnvVars: up to `MaxCommands` commands) hold
the mutex to the end of the command, `stream` to the end of the stream, `start`
until the start event. A session whose shell died is kept in the map; an exec in
it is rejected, a foreground stream may await a promise that never settles
(`StreamHangs`), as execStream has no race with the shell's death.

### ProcessPool

Executors are numbered by the calls of createProcess; `stage` is the state of
that call's promise, `proc` of the child process. `line[e]` is the mutex of an
executor and `poolLine` the mutex of the language: the owner first, then the
queue. The available executors are a set, because nothing depends on which of
them `shift()` takes. A call of createContext names its context. Microtasks that
follow each other without any wait (a grant of a mutex and the code under it)
are one action here, since processes, timers and requests are separate tasks of
the event loop.

`inbox` and `out` are the pipes to an executor. A response has two halves, so
that a chunk of stdout may hold a part of a response, one, or several; it reaches
the run that listens at that moment or nobody. Code may run for ever, the Node
executor may answer out of order after a timeout, and a process that was killed
may still write. A timer (`SpawnTimesOut`, `ExecTimesOut`) may fire at any time.

`MaxSpawns` bounds how many processes are ever spawned and `MaxFailures` how many
exit or fail to start by themselves (timers are not counted).

### SandboxDO

The Durable Object's input gates keep other events out while it accesses its
storage, so only requests to the container let others run: an action is the code
from one request to the next, with the storage it touches. Every operation makes
its requests through ensureDefaultSession, which may put a createSession before
them; `Ask` and `SessionReady` are that function. `todo[c]` is the request a call
makes, `tokens[c]` the map of tokens `exposePort` read before it and will write
after it.

`Serve` is the container's half: PortService's table and the mount points. Its
handlers only await promises that are resolved already, and Bun handles one
request to its next wait before another, so each is one step. A command's
exit code is a reply (`nonzero`), not an exception. Writing the password file,
chmod and mkdir are one request (`prepare`): nothing looks at their result except
when the request itself fails.

A visit of a preview URL (`CallVisit`, `Admitted`, `Denied`, `Proxied`) is a call too:
proxyToSandbox of the Worker finds port, name and token in the URL (`RouteOf` of
PreviewUrl, where a host label is the sequence of the words between hyphens),
validatePortToken asks the container for the exposed ports and then reads the token, and
the request is forwarded. The Worker makes that second request itself, which makes no
difference: it is sent at once. Its own branch for port 3000 is never taken, since
validatePort refuses that port in the URL. Visits with other names are visits of
other objects.

`Stop` is the container's end with onStop. A request that is under way then may
fail, be served by the next container (containerFetch starts one), or return a
reply of the old one. `Restart` is a new instance of the object, with the
container still running: calls are gone, the requests they sent may still be
served. Operations that make one request and keep nothing are not modelled, nor
is the unmounting in `destroy()`.

### WsTransport

An attempt to connect and the socket it makes share a number. `attempt[k]` is the
promise of the k-th `doConnect`, `connectPromise` the attempt the transport
remembers, `pending[r]` the entry of a call with its timer, `inbox[k]` the messages
on their way. Which of the two ways to connect is used (the `upgrade` fetch of a
Durable Object, or a plain WebSocket) is chosen in `Init`. The continuations of
`connect()` are microtasks, so no event and no timer comes before them (`Quiet`); a
new call or `disconnect()` may, as the caller may be one of them. The adapter sends a
response, or chunks and a final message, or an error (`SendChunk`, `SendResponse`,
`SendError`), until its socket refuses (`SendFails`). The abstract `RequestOnce` is
reached by a refinement mapping that hides sockets, attempts and timers.

### ProcessService

`route[p]` is how far executeCommandStream and the handler of its events are,
`rec[p]` the record object that handler refers to, `processes` and `disk` the two
halves of the store, `up[a]` an `update()` in progress: it reads, merges in place,
writes the file across an await and then forgets. Since `Object.assign` merges into
the object the event handler holds, `rec` has what any update stores. A log stream is
a listener; one whose client has left throws when it is called (`Throws`), which ends
the chain of the events. Files that are being written do not parse (`Partial`).
Output is counted. `killCommand` is SIGTERM to the subshell of the command.

execStream waits, up to five seconds, for a marker that is meant to say that the
labelers have put all output into the log, and it does not say so (more on it below). So
`late[p]` is how many of the last lines of the command were not in the log when it was read
for the last time: any number that was not seen before. `OutputCaptured` asks for all the
other lines. What is late is lost.

### SessionShell

Here the shell is a process: `stdin` the scripts it has not read, `bash` the command
it is busy with and where in the script of buildFIFOScript, `log`, `exitFile`,
`pidFile`, `pipe` and `marker` the files. exec runs its command in the shell
itself, so that the shell takes nothing else; execStream's subshell goes on while
the shell takes the next script, and the labelers copy its lines into the log.
The Node side is `pc`: waiting for the exit file (watcher, poll and first check are
`SeeExit`), for the pid, polling the log, waiting for the labelers. destroy()
takes three steps, with SIGTERM, SIGKILL and the removal of the directory. A session that
is being destroyed still takes commands and kills, as `isReady` asks for the shell only
(session.ts:644-646, 1403-1407): requests hold the session object they read before.

### FileService

`fs[p]` is absent, a directory or a file: a prefix of a content, which is a sequence
of the blocks one `dd` reads. Each shell command is one action under the lock of the
session; `read`, `delete` and the clone keep the lock, the others take a turn for each
command, so requests interleave. `was[c]` and `changers[c]` remember what has been at
the path of a request, and who else changed it, since it began: the answers are
compared with that. A read may ask for an encoding (`AsBinary`), which then decides how the
content is returned, whatever its type is. A block of a stream is decoded by itself
(`Output`): one that ends within a character (`CutAt`) is returned torn, and the next one
is, too. `Interfere` is a program in the background. A session may fail
at every command, which then may have done its work or half of it (`Halfway`).
`streamFile` and `collectFile` are file-stream.ts: pure functions of the events that
arrive, here every cut of the events the container sent (`Received`).

### ProcessWaits

`call[c]` is what the Durable Object knows, `chan[c]` the events of its stream on
their way, `listeners[p]` the log streams at the record of the process, `watch[c]` the
loop of handlePortWatch. The process is that of ProcessService, without the store.
A line either matches the awaited pattern or does not. `Debounced` is the check that
waitForLog puts off for 50 ms. A stream may break (`StreamBreaks`), which its
reader hears of, or just end without an exit event (`StreamEnds`), as that of a cut
connection may: waitForLog then presumes an exit, and the callbacks of startProcess are told
nothing (`Results`: `presumed`, `silent`). Any request may fail (`RequestFails`), those of
both looks of opencode included. In the run `ViaHttp` is true; a WebSocket differs in
passing no cancel on, which the properties name as an exception. Its theorems are in one
module with those of SandboxDO, the other part of the Durable Object, so its names
differ from that one's (`Waiters`, `WaitsSpec`, `WaitsTypeOK`).

### Api and RequestPath

`Api` has no state: which method and path each client asks for, which handler the
first matching route finds, which operation that handler dispatches to, which errors the
operation may end with, their HTTP status, and their class in the SDK. `RequestPath`
sends every call through those tables. A call asks for the default session first if
it is not known (`ensureDefaultSession`), or for a context (`runCode`), and then for
its operation; each request goes through `Fetch` (the container is started; 503 and
500 of containerFetch), the container's operation, and `Retry` (the transport's budget,
in units of three seconds, with the doubling delay). `box` is the container with the
variables of its default session and its contexts; `sdk` what the Durable Object
believes. `BoxStops` and `onStop` are apart: that is the time in which it is wrong.
`lapse` is history: it is set by the steps `EnvKept` names as exceptions.

The methods of an ExecutionSession (`Wrapped`) are called alone, as are methods that
share no state with others; `Together` names the pairs that are called side by
side, those that share the default session, its variables or the contexts.

## Runs

| Run | Instance | Shows |
|---|---|---|
| `session_manager` | 4 requests, 2 ids, all operations, failures, deaths, timeouts | no mutex leaks, no settled creation is joined, no ghost session |
| `session_turns` | 3 requests, 1 id, the locked operations, shells may die | an id has one shell; SessionTurns with its fairness is implemented: first come, first served, and everybody is |
| `session_answers` | 3 requests, 1 id, commands, create and delete, failures, deaths, timeouts | everybody is answered |
| `process_pool` | 3 calls of any kind, 3 spawns, minimum 1, limit 2, one failure, execution timeout | ExecutorLease is implemented, the books of the pool balance, answers follow each other in turn |
| `process_pool_answers` | 2 calls of any kind, 5 spawns, minimum 2, limit 3 | every call ends, also when replacements start in parallel and one fails |
| `sandbox_do` | 3 calls of any kind, 2 ports, 2 tokens, 1 path, one stop and one restart, failing requests | tokens stay unique, visits come with granted tokens, no path stays reserved |
| `ws_transport` | 2 fetches and a stream of up to 2 chunks, both ways to connect, one disconnect | callers share a connection, RequestOnce is implemented, every call comes to an end |
| `process_service` | 1 process of up to 2 lines, 2 calls of any kind, failing sessions and writes, clients that leave | a record can always be found, answers have all the output the log had, the end reaches the file, calls are answered |
| `session_shell` | a foreground and a background command of up to 2 lines, kill, delete, exit, timeout | exec returns all output, running commands can be killed, calls settle |
| `file_service` | 2 requests of any kind, 2 paths, 2 sessions, 2 contents, one change by a background program, failing sessions | reads are of one file, answers were true, streams lack nothing but what a cut between blocks costs |
| `process_waits` | 2 calls of any kind, 1 process, up to 1 line on each pipe, breaking streams, kills | what a wait answers is so (a presumed exit and passed-on errors aside), it settles, the port watch stops |
| `request_path` | every method alone; the pairs of `MCTogether` side by side; 2 variables, 1 stop, 1 eviction, lost answers | the session has the variables, nothing is done twice, the caller is told the truth |

Four requests are what the deepest interaction of sessions needs: an owner, a
waiter, a newcomer and one that creates or deletes. Three calls of the pool make
a context, use it and delete it, or let one run time out before two others.
Three calls of the Durable Object are two that overlap and one that
changes what they read; its theorems hold for any number. The two ids of
`session_manager` show that ids do not interfere; ids share no state but the code of
the maps, so the other runs use one.

The other bounds: two fetches and a stream are a call that makes an attempt, one that
joins it and one that is answered in parts; a disconnect makes room for one more
socket. One process suffices for `process_service` and `process_waits`, since
processes share nothing but the map; two calls are a kill and a reader, a killAll and a
get, or two readers. What `killAllProcesses` does when one of several kills fails
is in `Settled`, but no instance has two processes. One foreground and one
background command share a shell, which is what makes a pid, a blocked FIFO or a
timeout of one matter to the other. Two requests and a background program are three
writers of two paths; contents have three blocks and one, with every way a block of text may end.
`Durations {13}` is an attempt to start a container that takes 39 seconds, so that
the budget of 120 is used up by the third; a shorter one only retries more often. One stop
and one eviction give a call before, between and after. `Init` of RequestPath is a
new sandbox or one that was used before, so that a stop finds something to lose.

Every cfg says `CHECK_DEADLOCK FALSE`: each call is made once and the models end
when all are served. That nobody is left waiting is `Answered` or `Settles`.

`SYMMETRY` is used in runs without liveness properties only.

### Where the code does not do what it says

Each remark is a trace of a model. Where a definition is named, adding it as an
`INVARIANT` (`ConnectsWhenClosed`: a `PROPERTY`) to the named cfg lets TLC print one.

* *A failed creation drops a mutex in use* (`OneTurnPerShell`,
  `SessionManager_answers.cfg`). `finally` in getOrCreateSession deletes
  `sessionLocks[id]` (session-manager.ts:131) although others wait on that mutex. The
  next request makes a new one; it and the waiter have their turns in one shell at
  once. The comments of withSession (:289-291) promise the opposite.
* *createSession races* (`OneShellPerId`, `SessionManager_answers.cfg`). It tests the
  map (:144), awaits initialize() and then sets the entry, outside the mutex and the
  creation table. deleteSession takes no lock either.
* *The exit handler knows a stale context* (`ExitCleansUp`, `ProcessPool_all.cfg`). It
  closes over the context createProcess was given (process-pool.ts:456). Pre-warmed and
  replenished executors, the usual case, get their context later.
* *The limit is tested too early* (`LimitEnforced`, `ProcessPool_all.cfg` with
  `MaxProcesses = 1`). `pool.length` grows only after the process has started
  (process-pool.ts:380), so spawns in parallel do not see each other.
* *exposePort loses tokens* (`ExposedHaveTokens`, `SandboxDO_all.cfg`). Of two
  overlapping calls, the later one writes back the map as it was before the other
  (sandbox.ts:2186). docs/CONCURRENCY.md recommends a storage key per port for such a
  case. From then on getExposedPorts throws "This should not happen" (:2240).
* *A failed unmount is forgotten* (`MountsTracked`, `SandboxDO_all.cfg`). exec does not
  throw when fusermount exits with an error, which is what the comment above the
  deletion of the entry relies on (sandbox.ts:561).
* *A closed socket is not replaced* (`ConnectsWhenClosed`, `WsTransport_all.cfg`).
  handleClose leaves `connectPromise`, so connect() returns the resolved promise of a
  socket that is gone (ws-transport.ts:83), and every later request fails. `disconnect()`
  forgets the pending calls without settling them (:582); `Answered` names both.
* *'complete' may come before the output* (`CompleteAfterOutput`,
  `SessionShell_all.cfg`). The marker of the labelers is written by a subshell whose
  `wait` is for processes that are not its children (session.ts:917-918), so it does not wait.
* *Contexts outlive the container* (`ContextsCurrent`, `RequestPath_all.cfg`). onStop
  clears "in-memory state that references the old container" (sandbox.ts:808-809), but not
  what CodeInterpreter remembers; from then on runCode without a context gets a 404.

More that was read off the models, each with the property that names it as an exception:

* Processes. killCommand's SIGTERM ends the subshell, not the user's command: it goes
  on, its exit file is never written and no 'complete' comes (`Answered` of
  ProcessService, `Settles` of ProcessWaits). A listener whose client has left throws and
  ends the events of the process for everybody (`Persisted`). A command in flight when its
  session is deleted settles only by a timeout (`Settles` of SessionShell).
* Files. exists() answers "no" when its command could not be run (file-service.ts:820).
  `mv` onto a directory moves into it. `base64 -d >` truncates before it writes, so a
  reader in another session may see an empty file (`AnswersTrue`). A text is streamed in
  blocks of 65535 bytes, each read by a command of its own: a block loses the line end at
  its end, and a character that two blocks share becomes replacement characters in both
  (file-service.ts:1526-1579; `StreamWhole`). file-handler.ts hands no session id to
  the operations that change a file: all run in 'default'.
* Waits. A line that comes within 50 ms of another is looked at with the next event
  (sandbox.ts:1480-1487; `Settles`). waitForPort cancels a stream that its iterator has
  locked, after a timeout the container polls on (:1613; `PollingStops`). After a failed start
  OpenCode finds its own server, which never became ready, and returns it as
  a success (opencode.ts:113-142; `AnswersTrue` speaks of what it gives up only). If that
  second look fails itself (:116, 52), its error is what the caller gets, while the server
  may still be running. A log stream that ends without an exit event is an exit to
  waitForLog (sandbox.ts:1505-1516), whatever the process does; the callbacks of startProcess
  hear nothing of such an end, neither onExit nor onError (`AnswersTrue`).
* Requests. GET and DELETE of a process named `kill-all` or `list` reach the fixed
  operations (process-handler.ts:28-61); `/api/commands` has a route and no handler
  (`AsAsked`). setEnvVars during createSession, an answer of createSession that is lost,
  an eviction, and a stop that is announced while a setEnvVars is under way (its later
  variables go to a session of their own, sandbox.ts:276-315) each leave a session
  without some variables (`EnvKept`). The "total
  retry budget" is tested before the delay, so the last attempt may begin at 135 s.
* A sandbox whose name has capitals and is not normalized has no preview URLs: exposePort
  finds out last (sandbox.ts:2188), throws, and leaves the port exposed and its token stored.
* Re-exposing a port with its own token, which a comment of exposePort
  (sandbox.ts:2170) and a test with a mocked container allow, is refused by the
  container's PortService while the port is exposed.

`TokensUnique` holds *because of* the stale map that loses tokens: the map
written is the map that was checked. Reading the tokens again before writing, the
obvious repair, breaks it; that is its mutant.

`AnswersInTurn` says less than one would like, because that is what holds. Responses
carry an execution id that executeCode never compares. After one timeout, the late
response answers the next run, whose own answers the one after it, until a response
arrives while nobody listens.

`OneShellPerId` and `TurnsFairSpec` are checked without failing creations,
createSession and deleteSession, since with them they do not hold. What survives
those operations is what `session_manager` checks.

## Fairness

`FairSpec` of SessionManager: the event loop runs each continuation that is due,
`initialize()` and `destroy()` return (both have time limits), and a command that
nothing stops ends or times out. Nothing is assumed about new requests or the
death of shells. A foreground stream whose session is deleted may hang for ever,
so `session_answers` leaves streams out; `session_turns` has them.

`FairSpec` of ProcessPool: continuations run and timers fire. Nothing is assumed
about processes. Without an execution timeout (the default) a run in an executor
that dies never ends: nothing rejects it. `Answered` is therefore only claimed
with the timeout set.

`FairSpec` of WsTransport: continuations run, and the timers of requests and of
attempts to connect fire. Nothing is assumed of the network or the container, so
every call ends by its timer if by nothing else.

`FairSpec` of ProcessService: the events of a command are pulled, files are read and
written, continuations run. Nothing is assumed of processes, which may run for ever, or
of clients. That of SessionShell: bash reads its scripts, which contain nothing that
blocks but the command and the FIFO; Node looks at files and timers; a shell that was told to
end ends (SIGKILL after a second). Commands may run for ever. That of ProcessWaits: streams
and requests of a live container arrive, timers fire, the watch polls, and the end of a command
is seen; a kill that has begun is stored. Breaking is never required.

FileService and RequestPath are checked for safety only: their operations are finite
sequences, and the retries of a request are bounded by its budget.

## Proofs

`SessionManagerProofs` proves, for every set of requests and ids, every choice of
operations and flags:

* `TypeCorrect`, `MutexesReleased`, `CreationsAreFresh`, `NoGhosts`: the type
  invariant and the invariants of `session_manager`. None but the first is
  inductive. The strengthening `IInv` adds to `TypeOK`
  - `MutexInv`: a request is in its turn exactly when it owns the mutex it
    captured, and a queue holds, once each, requests that wait for it. Without it
    a release could wake a request that is not waiting;
  - `CmdInv`: how far a request has come with its commands;
  - `SessInv`: where a request is tells how far the session object it makes has
    come, and a deleteSession destroys a session of its own id.
* `Serialization`: no two requests are in their turn for one id, if nothing drops
  a mutex (`NothingDropped`: creations do not fail and deleteSession is not
  called). `LockInv`, that every captured mutex is the one
  in the map, gives it from `MutexInv`.
* `OneShell`: an id never has two shells (`OneShellPerId`), if requests only run commands and creations
  do not fail (`OnlyLocked`). A failed creation frees the mutex for two
  joiners, of which each creates a session. `ShellInv` says that a shell that is starting
  is that of the creation its id has in the table, and that the id has no session then; one
  that was started is that of the session in the map.
* `ImplementsTurns`: under the same assumption every step is a step of
  SessionTurns or leaves the line alone. `CallJoins` and `ReleaseDeparts` are the
  two cases that matter.

`SandboxDOProofs` proves for every number of calls, ports, tokens, paths, stops and
restarts:

* `TypeCorrect`, with the order of the requests of an operation in `TypeOK`; the run
  does not check it again;
* `UrlsLeadBack`: what is read from a URL is what it was made of, from `Middle`, which says
  what is between the ends of a sequence, and `LowercaseSanitary`;
* `VisitsStayIssued`: `VisitsIssued` with `IssuedInv`, that all tokens in storage and in the
  copies of waiting calls were granted; `IssuedForever` says that this is for good, and
  `IssuedKept` covers the steps that store no new token;
* `TokensStayUnique`: `TokensUnique` alone is not inductive. `TokenInv` adds that the
  copy each waiting exposePort holds has no duplicates and gives its token to no
  other port; `GiveToken` says that such a map may be written at any time;
* `ReservationsEnd`: `NoOrphanReservation` is inductive with `TypeOK`, since a
  mountBucket that ends leaves its path mounted or free, whoever reserved it.

Of ProcessWaits it proves, for every set of calls and processes and any output,
over HTTP and over a WebSocket, with streams that break, sessions that fail, kills and
timeouts at any time:

* `WaitsTypeCorrect` (`WaitsTypeOK`), with `CallsInv`: where a call can be, by its operation;
* `WaitsAnswerTrue` (`AnswersTrue`), from `StreamsInvariant`. An answer is made of what a stream
  has told, long after the process did what it tells, so the invariant is about what is
  on its way. It says of a call that reads a stream:
  - `Kinds`: an end event is the last of its stream, and the process is over. What comes
    after a false "exited" would otherwise be a contradiction of it;
  - `Fed`: it is in `listeners` as long as the process runs, unless a listener that was
    called before it threw (`aborted`);
  - `Whole`: the events in the channel lead from what exec or the callbacks were given to
    what the process printed (`Leads`: the output after each event is a witness, so
    the concatenation is never computed);
  - `Looked`: a line that matches is seen, or on its way, and one that was seen is
    pending in the check that waitForLog puts off. Without `pending` an exit that
    comes in those 50 ms would be answered instead of the line;
  - `ListenInv`: who listens at the record of a process waits for that process.

`ProcessPoolProofs` proves for every set of calls, every configuration and every
number of spawns and failures:

* `TypeCorrect`, `PoolBalances` (`PoolAccounts`), `AnswersStayInTurn`
  (`AnswersInTurn`) and `PoolLeases`: every executor is leased as ExecutorLease says.
  `PoolInvariant` is the invariant they come from:
  - `SpawnInv`: executors are spawned in order, a call spawns one for itself at most
    and waits for it, and pre-warming has one under way, which its count does not
    include. That is why `warmed` never exceeds the minimum;
  - `PoolLineInv`, `LineInv`: the line of a mutex holds exactly the calls that wait for
    it or work under it, each once. A release would otherwise wake a call that does
    something else, or the same call twice;
  - `HoldInv`: a live executor is in `available` exactly when nobody has it, has one
    holder at most, and a context keeps its own until it is deleted;
  - `AnswerInv`: an answer is in one place only, and is for a call that has asked this
    executor. It may be a late one only if a run has timed out.

`SessionShellProofs` proves for all sets of commands, every number of lines and every
combination of kill, destroy, exit and timeout:

* `TypeCorrect`, `ExecTellsAll` (`ExecOutput`), `CanBeKilled` (`Killable`), from
  `ShellInvariant`: a script is on stdin once and before its command runs (`StdinInv`),
  where bash is in a script tells the state of its command (`BashInv`), a log has nothing
  but the reason of a refusal until the output is merged, and the exit code comes after
  that (`LogInv`). While the session is ready, a background command whose stream goes on
  and that may still run is tracked, was signalled, or has had a kill answered with false (`KillInv`), and its pid file is there
  as soon as bash has written it and until its stream ends (`PidInv`).

`FileServiceProofs` proves for all sets of requests, paths, sessions and contents and any
number of programs in the background:

* `TypeCorrect`, `ReadsAreConsistent` (`ReadConsistent`), `AnswersAreTrue` (`AnswersTrue`), from
  `FilesInvariant`: a call between two commands of one turn holds the lock of its
  session, and the handlers of read, write, delete and move run in one and the same session
  (`SessionInv`). So what they have found there is there still, unless a program in
  the background is in `changers` (`ReadInv`, `MadeInv`); `was` has what is at the path
  now (`SeenInv`);
* `StreamsAreWhole` (`StreamWhole`), for files of any number of blocks, from `StreamInvariant`: a
  stream takes a turn for each block, so what it knows is about a file that may be gone. If
  nobody else has changed the path, `was` has one node; the size and the encoding are its own,
  the chunks are its first blocks, in their order, torn only where a character is cut (`Chunks`), and "complete" is answered after all of them
  (`Count`: but for a last block that is only a line end). `YieldedChunks` says
  what streamFile makes of such events: of a least number of events for which it yields
  anything else the last would be to blame. `Collected` says that of all cuts only
  the whole stream is not thrown away.

`WsTransportProofs` proves for every set of calls and streams, both ways to connect
and any number of chunks and disconnects:

* `TypeCorrect`, `ConnectsOnce` (`OneConnection`), from `ConnInv`: without a
  disconnect the attempt that is pending is the one `connectPromise` holds;
* `SettlesOnce`: every step is a step of RequestOnce or leaves its calls alone. It needs
  `OrderInv`, that the chunks a pending stream was not given are all on
  their way, in their order and before its final message, and `InboxInv`, that a message
  is on the socket its call was sent on and a final one is of a call the adapter is
  done with.

`ProcessServiceProofs` proves for every set of processes and calls and any output:

* `TypeCorrect` and `AlwaysFindable`: `Findable` is inductive with `UpInv`, that
  an update under way is of the process that waits for it or of one a call has killed, and
  moves only final records out of the map, `ListenInv` and `CallInv`;
* `OutputIsCaptured`: `OutputCaptured`. `RecInv` says that before its last
  event only a kill has ended a record, and that afterwards it is final and has all
  the output that was not late, unless the session failed; `FileInv` and `ResultInv` say the same of a
  record that is written or was returned. A record that is whole stays whole, whatever is
  merged into it.

`RequestPathProofs` proves for every set of calls, of ids of processes and of variables, any
pairs of methods side by side, and any number of stops and evictions:

* `TypeCorrect`, `EnvIsKept` (`EnvKept`), `DoneOnce` (`AsAsked`) and `TruthIsTold` (`Told`), from
  `PathInvariant`:
  - `WayOf`: how far a call has come tells what was done for it. Before its own request
    is answered, and when the answer is that the container starts, nothing was; and
    only that answer is retried;
  - `DispatchOps`: whatever the id, the operation the container finds for a request is
    the one asked for, or the id is the name of a fixed route. It walks the
    tables of `Api`: a first matching route of another handler would have the same
    second segment (`HandlerOf`, `Shaped`). That an id is a string need not be assumed;
  - `KnownOf`: a request that has still to be done knows of no stop that is not announced
    (`OnItsWay`), and the session it is for exists, unless the container has stopped
    since. Without it `SetVar` and `Serve` could create the session without an excuse;
  - `SessionEnv`: a variable of the session has the value of the sandbox or is one a
    setEnvVars has still to set (`Still`); `EnvOf`: what a call carries is up to date
    unless a later setEnvVars has overtaken it.

  `SessionEnv` is not kept by an `onStop` that comes while a setEnvVars is under way and the
  session of after the stop exists already: it takes three calls, one more than the
  run has, to make `EnvKept` fail that way. The property names this
  exception since the proof showed it.

Assumptions on the constants are those of the modules: `None` is no request, id, call,
number, variable or set of values, `NoProc` no process, `Ops` and `Asks` are sets of operations, `Text` a
set of lines on the two pipes, flags are Booleans, bounds are natural numbers
(`MaxCommands` a positive one), the sets of calls of WsTransport and ProcessPool's
executors are finite, no record of a process is `Absent` or `Partial`, and what a
content looks like in blocks is what the comment of `Blocks` says. `OneShell`, `Serialization` and
`ImplementsTurns` have a hypothesis each, named above; the
instance of `session_turns` satisfies them.

Only model-checked:

* liveness: `Answered`, `Settles`, `Persisted`, `PollingStops`, the fairness part of
  `TurnsFairSpec`. The prover has no rules for ENABLED.

Every invariant of the runs, the action properties and the safety part of the three
refinements have a theorem.

## Not modelled

* The manager's `destroy()` and the pool's `shutdown()`, which no code under
  the `src` directories of the packages calls; likewise `checkoutBranch` and its
  relatives of GitService, and `delete` of ProcessStore.
* Of the Durable Object: `destroy()`, the settings (sleepAfter, keepAlive, container
  timeouts) and the renewal of activity; in the Worker (`S/request-handler.ts`), the headers
  of a forwarded request and what the port answers.
* Of Session: a background command whose `cd` fails (it writes no exit file, so its
  stream goes on until the shell dies), the size limit of the log, reuse of pids.
* The lines of an SSE event. A chunk of WsTransport is a whole event; parseSSEEvents of
  ws-adapter.ts keeps only an incomplete line between chunks, so an event that is
  cut between two lines would be lost.
* The retries of the interpreter client (`executeWithRetry`, interpreter-client.ts:182-225):
  three attempts at a method of contexts or code, if an error says that the
  interpreter is not ready. They are not in `Retry`, because no error of the container
  says so: nothing throws the InterpreterNotReadyError that interpreter-service.ts:149
  looks for. If something did, a `createCodeContext` would be asked for up to three times
  more often than `AsAsked` counts.
* Which error a run of code ends with, beyond the status of the response and the class
  `SandboxError`: the bodies of executeCode have no `httpStatus`, and their code is not where
  the client looks for it, or missing (`HttpStatus`; interpreter-service.ts:296-475).
* RequestPath over a WebSocket: the retries are those of the base class, but its
  connection is WsTransport's and the two are not composed. A stop of the container during a
  mount or a port call is in SandboxDO.
* Validation (`C/security/`, `S/security.ts` but for names, `S/storage-mount/`), middleware, wiring,
  error texts, bucket credentials and options, the OpenAI adapter: pure functions or
  pure forwarding. The websites and examples of the repository are not part of the system.
* Contents: commands, code, environment values beyond set and unset; formatting and
  logging.
* Two languages at once: they share only `contextExecutors`, by unique keys.
* Bun and Node themselves, async-mutex, child_process, bash and the file system, beyond
  what the code relies on (`external` in the map).

## Plan

1. `SessionManager`, `SessionTurns`, `ProcessPool`, `ExecutorLease`, `SandboxDO`, `PreviewUrl`: done, with
   the proofs of the first and the last.
2. `WsTransport`, `RequestOnce`, `ProcessService`, `SessionShell`, `FileService`,
   `ProcessWaits`, `Api`, `RequestPath`: done.
3. The proofs of `ProcessPool`, `FileService`, `SessionShell`, `WsTransport`,
   `ProcessService`, `RequestPath`, `ProcessWaits` and of `OneShellPerId`: done.
4. Then: `destroy()` of the Durable Object; the SSE parser of the adapter as a function
   over every cut of a stream; RequestPath over WsTransport.
