---------------------------- MODULE SessionShell ----------------------------
(***************************************************************************)
(* The commands of one session: session.ts of the container and the bash   *)
(* script that buildFIFOScript writes for each of them.                    *)
(*                                                                         *)
(* The node side and bash meet in files only: the script on the standard   *)
(* input of bash, the FIFO and the file of the pid, the log, the exit      *)
(* file and the marker "labelers.done".  Lines of output are counted.      *)
(*                                                                         *)
(* exec() runs its command in the shell itself, execStream() in a subshell *)
(* that goes on while the shell takes the next script.  The mutex of       *)
(* SessionManager is held by exec() until it settles and by execStream()   *)
(* until its 'start' event.                                                *)
(***************************************************************************)
EXTENDS Naturals, Sequences, FiniteSets

CONSTANTS
  Execs,         \* commands that are given to exec()
  Streams,       \* commands that are given to execStream()
  None,          \* no command
  MaxLines,      \* bound: lines a command writes
  Timeout,       \* is COMMAND_TIMEOUT_MS set?
  MayDestroy,    \* may the session be deleted?
  MayKill,       \* may commands be killed?
  MayExit        \* may a command end the shell ("exit")?

ASSUME KindAssumption == Execs \cap Streams = {} /\ None \notin Execs \cup Streams
ASSUME LinesAssumption == MaxLines \in Nat
ASSUME FlagAssumption == {Timeout, MayDestroy, MayKill, MayExit} \subseteq BOOLEAN

Commands == Execs \cup Streams

VARIABLES
  \* bash
  stdin,     \* scripts that were written to it and not yet read
  bash,      \* [doing: the command it is busy with, at: where in its script]
  cmd,       \* cmd[k]: what has become of the command
  out,       \* out[k]: lines it has written
  \* files in the directory of the session
  log,       \* log[k]: lines in its log
  exitFile, marker, pidFile,
  pipe,      \* pipe[k]: the FIFO of its pid
  dir,       \* is the directory there?
  \* the Session object
  life,      \* of the session
  noticed,   \* has shellExitedPromise been rejected?
  tracked,   \* runningCommands
  pc,        \* pc[k]: where exec() or execStream() is
  given,     \* given[k]: lines that were yielded or returned
  \* history
  signalled, \* commands a kill of which has answered true
  missed     \* commands a kill of which has answered false before their end

bashVars    == << stdin, bash, cmd, out >>
fileVars    == << log, exitFile, marker, pidFile, pipe, dir >>
sessionVars == << life, noticed, tracked, pc, given >>
historyVars == << signalled, missed >>
vars == << bashVars, fileVars, sessionVars, historyVars >>

Settled == {"done", "error"}

\* Where the mutex of the session is held.
Turn == {"wait", "saw", "read", "stuck", "pid", "unread", "file"}

TypeOK ==
  /\ stdin \in Seq(Commands)
  /\ bash \in [doing : Commands \cup {None},
               at : {"idle", "run", "merge", "exit", "fork", "pid", "blocked", "dead"}]
  /\ cmd \in [Commands -> {"none", "running", "ended", "refused", "orphan", "lost"}]
  /\ out \in [Commands -> 0..MaxLines]
  /\ log \in [Commands -> 0..(MaxLines + 1)]
  /\ exitFile \in [Commands -> BOOLEAN]
  /\ marker \in [Commands -> BOOLEAN]
  /\ pidFile \in [Commands -> BOOLEAN]
  /\ pipe \in [Commands -> {"absent", "reader", "pid", "empty", "unread", "removed"}]
  /\ dir \in BOOLEAN
  /\ life \in {"ready", "destroying", "removed", "destroyed"}
  /\ noticed \in BOOLEAN
  /\ tracked \subseteq Commands
  /\ pc \in [Commands -> {"idle", "poll", "shell", "labelers", "final"} \cup Turn \cup Settled]
  /\ given \in [Commands -> 0..(MaxLines + 1)]
  /\ signalled \subseteq Streams
  /\ missed \subseteq Streams
  \* what is tracked is being executed, and a FIFO is read by one that waits
  /\ \A k \in tracked : pc[k] \notin Settled \cup {"idle"}
  /\ \A k \in Streams : pipe[k] = "reader" => pc[k] = "pid"

Init ==
  /\ stdin = << >>
  /\ bash = [doing |-> None, at |-> "idle"]
  /\ cmd = [k \in Commands |-> "none"]
  /\ out = [k \in Commands |-> 0]
  /\ log = [k \in Commands |-> 0]
  /\ exitFile = [k \in Commands |-> FALSE]
  /\ marker = [k \in Commands |-> FALSE]
  /\ pidFile = [k \in Commands |-> FALSE]
  /\ pipe = [k \in Commands |-> "absent"]
  /\ dir = TRUE
  /\ life = "ready"
  /\ noticed = FALSE
  /\ tracked = {}
  /\ pc = [k \in Commands |-> "idle"]
  /\ given = [k \in Commands |-> 0]
  /\ signalled = {}
  /\ missed = {}

-----------------------------------------------------------------------------
(* bash and the commands *)

Free == [doing |-> None, at |-> "idle"]

At(k, at) == bash = [doing |-> k, at |-> at]

Goes(k, at) == bash' = [doing |-> k, at |-> at]

\* bash reads the next script and changes to the directory it names, if it
\* can; the line it logs when it cannot is all the output there is.
Take(k) ==
  /\ bash = Free /\ stdin # << >> /\ k = Head(stdin)
  /\ stdin' = Tail(stdin)
  /\ \/ /\ cmd' = [cmd EXCEPT ![k] = "running"]
        /\ Goes(k, IF k \in Execs THEN "run" ELSE "fork")
        /\ UNCHANGED log
     \/ /\ cmd' = [cmd EXCEPT ![k] = "refused"]
        /\ Goes(k, IF k \in Execs THEN "merge" ELSE "pid")
        /\ log' = [log EXCEPT ![k] = 1]
  /\ UNCHANGED << out, exitFile, marker, pidFile, pipe, dir, sessionVars, historyVars >>

\* A command writes a line, even one whose subshell was killed.
WriteLine(k) ==
  /\ cmd[k] \in {"running", "orphan"} /\ out[k] < MaxLines
  /\ out' = [out EXCEPT ![k] = @ + 1]
  /\ UNCHANGED << stdin, bash, cmd, fileVars, sessionVars, historyVars >>

\* A command that runs in the shell ends, or ends the shell.
ForegroundEnds(k) ==
  /\ At(k, "run")
  /\ \/ /\ cmd' = [cmd EXCEPT ![k] = "ended"]
        /\ Goes(k, "merge")
     \/ /\ MayExit
        /\ cmd' = [cmd EXCEPT ![k] = "lost"]
        /\ Goes(k, "dead")
  /\ UNCHANGED << stdin, out, fileVars, sessionVars, historyVars >>

\* Mutant of Merge: the exit code is written before the output is merged.
MergeLate(k) ==
  /\ At(k, "merge")
  /\ exitFile' = [exitFile EXCEPT ![k] = dir]
  /\ Goes(k, "exit")
  /\ UNCHANGED << stdin, cmd, out, log, marker, pidFile, pipe, dir, sessionVars, historyVars >>

\* The temporary files are merged into the log.
Merge(k) ==
  /\ At(k, "merge")
  /\ log' = [log EXCEPT ![k] = @ + out[k]]
  /\ Goes(k, "exit")
  /\ UNCHANGED << stdin, cmd, out, exitFile, marker, pidFile, pipe, dir, sessionVars, historyVars >>

\* The exit code appears at once, by a rename.
WriteExit(k) ==
  /\ At(k, "exit")
  /\ exitFile' = [exitFile EXCEPT ![k] = dir]
  /\ bash' = Free
  /\ UNCHANGED << stdin, cmd, out, log, marker, pidFile, pipe, dir, sessionVars, historyVars >>

\* The subshell runs; its pid goes to a file, then to the FIFO.
WritePid(k) ==
  /\ At(k, "fork")
  /\ pidFile' = [pidFile EXCEPT ![k] = dir]
  /\ Goes(k, "pid")
  /\ UNCHANGED << stdin, cmd, out, log, exitFile, marker, pipe, dir, sessionVars, historyVars >>

\* Writing to a FIFO nobody reads blocks, and one that is gone becomes a file.
\* The monitor that follows waits for labelers that are not its children, so
\* it does not wait, and says that they are done.
NotifyPid(k) ==
  /\ At(k, "pid")
  /\ \/ /\ pipe[k] = "unread"
        /\ Goes(k, "blocked")
        /\ UNCHANGED << pipe, marker >>
     \/ /\ pipe[k] # "unread"
        /\ pipe' = [pipe EXCEPT ![k] = IF @ # "reader" THEN @
                                       ELSE IF cmd[k] = "refused" THEN "empty" ELSE "pid"]
        /\ marker' = [marker EXCEPT ![k] = dir /\ cmd[k] # "refused"]
        /\ bash' = Free
  /\ UNCHANGED << stdin, cmd, out, log, exitFile, pidFile, dir, sessionVars, historyVars >>

\* A labeler copies a line from its FIFO to the log.
Label(k) ==
  /\ k \in Streams /\ cmd[k] \in {"running", "ended", "orphan"} /\ log[k] < out[k]
  /\ log' = [log EXCEPT ![k] = @ + 1]
  /\ UNCHANGED << bashVars, exitFile, marker, pidFile, pipe, dir, sessionVars, historyVars >>

\* The command ends, and its subshell writes the exit code.
BackgroundEnds(k) ==
  /\ k \in Streams /\ cmd[k] = "running"
  /\ cmd' = [cmd EXCEPT ![k] = "ended"]
  /\ exitFile' = [exitFile EXCEPT ![k] = dir]
  /\ UNCHANGED << stdin, bash, out, log, marker, pidFile, pipe, dir, sessionVars, historyVars >>

-----------------------------------------------------------------------------
(* What exec and execStream share *)

\* A session that is being deleted takes commands for as long as its shell lives.
isReady == life # "destroyed" /\ ~ noticed /\ bash.at # "dead"

\* The command is over: it is not tracked any more and its files are removed.
Settle(k, how) ==
  /\ pc' = [pc EXCEPT ![k] = how]
  /\ tracked' = tracked \ {k}
  /\ exitFile' = [exitFile EXCEPT ![k] = FALSE]
  /\ pidFile' = [pidFile EXCEPT ![k] = FALSE]

\* Mutant of Begin: execStream tracks its command when it yields 'start'.
BeginUntracked(k) ==
  /\ tracked' = tracked \cup ({k} \cap Execs)
  /\ stdin' = Append(stdin, k)

\* The command is tracked and its script written.
Begin(k) ==
  /\ tracked' = tracked \cup {k}
  /\ stdin' = Append(stdin, k)

\* It is the turn of k, by the mutex of the session.
HasTurn(k) == pc[k] = "idle" /\ \A j \in Commands : pc[j] \notin Turn

NotReady(k) ==
  /\ HasTurn(k) /\ ~ isReady
  /\ pc' = [pc EXCEPT ![k] = "error"]
  /\ UNCHANGED << bashVars, fileVars, life, noticed, tracked, given, historyVars >>

-----------------------------------------------------------------------------
(* exec *)

exec(k) ==
  /\ k \in Execs /\ HasTurn(k) /\ isReady
  /\ Begin(k)
  /\ pc' = [pc EXCEPT ![k] = "wait"]
  /\ UNCHANGED << bash, cmd, out, fileVars, life, noticed, given, historyVars >>

\* waitForExitCode: the watcher, the poll or the first check sees the file.
SeeExit(k) ==
  /\ k \in Execs /\ pc[k] = "wait" /\ exitFile[k]
  /\ pc' = [pc EXCEPT ![k] = "saw"]
  /\ UNCHANGED << bashVars, fileVars, life, noticed, tracked, given, historyVars >>

\* What has seen it has stopped the others.  If the file cannot be read any
\* more, the first check rejects; the poll ignores it, and nothing is left.
ReadExit(k) ==
  /\ pc[k] = "saw"
  /\ \/ /\ exitFile[k]
        /\ pc' = [pc EXCEPT ![k] = "read"]
        /\ UNCHANGED << exitFile, pidFile, tracked >>
     \/ /\ ~ exitFile[k]
        /\ Settle(k, "error")
     \/ /\ ~ exitFile[k]
        /\ pc' = [pc EXCEPT ![k] = "stuck"]
        /\ UNCHANGED << exitFile, pidFile, tracked >>
  /\ UNCHANGED << bashVars, log, marker, pipe, dir, life, noticed, given, historyVars >>

\* parseLogFile; without its file there is no output.
ReadLog(k) ==
  /\ pc[k] = "read"
  /\ given' = [given EXCEPT ![k] = IF dir THEN log[k] ELSE 0]
  /\ Settle(k, "done")
  /\ UNCHANGED << bashVars, log, marker, pipe, dir, life, noticed, historyVars >>

ExecTimesOut(k) ==
  /\ Timeout /\ k \in Execs /\ pc[k] = "wait"
  /\ Settle(k, "error")
  /\ UNCHANGED << bashVars, log, marker, pipe, dir, life, noticed, given, historyVars >>

\* The race with shellExitedPromise.
ExecDies(k) ==
  /\ k \in Execs /\ pc[k] \in {"wait", "saw", "stuck"} /\ noticed
  /\ Settle(k, "error")
  /\ UNCHANGED << bashVars, log, marker, pipe, dir, life, noticed, given, historyVars >>

-----------------------------------------------------------------------------
(* execStream *)

execStream(k) ==
  /\ k \in Streams /\ HasTurn(k) /\ isReady
  /\ Begin(k)
  /\ pipe' = [pipe EXCEPT ![k] = "reader"]
  /\ pc' = [pc EXCEPT ![k] = "pid"]
  /\ UNCHANGED << bash, cmd, out, log, exitFile, marker, pidFile, dir, life, noticed, given, historyVars >>

\* waitForPidViaPipe: the FIFO answers, with a pid or with nothing, and is
\* removed.
PidFromPipe(k) ==
  /\ pc[k] = "pid" /\ pipe[k] \in {"pid", "empty"}
  /\ pc' = [pc EXCEPT ![k] = IF pipe[k] = "pid" THEN "poll" ELSE "file"]
  /\ pipe' = [pipe EXCEPT ![k] = "removed"]
  /\ UNCHANGED << bashVars, log, exitFile, marker, pidFile, dir, life, noticed, tracked, given, historyVars >>

\* Mutant of PidTimesOut: its reader is not released.
PidTimesOutLeaks(k) ==
  /\ pc[k] = "pid" /\ pipe[k] = "reader"
  /\ pc' = [pc EXCEPT ![k] = "unread"]
  /\ UNCHANGED << bashVars, fileVars, life, noticed, tracked, given, historyVars >>

\* Mutant of PidTimesOut: the read of the FIFO has no timeout.
PidNeverTimesOut(k) == FALSE /\ UNCHANGED vars

\* After 5 s the reader is released; the FIFO is there until it is removed.
PidTimesOut(k) ==
  /\ pc[k] = "pid" /\ pipe[k] = "reader"
  /\ pc' = [pc EXCEPT ![k] = "unread"]
  /\ pipe' = [pipe EXCEPT ![k] = "unread"]
  /\ UNCHANGED << bashVars, log, exitFile, marker, pidFile, dir, life, noticed, tracked, given, historyVars >>

RemovePipe(k) ==
  /\ pc[k] = "unread"
  /\ pc' = [pc EXCEPT ![k] = "file"]
  /\ pipe' = [pipe EXCEPT ![k] = "removed"]
  /\ UNCHANGED << bashVars, log, exitFile, marker, pidFile, dir, life, noticed, tracked, given, historyVars >>

\* waitForPidFile finds the pid, or gives up: 'start' is yielded in any case.
PidFromFile(k) ==
  /\ pc[k] = "file"
  /\ pc' = [pc EXCEPT ![k] = "poll"]
  /\ UNCHANGED << bashVars, fileVars, life, noticed, tracked, given, historyVars >>

\* One round of the loop: is the shell alive, is there an exit code, is there
\* more output?  After destroy() the promise is null, which throws.
Poll(k) ==
  /\ pc[k] = "poll"
  /\ \/ /\ ~ isReady /\ life # "destroyed"
        /\ pc' = [pc EXCEPT ![k] = "shell"]
        /\ UNCHANGED << exitFile, pidFile, tracked, given >>
     \/ /\ life = "destroyed"
        /\ Settle(k, "error")
        /\ UNCHANGED given
     \/ /\ isReady /\ exitFile[k]
        /\ pc' = [pc EXCEPT ![k] = "labelers"]
        /\ UNCHANGED << exitFile, pidFile, tracked, given >>
     \/ /\ isReady /\ ~ exitFile[k] /\ dir /\ given[k] < log[k]
        /\ given' = [given EXCEPT ![k] = log[k]]
        /\ UNCHANGED << exitFile, pidFile, tracked, pc >>
  /\ UNCHANGED << bashVars, log, marker, pipe, dir, life, noticed, historyVars >>

\* It waits for a promise that is never settled when destroy() has begun.
AwaitShell(k) ==
  /\ pc[k] = "shell" /\ noticed
  /\ Settle(k, "error")
  /\ UNCHANGED << bashVars, log, marker, pipe, dir, life, noticed, given, historyVars >>

\* The marker is there, or 5 s have passed.
AwaitLabelers(k) ==
  /\ pc[k] = "labelers"
  /\ pc' = [pc EXCEPT ![k] = "final"]
  /\ UNCHANGED << bashVars, fileVars, life, noticed, tracked, given, historyVars >>

\* The rest of the log, then 'complete'.
Complete(k) ==
  /\ pc[k] = "final"
  /\ given' = [given EXCEPT ![k] = IF dir THEN log[k] ELSE @]
  /\ marker' = [marker EXCEPT ![k] = FALSE]
  /\ Settle(k, "done")
  /\ UNCHANGED << bashVars, log, pipe, dir, life, noticed, historyVars >>

-----------------------------------------------------------------------------
(* killCommand, destroy and the end of the shell *)

\* The pid file names a subshell that is there.
Hits(k) == k \in Streams /\ pidFile[k] /\ cmd[k] = "running"

\* SIGTERM ends the subshell, not the command in it, and no exit code is ever
\* written, unless the command has set a trap.  Either way the command is
\* forgotten.
killCommand(k) ==
  /\ MayKill /\ k \in tracked /\ k \in Streams /\ life # "destroyed"
  /\ tracked' = tracked \ {k}
  /\ \/ /\ Hits(k)
        /\ signalled' = signalled \cup {k}
        /\ \E became \in {"orphan", "running"} : cmd' = [cmd EXCEPT ![k] = became]
        /\ UNCHANGED missed
     \/ /\ ~ Hits(k)
        /\ missed' = IF cmd[k] \in {"none", "running"} THEN missed \cup {k} ELSE missed
        /\ UNCHANGED << cmd, signalled >>
  /\ UNCHANGED << stdin, bash, out, fileVars, life, noticed, pc, given >>

\* destroy: every tracked command is killed, then bash.
destroy ==
  /\ MayDestroy /\ life = "ready"
  /\ life' = "destroying"
  /\ tracked' = {}
  /\ cmd' = [k \in Commands |-> IF k \in tracked /\ Hits(k) THEN "orphan" ELSE cmd[k]]
  /\ UNCHANGED << stdin, bash, out, fileVars, noticed, pc, given, historyVars >>

\* bash ends by the end of its input, by SIGTERM or, after 1 s, by SIGKILL.
ShellEnds ==
  /\ life = "destroying" /\ bash.at # "dead"
  /\ Goes(bash.doing, "dead")
  /\ cmd' = [k \in Commands |-> IF At(k, "run") THEN "lost" ELSE cmd[k]]
  /\ UNCHANGED << stdin, out, fileVars, sessionVars, historyVars >>

RemoveDir ==
  /\ life = "destroying" /\ bash.at = "dead"
  /\ life' = "removed"
  /\ dir' = FALSE
  /\ exitFile' = [k \in Commands |-> FALSE]
  /\ pidFile' = [k \in Commands |-> FALSE]
  /\ marker' = [k \in Commands |-> FALSE]
  /\ UNCHANGED << bashVars, log, pipe, noticed, tracked, pc, given, historyVars >>

Destroyed ==
  /\ life = "removed"
  /\ life' = "destroyed"
  /\ UNCHANGED << bashVars, fileVars, noticed, tracked, pc, given, historyVars >>

\* shell.exited resolves: unless destroy() has begun, the sentinel rejects.
NoticeDeath ==
  /\ bash.at = "dead" /\ ~ noticed /\ life = "ready"
  /\ noticed' = TRUE
  /\ UNCHANGED << bashVars, fileVars, life, tracked, pc, given, historyVars >>

-----------------------------------------------------------------------------

Script(k) == Take(k) \/ Merge(k) \/ WriteExit(k) \/ WritePid(k) \/ NotifyPid(k) \/ Label(k)

Node(k) ==
  \/ SeeExit(k) \/ ReadExit(k) \/ ReadLog(k) \/ ExecDies(k)
  \/ PidFromPipe(k) \/ PidTimesOut(k) \/ RemovePipe(k) \/ PidFromFile(k)
  \/ Poll(k) \/ AwaitShell(k) \/ AwaitLabelers(k) \/ Complete(k)

Ends == ShellEnds \/ RemoveDir \/ Destroyed \/ NoticeDeath

Next ==
  \/ \E k \in Commands :
       \/ exec(k) \/ execStream(k) \/ NotReady(k) \/ killCommand(k) \/ ExecTimesOut(k)
       \/ WriteLine(k) \/ ForegroundEnds(k) \/ BackgroundEnds(k)
       \/ Script(k) \/ Node(k)
  \/ destroy \/ Ends

Spec == Init /\ [][Next]_vars

\* bash reads its scripts, files and timers are looked at, and a shell that is
\* to end ends.  Commands may run for ever, and calls need not come.
FairSpec ==
  /\ Spec
  /\ \A k \in Commands : WF_vars(Script(k)) /\ WF_vars(Node(k))
  /\ WF_vars(Ends)

-----------------------------------------------------------------------------
(* Properties *)

\* exec returns all the output of its command, or the line that says why there
\* is none, unless the session was deleted under it (session.ts:348, 956-958).
ExecOutput ==
  \A k \in Execs : pc[k] = "done" =>
    given[k] = (IF cmd[k] = "refused" THEN 1 ELSE out[k]) \/ ~ dir

\* A kill finds a background command that runs, and whose stream goes on: it is
\* tracked, and its pid file is there unless bash is about to write it.  The
\* exception is a command that was killed before: it is forgotten, even if
\* there was no pid yet and the kill has failed (session.ts:658-691).
Killable ==
  \A k \in Streams :
    cmd[k] = "running" /\ pc[k] \notin Settled /\ life = "ready" =>
      /\ k \in tracked \cup signalled \cup missed
      /\ pidFile[k] \/ At(k, "fork")

\* exec settles when its command has ended or the shell has died, the start of
\* a stream is always answered, and the stream ends when its command has or
\* when the shell dies.  The exception is a session that is deleted: its shell
\* may die without anybody being told (session.ts:258, 343-346, 474-478).
Settles ==
  \A k \in Commands :
    /\ (pc[k] = "wait" /\ (exitFile[k] \/ bash.at = "dead") ~> pc[k] \in Settled \/ life # "ready")
    /\ (pc[k] \in {"pid", "unread", "file"} ~> pc[k] \notin {"pid", "unread", "file"})
    /\ (pc[k] = "poll" /\ (exitFile[k] \/ bash.at = "dead") ~> pc[k] \in Settled \/ life # "ready")

\* 'complete' comes after all the output: the marker it waits for says that
\* the labelers have finished (session.ts:917, 530-536).
\* Not kept by the code (README, "Where the code does not do what it says").
CompleteAfterOutput ==
  \A k \in Streams : pc[k] = "done" => given[k] = out[k] \/ ~ dir

=============================================================================
