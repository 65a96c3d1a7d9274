---------------------------- MODULE ProcessWaits ----------------------------
(***************************************************************************)
(* Waiting for a process from the Durable Object: waitForLog, waitForPort, *)
(* waitForExit, exec with callbacks, the callbacks of startProcess         *)
(* (sandbox.ts), the server start of opencode/opencode.ts, and what answers *)
(* them in the container: the log stream of process-handler.ts, the stream *)
(* of execute-handler.ts and the port watch of port-handler.ts.            *)
(*                                                                         *)
(* A log event is one line; whether the awaited pattern is in it is all    *)
(* that is known of it.  A process is what ProcessService makes of it, cut *)
(* down to what these calls can tell.                                      *)
(***************************************************************************)
EXTENDS Naturals, Sequences, FiniteSets, SequencesExt

CONSTANTS
  Procs,        \* processes, by id
  Waiters,      \* calls of the Durable Object
  Asks,         \* the operations clients use
  NoProc,       \* no process
  Text,         \* what processes print: a line on a pipe
  MaxLines,     \* bound: lines on stdout, and on stderr, of a process
  MayBreak,     \* may a request fail, or a stream break?
  SessionsFail, \* may the shell of a process die?
  ViaHttp       \* is the transport HTTP?  A WebSocket does not pass cancels on

AllAsks == {"waitLog", "waitExit", "waitPort", "exec", "start", "opencode"}

ASSUME AsksAssumption   == Asks \subseteq AllAsks
ASSUME NoProcAssumption == NoProc \notin Procs
ASSUME TextAssumption   == Text \subseteq {"stdout", "stderr"} \X {"ready", "other"}
ASSUME LinesAssumption  == MaxLines \in Nat
ASSUME SwitchAssumption == {MayBreak, SessionsFail, ViaHttp} \subseteq BOOLEAN

VARIABLES
  \* the processes, in the container
  life,       \* life[p]: is the command there?
  status,     \* status[p]: that of its record
  saved,      \* saved[p]: is 'killed' stored?
  aborted,    \* aborted[p]: did a listener throw, and end the events of p?
  out,        \* out[p]: its output, as the record has it
  listeners,  \* listeners[p]: log streams that listen to its record, in order
  port,       \* the process that answers on the awaited port
  \* the calls
  call,       \* call[c]: what the Durable Object knows of it
  got,        \* got[c]: output that exec, or the callbacks, were given
  chan,       \* chan[c]: events of its stream that are on their way
  gone,       \* gone[c]: was its stream cancelled?
  watch       \* watch[c]: the loop of its port watch, in the container

procVars == << life, status, saved, aborted, out, port >>
waitsVars == << procVars, listeners, call, got, chan, gone, watch >>

Pipes  == {"stdout", "stderr"}
Lines  == {"ready", "other"}
Silent == [s \in Pipes |-> << >>]
Over   == {"ended", "killed"}

Outputs == [Pipes -> UNION {[1..n -> Lines] : n \in 0..MaxLines}]

Matches(o) == \E s \in Pipes : Contains(o[s], "ready")

Events == [type : Pipes, lines : UNION {[1..n -> Lines] : n \in 1..MaxLines}]
          \cup [type : {"exit", "ready"}, lines : {<< >>}]

Signalled(type) == [type |-> type, lines |-> << >>]

Idle == [op |-> "none", of |-> NoProc, timed |-> FALSE, pc |-> "idle",
         fresh |-> TRUE, matched |-> FALSE, pending |-> FALSE, result |-> "none"]

Awaiting == {"logs", "open", "read", "list", "serve", "stderr", "relist"}

\* What a call is told.  "presumed": waitForLog says that the process has exited,
\* as its stream has ended without a word of that; "silent": the callbacks hear no
\* more; "lost": the error of the request or the stream; "given up": the
\* OpencodeStartupError.
Results == {"none", "found", "exited", "presumed", "silent", "timeout", "lost", "aborted", "given up"}

Polling == {"status", "check", "sleep"}

WaitsTypeOK ==
  /\ life \in [Procs -> {"none", "up", "over"}]
  /\ status \in [Procs -> {"none", "running"} \cup Over]
  /\ saved \in [Procs -> BOOLEAN]
  /\ aborted \in [Procs -> BOOLEAN]
  /\ out \in [Procs -> Outputs]
  /\ listeners \in [Procs -> Seq(Waiters)]
  /\ port \in Procs \cup {NoProc}
  /\ call \in [Waiters -> [op : Asks \cup {"none"}, of : Procs \cup {NoProc}, timed : BOOLEAN,
                         pc : Awaiting \cup {"idle", "hung", "done"},
                         fresh : BOOLEAN, matched : BOOLEAN, pending : BOOLEAN,
                         result : Results]]
  /\ got \in [Waiters -> [Pipes -> Seq(Lines)]]
  /\ chan \in [Waiters -> Seq(Events)]
  /\ gone \in [Waiters -> BOOLEAN]
  /\ watch \in [Waiters -> Polling \cup {"off", "stuck", "done"}]
  \* a stream is of a process that was started, and only a reader has events
  /\ \A c \in Waiters :
       /\ call[c].pc \in {"logs", "open", "read"} => status[call[c].of] # "none"
       /\ chan[c] # << >> => call[c].pc = "read"

WaitsInit ==
  /\ life = [p \in Procs |-> "none"]
  /\ status = [p \in Procs |-> "none"]
  /\ saved = [p \in Procs |-> FALSE]
  /\ aborted = [p \in Procs |-> FALSE]
  /\ out = [p \in Procs |-> Silent]
  /\ listeners = [p \in Procs |-> << >>]
  /\ port = NoProc
  /\ call = [c \in Waiters |-> Idle]
  /\ got = [c \in Waiters |-> Silent]
  /\ chan = [c \in Waiters |-> << >>]
  /\ gone = [c \in Waiters |-> FALSE]
  /\ watch = [c \in Waiters |-> "off"]

-----------------------------------------------------------------------------
(* Processes *)

Launch(p) ==
  /\ status[p] = "none"
  /\ life' = [life EXCEPT ![p] = "up"]
  /\ status' = [status EXCEPT ![p] = "running"]

\* A process started by a client that waits for nothing.
startProcess(p) ==
  /\ Launch(p)
  /\ UNCHANGED << saved, aborted, out, listeners, port, call, got, chan, gone, watch >>

\* Mutant of Delivered: events go on to a call that has left its stream.
DeliveredToAll(p, e) ==
  [c \in Waiters |-> IF Contains(listeners[p], c) /\ ~ gone[c] THEN Append(chan[c], e) ELSE chan[c]]

\* An event goes to the listeners in turn, up to the first that throws.
Delivered(p, e) ==
  [c \in Waiters |->
     IF /\ call[c].pc = "read"
        /\ \E i \in DOMAIN listeners[p] :
             listeners[p][i] = c /\ \A j \in 1..i : ~ gone[listeners[p][j]]
     THEN Append(chan[c], e) ELSE chan[c]]

Throws(p) == \E i \in DOMAIN listeners[p] : gone[listeners[p][i]]

\* A line of output reaches the record, then the log streams.
Output(p) ==
  /\ status[p] = "running" /\ ~ aborted[p]
  /\ \E pipe \in Pipes, line \in Lines :
       /\ << pipe, line >> \in Text
       /\ Len(out[p][pipe]) < MaxLines
       /\ out' = [out EXCEPT ![p][pipe] = Append(@, line)]
       /\ chan' = Delivered(p, [type |-> pipe, lines |-> << line >>])
  /\ aborted' = [aborted EXCEPT ![p] = Throws(p)]
  /\ UNCHANGED << life, status, saved, listeners, port, call, got, gone, watch >>

\* The command ends.
Exits(p) ==
  /\ life[p] = "up"
  /\ life' = [life EXCEPT ![p] = "over"]
  /\ port' = IF port = p THEN NoProc ELSE port
  /\ UNCHANGED << status, saved, aborted, out, listeners, call, got, chan, gone, watch >>

\* Its 'complete' event, or the 'error' of a shell that died: the last that
\* listeners hear.
Completes(p) ==
  /\ status[p] = "running" /\ ~ aborted[p]
  /\ life[p] = "over" \/ SessionsFail
  /\ status' = [status EXCEPT ![p] = "ended"]
  /\ chan' = Delivered(p, Signalled("exit"))
  /\ listeners' = [listeners EXCEPT ![p] = << >>]
  /\ aborted' = [aborted EXCEPT ![p] = Throws(p)]
  /\ UNCHANGED << life, saved, out, port, call, got, gone, watch >>

\* killProcess: the listeners are not told, and the command itself lives on
\* (ProcessService); what it still prints is left out.
Kill(p) ==
  /\ status[p] = "running" /\ life[p] = "up"
  /\ status' = [status EXCEPT ![p] = "killed"]
  /\ UNCHANGED << life, saved, aborted, out, listeners, port, call, got, chan, gone, watch >>

KillStored(p) ==
  /\ status[p] = "killed" /\ ~ saved[p]
  /\ saved' = [saved EXCEPT ![p] = TRUE]
  /\ UNCHANGED << life, status, aborted, out, listeners, port, call, got, chan, gone, watch >>

\* The process answers on the port.
Listens(p) ==
  /\ life[p] = "up" /\ port = NoProc
  /\ port' = p
  /\ UNCHANGED << life, status, saved, aborted, out, listeners, call, got, chan, gone, watch >>

\* getProcess waits for the events of a process that has ended ...
Settling(p) == status[p] = "running" /\ life[p] = "over" /\ ~ aborted[p]

\* ... for ever, if it comes while a kill is being stored.
BeingKilled(p) == status[p] = "killed" /\ ~ saved[p]

Answers(p) == ~ Settling(p) /\ ~ BeingKilled(p)

-----------------------------------------------------------------------------
(* Calls, in the Durable Object *)

\* A call that has timed out keeps that result.
Settle(c, r) ==
  call' = [call EXCEPT ![c].pc = "done", ![c].result = IF @ = "none" THEN r ELSE @,
                       ![c].fresh = TRUE, ![c].matched = FALSE, ![c].pending = FALSE]

\* What happens when no container answers: waitForLog streams without the
\* logs, opencode looks for a server once more, the others throw.
Failed(c) ==
  CASE call[c].pc = "logs" -> call' = [call EXCEPT ![c].pc = "open"]
    [] call[c].op = "opencode" /\ call[c].pc = "read" -> call' = [call EXCEPT ![c].pc = "stderr"]
    [] call[c].op = "opencode" /\ call[c].pc \in {"serve", "stderr"} ->
         call' = [call EXCEPT ![c].pc = "relist"]
    [] OTHER -> Settle(c, "lost")

\* Calls are made one by one; which is which does not matter.
Makes(c) == call[c].pc = "idle" /\ c = CHOOSE d \in Waiters : call[d].pc = "idle"

WaitOps == {"waitLog", "waitExit", "waitPort"}

\* waitForLog, waitForExit or waitForPort of a process; only these may have a
\* timeout.  The watch starts with its request.
Wait(c) ==
  /\ Makes(c)
  /\ \E o \in Asks \cap WaitOps, p \in Procs, timed \in BOOLEAN :
       /\ status[p] # "none"
       /\ call' = [call EXCEPT ![c].op = o, ![c].of = p, ![c].timed = timed,
                               ![c].pc = CASE o = "waitLog"  -> "logs"
                                           [] o = "waitExit" -> "open"
                                           [] o = "waitPort" -> "read"]
       /\ watch' = [watch EXCEPT ![c] = IF o = "waitPort" THEN "status" ELSE @]
  /\ UNCHANGED << procVars, listeners, got, chan, gone >>

\* exec and startProcess with callbacks: the process is there when its stream
\* is opened.
Start(c) ==
  /\ Makes(c)
  /\ \E o \in Asks \cap {"exec", "start"}, p \in Procs :
       /\ Launch(p)
       /\ call' = [call EXCEPT ![c].op = o, ![c].of = p, ![c].pc = "open"]
  /\ UNCHANGED << saved, aborted, out, listeners, port, got, chan, gone, watch >>

\* waitForLogPattern looks at the logs there are.
Logs(c) ==
  /\ call[c].pc = "logs" /\ Answers(call[c].of)
  /\ IF Matches(out[call[c].of])
     THEN Settle(c, "found")
     ELSE call' = [call EXCEPT ![c].pc = "open"]
  /\ UNCHANGED << procVars, listeners, got, chan, gone, watch >>

\* Mutant of Existing: the log stream starts with what is new.
ExistingNone(p) == << >>

\* A stream starts with the output there is.
Printed(p, pipe) ==
  IF out[p][pipe] = << >> THEN << >> ELSE << [type |-> pipe, lines |-> out[p][pipe]] >>

Existing(p) == Printed(p, "stdout") \o Printed(p, "stderr")

\* A stream of log events: what there is, then either its end or a listener.
\* The stream of exec is opened by the request that has started the process,
\* which need not look it up.
Open(c) ==
  LET p == call[c].of
  IN /\ call[c].pc = "open"
     /\ call[c].op = "exec" \/ Answers(p)
     /\ call' = [call EXCEPT ![c].pc = "read"]
     /\ chan' = [chan EXCEPT ![c] = IF status[p] \in Over
                                    THEN Append(Existing(p), Signalled("exit")) ELSE Existing(p)]
     /\ listeners' = IF status[p] \in Over THEN listeners
                     ELSE [listeners EXCEPT ![p] = Append(@, c)]
     /\ UNCHANGED << procVars, got, gone, watch >>

\* waitForLog finds no time left when its stream is there, and leaves it unread.
OpenLate(c) ==
  LET p == call[c].of
  IN /\ call[c].op = "waitLog" /\ call[c].timed
     /\ call[c].pc = "open" /\ Answers(p)
     /\ Settle(c, "timeout")
     /\ listeners' = IF status[p] \in Over THEN listeners
                     ELSE [listeners EXCEPT ![p] = Append(@, c)]
     /\ UNCHANGED << procVars, got, chan, gone, watch >>

\* A call leaves its stream: parseSSEStream cancels it, and over HTTP the
\* container learns of it.
Leave(c, r) ==
  /\ Settle(c, r)
  /\ chan' = [chan EXCEPT ![c] = << >>]
  /\ gone' = [gone EXCEPT ![c] = ViaHttp]

\* A call of the operation op reads the next event of its stream.
Reads(c, op) ==
  /\ call[c].pc = "read" /\ call[c].op = op
  /\ chan[c] # << >>

\* Mutant of Debounced: a check that is put off is forgotten.
DebouncedForgotten(c, checked) == FALSE

\* Is there a check to be made up for at the end?
Debounced(c, checked) == ~ checked

\* Output: waitForLog checks it, unless it has just checked; what it puts off
\* waits for the next event.
LogOutput(c) ==
  LET e       == Head(chan[c])
      matched == call[c].matched \/ Contains(e.lines, "ready")
  IN /\ Reads(c, "waitLog") /\ e.type \in Pipes
     /\ \E checked \in IF call[c].fresh THEN {TRUE} ELSE BOOLEAN :
          IF checked /\ matched
          THEN Leave(c, "found")
          ELSE /\ call' = [call EXCEPT ![c].fresh = FALSE, ![c].matched = matched,
                                       ![c].pending = Debounced(c, checked)]
               /\ chan' = [chan EXCEPT ![c] = Tail(@)]
               /\ UNCHANGED gone
     /\ UNCHANGED << procVars, listeners, got, watch >>

\* Its end: one more check, if one was put off.
LogExit(c) ==
  /\ Reads(c, "waitLog") /\ Head(chan[c]).type = "exit"
  /\ Leave(c, IF call[c].pending /\ call[c].matched THEN "found" ELSE "exited")
  /\ UNCHANGED << procVars, listeners, got, watch >>

\* waitForExit, exec and the callbacks pass output on, up to the end.
StreamEvent(c) ==
  LET e == Head(chan[c])
  IN /\ \E op \in {"waitExit", "exec", "start"} : Reads(c, op)
     /\ IF e.type \in Pipes
        THEN /\ got' = IF call[c].op = "waitExit" THEN got
                       ELSE [got EXCEPT ![c][e.type] = @ \o e.lines]
             /\ chan' = [chan EXCEPT ![c] = Tail(@)]
             /\ UNCHANGED << call, gone >>
        ELSE Leave(c, "exited") /\ UNCHANGED got
     /\ UNCHANGED << procVars, listeners, watch >>

\* exec looks at its abort signal when an event is there.
ExecAborts(c) ==
  /\ Reads(c, "exec")
  /\ Leave(c, "aborted")
  /\ UNCHANGED << procVars, listeners, got, watch >>

\* The answer of the port watch; opencode reads the log of a server that did
\* not come up.
PortEvent(c) ==
  LET e == Head(chan[c])
  IN /\ \E op \in {"waitPort", "opencode"} : Reads(c, op)
     /\ IF e.type = "ready" THEN Settle(c, "found")
        ELSE IF call[c].op = "opencode" THEN Failed(c) ELSE Settle(c, "exited")
     /\ chan' = [chan EXCEPT ![c] = << >>]
     /\ UNCHANGED << procVars, listeners, got, gone, watch >>

\* A stream breaks, with what was on its way; over HTTP the container learns
\* of it, too.
StreamBreaks(c) ==
  /\ MayBreak
  /\ call[c].pc = "read"
  /\ Failed(c)
  /\ chan' = [chan EXCEPT ![c] = << >>]
  /\ gone' = [gone EXCEPT ![c] = ViaHttp]
  /\ UNCHANGED << procVars, listeners, got, watch >>

\* A stream ends in good order before its last event, as a proxy may end an HTTP
\* body; the WebSocket transport ends a stream only with its last message.
StreamEnds(c) ==
  /\ MayBreak /\ ViaHttp
  /\ call[c].pc = "read"
  /\ CASE call[c].op = "waitLog" ->
            Settle(c, IF call[c].pending /\ call[c].matched THEN "found" ELSE "presumed")
       [] call[c].op = "start" -> Settle(c, "silent")
       [] OTHER -> Failed(c)
  /\ chan' = [chan EXCEPT ![c] = << >>]
  /\ gone' = [gone EXCEPT ![c] = TRUE]
  /\ UNCHANGED << procVars, listeners, got, watch >>

\* A request fails.
RequestFails(c) ==
  /\ MayBreak
  /\ call[c].pc \in {"logs", "open", "list", "serve", "stderr", "relist"}
  /\ Failed(c)
  /\ UNCHANGED << procVars, listeners, got, chan, gone, watch >>

\* A request that comes while a kill is being stored is never answered.
Hangs(c) ==
  /\ call[c].pc \in {"logs", "open", "stderr"} /\ call[c].op # "exec"
  /\ BeingKilled(call[c].of)
  /\ call' = [call EXCEPT ![c].pc = "hung"]
  /\ UNCHANGED << procVars, listeners, got, chan, gone, watch >>

\* The timer wins the race.  The log reader goes on behind it; the port watch
\* is to be cancelled, but its stream is locked by its reader.
Timeout(c) ==
  /\ call[c].pc = "read" /\ call[c].timed /\ call[c].result = "none"
  /\ \/ /\ call[c].op \in {"waitLog", "waitExit"}
        /\ call' = [call EXCEPT ![c].result = "timeout"]
        /\ UNCHANGED chan
     \/ /\ call[c].op = "waitPort"
        /\ Settle(c, "timeout")
        /\ chan' = [chan EXCEPT ![c] = << >>]
     \/ /\ call[c].op = "opencode"
        /\ call' = [call EXCEPT ![c].pc = "stderr"]
        /\ chan' = [chan EXCEPT ![c] = << >>]
  /\ UNCHANGED << procVars, listeners, got, gone, watch >>

-----------------------------------------------------------------------------
(* handlePortWatch, in the container *)

\* An event for a client that has left is lost.
Emit(c, e) ==
  chan' = IF call[c].pc = "read" /\ ~ gone[c] THEN [chan EXCEPT ![c] = Append(@, e)] ELSE chan

\* The status of the process comes first.
WatchStatus(c) ==
  LET p == call[c].of
  IN /\ watch[c] = "status"
     /\ Answers(p)
     /\ \/ /\ status[p] \in Over
           /\ watch' = [watch EXCEPT ![c] = "done"]
           /\ Emit(c, Signalled("exit"))
        \/ /\ status[p] \notin Over
           /\ watch' = [watch EXCEPT ![c] = "check"]
           /\ UNCHANGED chan
     /\ UNCHANGED << procVars, listeners, call, got, gone >>

WatchStuck(c) ==
  /\ watch[c] = "status" /\ BeingKilled(call[c].of)
  /\ watch' = [watch EXCEPT ![c] = "stuck"]
  /\ UNCHANGED << procVars, listeners, call, got, chan, gone >>

\* checkPortReady.  It asks who answers on the port, not whether it is the
\* process.
WatchCheck(c) ==
  /\ watch[c] = "check"
  /\ \/ /\ port # NoProc
        /\ Emit(c, Signalled("ready"))
        /\ watch' = [watch EXCEPT ![c] = "done"]
     \/ /\ port = NoProc
        /\ watch' = [watch EXCEPT ![c] = "sleep"]
        /\ UNCHANGED chan
  /\ UNCHANGED << procVars, listeners, call, got, gone >>

\* Mutant of Awake: the loop does not see that it was cancelled.
AwakeAlways(c) == "status"

\* The only place where the loop looks whether it was cancelled.
Awake(c) == IF gone[c] THEN "done" ELSE "status"

WatchWakes(c) ==
  /\ watch[c] = "sleep"
  /\ watch' = [watch EXCEPT ![c] = Awake(c)]
  /\ UNCHANGED << procVars, listeners, call, got, chan, gone >>

-----------------------------------------------------------------------------
(* ensureOpencodeServer *)

opencode(c) ==
  /\ Makes(c) /\ "opencode" \in Asks
  /\ call' = [call EXCEPT ![c].op = "opencode", ![c].pc = "list", ![c].timed = TRUE]
  /\ UNCHANGED << procVars, listeners, got, chan, gone, watch >>

\* Servers by their records.
Live == {p \in Procs : status[p] = "running"}

\* A server that runs is taken as it is.  Without one the first look starts a
\* server, and the look after a failure gives up.
Find(c) ==
  /\ call[c].pc \in {"list", "relist"}
  /\ \/ \E p \in Live :
          call' = [call EXCEPT ![c].pc = "done", ![c].of = p, ![c].result = "found"]
     \/ /\ Live = {}
        /\ IF call[c].pc = "list" THEN call' = [call EXCEPT ![c].pc = "serve"]
                                  ELSE Settle(c, "given up")
  /\ UNCHANGED << procVars, listeners, got, chan, gone, watch >>

startOpencodeServer(c) ==
  /\ call[c].pc = "serve"
  /\ \E p \in Procs :
       /\ Launch(p)
       /\ call' = [call EXCEPT ![c].of = p, ![c].pc = "read"]
  /\ watch' = [watch EXCEPT ![c] = "status"]
  /\ UNCHANGED << saved, aborted, out, listeners, port, got, chan, gone >>

\* The log of a server that did not come up, for the message.
Stderr(c) ==
  /\ call[c].pc = "stderr" /\ Answers(call[c].of)
  /\ call' = [call EXCEPT ![c].pc = "relist"]
  /\ UNCHANGED << procVars, listeners, got, chan, gone, watch >>

-----------------------------------------------------------------------------

Watch(c) == WatchStatus(c) \/ WatchCheck(c) \/ WatchWakes(c)

Proceeds(c) ==
  \/ Logs(c) \/ Open(c)
  \/ LogOutput(c) \/ LogExit(c) \/ StreamEvent(c) \/ PortEvent(c)
  \/ Find(c) \/ startOpencodeServer(c) \/ Stderr(c)

WaitsNext ==
  \/ \E p \in Procs :
       \/ startProcess(p) \/ Output(p) \/ Exits(p) \/ Completes(p)
       \/ Kill(p) \/ KillStored(p) \/ Listens(p)
  \/ \E c \in Waiters :
       \/ Wait(c) \/ Start(c) \/ opencode(c)
       \/ Proceeds(c) \/ OpenLate(c) \/ ExecAborts(c) \/ Timeout(c)
       \/ StreamBreaks(c) \/ StreamEnds(c) \/ RequestFails(c) \/ Hangs(c)
       \/ Watch(c) \/ WatchStuck(c)

WaitsSpec == WaitsInit /\ [][WaitsNext]_waitsVars

\* Requests and streams arrive, timers fire, the watch polls, and the end of a
\* command is seen.  Nothing is assumed of commands, kills or clients.
FairWaitsSpec ==
  /\ WaitsSpec
  /\ \A p \in Procs : WF_waitsVars(KillStored(p)) /\ WF_waitsVars(life[p] = "over" /\ Completes(p))
  /\ \A c \in Waiters : WF_waitsVars(Proceeds(c)) /\ WF_waitsVars(Timeout(c)) /\ WF_waitsVars(Watch(c))

-----------------------------------------------------------------------------
(* Properties *)

\* What a call answers is so: a line that is found was printed, "exited" means
\* that the record has ended and no such line was printed before
\* (sandbox.ts:1488-1513), the output of exec and of the callbacks is whole and
\* in order (sandbox.ts:1235-1262, 1845-1865), only a timeout times out, and
\* opencode gives up a server it has started only once that has ended, not
\* because it never came up (opencode.ts:111-147).  Two answers promise nothing:
\* the exit that waitForLog presumes when its stream just ends
\* (sandbox.ts:1505-1516), and the error of a request that is passed on, that of
\* opencode's second look included, behind which its server may run on.
AnswersTrue ==
  \A c \in Waiters :
    LET r == call[c].result
        o == call[c].op
        p == call[c].of
    IN /\ r = "exited" => status[p] \in Over
       /\ o = "waitLog" /\ r = "found" => Matches(out[p])
       /\ o = "waitLog" /\ r = "exited" => ~ Matches(out[p])
       /\ o \in {"exec", "start"} /\ r = "exited" => got[c] = out[p]
       /\ r = "timeout" => call[c].timed
       /\ o = "opencode" /\ r = "given up" /\ p # NoProc => status[p] \in Over

\* Calls settle: one with a timeout by then, a log wait when the line has been
\* printed and the others when the process is over.  The exceptions: a request
\* that meets a kill, a stream opened before a kill or one whose process lost
\* its events to a listener that threw, and a line that came within 50 ms of
\* another: it is looked at with the next event (sandbox.ts:1479-1487).
Settles ==
  \A c \in Waiters :
    LET some(Pred(_)) == \E p \in Procs : call[c].of = p /\ Pred(p)
        printed(p)  == call[c].op = "waitLog" /\ Matches(out[p])
        over(p)     == life[p] = "over"
        silenced(p) == aborted[p] \/ status[p] = "killed"
    IN call[c].pc \in Awaiting /\ (call[c].timed \/ some(printed) \/ some(over)) ~>
         \/ call[c].result # "none" \/ call[c].pc \in {"hung", "serve"}
         \/ ~ call[c].timed /\ (some(silenced) \/ (call[c].pending /\ ~ some(over)))

\* A port watch stops after its call has ended ("Cancel the stream to stop
\* container-side polling", sandbox.ts:1613), unless the call timed out, its
\* transport passes no cancel on, or a kill holds its lookup.
PollingStops ==
  \A c \in Waiters :
    watch[c] \in Polling /\ call[c].pc = "done" ~>
      \/ watch[c] \in {"done", "stuck"}
      \/ call[c].result = "timeout" \/ call[c].op = "opencode" \/ ~ ViaHttp

=============================================================================
