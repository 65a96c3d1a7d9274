----------------------------- MODULE ProcessPool -----------------------------
(***************************************************************************)
(* The pool of interpreter processes of one language                       *)
(* (packages/sandbox-container/src/runtime/process-pool.ts) and the code   *)
(* contexts that live on it (services/interpreter-service.ts).             *)
(*                                                                         *)
(* Executors are numbered by the calls of createProcess.  A call of        *)
(* createContext makes one context, which bears the name of the call.      *)
(* What a call does until it next waits for a mutex, a process, a timer    *)
(* or an answer is one action.                                             *)
(***************************************************************************)
EXTENDS Naturals, Sequences, FiniteSets

CONSTANTS
  Calls,         \* the calls the pool and the interpreter service receive
  None,          \* no call
  Ops,           \* the operations the callers use
  MinSize,       \* config.minSize
  MaxProcesses,  \* config.maxProcesses
  ExecTimeout,   \* is INTERPRETER_EXECUTION_TIMEOUT_MS (or timeout) set?
  MaxSpawns,     \* bound: processes the server ever spawns
  MaxFailures    \* bound: processes that exit, or do not start, by themselves

\* run: execute() without a context; create, exec and delete: createContext,
\* executeCode and deleteContext of the interpreter service.
AllOps == {"run", "create", "exec", "delete"}

ASSUME NoneAssumption == None \notin Calls
ASSUME OpsAssumption  == Ops \subseteq AllOps
ASSUME SizeAssumption == MinSize \in Nat /\ MaxProcesses \in Nat
ASSUME BoundAssumption == MaxSpawns \in Nat /\ MaxFailures \in Nat
ASSUME ExecTimeoutAssumption == ExecTimeout \in BOOLEAN

Executors == 1..MaxSpawns
NoExecutor == 0

VARIABLES
  \* the calls
  op,         \* op[c]: what call c asks for
  cx,         \* cx[c]: the context it creates, uses or deletes
  pc,         \* pc[c]: what call c waits for
  ex,         \* ex[c]: the executor it works with
  buf,        \* buf[c]: responseBuffer of executeCode, while it listens
  outcome,    \* outcome[c]: how call c ended
  result,     \* result[c]: the call whose code produced the answer of c
  \* the processes
  spawned,    \* how often createProcess has spawned
  maker,      \* maker[e]: the call that spawned e, None for pre-warming
  stage,      \* stage[e]: the promise of createProcess
  proc,       \* proc[e]: the child process
  hasLock,    \* hasLock[e]: is there an entry of e in executorLocks?
  line,       \* line[e]: the mutex of e, its owner first, then the queue
  inbox,      \* inbox[e]: requests on stdin that have no response yet
  out,        \* out[e]: stdout, each response in two halves
  \* the maps of the pool and of the service
  pool,             \* executors of the language
  available,        \* availableExecutors; which of them shift() takes first
                    \* matters to nobody, so they are a set
  contextExecutors, \* contextExecutors[x]: the executor of context x
  contexts,         \* the contexts the interpreter service knows
  poolLine,         \* poolLocks.get(language), its owner first, then the queue
  warmed            \* iterations of preWarmExecutor that are over

callVars == << op, cx, pc, ex, buf, outcome, result >>
procVars == << spawned, maker, stage, proc, hasLock, line, inbox, out >>
poolVars == << pool, available, contextExecutors, contexts, poolLine, warmed >>
vars     == << callVars, procVars, poolVars >>

PcStates ==
  {"idle",          \* not made yet
   "pooling",       \* waits for the mutex of the pool, to borrow or reserve
   "spawning",      \* owns the mutex of the pool, awaits createProcess
   "queued",        \* waits for the mutex of its executor
   "running",       \* executeCode: listens to stdout
   "returning",     \* waits for the mutex of the pool, to return its executor
   "replenishing",  \* awaits the spawns of ensureMinimumPool
   "done"}

ProcStates ==
  {"none",       \* never ran
   "running",
   "killed",     \* childProcess.killed is set; it may still write
   "exited",     \* exitCode is set
   "signaled"}   \* died of a signal nobody here sent: exitCode stays null

TypeOK ==
  /\ op \in [Calls -> Ops \cup {None}]
  /\ cx \in [Calls -> Calls \cup {None}]
  /\ pc \in [Calls -> PcStates]
  /\ ex \in [Calls -> Executors \cup {NoExecutor}]
  /\ buf \in [Calls -> Seq(Calls \X {1, 2})]
  /\ outcome \in [Calls -> {"none", "ok", "failed", "timedout"}]
  /\ result \in [Calls -> Calls \cup {None}]
  /\ spawned \in 0..MaxSpawns
  /\ maker \in [Executors -> Calls \cup {None}]
  /\ stage \in [Executors -> {"unused", "starting", "ready", "failed"}]
  /\ proc \in [Executors -> ProcStates]
  /\ hasLock \in [Executors -> BOOLEAN]
  /\ line \in [Executors -> Seq(Calls)]
  /\ inbox \in [Executors -> SUBSET Calls]
  /\ out \in [Executors -> Seq(Calls \X {1, 2})]
  /\ pool \subseteq Executors
  /\ available \subseteq Executors
  /\ contextExecutors \in [Calls -> Executors \cup {NoExecutor}]
  /\ contexts \subseteq Calls
  /\ poolLine \in Seq(Calls)
  /\ warmed \in 0..MinSize

Init ==
  /\ op = [c \in Calls |-> None]
  /\ cx = [c \in Calls |-> None]
  /\ pc = [c \in Calls |-> "idle"]
  /\ ex = [c \in Calls |-> NoExecutor]
  /\ buf = [c \in Calls |-> << >>]
  /\ outcome = [c \in Calls |-> "none"]
  /\ result = [c \in Calls |-> None]
  /\ spawned = 0
  /\ maker = [e \in Executors |-> None]
  /\ stage = [e \in Executors |-> "unused"]
  /\ proc = [e \in Executors |-> "none"]
  /\ hasLock = [e \in Executors |-> FALSE]
  /\ line = [e \in Executors |-> << >>]
  /\ inbox = [e \in Executors |-> {}]
  /\ out = [e \in Executors |-> << >>]
  /\ pool = {}
  /\ available = {}
  /\ contextExecutors = [c \in Calls |-> NoExecutor]
  /\ contexts = {}
  /\ poolLine = << >>
  /\ warmed = 0

-----------------------------------------------------------------------------
(***************************************************************************)
(* createProcess                                                           *)
(***************************************************************************)

Full == Cardinality(pool) >= MaxProcesses

\* childProcess.kill()
Killed(e) == IF proc[e] = "running" THEN "killed" ELSE proc[e]

\* The executors `dying` are killed and lose their mutexes, and the next n
\* calls of createProcess, made for call c, pass the limit and spawn.
KillAndSpawn(dying, n, c) ==
  LET new == (spawned + 1)..(spawned + n) IN
    /\ spawned + n <= MaxSpawns
    /\ spawned' = spawned + n
    /\ maker' = [e \in Executors |-> IF e \in new THEN c ELSE maker[e]]
    /\ stage' = [e \in Executors |-> IF e \in new THEN "starting" ELSE stage[e]]
    /\ proc' = [e \in Executors |->
                  CASE e \in new   -> "running"
                    [] e \in dying -> Killed(e)
                    [] OTHER       -> proc[e]]
    /\ hasLock' = [e \in Executors |-> e \in new \/ (hasLock[e] /\ e \notin dying)]
    /\ UNCHANGED << line, inbox, out >>

End(c, how) ==
  /\ pc' = [pc EXCEPT ![c] = "done"]
  /\ outcome' = [outcome EXCEPT ![c] = how]

\* What createProcess was called for: an operation, or pre-warming.
Purpose(e) == IF maker[e] = None THEN "warm" ELSE op[maker[e]]

\* The executor printed "ready" and joins the pool.
Ready(e) ==
  /\ stage[e] = "starting"
  /\ proc[e] = "running"
  /\ stage' = [stage EXCEPT ![e] = "ready"]
  /\ pool' = pool \cup {e}
  /\ UNCHANGED << spawned, maker, proc, hasLock, inbox, out >>

\* Mutant of ReadyIdle: a replacement counts as an iteration of pre-warming.
ReadyIdleCountsAll(e) ==
  /\ Purpose(e) \in {"warm", "delete"}
  /\ Ready(e)
  /\ available' = available \cup {e}
  /\ warmed' = warmed + 1
  /\ UNCHANGED << callVars, line, contextExecutors, contexts, poolLine >>

\* createUnassignedExecutor goes on.
ReadyIdle(e) ==
  /\ Purpose(e) \in {"warm", "delete"}
  /\ Ready(e)
  /\ available' = available \cup {e}
  /\ warmed' = IF Purpose(e) = "warm" THEN warmed + 1 ELSE warmed
  /\ UNCHANGED << callVars, line, contextExecutors, contexts, poolLine >>

\* borrowExecutor goes on, and execute() takes the mutex of the executor.
ReadyToRun(e) ==
  /\ Purpose(e) = "run"
  /\ Ready(e)
  /\ ex' = [ex EXCEPT ![maker[e]] = e]
  /\ line' = [line EXCEPT ![e] = << maker[e] >>]
  /\ pc' = [pc EXCEPT ![maker[e]] = "queued"]
  /\ poolLine' = Tail(poolLine)
  /\ UNCHANGED << op, cx, buf, outcome, result, available, contextExecutors,
                  contexts, warmed >>

\* reserveExecutorForContext and createContext go on.
ReadyForContext(e) ==
  /\ Purpose(e) = "create"
  /\ Ready(e)
  /\ contextExecutors' = [contextExecutors EXCEPT ![maker[e]] = e]
  /\ contexts' = contexts \cup {maker[e]}
  /\ End(maker[e], "ok")
  /\ poolLine' = Tail(poolLine)
  /\ UNCHANGED << op, cx, ex, buf, result, line, available, warmed >>

\* Mutant of Reject: the caller fails without releasing the mutex of the pool.
RejectHolding(e) ==
  /\ stage' = [stage EXCEPT ![e] = "failed"]
  /\ warmed' = IF Purpose(e) = "warm" THEN warmed + 1 ELSE warmed
  /\ IF Purpose(e) \in {"run", "create"}
       THEN End(maker[e], "failed")
       ELSE UNCHANGED << pc, outcome >>
  /\ UNCHANGED << op, cx, ex, buf, result, spawned, maker, line, inbox, out,
                  pool, available, contextExecutors, contexts, poolLine >>

\* createProcess rejects.  The caller that owns the mutex of the pool fails
\* and releases it, pre-warming goes on, and ensureMinimumPool will notice.
Reject(e) ==
  /\ stage' = [stage EXCEPT ![e] = "failed"]
  /\ warmed' = IF Purpose(e) = "warm" THEN warmed + 1 ELSE warmed
  /\ IF Purpose(e) \in {"run", "create"}
       THEN /\ End(maker[e], "failed")
            /\ poolLine' = Tail(poolLine)
       ELSE UNCHANGED << pc, outcome, poolLine >>
  /\ UNCHANGED << op, cx, ex, buf, result, spawned, maker, line, inbox, out,
                  pool, available, contextExecutors, contexts >>

\* The timer of INTERPRETER_SPAWN_TIMEOUT_MS.
SpawnTimesOut(e) ==
  /\ stage[e] = "starting"
  /\ proc' = [proc EXCEPT ![e] = Killed(e)]
  /\ Reject(e)
  /\ UNCHANGED hasLock

\* The bound on failures.
MayFail ==
  Cardinality({e \in Executors : stage[e] = "failed" \/
                                 proc[e] \in {"exited", "signaled"}}) < MaxFailures

\* 'error': the command could not be run; there is no exit, the mutex is kept.
SpawnErrors(e) ==
  /\ MayFail
  /\ stage[e] = "starting"
  /\ proc[e] = "running"
  /\ proc' = [proc EXCEPT ![e] = "none"]
  /\ Reject(e)
  /\ UNCHANGED hasLock

\* The executor exits before it is ready.  The exit code 0 does not reject:
\* createProcess goes on waiting for its timer.
ExitsWhileStarting(e) ==
  /\ MayFail
  /\ stage[e] = "starting"
  /\ proc[e] = "running"
  /\ hasLock' = [hasLock EXCEPT ![e] = FALSE]
  /\ \/ /\ proc' = [proc EXCEPT ![e] = "exited"]
        /\ UNCHANGED << callVars, spawned, maker, stage, line, inbox, out, poolVars >>
     \/ /\ \E how \in {"exited", "signaled"} : proc' = [proc EXCEPT ![e] = how]
        /\ Reject(e)

-----------------------------------------------------------------------------
(***************************************************************************)
(* Exits of executors that have started                                    *)
(***************************************************************************)

\* The session id the exit handler closed over when createProcess was called.
HandlerContext(e) == IF Purpose(e) = "create" THEN maker[e] ELSE None

\* An executor exits by itself and its exit handler runs.  (When one that was
\* killed exits, the maps have forgotten it already.)
Exit(e) ==
  /\ MayFail
  /\ stage[e] = "ready"
  /\ proc[e] = "running"
  /\ \E how \in {"exited", "signaled"} : proc' = [proc EXCEPT ![e] = how]
  /\ contextExecutors' =
       [x \in Calls |-> IF x = HandlerContext(e) THEN NoExecutor
                                                 ELSE contextExecutors[x]]
  /\ pool' = pool \ {e}
  /\ available' = available \ {e}
  /\ hasLock' = [hasLock EXCEPT ![e] = FALSE]
  /\ UNCHANGED << callVars, spawned, maker, stage, line, inbox, out, contexts,
                  poolLine, warmed >>

-----------------------------------------------------------------------------
(***************************************************************************)
(* execute: stateless runs and runs in a context                           *)
(***************************************************************************)

Receive(c, o, x) ==
  /\ pc[c] = "idle"
  /\ o \in Ops
  /\ op' = [op EXCEPT ![c] = o]
  /\ cx' = [cx EXCEPT ![c] = x]

\* execute() without a context and createContext want the mutex of the pool.
CallPool(c) ==
  /\ \E o \in {"run", "create"} : Receive(c, o, IF o = "create" THEN c ELSE None)
  /\ pc' = [pc EXCEPT ![c] = "pooling"]
  /\ poolLine' = Append(poolLine, c)
  /\ UNCHANGED << ex, buf, outcome, result, procVars, pool, available,
                  contextExecutors, contexts, warmed >>

\* Call c owns the mutex of the pool, which it waited for at step a.
OwnsPool(c, a) == pc[c] = a /\ poolLine # << >> /\ Head(poolLine) = c

\* No executor is available, for a run or a context: createProcess refuses,
\* or spawns while call c keeps the mutex of the pool.
SpawnForCall(c) ==
  /\ OwnsPool(c, "pooling")
  /\ available = {}
  /\ \/ /\ Full
        /\ End(c, "failed")
        /\ poolLine' = Tail(poolLine)
        /\ UNCHANGED procVars
     \/ /\ ~ Full
        /\ KillAndSpawn({}, 1, c)
        /\ pc' = [pc EXCEPT ![c] = "spawning"]
        /\ UNCHANGED << outcome, poolLine >>
  /\ UNCHANGED << op, cx, ex, buf, result, pool, available, contextExecutors,
                  contexts, warmed >>

\* borrowExecutor finds an executor; execute() waits for its mutex, or, if
\* its mutex is gone, throws and returns the executor.
Borrow(c, e) ==
  /\ op[c] = "run"
  /\ OwnsPool(c, "pooling")
  /\ e \in available
  /\ available' = available \ {e}
  /\ ex' = [ex EXCEPT ![c] = e]
  /\ IF hasLock[e]
       THEN /\ line' = [line EXCEPT ![e] = Append(@, c)]
            /\ pc' = [pc EXCEPT ![c] = "queued"]
            /\ poolLine' = Tail(poolLine)
            /\ UNCHANGED outcome
       ELSE /\ outcome' = [outcome EXCEPT ![c] = "failed"]
            /\ pc' = [pc EXCEPT ![c] = "returning"]
            /\ poolLine' = Append(Tail(poolLine), c)
            /\ UNCHANGED line
  /\ UNCHANGED << op, cx, buf, result, spawned, maker, stage, proc, hasLock,
                  inbox, out, pool, contextExecutors, contexts, warmed >>

\* executeCode of the service and execute() with a context: the context must
\* be known, its executor healthy and not without a mutex.
CallExec(c, x) ==
  LET e == contextExecutors[x] IN
    /\ Receive(c, "exec", x)
    /\ IF /\ x \in contexts
          /\ e # NoExecutor
          /\ proc[e] \in {"running", "signaled"}
          /\ hasLock[e]
         THEN /\ ex' = [ex EXCEPT ![c] = e]
              /\ line' = [line EXCEPT ![e] = Append(@, c)]
              /\ pc' = [pc EXCEPT ![c] = "queued"]
              /\ UNCHANGED outcome
         ELSE /\ End(c, "failed")
              /\ UNCHANGED << ex, line >>
    /\ UNCHANGED << buf, result, spawned, maker, stage, proc, hasLock, inbox,
                    out, poolVars >>

\* Mutant of Begin: executeCode is not run under the mutex of the executor.
BeginUnlocked(c) ==
  /\ pc[c] = "queued"
  /\ pc' = [pc EXCEPT ![c] = "running"]
  /\ buf' = [buf EXCEPT ![c] = << >>]
  /\ inbox' = [inbox EXCEPT ![ex[c]] = @ \cup {c}]
  /\ UNCHANGED << op, cx, ex, outcome, result, spawned, maker, stage, proc,
                  hasLock, line, out, poolVars >>

\* executeCode: listen to stdout with an empty buffer, set the timer, write the
\* request.  Nobody reads the stdin of a process that is gone.
Begin(c) ==
  LET e == ex[c] IN
    /\ pc[c] = "queued"
    /\ Head(line[e]) = c
    /\ pc' = [pc EXCEPT ![c] = "running"]
    /\ buf' = [buf EXCEPT ![c] = << >>]
    /\ inbox' = [inbox EXCEPT ![e] =
                   IF proc[e] \in {"running", "killed"} THEN @ \cup {c} ELSE @]
    /\ UNCHANGED << op, cx, ex, outcome, result, spawned, maker, stage, proc,
                    hasLock, line, out, poolVars >>

\* One response, which stdout may deliver in two chunks.
Response(d) == << << d, 1 >>, << d, 2 >> >>

\* The executor answers a request; a run that timed out may be answered later
\* than the run after it.  Code may also run for ever.
Respond(e, d) ==
  /\ proc[e] \in {"running", "killed"}
  /\ d \in inbox[e]
  /\ inbox' = [inbox EXCEPT ![e] = @ \ {d}]
  /\ out' = [out EXCEPT ![e] = @ \o Response(d)]
  /\ UNCHANGED << callVars, spawned, maker, stage, proc, hasLock, line, poolVars >>

\* The run of call c is over: the next run has the executor, and a stateless
\* run goes on to return it.
Finish(c, how) ==
  /\ line' = [line EXCEPT ![ex[c]] = Tail(@)]
  /\ outcome' = [outcome EXCEPT ![c] = how]
  /\ buf' = [buf EXCEPT ![c] = << >>]
  /\ IF op[c] = "run"
       THEN /\ pc' = [pc EXCEPT ![c] = "returning"]
            /\ poolLine' = Append(poolLine, c)
       ELSE /\ pc' = [pc EXCEPT ![c] = "done"]
            /\ UNCHANGED poolLine

\* A chunk of stdout reaches the run that listens, if any, and ends it when
\* all it has received so far is one whole response, whosever it is.
Deliver(e, n) ==
  LET listening == {c \in Calls : pc[c] = "running" /\ ex[c] = e}
      chunk     == SubSeq(out[e], 1, n)
  IN
    /\ out' = [out EXCEPT ![e] = SubSeq(@, n + 1, Len(@))]
    /\ \/ /\ listening = {}
          /\ UNCHANGED << callVars, line, poolLine >>
       \/ \E c \in listening :
            /\ \/ \E d \in Calls :
                    /\ buf[c] \o chunk = Response(d)
                    /\ result' = [result EXCEPT ![c] = d]
                    /\ Finish(c, "ok")
               \/ /\ \A d \in Calls : buf[c] \o chunk # Response(d)
                  /\ buf' = [buf EXCEPT ![c] = @ \o chunk]
                  /\ UNCHANGED << pc, outcome, result, line, poolLine >>
            /\ UNCHANGED << op, cx, ex >>
    /\ UNCHANGED << spawned, maker, stage, proc, hasLock, inbox, pool, available,
                    contextExecutors, contexts, warmed >>

\* The timer of the run: nobody tells the executor.
ExecTimesOut(c) ==
  /\ ExecTimeout
  /\ pc[c] = "running"
  /\ Finish(c, "timedout")
  /\ UNCHANGED << op, cx, ex, result, spawned, maker, stage, proc, hasLock,
                  inbox, out, pool, available, contextExecutors, contexts, warmed >>

\* returnExecutor: the executor is available again, dead or alive.
Return(c) ==
  /\ OwnsPool(c, "returning")
  /\ available' = available \cup {ex[c]}
  /\ poolLine' = Tail(poolLine)
  /\ pc' = [pc EXCEPT ![c] = "done"]
  /\ UNCHANGED << op, cx, ex, buf, outcome, result, procVars, pool,
                  contextExecutors, contexts, warmed >>

-----------------------------------------------------------------------------
(***************************************************************************)
(* Contexts                                                                *)
(***************************************************************************)

\* Mutant of Reserve: the executor stays available.
ReserveWithoutShift(c, e) ==
  /\ op[c] = "create"
  /\ OwnsPool(c, "pooling")
  /\ e \in available
  /\ contextExecutors' = [contextExecutors EXCEPT ![c] = e]
  /\ contexts' = contexts \cup {c}
  /\ End(c, "ok")
  /\ poolLine' = Tail(poolLine)
  /\ UNCHANGED << op, cx, ex, buf, result, procVars, pool, available, warmed >>

\* reserveExecutorForContext finds an executor; createContext goes on.
Reserve(c, e) ==
  /\ op[c] = "create"
  /\ OwnsPool(c, "pooling")
  /\ e \in available
  /\ available' = available \ {e}
  /\ contextExecutors' = [contextExecutors EXCEPT ![c] = e]
  /\ contexts' = contexts \cup {c}
  /\ End(c, "ok")
  /\ poolLine' = Tail(poolLine)
  /\ UNCHANGED << op, cx, ex, buf, result, procVars, pool, warmed >>

\* deleteContext of a context that is unknown or has no executor any more.
CallDeleteWithoutExecutor(c, x) ==
  /\ Receive(c, "delete", x)
  /\ x \notin contexts \/ contextExecutors[x] = NoExecutor
  /\ contexts' = contexts \ {x}
  /\ End(c, IF x \in contexts THEN "ok" ELSE "failed")
  /\ UNCHANGED << ex, buf, result, procVars, pool, available, contextExecutors,
                  poolLine, warmed >>

\* Mutant of CallDelete: the executor is kept for the next context.
CallDeleteReusing(c, x) ==
  /\ Receive(c, "delete", x)
  /\ x \in contexts
  /\ contextExecutors[x] # NoExecutor
  /\ contextExecutors' = [contextExecutors EXCEPT ![x] = NoExecutor]
  /\ available' = available \cup {contextExecutors[x]}
  /\ contexts' = contexts \ {x}
  /\ End(c, "ok")
  /\ UNCHANGED << ex, buf, result, procVars, pool, poolLine, warmed >>

\* releaseExecutorForContext kills the executor, and ensureMinimumPool spawns
\* what is missing.  The limit is tested before each spawn, but no spawn is in
\* the pool before its executor is ready, so that all pass or none.
CallDelete(c, x) ==
  LET e      == contextExecutors[x]
      needed == IF Cardinality(available) < MinSize
                  THEN MinSize - Cardinality(available) ELSE 0
      begun  == IF Cardinality(pool \ {e}) < MaxProcesses THEN needed ELSE 0
  IN
    /\ Receive(c, "delete", x)
    /\ x \in contexts
    /\ e # NoExecutor
    /\ contextExecutors' = [contextExecutors EXCEPT ![x] = NoExecutor]
    /\ pool' = pool \ {e}
    /\ KillAndSpawn({e}, begun, c)
    /\ IF begun = 0
         THEN /\ contexts' = contexts \ {x}
              /\ End(c, IF needed = 0 THEN "ok" ELSE "failed")
         ELSE /\ pc' = [pc EXCEPT ![c] = "replenishing"]
              /\ UNCHANGED << contexts, outcome >>
    /\ UNCHANGED << ex, buf, result, available, poolLine, warmed >>

\* Promise.all of ensureMinimumPool settles: at the first failure, or when
\* every spawn is ready; the context goes in any case.
Replenished(c) ==
  LET spawns == {e \in Executors : maker[e] = c} IN
    /\ pc[c] = "replenishing"
    /\ \/ /\ \A e \in spawns : stage[e] = "ready"
          /\ End(c, "ok")
       \/ /\ \E e \in spawns : stage[e] = "failed"
          /\ End(c, "failed")
    /\ contexts' = contexts \ {cx[c]}
    /\ UNCHANGED << op, cx, ex, buf, result, procVars, pool, available,
                    contextExecutors, poolLine, warmed >>

-----------------------------------------------------------------------------
(***************************************************************************)
(* Background tasks                                                        *)
(***************************************************************************)

\* preWarmExecutor spawns one executor after the other; one the limit refuses
\* is skipped.
WarmUp ==
  /\ warmed < MinSize
  /\ \A e \in Executors : stage[e] = "starting" => maker[e] # None
  /\ IF Full
       THEN warmed' = warmed + 1 /\ UNCHANGED procVars
       ELSE KillAndSpawn({}, 1, None) /\ UNCHANGED warmed
  /\ UNCHANGED << callVars, pool, available, contextExecutors, contexts, poolLine >>

\* cleanupIdleProcesses kills the old among the available executors, as long
\* as more than minSize are left.
CleanIdle(old) ==
  /\ old # {}
  /\ Cardinality(available) - Cardinality(old) >= MinSize
  /\ KillAndSpawn(old, 0, None)
  /\ available' = available \ old
  /\ pool' = pool \ old
  /\ UNCHANGED << callVars, contextExecutors, contexts, poolLine, warmed >>

-----------------------------------------------------------------------------
Pooling(c) ==
  \/ SpawnForCall(c)
  \/ \E e \in Executors : Borrow(c, e) \/ Reserve(c, e)
  \/ Return(c)

NewCall(c) ==
  \/ CallPool(c)
  \/ \E x \in {y \in Calls : op[y] = "create"} :
       CallExec(c, x) \/ CallDeleteWithoutExecutor(c, x) \/ CallDelete(c, x)

Next ==
  \/ \E c \in Calls :
       NewCall(c) \/ Pooling(c) \/ Begin(c) \/ ExecTimesOut(c) \/ Replenished(c)
  \/ \E e \in Executors :
       \/ ReadyIdle(e) \/ ReadyToRun(e) \/ ReadyForContext(e)
       \/ SpawnTimesOut(e) \/ SpawnErrors(e) \/ ExitsWhileStarting(e)
       \/ Exit(e)
       \/ \E d \in Calls : Respond(e, d)
       \/ \E n \in 1..Len(out[e]) : Deliver(e, n)
  \/ WarmUp
  \/ \E old \in SUBSET available : CleanIdle(old)

Spec == Init /\ [][Next]_vars

\* The event loop runs every continuation, and timers fire.  Nothing is said of
\* the processes: user code may run for ever, and an executor need not start.
FairSpec ==
  /\ Spec
  /\ \A c \in Calls :
       WF_vars(Pooling(c)) /\ WF_vars(Begin(c)) /\ WF_vars(ExecTimesOut(c))
                           /\ WF_vars(Replenished(c))
  /\ \A e \in Executors : WF_vars(SpawnTimesOut(e))

-----------------------------------------------------------------------------
(***************************************************************************)
(* Properties                                                              *)
(***************************************************************************)

\* Who holds executor e: the stateless run that borrowed it, or its context.
Borrowing(c, e) ==
  op[c] = "run" /\ ex[c] = e /\ pc[c] \in {"queued", "running", "returning"}

Retired(e) == proc[e] \notin {"none", "running"}

Holder(e) ==
  {<< "run", c >> : c \in {d \in Calls : Borrowing(d, e)}} \cup
  {<< "context", x >> : x \in {y \in Calls : contextExecutors[y] = e}}

Lease(e) == INSTANCE ExecutorLease WITH
  Runs     <- Calls,
  Contexts <- Calls,
  retired  <- Retired(e),
  holder   <- IF Retired(e) THEN {} ELSE Holder(e)

\* The pool implements ExecutorLease for each executor (\A e : Lease(e)!Spec,
\* written as one formula for TLC): whatever calls overlap, time out or fail,
\* it serves one run or one context at a time, and a context keeps it until it
\* is killed or exits (borrowExecutor, reserveExecutorForContext,
\* releaseExecutorForContext, returnExecutor).
LeasesSpec ==
  /\ \A e \in Executors : Lease(e)!Init
  /\ [][\A e \in Executors : Lease(e)!Next \/ UNCHANGED Lease(e)!vars]_vars

\* The books of the pool balance: an executor that runs is in the pool, has a
\* mutex, and either waits to be used or has a holder; the pool, whose size
\* the limit tests, counts no process that is dead; and a context that has an
\* executor can still be deleted.  Otherwise processes would leak.
PoolAccounts ==
  /\ \A e \in Executors :
       stage[e] = "ready" /\ proc[e] = "running" =>
         /\ e \in pool
         /\ hasLock[e]
         /\ e \in available <=> Holder(e) = {}
  /\ \A e \in pool : stage[e] = "ready" /\ proc[e] = "running"
  /\ \A x \in Calls : contextExecutors[x] # NoExecutor => x \in contexts

\* executeCode does not compare execution ids: once a run has timed out, its
\* late result goes to the next run of the executor, whose own goes to the one
\* after it.  Without a timeout in its executor a call gets its own result, and
\* no result is ever given twice or to a user of another executor.
AnswersInTurn ==
  \A c \in Calls :
    result[c] # None =>
      /\ ex[result[c]] = ex[c]
      /\ \/ result[c] = c
         \/ \E d \in Calls : ex[d] = ex[c] /\ outcome[d] = "timedout"
      /\ \A d \in Calls : result[d] = result[c] => d = c

\* Every call ends when runs have a timeout: no error path, exit or timer
\* leaves the mutex of the pool or of an executor behind.
Answered == \A c \in Calls : pc[c] # "idle" ~> pc[c] = "done"

\* "Clean up from all tracking structures" (exit handler of createProcess): an
\* executor that has exited is neither available nor a context's.
\* Not kept by the code (README, "Where the code does not do what it says").
ExitCleansUp ==
  \A e \in Executors :
    stage[e] = "ready" /\ proc[e] \in {"exited", "signaled"} =>
      /\ e \notin available
      /\ \A x \in Calls : contextExecutors[x] # e

\* "Enforce per-language process limit if configured" (createProcess).
\* Not kept by the code (README, "Where the code does not do what it says").
LimitEnforced == Cardinality(pool) <= MaxProcesses

=============================================================================
