---------------------------- MODULE RequestPath ----------------------------
(***************************************************************************)
(* The way of a call: from a method of the Sandbox Durable Object          *)
(* (sandbox.ts) through a client, the retries of its transport             *)
(* (base-transport.ts, http-transport.ts) and containerFetch, which starts *)
(* the container if need be, to the operation in the container, and back.  *)
(* With it the state that both sides must agree on: the default session    *)
(* with the environment variables of the sandbox, and the contexts the     *)
(* code interpreter of the SDK remembers (interpreter.ts).                 *)
(*                                                                         *)
(* The container stops at any time, and tells the Durable Object later     *)
(* (onStop).  Time is counted for each request, in units of three seconds. *)
(***************************************************************************)
EXTENDS Api, FiniteSets

CONSTANTS
  Calls, None,
  Together,     \* bound: the pairs of methods that are called side by side; a method in no
                \* pair, and any method of an ExecutionSession, is the only one called
  Ids,          \* the ids processes are asked for by
  Keys,         \* names of environment variables; the value 0 is "not set"
  EnvObject,    \* the variables the constructor takes from its environment
  Durations,    \* how long an attempt to start the container may take
  MaxStops, MaxEvicts, MaxClock \* bounds

Values == {0, 1}
Env    == [Keys -> Values]
NoVars == [k \in Keys |-> 0]

ASSUME TogetherAssumption == Together \subseteq SUBSET (ApiOps \cup {"setEnvVars"})
ASSUME EnvObjectAssumption == EnvObject \in Env
ASSUME NoneAssumption == None \notin Env \cup Keys
ASSUME BoundsAssumption == Durations \subseteq Nat /\ {MaxStops, MaxEvicts, MaxClock} \subseteq Nat

\* TIMEOUT_MS and MIN_TIME_FOR_RETRY_MS
TotalBudget == 40
MinToRetry  == 5
\* Math.min(3000 * 2 ** attempt, 30000)
Delay(attempt) == IF attempt < 4 THEN << 1, 2, 4, 8 >>[attempt + 1] ELSE 10

VARIABLES
  box,   \* the container: whether it runs, how often it has stopped, the variables of
         \* the default session (None if there is none) and its code contexts
  sdk,   \* the Durable Object: defaultSession, envVars, storage, the contexts it remembers,
         \* the stops it knows of; `late` and `evicts` are history
  call,
  lapse  \* history: the session is out of step for a reason EnvKept names

vars == << box, sdk, call, lapse >>

\* The methods that need the default session, unless they are called on an
\* ExecutionSession (wrapped), which names its own.
SessionOps ==
  DOMAIN FileClient \cup DOMAIN CommandClient
  \cup {"startProcess", "listProcesses", "getProcess", "checkout", "exposePort", "unexposePort",
        "getExposedPorts"}

Wrapped(op) == IF op \in SessionOps \cup {"setEnvVars"} THEN BOOLEAN ELSE {FALSE}

\* operations of the container that run in the session they name, and create it
\* if it is missing (getOrCreateSession): without variables
InSession == {"execute", "executeStream", "startProcess", "checkout", "exists", "listFiles",
              "readFileStream"}

Plain     == "p"
OfProcess == {"getProcess", "killProcess", "getProcessLogs", "streamProcessLogs"}

Idle ==
  [op |-> "none", id |-> "none", wrapped |-> FALSE, pc |-> "idle", req |-> "own",
   env |-> NoVars, old |-> FALSE, todo |-> {}, key |-> None, named |-> TRUE, ctx |-> None,
   attempt |-> 0, clock |-> 0, on |-> 0, list |-> {}, reply |-> "none", runs |-> 0,
   did |-> "none", class |-> "none", status |-> 0]

\* the clock of a request and the number of its attempts stand still at a bound
UpTo(n)   == IF n < MaxClock THEN n ELSE MaxClock

MayCall(c, op, wrapped) ==
  /\ call[c].pc = "idle"
  /\ \A x \in Calls \ {c} : call[x].op # "none" =>
       {op, call[x].op} \in Together /\ ~ wrapped /\ ~ call[x].wrapped

Under(c)  == call[c].pc \notin {"idle", "done"}
Setting   == {c \in Calls : call[c].op = "setEnvVars" /\ ~ call[c].wrapped /\ Under(c)}
Creating  == {c \in Calls : call[c].req = "session" /\ Under(c)}
Contexts  == (0..MaxStops) \X Calls

TypeOK ==
  /\ box \in [up : BOOLEAN, stops : 0..MaxStops, session : Env \cup {None}, ctxs : SUBSET Contexts]
  /\ sdk.default \in BOOLEAN /\ sdk.late \in BOOLEAN /\ sdk.env \in Env
  /\ sdk.ctxs \subseteq Contexts /\ sdk.evicts \in 0..MaxEvicts /\ sdk.announced \in 0..box.stops
  /\ \A c \in Calls :
       /\ call[c].pc \in {"idle", "send", "wire", "reply", "done"}
       /\ call[c].req \in {"session", "context", "own"}
       /\ call[c].pc = "wire" => box.up
       /\ call[c].pc = "done" <=> call[c].class # "none"
  /\ ~ box.up => box.session = None /\ box.ctxs = {}
  \* what a restart of the Durable Object would find is what it knows
  /\ sdk.stored = sdk.default
  /\ lapse \in BOOLEAN

\* The sandbox is new, or has been used before: its session exists and is known.
Init ==
  /\ \E used \in BOOLEAN :
       /\ box = [up |-> used, stops |-> 0, ctxs |-> {},
                 session |-> IF used THEN EnvObject ELSE None]
       /\ sdk = [default |-> used, stored |-> used, env |-> EnvObject, ctxs |-> {},
                 announced |-> 0, late |-> FALSE, evicts |-> 0]
  /\ call = [c \in Calls |-> Idle]
  /\ lapse = FALSE

-----------------------------------------------------------------------------
(* The methods of the Sandbox *)

\* The status of a response.
StatusOf(r) ==
  CASE r = "ok" \/ r = "nonzero" -> 200
    [] r = "starting" -> 503
    [] r = "no context" -> 404
    [] r = "terminated" -> 410
    [] r \in {"failed", "lost", "uncoded"} -> 500
    [] OTHER -> Status(r)

\* The call ends with what the client makes of the reply.  The httpStatus of an
\* error is a field of the body, or the status of a response that is not JSON;
\* executeCode writes bodies without the field: 0 stands for undefined.
HttpStatus(r) == IF r \in {"no context"} \cup Errors("runCode") THEN 0 ELSE StatusOf(r)

Ends(k) ==
  [Idle EXCEPT !.op = k.op, !.id = k.id, !.wrapped = k.wrapped, !.pc = "done",
               !.runs = k.runs, !.did = k.did,
               !.class = IF k.reply = "ok" THEN "ok" ELSE ErrorClass(k.reply),
               !.status = HttpStatus(k.reply)]

\* A request leaves: its body is written once, and sent again as it is.
Ask(k, what) ==
  [k EXCEPT !.pc = "send", !.req = what, !.attempt = 0, !.clock = 0, !.on = sdk.announced]

\* ensureDefaultSession: the session is created unless it is known, with the
\* variables of the moment.  Mutant of Session: without them.
SessionBare(k) ==
  IF sdk.default THEN Ask(k, "own") ELSE [Ask(k, "session") EXCEPT !.env = NoVars, !.old = FALSE]
Session(k) ==
  IF sdk.default THEN Ask(k, "own") ELSE [Ask(k, "session") EXCEPT !.env = sdk.env, !.old = FALSE]

Begin(c) ==
  /\ \E op \in ApiOps \ {"runCode"} :
       \E id \in IF op \in OfProcess THEN Ids ELSE {Plain},
          x \in IF op = "deleteCodeContext" THEN sdk.ctxs ELSE {None},
          wrapped \in Wrapped(op) :
         LET k == [call[c] EXCEPT !.op = op, !.id = id, !.ctx = x, !.wrapped = wrapped]
         IN /\ MayCall(c, op, wrapped)
            /\ call' = [call EXCEPT ![c] = IF op \in SessionOps /\ ~ wrapped THEN Session(k)
                                          ELSE Ask(k, "own")]
  /\ UNCHANGED << box, sdk, lapse >>

\* runCode without a context: one that is remembered, or a new one.
RunCode(c) ==
  /\ MayCall(c, "runCode", FALSE)
  /\ LET k == [call[c] EXCEPT !.op = "runCode", !.id = Plain]
     IN \E next \in IF sdk.ctxs = {} THEN {Ask(k, "context")}
                    ELSE {Ask([k EXCEPT !.ctx = x], "own") : x \in sdk.ctxs} :
          call' = [call EXCEPT ![c] = next]
  /\ UNCHANGED << box, sdk, lapse >>

\* The next `unset` or `export`, for the session as it is known by then.
NextVar(k) ==
  LET unset == {x \in k.todo : k.env[x] = 0}
  IN {[Ask(k, "own") EXCEPT !.key = x, !.named = sdk.default /\ ~ k.wrapped] :
        x \in IF unset # {} THEN unset ELSE k.todo}

\* setEnvVars: kept for the sessions to come, and if there is one, a command for
\* each variable.
Kept(d, v) == [k \in Keys |-> IF k \in d THEN v[k] ELSE sdk.env[k]]

setEnvVars(c) ==
  /\ \E d \in (SUBSET Keys) \ {{}}, v \in Env, wrapped \in Wrapped("setEnvVars") :
       LET k == [call[c] EXCEPT !.op = "setEnvVars", !.id = Plain, !.wrapped = wrapped,
                                  !.env = v, !.todo = d]
           older == IF wrapped THEN {}
                    ELSE Creating \cup {s \in Setting : call[s].todo \cap d # {}}
       IN /\ MayCall(c, "setEnvVars", wrapped)
          /\ \A x \in Keys \ d : v[x] = 0
          /\ sdk' = IF wrapped THEN sdk ELSE [sdk EXCEPT !.env = Kept(d, v)]
          /\ \E next \in IF sdk.default \/ wrapped THEN NextVar(k)
                        ELSE {Ends([k EXCEPT !.reply = "ok"])} :
               call' = [x \in Calls |-> IF x = c THEN next
                                        ELSE [call[x] EXCEPT !.old = @ \/ x \in older]]
          \* a session that nobody here knows of is not told
          /\ lapse' = (lapse \/ (~ wrapped /\ ~ sdk.default /\ box.session # None))
  /\ UNCHANGED box

-----------------------------------------------------------------------------
(* containerFetch *)

Replies(c, r) == [call EXCEPT ![c].pc = "reply", ![c].reply = r]

\* A container that does not run is started.  "starting" is the answer 503 to
\* a start that may yet succeed, "failed" the answer 500 to one that may not.
Fetch(c) ==
  /\ call[c].pc = "send"
  /\ \/ /\ box.up
        /\ call' = [call EXCEPT ![c].pc = "wire"]
        /\ UNCHANGED box
     \/ /\ ~ box.up
        /\ \E d \in Durations :
             \/ /\ box' = [box EXCEPT !.up = TRUE]
                /\ call' = [call EXCEPT ![c].pc = "wire", ![c].clock = UpTo(@ + d)]
             \/ \E r \in {"starting", "failed"} :
                  /\ call' = [Replies(c, r) EXCEPT ![c].clock = UpTo(@ + d)]
                  /\ UNCHANGED box
  /\ UNCHANGED << sdk, lapse >>

\* The connection breaks, before or after the container has done its part.
ReplyLost(c) ==
  /\ call[c].pc \in {"wire", "reply"} /\ call[c].reply \notin {"starting", "failed", "lost"}
  /\ call' = Replies(c, "lost")
  /\ UNCHANGED << box, sdk, lapse >>

-----------------------------------------------------------------------------
(* The container *)

Arrives(c, what) == call[c].pc = "wire" /\ call[c].req = what

Does(c, op, r) ==
  [Replies(c, r) EXCEPT ![c].did = op, ![c].runs = @ + 1, ![c].on = box.stops]

\* POST /api/session/create for the default session
CreateSession(c) ==
  /\ Arrives(c, "session")
  /\ \/ /\ box.session = None
        /\ box' = [box EXCEPT !.session = call[c].env]
        /\ lapse' = call[c].old
        /\ call' = [Replies(c, "ok") EXCEPT ![c].on = box.stops]
     \/ /\ box.session # None
        /\ call' = [Replies(c, "SESSION_ALREADY_EXISTS") EXCEPT ![c].on = box.stops]
        /\ UNCHANGED << box, lapse >>
     \/ \E r \in Errors("createSession") :
          /\ box.session = None
          /\ call' = Replies(c, r)
          /\ UNCHANGED << box, lapse >>
  /\ UNCHANGED sdk

\* POST /api/contexts, for runCode or on its own
CreateContext(c) ==
  /\ \/ Arrives(c, "context")
     \/ Arrives(c, "own") /\ call[c].op = "createCodeContext"
  /\ \/ /\ box' = [box EXCEPT !.ctxs = @ \cup {<< box.stops, c >>}]
        /\ call' = [(IF call[c].req = "own" THEN Does(c, "createCodeContext", "ok")
                     ELSE Replies(c, "ok"))
                    EXCEPT ![c].ctx = << box.stops, c >>]
     \/ \E r \in Errors("createCodeContext") : call' = Replies(c, r) /\ UNCHANGED box
  /\ UNCHANGED << sdk, lapse >>

\* A command that finds no session is why the two sides differ from then on: the
\* session was known from before a stop that is not announced yet, or was on
\* its way when it stopped.
Excused(c) == call[c].on # box.stops \/ sdk.announced # box.stops \/ sdk.late

Entered == IF box.session = None THEN NoVars ELSE box.session

\* An `unset` or `export` of setEnvVars; "nonzero" is its exit code
SetVar(c) ==
  /\ Arrives(c, "own")
  /\ call[c].op = "setEnvVars"
  /\ IF call[c].named
     THEN /\ \E done \in BOOLEAN :
               /\ box' = [box EXCEPT !.session =
                            IF done THEN [Entered EXCEPT ![call[c].key] = call[c].env[call[c].key]]
                            ELSE Entered]
               /\ call' = Does(c, "execute", IF done THEN "ok" ELSE "nonzero")
          /\ lapse' = (lapse \/ call[c].old \/ (box.session = None /\ Excused(c)))
     ELSE \* in a session of its own, or in 'default' of the container
          /\ \E r \in {"ok", "nonzero"} : call' = Does(c, "execute", r)
          /\ UNCHANGED << box, lapse >>
  /\ UNCHANGED sdk

\* All other operations, as the handler of the path has it.
Serve(c) ==
  LET op == Dispatch(Clients(call[c].id)[call[c].op])
      known == call[c].ctx \in box.ctxs
      bodyless == op = "startProcess" /\ call[c].op # op  \* GET or DELETE /api/process/start
  IN /\ Arrives(c, "own")
     /\ call[c].op \notin {"setEnvVars", "createCodeContext"}
     /\ IF op \in InSession /\ ~ bodyless /\ ~ call[c].wrapped
        THEN /\ box' = [box EXCEPT !.session = Entered]
             /\ lapse' = (lapse \/ (box.session = None /\ Excused(c)))
        ELSE /\ box' = IF op = "deleteCodeContext" THEN [box EXCEPT !.ctxs = @ \ {call[c].ctx}]
                       ELSE box
             /\ UNCHANGED lapse
     /\ \E r \in CASE op = "runCode" /\ ~ known -> {"no context"}
                   [] op = "deleteCodeContext" /\ ~ known -> {"CONTEXT_NOT_FOUND"}
                   [] op = "createSession" -> {"ok", "SESSION_ALREADY_EXISTS"} \cup Errors(op)
                   [] bodyless -> {"INTERNAL_ERROR"}
                   [] op = "invalid" -> {"UNKNOWN_ERROR"}
                   [] OTHER -> {"ok"} \cup Errors(op) :
          call' = [Does(c, op, r)
                   EXCEPT ![c].list = IF op = "listCodeContexts" THEN box.ctxs ELSE {}]
     /\ UNCHANGED sdk

BoxStops ==
  /\ box.up
  /\ box.stops < MaxStops
  /\ box' = [up |-> FALSE, stops |-> box.stops + 1, session |-> None, ctxs |-> {}]
  /\ call' = [c \in Calls |-> IF call[c].pc = "wire"
                              THEN [call[c] EXCEPT !.pc = "reply", !.reply = "lost"] ELSE call[c]]
  /\ lapse' = FALSE
  /\ UNCHANGED sdk

-----------------------------------------------------------------------------
(* The Durable Object *)

onStop ==
  /\ sdk.announced < box.stops
  /\ sdk' = [sdk EXCEPT !.announced = @ + 1, !.default = FALSE, !.stored = FALSE, !.late = FALSE]
  \* a setEnvVars has no session from now on, though there may be one already
  /\ lapse' = (lapse \/ (box.session # None /\ Setting # {}))
  /\ UNCHANGED << box, call >>

\* The Durable Object is evicted between calls: it comes back with what it
\* stored, which the variables and the contexts are not.
Evict ==
  /\ sdk.evicts < MaxEvicts
  /\ \A c \in Calls : ~ Under(c)
  /\ sdk' = [sdk EXCEPT !.env = EnvObject, !.default = sdk.stored, !.ctxs = {}, !.evicts = @ + 1]
  /\ lapse' = (lapse \/ (box.session # None /\ sdk.env # EnvObject))
  /\ UNCHANGED << box, call >>

-----------------------------------------------------------------------------
(* The reply: transport, client and method *)

\* BaseTransport.fetch tries again.  Mutant of Retryable: after every failure of
\* the server.  (InterpreterClient tries again once more, when an error says that
\* the interpreter is not ready: no error of the container does.)
RetryableAll(k) == StatusOf(k.reply) >= 500 /\ TotalBudget - k.clock > MinToRetry
Retryable(k)    == StatusOf(k.reply) = 503 /\ TotalBudget - k.clock > MinToRetry

Retry(c) ==
  /\ call[c].pc = "reply"
  /\ Retryable(call[c])
  /\ call' = [call EXCEPT ![c].pc = "send", ![c].reply = "none",
                          ![c].clock = UpTo(@ + Delay(call[c].attempt)),
                          ![c].attempt = IF @ < 9 THEN @ + 1 ELSE @]
  /\ UNCHANGED << box, sdk, lapse >>

\* Mutant of Synced: the session is not stored.
SyncedUnstored(k) == [sdk EXCEPT !.default = TRUE, !.late = @ \/ k.on < sdk.announced]
Synced(k) == [sdk EXCEPT !.default = TRUE, !.stored = TRUE, !.late = @ \/ k.on < sdk.announced]

Goes(c, k) == call' = [call EXCEPT ![c] = k]

\* ensureDefaultSession has its answer.  Mutant of Exists: an existing session
\* is an error.
ExistsNever(k) == FALSE
Exists(k)      == k.reply = "SESSION_ALREADY_EXISTS"

SessionKnown(c) ==
  LET k == call[c]
  IN /\ k.pc = "reply" /\ k.req = "session" /\ ~ Retryable(k)
     /\ IF k.reply = "ok" \/ Exists(k)
        THEN sdk' = Synced(k) /\ Goes(c, [Ask(k, "own") EXCEPT !.reply = "none"])
        ELSE Goes(c, Ends(k)) /\ UNCHANGED sdk
     /\ UNCHANGED << box, lapse >>

ContextKnown(c) ==
  LET k == call[c]
  IN /\ k.pc = "reply" /\ k.req = "context" /\ ~ Retryable(k)
     /\ IF k.reply = "ok"
        THEN /\ sdk' = [sdk EXCEPT !.ctxs = @ \cup {k.ctx}]
             /\ Goes(c, [Ask(k, "own") EXCEPT !.reply = "none"])
        ELSE Goes(c, Ends(k)) /\ UNCHANGED sdk
     /\ UNCHANGED << box, lapse >>

VarSet(c) ==
  LET k == call[c]
      rest == [k EXCEPT !.todo = @ \ {k.key}, !.reply = "none"]
  IN /\ k.pc = "reply" /\ k.req = "own" /\ k.op = "setEnvVars" /\ ~ Retryable(k)
     /\ IF k.reply = "ok"
        THEN /\ \E next \in IF rest.todo # {} THEN NextVar(rest) ELSE {Ends(k)} : Goes(c, next)
             /\ UNCHANGED lapse
        ELSE /\ Goes(c, Ends(k))
             /\ lapse' = (lapse \/ (box.session # None /\ ~ k.wrapped))
     /\ UNCHANGED << box, sdk >>

Returns(c) ==
  LET k == call[c]
  IN /\ k.pc = "reply" /\ k.req = "own" /\ k.op # "setEnvVars" /\ ~ Retryable(k)
     /\ Goes(c, Ends(k))
     /\ sdk' = CASE k.reply = "ok" /\ k.op = "createCodeContext" ->
                        [sdk EXCEPT !.ctxs = @ \cup {k.ctx}]
                 [] k.reply = "ok" /\ k.op = "deleteCodeContext" ->
                        [sdk EXCEPT !.ctxs = @ \ {k.ctx}]
                 [] k.reply = "ok" /\ k.op = "listCodeContexts" ->
                        [sdk EXCEPT !.ctxs = @ \cup k.list]
                 [] OTHER -> sdk
     /\ UNCHANGED << box, lapse >>
-----------------------------------------------------------------------------
OfCall(c) ==
  \/ Begin(c) \/ RunCode(c) \/ setEnvVars(c)
  \/ Fetch(c) \/ ReplyLost(c)
  \/ CreateSession(c) \/ CreateContext(c) \/ SetVar(c) \/ Serve(c)
  \/ Retry(c) \/ SessionKnown(c) \/ ContextKnown(c) \/ VarSet(c) \/ Returns(c)

Next == (\E c \in Calls : OfCall(c)) \/ BoxStops \/ onStop \/ Evict

Spec == Init /\ [][Next]_vars

-----------------------------------------------------------------------------
(* Properties *)

\* The session has the variables of the sandbox whenever no setEnvVars is under
\* way (sandbox.ts:276-315, 1097-1132), across stops of the container.  It may
\* lose step, until the container stops, in these ways only:
\*   - a command meant for the session of before a stop that was not announced yet
\*     makes the container create it, without variables;
\*   - the answer of createSession arrives after onStop, and is believed;
\*   - setEnvVars comes between createSession and its answer, or while the session
\*     exists and is not known (an answer that was lost);
\*   - a setEnvVars fails halfway, or two set the same variable at once;
\*   - a stop is announced while a setEnvVars is under way and the session of after
\*     the stop exists: the rest of its variables go to a session of their own;
\*   - the Durable Object is evicted, and forgets what setEnvVars had set.
EnvKept ==
  box.session # None /\ Setting = {} /\ ~ lapse => box.session = sdk.env

\* What a call does in the container it does once, whatever is retried and lost
\* (base-transport.ts:37-75), and it is what was asked for (routes/setup.ts, the
\* handlers).  Processes named as a fixed path are not reached: GET
\* /api/process/kill-all kills all.  Nobody handles /api/commands.
AsAsked ==
  \A c \in Calls :
    LET k == call[c]
    IN /\ k.op # "setEnvVars" => k.runs <= 1
       /\ \/ k.did \in {"none", IF k.op = "setEnvVars" THEN "execute" ELSE k.op}
          \/ k.op \in {"getProcess", "killProcess"} /\ k.id \in {"start", "list", "kill-all"}
          \/ k.op = "getCommands" /\ k.did = "invalid"

\* A caller may believe its answer: "ok" was done; 503 was not, for all the
\* attempts; and that the default session exists already is nobody's error
\* (sandbox.ts:1118-1129).
Told ==
  \A c \in Calls :
    LET k == call[c]
    IN /\ k.class = "ok" => k.runs > 0 \/ k.op = "setEnvVars"
       /\ k.status = 503 => k.runs = 0 \/ k.op = "setEnvVars"
       /\ k.class = "SessionAlreadyExistsError" => k.op = "createSession"

\* "Clear in-memory state that references the old container.  This prevents
\* stale references after container restarts" (onStop, sandbox.ts:808-809).  The
\* contexts that CodeInterpreter remembers are not cleared.
\* Not kept by the code (README, "Where the code does not do what it says").
ContextsCurrent == \A x \in sdk.ctxs : x[1] >= sdk.announced

=============================================================================
