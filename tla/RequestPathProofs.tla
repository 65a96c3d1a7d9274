-------------------------- MODULE RequestPathProofs --------------------------
(***************************************************************************)
(* Proofs about RequestPath, for every set of calls, of ids of processes   *)
(* and of variables, every pair of methods that are called side by side,   *)
(* and any number of stops and evictions.                                  *)
(***************************************************************************)
EXTENDS RequestPath, SequenceTheorems, WellFoundedInduction, TLAPS

-----------------------------------------------------------------------------
(***************************************************************************)
(* The inductive invariant                                                 *)
(***************************************************************************)

\* The codes of errors the operations of the container answer with.
Codes ==
  {"VALIDATION_FAILED", "FILESYSTEM_ERROR", "FILE_NOT_FOUND", "IS_DIRECTORY", "NOT_DIRECTORY",
   "SECURITY_VALIDATION_FAILED", "STREAM_START_ERROR", "PROCESS_ERROR", "PROCESS_NOT_FOUND",
   "INVALID_PORT_NUMBER", "PORT_ALREADY_EXPOSED", "PORT_OPERATION_ERROR", "PORT_NOT_EXPOSED",
   "INVALID_GIT_URL", "GIT_REPOSITORY_NOT_FOUND", "GIT_AUTH_FAILED", "GIT_BRANCH_NOT_FOUND",
   "GIT_CLONE_FAILED", "GIT_OPERATION_FAILED", "PYTHON_NOT_AVAILABLE", "INTERNAL_ERROR",
   "uncoded", "terminated", "COMMAND_EXECUTION_ERROR"}

\* What else a call is answered.
Answers == {"none", "ok", "nonzero", "starting", "failed", "lost", "no context",
            "CONTEXT_NOT_FOUND", "SESSION_ALREADY_EXISTS", "UNKNOWN_ERROR"}

Classes == {"none", "ok"} \cup {ErrorClass(r) : r \in Codes \cup Answers}

CallRecords ==
  [op : ApiOps \cup {"none", "setEnvVars"}, id : Ids \cup {"none", Plain}, wrapped : BOOLEAN,
   pc : {"idle", "send", "wire", "reply", "done"}, req : {"session", "context", "own"},
   env : Env, old : BOOLEAN, todo : SUBSET Keys, key : Keys \cup {None}, named : BOOLEAN,
   ctx : Contexts \cup {None}, attempt : Nat, clock : Nat, on : Nat, list : SUBSET Contexts,
   reply : Codes \cup Answers, runs : Nat, did : ApiOps \cup {"none", "invalid"},
   class : Classes, status : Nat]

SdkRecords ==
  [default : BOOLEAN, stored : BOOLEAN, env : Env, ctxs : SUBSET Contexts, announced : Nat,
   late : BOOLEAN, evicts : 0..MaxEvicts]

DataOK == call \in [Calls -> CallRecords] /\ sdk \in SdkRecords

\* What AsAsked and Told say of a call.
AsAskedOf(k) ==
  /\ k.op # "setEnvVars" => k.runs <= 1
  /\ \/ k.did \in {"none", IF k.op = "setEnvVars" THEN "execute" ELSE k.op}
     \/ k.op \in {"getProcess", "killProcess"} /\ k.id \in {"start", "list", "kill-all"}
     \/ k.op = "getCommands" /\ k.did = "invalid"

ToldOf(k) ==
  /\ k.class = "ok" => k.runs > 0 \/ k.op = "setEnvVars"
  /\ k.status = 503 => k.runs = 0 \/ k.op = "setEnvVars"
  /\ k.class = "SessionAlreadyExistsError" => k.op = "createSession"

\* How far a call has come tells what has been done for it: nothing before its
\* own request is answered, and nothing if the answer is that the container starts.
WayOf(k) ==
  /\ k.op = "none" <=> k.pc = "idle"
  /\ k.pc = "idle" => k.runs = 0 /\ k.did = "none" /\ k.req = "own"
  /\ k.pc # "reply" => k.reply = "none"
  /\ k.pc # "done" => k.class = "none" /\ k.status = 0
  /\ k.pc = "done" => k.class # "none"
  /\ k.op = "setEnvVars" => k.req = "own" /\ k.did \in {"none", "execute"}
  /\ k.op # "setEnvVars" /\ (k.pc \in {"send", "wire"} \/ k.reply = "starting" \/ k.req # "own") =>
       k.runs = 0 /\ k.did = "none"
  /\ k.op # "setEnvVars" /\ k.req = "own" /\ k.reply = "ok" => k.runs > 0
  /\ k.reply = "SESSION_ALREADY_EXISTS" => k.req = "session" \/ k.op = "createSession"
  /\ k.req = "context" => k.op = "runCode"
  /\ k.reply = "ok" /\ (k.req = "context" \/ (k.req = "own" /\ k.op = "createCodeContext")) =>
       k.ctx \in Contexts
  /\ k.op = "setEnvVars" /\ k.pc # "done" /\ k.named => ~ k.wrapped

CallOK(k) == WayOf(k) /\ AsAskedOf(k) /\ ToldOf(k)

CallInv == \A c \in Calls : CallOK(call[c])

\* The command of a call is for the default session as it is known.
ForSession(k) ==
  /\ k.req = "own" /\ ~ k.wrapped
  /\ (k.op = "setEnvVars" /\ k.named) \/ k.op \in SessionOps

\* The session that is known exists, unless a stop was not announced yet or its
\* creation was believed too late; so does the session a command is on its way
\* to, unless the container has stopped since; and one that was just created.
Sound == sdk.announced = box.stops /\ ~ sdk.late

\* A request that has still to be done knows of no stop that is not announced.
OnItsWay(k) == k.pc \in {"send", "wire"} \/ k.reply = "starting"

KnownOf(k) ==
  /\ k.on <= box.stops
  /\ OnItsWay(k) => k.on <= sdk.announced
  /\ OnItsWay(k) /\ ForSession(k) /\ k.on = box.stops /\ Sound => box.session # None
  /\ /\ k.pc = "reply" /\ k.req = "session" /\ k.on = box.stops
     /\ k.reply \in {"ok", "SESSION_ALREADY_EXISTS"}
     => box.session # None

KnownInv ==
  /\ sdk.default /\ Sound => box.session # None
  /\ \A c \in Calls : KnownOf(call[c])

\* The variables a setEnvVars has still to set in the session.
IsSetting(k) == k.op = "setEnvVars" /\ ~ k.wrapped /\ k.pc \notin {"idle", "done"}

Still(k) ==
  IF IsSetting(k) THEN k.todo \ (IF ~ k.named \/ k.reply = "ok" THEN {k.key} ELSE {}) ELSE {}

\* Every variable of the session has its value or is about to be given it; ...
SessionEnv ==
  box.session # None /\ ~ lapse =>
    /\ \A x \in Keys : box.session[x] = sdk.env[x] \/ \E c \in Calls : x \in Still(call[c])
    /\ ~ sdk.default => box.session = sdk.env

\* ... and a call that is not overtaken by a setEnvVars carries the values of now.
EnvOf(k) ==
  /\ k.req = "session" /\ k.pc \notin {"idle", "done"} /\ ~ k.old => k.env = sdk.env
  /\ IsSetting(k) =>
       /\ k.key \in k.todo
       /\ ~ k.old => \A x \in k.todo : k.env[x] = sdk.env[x]

EnvInv == SessionEnv /\ \A c \in Calls : EnvOf(call[c])

IInv == TypeOK /\ DataOK /\ CallInv /\ KnownInv /\ EnvInv

-----------------------------------------------------------------------------
(***************************************************************************)
(* The container does what a client asks for                               *)
(***************************************************************************)

\* The operations of the clients.
LEMMA Domains ==
  /\ DOMAIN FileClient = {"mkdir", "writeFile", "readFile", "readFileStream", "deleteFile",
                          "renameFile", "moveFile", "listFiles", "exists"}
  /\ DOMAIN CommandClient = {"execute", "executeStream"}
  /\ DOMAIN GitClient = {"checkout"}
  /\ DOMAIN UtilityClient = {"ping", "getCommands", "createSession", "deleteSession", "getVersion"}
  /\ \A id : DOMAIN PortClient(id) = {"exposePort", "unexposePort", "getExposedPorts", "watchPort"}
  /\ \A id : DOMAIN InterpreterClient(id) =
               {"createCodeContext", "listCodeContexts", "deleteCodeContext", "runCode"}
  /\ \A id : DOMAIN ProcessClient(id) =
               {"startProcess", "listProcesses", "getProcess", "killProcess", "killAllProcesses",
                "getProcessLogs", "streamProcessLogs"}
BY DEF FileClient, CommandClient, GitClient, UtilityClient, PortClient, InterpreterClient,
       ProcessClient

\* No two clients have an operation in common.
LEMMA ClientsTable ==
  ASSUME NEW id
  PROVE  /\ \A op \in DOMAIN FileClient : Clients(id)[op] = FileClient[op]
         /\ \A op \in DOMAIN ProcessClient(id) : Clients(id)[op] = ProcessClient(id)[op]
         /\ \A op \in DOMAIN CommandClient : Clients(id)[op] = CommandClient[op]
         /\ \A op \in DOMAIN PortClient(id) : Clients(id)[op] = PortClient(id)[op]
         /\ \A op \in DOMAIN GitClient : Clients(id)[op] = GitClient[op]
         /\ \A op \in DOMAIN UtilityClient : Clients(id)[op] = UtilityClient[op]
         /\ \A op \in DOMAIN InterpreterClient(id) : Clients(id)[op] = InterpreterClient(id)[op]
         /\ ApiOps = DOMAIN FileClient \cup DOMAIN ProcessClient(id) \cup DOMAIN CommandClient
                     \cup DOMAIN PortClient(id) \cup DOMAIN GitClient \cup DOMAIN UtilityClient
                     \cup DOMAIN InterpreterClient(id)
BY Domains DEF Clients, ApiOps


\* The handler that the routes name for a path.
HandlerOf(p) ==
  IF p[2] \in {"contexts", "interpreter"} THEN "interpreter"
  ELSE IF p[2] = "execute" THEN IF p[Len(p)] = "code" THEN "interpreter" ELSE "execute"
  ELSE IF p[2] \in {"session", "process", "git"} THEN p[2]
  ELSE IF p[2] \in {"expose-port", "port-watch", "exposed-ports"} THEN "port"
  ELSE IF p[2] \in {"ping", "commands", "version"} THEN "misc"
  ELSE "file"

\* The first segment of a route is fixed; in the API so is what tells its handler.
Shaped(r) ==
  /\ r.path[1] # Var
  /\ r.path[1] = "api" =>
       /\ r.path[2] # Var
       /\ r.path[2] = "execute" => r.path[Len(r.path)] # Var
       /\ r.handler = HandlerOf(r.path)

\* The routes are the four tables one after the other.
LEMMA RoutesTable ==
  /\ DOMAIN Routes = 1..39
  /\ \A i \in 1..5  : Routes[i] = SessionRoutes[i]
  /\ \A i \in 1..9  : Routes[5 + i] = FileRoutes[i]
  /\ \A i \in 1..11 : Routes[14 + i] = PortAndProcessRoutes[i]
  /\ \A i \in 1..14 : Routes[25 + i] = OtherRoutes[i]
<1>1. DOMAIN Routes = 1..39
  BY DEF Routes, SessionRoutes, FileRoutes, PortAndProcessRoutes, OtherRoutes
<1>2. /\ Routes[1] = SessionRoutes[1] /\ Routes[2] = SessionRoutes[2]
      /\ Routes[3] = SessionRoutes[3] /\ Routes[4] = SessionRoutes[4]
      /\ Routes[5] = SessionRoutes[5]
  BY DEF Routes, SessionRoutes, FileRoutes, PortAndProcessRoutes, OtherRoutes
<1>3. /\ Routes[6] = FileRoutes[1] /\ Routes[7] = FileRoutes[2]
      /\ Routes[8] = FileRoutes[3] /\ Routes[9] = FileRoutes[4]
      /\ Routes[10] = FileRoutes[5] /\ Routes[11] = FileRoutes[6]
      /\ Routes[12] = FileRoutes[7] /\ Routes[13] = FileRoutes[8]
      /\ Routes[14] = FileRoutes[9]
  BY DEF Routes, SessionRoutes, FileRoutes, PortAndProcessRoutes, OtherRoutes
<1>4. /\ Routes[15] = PortAndProcessRoutes[1] /\ Routes[16] = PortAndProcessRoutes[2]
      /\ Routes[17] = PortAndProcessRoutes[3] /\ Routes[18] = PortAndProcessRoutes[4]
      /\ Routes[19] = PortAndProcessRoutes[5] /\ Routes[20] = PortAndProcessRoutes[6]
      /\ Routes[21] = PortAndProcessRoutes[7] /\ Routes[22] = PortAndProcessRoutes[8]
      /\ Routes[23] = PortAndProcessRoutes[9] /\ Routes[24] = PortAndProcessRoutes[10]
      /\ Routes[25] = PortAndProcessRoutes[11]
  BY DEF Routes, SessionRoutes, FileRoutes, PortAndProcessRoutes, OtherRoutes
<1>5. /\ Routes[26] = OtherRoutes[1] /\ Routes[27] = OtherRoutes[2]
      /\ Routes[28] = OtherRoutes[3] /\ Routes[29] = OtherRoutes[4]
      /\ Routes[30] = OtherRoutes[5] /\ Routes[31] = OtherRoutes[6]
  BY DEF Routes, SessionRoutes, FileRoutes, PortAndProcessRoutes, OtherRoutes
<1>6. /\ Routes[32] = OtherRoutes[7] /\ Routes[33] = OtherRoutes[8]
      /\ Routes[34] = OtherRoutes[9] /\ Routes[35] = OtherRoutes[10]
      /\ Routes[36] = OtherRoutes[11] /\ Routes[37] = OtherRoutes[12]
      /\ Routes[38] = OtherRoutes[13] /\ Routes[39] = OtherRoutes[14]
  BY DEF Routes, SessionRoutes, FileRoutes, PortAndProcessRoutes, OtherRoutes
<1> QED
  BY <1>1, <1>2, <1>3, <1>4, <1>5, <1>6

\* Every route is shaped.
LEMMA RoutesShaped == \A i \in DOMAIN Routes : Shaped(Routes[i])
<1>1. /\ Shaped(SessionRoutes[1]) /\ Shaped(SessionRoutes[2]) /\ Shaped(SessionRoutes[3])
      /\ Shaped(SessionRoutes[4]) /\ Shaped(SessionRoutes[5])
  BY DEF SessionRoutes, Route, Get, Post, Put, Delete, HandlerOf, Var, Shaped
<1>2. /\ Shaped(FileRoutes[1]) /\ Shaped(FileRoutes[2]) /\ Shaped(FileRoutes[3])
      /\ Shaped(FileRoutes[4]) /\ Shaped(FileRoutes[5]) /\ Shaped(FileRoutes[6])
      /\ Shaped(FileRoutes[7]) /\ Shaped(FileRoutes[8]) /\ Shaped(FileRoutes[9])
  BY DEF FileRoutes, Route, Get, Post, Put, Delete, HandlerOf, Var, Shaped
<1>3. /\ Shaped(PortAndProcessRoutes[1]) /\ Shaped(PortAndProcessRoutes[2]) /\ Shaped(PortAndProcessRoutes[3])
      /\ Shaped(PortAndProcessRoutes[4]) /\ Shaped(PortAndProcessRoutes[5]) /\ Shaped(PortAndProcessRoutes[6])
      /\ Shaped(PortAndProcessRoutes[7]) /\ Shaped(PortAndProcessRoutes[8]) /\ Shaped(PortAndProcessRoutes[9])
      /\ Shaped(PortAndProcessRoutes[10]) /\ Shaped(PortAndProcessRoutes[11])
  BY DEF PortAndProcessRoutes, Route, Get, Post, Put, Delete, HandlerOf, Var, Shaped
<1>4. /\ Shaped(OtherRoutes[1]) /\ Shaped(OtherRoutes[2]) /\ Shaped(OtherRoutes[3])
      /\ Shaped(OtherRoutes[4]) /\ Shaped(OtherRoutes[5]) /\ Shaped(OtherRoutes[6])
      /\ Shaped(OtherRoutes[7]) /\ Shaped(OtherRoutes[8]) /\ Shaped(OtherRoutes[9])
      /\ Shaped(OtherRoutes[10]) /\ Shaped(OtherRoutes[11]) /\ Shaped(OtherRoutes[12])
      /\ Shaped(OtherRoutes[13]) /\ Shaped(OtherRoutes[14])
  BY DEF OtherRoutes, Route, Get, Post, Put, Delete, HandlerOf, Var, Shaped
<1>5. /\ \A i \in 1..5 : Shaped(Routes[i])
      /\ \A i \in 1..9 : Shaped(Routes[5 + i])
      /\ \A i \in 1..11 : Shaped(Routes[14 + i])
      /\ \A i \in 1..14 : Shaped(Routes[25 + i])
  BY <1>1, <1>2, <1>3, <1>4, RoutesTable
<1>6. \A i \in 1..39 : \/ i \in 1..5
                       \/ i - 5 \in 1..9 /\ i = 5 + (i - 5)
                       \/ i - 14 \in 1..11 /\ i = 14 + (i - 14)
                       \/ i - 25 \in 1..14 /\ i = 25 + (i - 25)
  OBVIOUS
<1> QED
  BY <1>5, <1>6, RoutesTable

\* Some index is the least.
LEMMA LeastIndex ==
  ASSUME NEW T, T \subseteq Nat, T # {}
  PROVE  \E x \in T : \A y \in T : x <= y
<1> DEFINE R == OpToRel(<, Nat)
<1>1. \A x, y \in Nat : y < x => << y, x >> \in R
  BY DEF OpToRel
<1>2. IsWellFoundedOn(R, Nat)
  BY NatLessThanWellFounded
<1> HIDE DEF R
<1>3. PICK x \in T : \A y \in T : << y, x >> \notin R
  BY <1>2, WFMin
<1>4. \A y \in T : ~ (y < x)
  BY <1>1, <1>3
<1> QED
  BY <1>3, <1>4

Matches(route, r) == route.method = r.method /\ PathMatches(route.path, r.path)

\* A path of the API.
IsApi(p) == Len(p) \in {2, 3, 4} /\ DOMAIN p = 1..Len(p) /\ p[1] = "api"

\* Whatever the order of the routes, a request of the API that one of them matches
\* comes to the handler of its path.
LEMMA ApiRoute ==
  ASSUME NEW r, IsApi(r.path), NEW i \in DOMAIN Routes, Matches(Routes[i], r)
  PROVE  MatchRoute(r) = HandlerOf(r.path)
<1> DEFINE matching == {j \in DOMAIN Routes :
                          Routes[j].method = r.method /\ PathMatches(Routes[j].path, r.path)}
           first == CHOOSE j \in matching : \A k \in matching : j <= k
<1>1. i \in matching /\ matching \subseteq Nat
  BY RoutesTable DEF Matches
<1>2. \E j \in matching : \A k \in matching : j <= k
  BY <1>1, LeastIndex
<1>3. first \in matching
  BY <1>2
<1>4. MatchRoute(r) = Routes[first].handler
  BY <1>1 DEF MatchRoute
<1> HIDE DEF first
<1>5. first \in DOMAIN Routes /\ PathMatches(Routes[first].path, r.path)
  BY <1>3
<1> DEFINE q == Routes[first].path
<1>6. Shaped(Routes[first])
  BY <1>5, RoutesShaped
<1>7. /\ Len(q) = Len(r.path)
      /\ \A j \in 1..Len(r.path) : q[j] \in {Var, r.path[j]}
  BY <1>5 DEF PathMatches, IsApi
<1>8. 1 \in 1..Len(r.path) /\ 2 \in 1..Len(r.path) /\ Len(r.path) \in 1..Len(r.path)
  BY DEF IsApi
<1>9. q[1] = "api"
  BY <1>6, <1>7, <1>8 DEF Shaped, IsApi
<1>10. q[2] = r.path[2]
  BY <1>6, <1>7, <1>8, <1>9 DEF Shaped
<1>11. q[2] = "execute" => q[Len(q)] = r.path[Len(r.path)]
  BY <1>6, <1>7, <1>8, <1>9 DEF Shaped
<1>12. HandlerOf(q) = HandlerOf(r.path)
  BY <1>10, <1>11 DEF HandlerOf
<1> QED
  BY <1>4, <1>6, <1>9, <1>12 DEF Shaped

\* A path without its first segment.
LEMMA Tails ==
  ASSUME NEW p, NEW a, NEW b, NEW c
  PROVE  /\ p = << a, b >> => Tail(p) = << b >>
         /\ p = << a, b, c >> => Tail(p) = << b, c >>
<1>1. Tail(<< a, b >>) = << b >> /\ Tail(<< a, b, c >>) = << b, c >>
  OBVIOUS
<1> QED
  BY <1>1, Zenon

\* The handler a request comes to decides by what is after "api".
LEMMA DispatchBy ==
  ASSUME NEW r, IsApi(r.path)
  PROVE  /\ MatchRoute(r) = "session"     => Dispatch(r) = SessionHandler(Tail(r.path))
         /\ MatchRoute(r) = "execute"     => Dispatch(r) = ExecuteHandler(Tail(r.path))
         /\ MatchRoute(r) = "file"        => Dispatch(r) = FileHandler(Tail(r.path))
         /\ MatchRoute(r) = "process"     => Dispatch(r) = ProcessHandler(r.method, Tail(r.path))
         /\ MatchRoute(r) = "port"        => Dispatch(r) = PortHandler(r.method, Tail(r.path))
         /\ MatchRoute(r) = "interpreter" => Dispatch(r) = InterpreterHandler(r.method, Tail(r.path))
         /\ MatchRoute(r) = "git"         => Dispatch(r) = "checkout"
         /\ MatchRoute(r) = "misc"        => Dispatch(r) = MiscHandler(Tail(r.path))
<1>1. Head(r.path) = "api"
  BY DEF IsApi
<1> QED
  BY <1>1 DEF Dispatch

\* The container does what the FileClient asks for.
LEMMA FileDispatch ==
  \A op \in DOMAIN FileClient : Dispatch(FileClient[op]) = op
<1>1. \A op \in DOMAIN FileClient : \E i \in 1..9 : Matches(FileRoutes[i], FileClient[op])
  <2>1. Matches(FileRoutes[7], FileClient.mkdir)
    BY DEF FileRoutes, FileClient, Matches, PathMatches, Route, Get, Post, Delete
  <2>2. Matches(FileRoutes[3], FileClient.writeFile)
    BY DEF FileRoutes, FileClient, Matches, PathMatches, Route, Get, Post, Delete
  <2>3. Matches(FileRoutes[1], FileClient.readFile)
    BY DEF FileRoutes, FileClient, Matches, PathMatches, Route, Get, Post, Delete
  <2>4. Matches(FileRoutes[2], FileClient.readFileStream)
    BY DEF FileRoutes, FileClient, Matches, PathMatches, Route, Get, Post, Delete
  <2>5. Matches(FileRoutes[4], FileClient.deleteFile)
    BY DEF FileRoutes, FileClient, Matches, PathMatches, Route, Get, Post, Delete
  <2>6. Matches(FileRoutes[5], FileClient.renameFile)
    BY DEF FileRoutes, FileClient, Matches, PathMatches, Route, Get, Post, Delete
  <2>7. Matches(FileRoutes[6], FileClient.moveFile)
    BY DEF FileRoutes, FileClient, Matches, PathMatches, Route, Get, Post, Delete
  <2>8. Matches(FileRoutes[8], FileClient.listFiles)
    BY DEF FileRoutes, FileClient, Matches, PathMatches, Route, Get, Post, Delete
  <2>9. Matches(FileRoutes[9], FileClient.exists)
    BY DEF FileRoutes, FileClient, Matches, PathMatches, Route, Get, Post, Delete
  <2> QED
    BY <2>1, <2>2, <2>3, <2>4, <2>5, <2>6, <2>7, <2>8, <2>9, Domains
<1>2. /\ IsApi(FileClient.mkdir.path) /\ IsApi(FileClient.writeFile.path)
      /\ IsApi(FileClient.readFile.path) /\ IsApi(FileClient.readFileStream.path)
      /\ IsApi(FileClient.deleteFile.path) /\ IsApi(FileClient.renameFile.path)
      /\ IsApi(FileClient.moveFile.path) /\ IsApi(FileClient.listFiles.path)
      /\ IsApi(FileClient.exists.path)
  BY DEF FileClient, IsApi, Get, Post, Delete
<1>3. /\ HandlerOf(FileClient.mkdir.path) = "file"
      /\ HandlerOf(FileClient.writeFile.path) = "file"
      /\ HandlerOf(FileClient.readFile.path) = "file"
      /\ HandlerOf(FileClient.readFileStream.path) = "file"
      /\ HandlerOf(FileClient.deleteFile.path) = "file"
      /\ HandlerOf(FileClient.renameFile.path) = "file"
      /\ HandlerOf(FileClient.moveFile.path) = "file"
      /\ HandlerOf(FileClient.listFiles.path) = "file"
      /\ HandlerOf(FileClient.exists.path) = "file"
  BY DEF FileClient, HandlerOf, Get, Post, Delete
<1>4. \A i \in 1..9 : 5 + i \in DOMAIN Routes /\ Routes[5 + i] = FileRoutes[i]
  BY RoutesTable
<1>5. \A op \in DOMAIN FileClient :
        IsApi(FileClient[op].path) /\ MatchRoute(FileClient[op]) = "file"
  BY <1>1, <1>2, <1>3, <1>4, ApiRoute, Domains
<1>6. \A op \in DOMAIN FileClient :
        Dispatch(FileClient[op]) = FileHandler(Tail(FileClient[op].path))
  BY <1>5, DispatchBy
<1>7. /\ FileClient.mkdir.path = << "api", "mkdir" >> /\ FileClient.writeFile.path = << "api", "write" >>
      /\ FileClient.readFile.path = << "api", "read" >> /\ FileClient.readFileStream.path = << "api", "read", "stream" >>
      /\ FileClient.deleteFile.path = << "api", "delete" >> /\ FileClient.renameFile.path = << "api", "rename" >>
      /\ FileClient.moveFile.path = << "api", "move" >> /\ FileClient.listFiles.path = << "api", "list-files" >>
      /\ FileClient.exists.path = << "api", "exists" >>
  BY DEF FileClient, Get, Post, Delete
<1>8. /\ Tail(FileClient.mkdir.path) = << "mkdir" >> /\ Tail(FileClient.writeFile.path) = << "write" >>
      /\ Tail(FileClient.readFile.path) = << "read" >> /\ Tail(FileClient.readFileStream.path) = << "read", "stream" >>
      /\ Tail(FileClient.deleteFile.path) = << "delete" >> /\ Tail(FileClient.renameFile.path) = << "rename" >>
      /\ Tail(FileClient.moveFile.path) = << "move" >> /\ Tail(FileClient.listFiles.path) = << "list-files" >>
      /\ Tail(FileClient.exists.path) = << "exists" >>
  BY <1>7, Tails
<1>9. /\ FileHandler(<< "mkdir" >>) = "mkdir" /\ FileHandler(<< "write" >>) = "writeFile"
      /\ FileHandler(<< "read" >>) = "readFile" /\ FileHandler(<< "read", "stream" >>) = "readFileStream"
      /\ FileHandler(<< "delete" >>) = "deleteFile" /\ FileHandler(<< "rename" >>) = "renameFile"
      /\ FileHandler(<< "move" >>) = "moveFile" /\ FileHandler(<< "list-files" >>) = "listFiles"
      /\ FileHandler(<< "exists" >>) = "exists"
  BY DEF FileHandler
<1>10. /\ Dispatch(FileClient.mkdir) = "mkdir" /\ Dispatch(FileClient.writeFile) = "writeFile"
       /\ Dispatch(FileClient.readFile) = "readFile" /\ Dispatch(FileClient.readFileStream) = "readFileStream"
       /\ Dispatch(FileClient.deleteFile) = "deleteFile" /\ Dispatch(FileClient.renameFile) = "renameFile"
       /\ Dispatch(FileClient.moveFile) = "moveFile" /\ Dispatch(FileClient.listFiles) = "listFiles"
       /\ Dispatch(FileClient.exists) = "exists"
  <2>1. Dispatch(FileClient.mkdir) = FileHandler(Tail(FileClient.mkdir.path))
    BY <1>6, Domains
  <2>2. Dispatch(FileClient.writeFile) = FileHandler(Tail(FileClient.writeFile.path))
    BY <1>6, Domains
  <2>3. Dispatch(FileClient.readFile) = FileHandler(Tail(FileClient.readFile.path))
    BY <1>6, Domains
  <2>4. Dispatch(FileClient.readFileStream) = FileHandler(Tail(FileClient.readFileStream.path))
    BY <1>6, Domains
  <2>5. Dispatch(FileClient.deleteFile) = FileHandler(Tail(FileClient.deleteFile.path))
    BY <1>6, Domains
  <2>6. Dispatch(FileClient.renameFile) = FileHandler(Tail(FileClient.renameFile.path))
    BY <1>6, Domains
  <2>7. Dispatch(FileClient.moveFile) = FileHandler(Tail(FileClient.moveFile.path))
    BY <1>6, Domains
  <2>8. Dispatch(FileClient.listFiles) = FileHandler(Tail(FileClient.listFiles.path))
    BY <1>6, Domains
  <2>9. Dispatch(FileClient.exists) = FileHandler(Tail(FileClient.exists.path))
    BY <1>6, Domains
  <2> QED
    BY <1>8, <1>9, <2>1, <2>2, <2>3, <2>4, <2>5, <2>6, <2>7, <2>8, <2>9, Zenon
<1> QED
  BY <1>10, Domains

\* The container does what the CommandClient asks for.
LEMMA CommandDispatch ==
  \A op \in DOMAIN CommandClient : Dispatch(CommandClient[op]) = op
<1>1. \A op \in DOMAIN CommandClient : \E i \in 1..5 : Matches(SessionRoutes[i], CommandClient[op])
  <2>1. Matches(SessionRoutes[4], CommandClient.execute)
    BY DEF SessionRoutes, CommandClient, Matches, PathMatches, Route, Get, Post, Delete
  <2>2. Matches(SessionRoutes[5], CommandClient.executeStream)
    BY DEF SessionRoutes, CommandClient, Matches, PathMatches, Route, Get, Post, Delete
  <2> QED
    BY <2>1, <2>2, Domains
<1>2. /\ IsApi(CommandClient.execute.path) /\ IsApi(CommandClient.executeStream.path)
  BY DEF CommandClient, IsApi, Get, Post, Delete
<1>3. /\ HandlerOf(CommandClient.execute.path) = "execute"
      /\ HandlerOf(CommandClient.executeStream.path) = "execute"
  BY DEF CommandClient, HandlerOf, Get, Post, Delete
<1>4. \A i \in 1..5 : 0 + i \in DOMAIN Routes /\ Routes[0 + i] = SessionRoutes[i]
  BY RoutesTable
<1>5. \A op \in DOMAIN CommandClient :
        IsApi(CommandClient[op].path) /\ MatchRoute(CommandClient[op]) = "execute"
  BY <1>1, <1>2, <1>3, <1>4, ApiRoute, Domains
<1>6. \A op \in DOMAIN CommandClient :
        Dispatch(CommandClient[op]) = ExecuteHandler(Tail(CommandClient[op].path))
  BY <1>5, DispatchBy
<1>7. /\ CommandClient.execute.path = << "api", "execute" >> /\ CommandClient.executeStream.path = << "api", "execute", "stream" >>
  BY DEF CommandClient, Get, Post, Delete
<1>8. /\ Tail(CommandClient.execute.path) = << "execute" >> /\ Tail(CommandClient.executeStream.path) = << "execute", "stream" >>
  BY <1>7, Tails
<1>9. /\ ExecuteHandler(<< "execute" >>) = "execute" /\ ExecuteHandler(<< "execute", "stream" >>) = "executeStream"
  BY DEF ExecuteHandler
<1>10. /\ Dispatch(CommandClient.execute) = "execute" /\ Dispatch(CommandClient.executeStream) = "executeStream"
  <2>1. Dispatch(CommandClient.execute) = ExecuteHandler(Tail(CommandClient.execute.path))
    BY <1>6, Domains
  <2>2. Dispatch(CommandClient.executeStream) = ExecuteHandler(Tail(CommandClient.executeStream.path))
    BY <1>6, Domains
  <2> QED
    BY <1>8, <1>9, <2>1, <2>2, Zenon
<1> QED
  BY <1>10, Domains

\* The container does what the GitClient asks for.
LEMMA GitDispatch ==
  \A op \in DOMAIN GitClient : Dispatch(GitClient[op]) = op
<1>1. \A op \in DOMAIN GitClient : \E i \in 1..14 : Matches(OtherRoutes[i], GitClient[op])
  <2>1. Matches(OtherRoutes[1], GitClient.checkout)
    BY DEF OtherRoutes, GitClient, Matches, PathMatches, Route, Get, Post, Delete
  <2> QED
    BY <2>1, Domains
<1>2. /\ IsApi(GitClient.checkout.path)
  BY DEF GitClient, IsApi, Get, Post, Delete
<1>3. /\ HandlerOf(GitClient.checkout.path) = "git"
  BY DEF GitClient, HandlerOf, Get, Post, Delete
<1>4. \A i \in 1..14 : 25 + i \in DOMAIN Routes /\ Routes[25 + i] = OtherRoutes[i]
  BY RoutesTable
<1>5. \A op \in DOMAIN GitClient :
        IsApi(GitClient[op].path) /\ MatchRoute(GitClient[op]) = "git"
  BY <1>1, <1>2, <1>3, <1>4, ApiRoute, Domains
<1> QED
  BY <1>5, DispatchBy, Domains

\* The container does what the InterpreterClient asks for.
LEMMA InterpreterDispatch ==
  ASSUME NEW id
  PROVE  \A op \in DOMAIN InterpreterClient(id) : Dispatch(InterpreterClient(id)[op]) = op
<1>1. \A op \in DOMAIN InterpreterClient(id) : \E i \in 1..14 : Matches(OtherRoutes[i], InterpreterClient(id)[op])
  <2>1. Matches(OtherRoutes[3], InterpreterClient(id).createCodeContext)
    BY DEF OtherRoutes, InterpreterClient, Matches, PathMatches, Route, Get, Post, Delete
  <2>2. Matches(OtherRoutes[4], InterpreterClient(id).listCodeContexts)
    BY DEF OtherRoutes, InterpreterClient, Matches, PathMatches, Route, Get, Post, Delete
  <2>3. Matches(OtherRoutes[5], InterpreterClient(id).deleteCodeContext)
    BY DEF OtherRoutes, InterpreterClient, Matches, PathMatches, Route, Get, Post, Delete
  <2>4. Matches(OtherRoutes[6], InterpreterClient(id).runCode)
    BY DEF OtherRoutes, InterpreterClient, Matches, PathMatches, Route, Get, Post, Delete
  <2> QED
    BY <2>1, <2>2, <2>3, <2>4, Domains
<1>2. /\ IsApi(InterpreterClient(id).createCodeContext.path) /\ IsApi(InterpreterClient(id).listCodeContexts.path)
      /\ IsApi(InterpreterClient(id).deleteCodeContext.path) /\ IsApi(InterpreterClient(id).runCode.path)
  BY DEF InterpreterClient, IsApi, Get, Post, Delete
<1>3. /\ HandlerOf(InterpreterClient(id).createCodeContext.path) = "interpreter"
      /\ HandlerOf(InterpreterClient(id).listCodeContexts.path) = "interpreter"
      /\ HandlerOf(InterpreterClient(id).deleteCodeContext.path) = "interpreter"
      /\ HandlerOf(InterpreterClient(id).runCode.path) = "interpreter"
  BY DEF InterpreterClient, HandlerOf, Get, Post, Delete
<1>4. \A i \in 1..14 : 25 + i \in DOMAIN Routes /\ Routes[25 + i] = OtherRoutes[i]
  BY RoutesTable
<1>5. \A op \in DOMAIN InterpreterClient(id) :
        IsApi(InterpreterClient(id)[op].path) /\ MatchRoute(InterpreterClient(id)[op]) = "interpreter"
  BY <1>1, <1>2, <1>3, <1>4, ApiRoute, Domains
<1>6. \A op \in DOMAIN InterpreterClient(id) :
        Dispatch(InterpreterClient(id)[op]) = InterpreterHandler(InterpreterClient(id)[op].method, Tail(InterpreterClient(id)[op].path))
  BY <1>5, DispatchBy
<1>7. /\ InterpreterClient(id).createCodeContext.path = << "api", "contexts" >> /\ InterpreterClient(id).listCodeContexts.path = << "api", "contexts" >>
      /\ InterpreterClient(id).deleteCodeContext.path = << "api", "contexts", id >> /\ InterpreterClient(id).runCode.path = << "api", "execute", "code" >>
  BY DEF InterpreterClient, Get, Post, Delete
<1>8. /\ Tail(InterpreterClient(id).createCodeContext.path) = << "contexts" >> /\ Tail(InterpreterClient(id).listCodeContexts.path) = << "contexts" >>
      /\ Tail(InterpreterClient(id).deleteCodeContext.path) = << "contexts", id >> /\ Tail(InterpreterClient(id).runCode.path) = << "execute", "code" >>
  BY <1>7, Tails
<1>9. /\ InterpreterHandler(InterpreterClient(id).createCodeContext.method, << "contexts" >>) = "createCodeContext"
      /\ InterpreterHandler(InterpreterClient(id).listCodeContexts.method, << "contexts" >>) = "listCodeContexts"
      /\ InterpreterHandler(InterpreterClient(id).deleteCodeContext.method, << "contexts", id >>) = "deleteCodeContext"
      /\ InterpreterHandler(InterpreterClient(id).runCode.method, << "execute", "code" >>) = "runCode"
  BY DEF InterpreterHandler, InterpreterClient, Get, Post, Delete
<1>10. /\ Dispatch(InterpreterClient(id).createCodeContext) = "createCodeContext" /\ Dispatch(InterpreterClient(id).listCodeContexts) = "listCodeContexts"
       /\ Dispatch(InterpreterClient(id).deleteCodeContext) = "deleteCodeContext" /\ Dispatch(InterpreterClient(id).runCode) = "runCode"
  <2>1. Dispatch(InterpreterClient(id).createCodeContext) = InterpreterHandler(InterpreterClient(id).createCodeContext.method, Tail(InterpreterClient(id).createCodeContext.path))
    BY <1>6, Domains
  <2>2. Dispatch(InterpreterClient(id).listCodeContexts) = InterpreterHandler(InterpreterClient(id).listCodeContexts.method, Tail(InterpreterClient(id).listCodeContexts.path))
    BY <1>6, Domains
  <2>3. Dispatch(InterpreterClient(id).deleteCodeContext) = InterpreterHandler(InterpreterClient(id).deleteCodeContext.method, Tail(InterpreterClient(id).deleteCodeContext.path))
    BY <1>6, Domains
  <2>4. Dispatch(InterpreterClient(id).runCode) = InterpreterHandler(InterpreterClient(id).runCode.method, Tail(InterpreterClient(id).runCode.path))
    BY <1>6, Domains
  <2> QED
    BY <1>8, <1>9, <2>1, <2>2, <2>3, <2>4, Zenon
<1> QED
  BY <1>10, Domains

\* The container does what the PortClient asks for.
LEMMA PortDispatch ==
  ASSUME NEW id
  PROVE  \A op \in DOMAIN PortClient(id) : Dispatch(PortClient(id)[op]) = op
<1>1. \A op \in DOMAIN PortClient(id) : \E i \in 1..11 : Matches(PortAndProcessRoutes[i], PortClient(id)[op])
  <2>1. Matches(PortAndProcessRoutes[1], PortClient(id).exposePort)
    BY DEF PortAndProcessRoutes, PortClient, Matches, PathMatches, Route, Get, Post, Delete
  <2>2. Matches(PortAndProcessRoutes[4], PortClient(id).unexposePort)
    BY DEF PortAndProcessRoutes, PortClient, Matches, PathMatches, Route, Get, Post, Delete
  <2>3. Matches(PortAndProcessRoutes[3], PortClient(id).getExposedPorts)
    BY DEF PortAndProcessRoutes, PortClient, Matches, PathMatches, Route, Get, Post, Delete
  <2>4. Matches(PortAndProcessRoutes[2], PortClient(id).watchPort)
    BY DEF PortAndProcessRoutes, PortClient, Matches, PathMatches, Route, Get, Post, Delete
  <2> QED
    BY <2>1, <2>2, <2>3, <2>4, Domains
<1>2. /\ IsApi(PortClient(id).exposePort.path) /\ IsApi(PortClient(id).unexposePort.path)
      /\ IsApi(PortClient(id).getExposedPorts.path) /\ IsApi(PortClient(id).watchPort.path)
  BY DEF PortClient, IsApi, Get, Post, Delete
<1>3. /\ HandlerOf(PortClient(id).exposePort.path) = "port"
      /\ HandlerOf(PortClient(id).unexposePort.path) = "port"
      /\ HandlerOf(PortClient(id).getExposedPorts.path) = "port"
      /\ HandlerOf(PortClient(id).watchPort.path) = "port"
  BY DEF PortClient, HandlerOf, Get, Post, Delete
<1>4. \A i \in 1..11 : 14 + i \in DOMAIN Routes /\ Routes[14 + i] = PortAndProcessRoutes[i]
  BY RoutesTable
<1>5. \A op \in DOMAIN PortClient(id) :
        IsApi(PortClient(id)[op].path) /\ MatchRoute(PortClient(id)[op]) = "port"
  BY <1>1, <1>2, <1>3, <1>4, ApiRoute, Domains
<1>6. \A op \in DOMAIN PortClient(id) :
        Dispatch(PortClient(id)[op]) = PortHandler(PortClient(id)[op].method, Tail(PortClient(id)[op].path))
  BY <1>5, DispatchBy
<1>7. /\ PortClient(id).exposePort.path = << "api", "expose-port" >> /\ PortClient(id).unexposePort.path = << "api", "exposed-ports", id >>
      /\ PortClient(id).getExposedPorts.path = << "api", "exposed-ports" >> /\ PortClient(id).watchPort.path = << "api", "port-watch" >>
  BY DEF PortClient, Get, Post, Delete
<1>8. /\ Tail(PortClient(id).exposePort.path) = << "expose-port" >> /\ Tail(PortClient(id).unexposePort.path) = << "exposed-ports", id >>
      /\ Tail(PortClient(id).getExposedPorts.path) = << "exposed-ports" >> /\ Tail(PortClient(id).watchPort.path) = << "port-watch" >>
  BY <1>7, Tails
<1>9. /\ PortHandler(PortClient(id).exposePort.method, << "expose-port" >>) = "exposePort"
      /\ PortHandler(PortClient(id).unexposePort.method, << "exposed-ports", id >>) = "unexposePort"
      /\ PortHandler(PortClient(id).getExposedPorts.method, << "exposed-ports" >>) = "getExposedPorts"
      /\ PortHandler(PortClient(id).watchPort.method, << "port-watch" >>) = "watchPort"
  BY DEF PortHandler, PortClient, Get, Post, Delete
<1>10. /\ Dispatch(PortClient(id).exposePort) = "exposePort" /\ Dispatch(PortClient(id).unexposePort) = "unexposePort"
       /\ Dispatch(PortClient(id).getExposedPorts) = "getExposedPorts" /\ Dispatch(PortClient(id).watchPort) = "watchPort"
  <2>1. Dispatch(PortClient(id).exposePort) = PortHandler(PortClient(id).exposePort.method, Tail(PortClient(id).exposePort.path))
    BY <1>6, Domains
  <2>2. Dispatch(PortClient(id).unexposePort) = PortHandler(PortClient(id).unexposePort.method, Tail(PortClient(id).unexposePort.path))
    BY <1>6, Domains
  <2>3. Dispatch(PortClient(id).getExposedPorts) = PortHandler(PortClient(id).getExposedPorts.method, Tail(PortClient(id).getExposedPorts.path))
    BY <1>6, Domains
  <2>4. Dispatch(PortClient(id).watchPort) = PortHandler(PortClient(id).watchPort.method, Tail(PortClient(id).watchPort.path))
    BY <1>6, Domains
  <2> QED
    BY <1>8, <1>9, <2>1, <2>2, <2>3, <2>4, Zenon
<1> QED
  BY <1>10, Domains

\* Processes are found by their ids, but for those that are fixed paths.
LEMMA ProcessDispatch ==
  ASSUME NEW id
  PROVE  /\ \A op \in DOMAIN ProcessClient(id) \ {"getProcess", "killProcess"} :
              Dispatch(ProcessClient(id)[op]) = op
         /\ \A op \in {"getProcess", "killProcess"} :
              LET d == Dispatch(ProcessClient(id)[op])
              IN /\ id \notin {"start", "list", "kill-all"} => d = op
                 /\ d \in {op, "startProcess", "listProcesses", "killAllProcesses"}
<1> DEFINE P == ProcessClient(id)
<1>1. \A op \in DOMAIN P : \E i \in 1..11 : Matches(PortAndProcessRoutes[i], P[op])
  <2>1. Matches(PortAndProcessRoutes[5], P.startProcess)
    BY DEF PortAndProcessRoutes, ProcessClient, Matches, PathMatches, Route, Get, Post, Delete
  <2>2. Matches(PortAndProcessRoutes[6], P.listProcesses)
    BY DEF PortAndProcessRoutes, ProcessClient, Matches, PathMatches, Route, Get, Post, Delete
  <2>3. Matches(PortAndProcessRoutes[8], P.getProcess)
    <3>1. /\ PortAndProcessRoutes[8].path = << "api", "process", Var >>
          /\ PortAndProcessRoutes[8].method = "GET"
      BY DEF PortAndProcessRoutes, Route, Get
    <3>2. P.getProcess.path = << "api", "process", id >> /\ P.getProcess.method = "GET"
      BY DEF ProcessClient, Get
    <3>3. PathMatches(<< "api", "process", Var >>, << "api", "process", id >>)
      BY DEF PathMatches
    <3> HIDE DEF P
    <3> QED
      BY <3>1, <3>2, <3>3, Zenon DEF Matches
  <2>4. Matches(PortAndProcessRoutes[9], P.killProcess)
    <3>1. /\ PortAndProcessRoutes[9].path = << "api", "process", Var >>
          /\ PortAndProcessRoutes[9].method = "DELETE"
      BY DEF PortAndProcessRoutes, Route, Delete
    <3>2. P.killProcess.path = << "api", "process", id >> /\ P.killProcess.method = "DELETE"
      BY DEF ProcessClient, Delete
    <3>3. PathMatches(<< "api", "process", Var >>, << "api", "process", id >>)
      BY DEF PathMatches
    <3> HIDE DEF P
    <3> QED
      BY <3>1, <3>2, <3>3, Zenon DEF Matches
  <2>5. Matches(PortAndProcessRoutes[7], P.killAllProcesses)
    BY DEF PortAndProcessRoutes, ProcessClient, Matches, PathMatches, Route, Get, Post, Delete
  <2>6. Matches(PortAndProcessRoutes[10], P.getProcessLogs)
    <3>1. /\ PortAndProcessRoutes[10].path = << "api", "process", Var, "logs" >>
          /\ PortAndProcessRoutes[10].method = "GET"
      BY DEF PortAndProcessRoutes, Route, Get
    <3>2. P.getProcessLogs.path = << "api", "process", id, "logs" >> /\ P.getProcessLogs.method = "GET"
      BY DEF ProcessClient, Get
    <3>3. PathMatches(<< "api", "process", Var, "logs" >>, << "api", "process", id, "logs" >>)
      BY DEF PathMatches
    <3> HIDE DEF P
    <3> QED
      BY <3>1, <3>2, <3>3, Zenon DEF Matches
  <2>7. Matches(PortAndProcessRoutes[11], P.streamProcessLogs)
    <3>1. /\ PortAndProcessRoutes[11].path = << "api", "process", Var, "stream" >>
          /\ PortAndProcessRoutes[11].method = "GET"
      BY DEF PortAndProcessRoutes, Route, Get
    <3>2. P.streamProcessLogs.path = << "api", "process", id, "stream" >> /\ P.streamProcessLogs.method = "GET"
      BY DEF ProcessClient, Get
    <3>3. PathMatches(<< "api", "process", Var, "stream" >>, << "api", "process", id, "stream" >>)
      BY DEF PathMatches
    <3> HIDE DEF P
    <3> QED
      BY <3>1, <3>2, <3>3, Zenon DEF Matches
  <2> HIDE DEF P
  <2> QED
    BY <2>1, <2>2, <2>3, <2>4, <2>5, <2>6, <2>7, Domains DEF P
<1>2. /\ P.startProcess.path = << "api", "process", "start" >>
      /\ P.listProcesses.path = << "api", "process", "list" >>
      /\ P.getProcess.path = << "api", "process", id >>
      /\ P.killProcess.path = << "api", "process", id >>
      /\ P.killAllProcesses.path = << "api", "process", "kill-all" >>
      /\ P.getProcessLogs.path = << "api", "process", id, "logs" >>
      /\ P.streamProcessLogs.path = << "api", "process", id, "stream" >>
  BY DEF ProcessClient, Get, Post, Delete
<1>3. /\ P.startProcess.method = "POST" /\ P.listProcesses.method = "GET"
      /\ P.getProcess.method = "GET" /\ P.killProcess.method = "DELETE"
      /\ P.killAllProcesses.method = "DELETE" /\ P.getProcessLogs.method = "GET"
      /\ P.streamProcessLogs.method = "GET"
  BY DEF ProcessClient, Get, Post, Delete
<1>4. DOMAIN P = {"startProcess", "listProcesses", "getProcess", "killProcess", "killAllProcesses",
                  "getProcessLogs", "streamProcessLogs"}
  BY Domains
<1> HIDE DEF P
<1>5. ASSUME NEW p, p \in {<< "api", "process", "start" >>, << "api", "process", "list" >>,
                           << "api", "process", id >>, << "api", "process", "kill-all" >>,
                           << "api", "process", id, "logs" >>, << "api", "process", id, "stream" >>}
      PROVE  IsApi(p) /\ HandlerOf(p) = "process"
  BY <1>5 DEF IsApi, HandlerOf
<1>6. \A op \in DOMAIN P : IsApi(P[op].path) /\ HandlerOf(P[op].path) = "process"
  BY <1>2, <1>4, <1>5
<1>7. \A i \in 1..11 : 14 + i \in DOMAIN Routes /\ Routes[14 + i] = PortAndProcessRoutes[i]
  BY RoutesTable
<1>8. \A op \in DOMAIN P : Dispatch(P[op]) = ProcessHandler(P[op].method, Tail(P[op].path))
  BY <1>1, <1>6, <1>7, ApiRoute, DispatchBy
<1>9. /\ Tail(P.startProcess.path) = << "process", "start" >>
      /\ Tail(P.listProcesses.path) = << "process", "list" >>
      /\ Tail(P.getProcess.path) = << "process", id >>
      /\ Tail(P.killProcess.path) = << "process", id >>
      /\ Tail(P.killAllProcesses.path) = << "process", "kill-all" >>
      /\ Tail(P.getProcessLogs.path) = << "process", id, "logs" >>
      /\ Tail(P.streamProcessLogs.path) = << "process", id, "stream" >>
  BY <1>2, Tails
<1>10. /\ ProcessHandler("POST", << "process", "start" >>) = "startProcess"
       /\ ProcessHandler("GET", << "process", "list" >>) = "listProcesses"
       /\ ProcessHandler("DELETE", << "process", "kill-all" >>) = "killAllProcesses"
  BY DEF ProcessHandler
<1>11. /\ ProcessHandler("GET", << "process", id, "logs" >>) = "getProcessLogs"
       /\ ProcessHandler("GET", << "process", id, "stream" >>) = "streamProcessLogs"
  BY DEF ProcessHandler
<1>12. /\ id \notin {"start", "list", "kill-all"} =>
            /\ ProcessHandler("GET", << "process", id >>) = "getProcess"
            /\ ProcessHandler("DELETE", << "process", id >>) = "killProcess"
  BY DEF ProcessHandler
<1>13. \A method : /\ ProcessHandler(method, << "process", "start" >>) = "startProcess"
                   /\ ProcessHandler(method, << "process", "list" >>) = "listProcesses"
                   /\ ProcessHandler(method, << "process", "kill-all" >>) = "killAllProcesses"
  BY DEF ProcessHandler
<1>14. /\ Dispatch(P.startProcess) = "startProcess"
       /\ Dispatch(P.listProcesses) = "listProcesses"
       /\ Dispatch(P.killAllProcesses) = "killAllProcesses"
       /\ Dispatch(P.getProcessLogs) = "getProcessLogs"
       /\ Dispatch(P.streamProcessLogs) = "streamProcessLogs"
  <2>1. Dispatch(P.startProcess) = ProcessHandler(P.startProcess.method, Tail(P.startProcess.path))
    BY <1>4, <1>8
  <2>2. Dispatch(P.listProcesses) = ProcessHandler(P.listProcesses.method, Tail(P.listProcesses.path))
    BY <1>4, <1>8
  <2>3. Dispatch(P.killAllProcesses) =
          ProcessHandler(P.killAllProcesses.method, Tail(P.killAllProcesses.path))
    BY <1>4, <1>8
  <2>4. Dispatch(P.getProcessLogs) =
          ProcessHandler(P.getProcessLogs.method, Tail(P.getProcessLogs.path))
    BY <1>4, <1>8
  <2>5. Dispatch(P.streamProcessLogs) =
          ProcessHandler(P.streamProcessLogs.method, Tail(P.streamProcessLogs.path))
    BY <1>4, <1>8
  <2> QED
    BY <1>3, <1>9, <1>10, <1>11, <2>1, <2>2, <2>3, <2>4, <2>5, Zenon
<1>15. /\ Dispatch(P.getProcess) = ProcessHandler("GET", << "process", id >>)
       /\ Dispatch(P.killProcess) = ProcessHandler("DELETE", << "process", id >>)
  <2>1. Dispatch(P.getProcess) = ProcessHandler(P.getProcess.method, Tail(P.getProcess.path))
    BY <1>4, <1>8
  <2>2. Dispatch(P.killProcess) = ProcessHandler(P.killProcess.method, Tail(P.killProcess.path))
    BY <1>4, <1>8
  <2> QED
    BY <1>3, <1>9, <2>1, <2>2, Zenon
<1>16. /\ Dispatch(P.getProcess) \in {"getProcess", "startProcess", "listProcesses", "killAllProcesses"}
       /\ Dispatch(P.killProcess) \in {"killProcess", "startProcess", "listProcesses", "killAllProcesses"}
  <2>1. CASE id = "start"
    BY <1>13, <1>15, <2>1, Zenon
  <2>2. CASE id = "list"
    BY <1>13, <1>15, <2>2, Zenon
  <2>3. CASE id = "kill-all"
    BY <1>13, <1>15, <2>3, Zenon
  <2>4. CASE id \notin {"start", "list", "kill-all"}
    BY <1>12, <1>15, <2>4
  <2> QED
    BY <2>1, <2>2, <2>3, <2>4
<1>17. id \notin {"start", "list", "kill-all"} =>
         Dispatch(P.getProcess) = "getProcess" /\ Dispatch(P.killProcess) = "killProcess"
  BY <1>12, <1>15
<1> QED
  BY <1>4, <1>14, <1>16, <1>17 DEF P

\* The rest of the operations; nothing answers /api/commands.
LEMMA UtilityDispatch ==
  \A op \in DOMAIN UtilityClient :
    Dispatch(UtilityClient[op]) = IF op = "getCommands" THEN "invalid" ELSE op
<1> DEFINE U == UtilityClient
<1>1. /\ Matches(OtherRoutes[12], U.ping) /\ Matches(OtherRoutes[13], U.getCommands)
      /\ Matches(OtherRoutes[14], U.getVersion)
  BY DEF OtherRoutes, UtilityClient, Matches, PathMatches, Route, Get, Post
<1>2. Matches(SessionRoutes[1], U.createSession) /\ Matches(SessionRoutes[3], U.deleteSession)
  BY DEF SessionRoutes, UtilityClient, Matches, PathMatches, Route, Get, Post
<1>3. /\ U.ping.path = << "api", "ping" >> /\ U.getCommands.path = << "api", "commands" >>
      /\ U.getVersion.path = << "api", "version" >>
      /\ U.createSession.path = << "api", "session", "create" >>
      /\ U.deleteSession.path = << "api", "session", "delete" >>
  BY DEF UtilityClient, Get, Post
<1>4. ASSUME NEW p, p \in {<< "api", "ping" >>, << "api", "commands" >>, << "api", "version" >>}
      PROVE  IsApi(p) /\ HandlerOf(p) = "misc"
  BY <1>4 DEF IsApi, HandlerOf
<1>5. ASSUME NEW p, p \in {<< "api", "session", "create" >>, << "api", "session", "delete" >>}
      PROVE  IsApi(p) /\ HandlerOf(p) = "session"
  BY <1>5 DEF IsApi, HandlerOf
<1> HIDE DEF U
<1>6. /\ \A i \in 1..14 : 25 + i \in DOMAIN Routes /\ Routes[25 + i] = OtherRoutes[i]
      /\ \A i \in 1..5 : i \in DOMAIN Routes /\ Routes[i] = SessionRoutes[i]
  BY RoutesTable
<1>7. \A r \in {U.ping, U.getCommands, U.getVersion} : Dispatch(r) = MiscHandler(Tail(r.path))
  <2>1. \A r \in {U.ping, U.getCommands, U.getVersion} : \E i \in 1..14 : Matches(OtherRoutes[i], r)
    BY <1>1
  <2>2. \A r \in {U.ping, U.getCommands, U.getVersion} : IsApi(r.path) /\ HandlerOf(r.path) = "misc"
    BY <1>3, <1>4
  <2> QED
    BY <1>6, <2>1, <2>2, ApiRoute, DispatchBy
<1>8. \A r \in {U.createSession, U.deleteSession} : Dispatch(r) = SessionHandler(Tail(r.path))
  <2>1. \A r \in {U.createSession, U.deleteSession} : \E i \in 1..5 : Matches(SessionRoutes[i], r)
    BY <1>2
  <2>2. \A r \in {U.createSession, U.deleteSession} : IsApi(r.path) /\ HandlerOf(r.path) = "session"
    BY <1>3, <1>5
  <2> QED
    BY <1>6, <2>1, <2>2, ApiRoute, DispatchBy
<1>9. /\ Tail(U.ping.path) = << "ping" >> /\ Tail(U.getCommands.path) = << "commands" >>
      /\ Tail(U.getVersion.path) = << "version" >>
      /\ Tail(U.createSession.path) = << "session", "create" >>
      /\ Tail(U.deleteSession.path) = << "session", "delete" >>
  BY <1>3, Tails
<1>10. /\ MiscHandler(<< "ping" >>) = "ping" /\ MiscHandler(<< "commands" >>) = "invalid"
       /\ MiscHandler(<< "version" >>) = "getVersion"
  BY DEF MiscHandler
<1>11. /\ SessionHandler(<< "session", "create" >>) = "createSession"
       /\ SessionHandler(<< "session", "delete" >>) = "deleteSession"
  BY DEF SessionHandler
<1>12. /\ Dispatch(U.ping) = "ping" /\ Dispatch(U.getCommands) = "invalid"
       /\ Dispatch(U.getVersion) = "getVersion"
  BY <1>7, <1>9, <1>10, Zenon
<1>13. Dispatch(U.createSession) = "createSession" /\ Dispatch(U.deleteSession) = "deleteSession"
  BY <1>8, <1>9, <1>11, Zenon
<1> QED
  BY <1>12, <1>13, Domains DEF U

\* The container does what a call asks for, but for the three fixed paths among
\* the ids of processes, and /api/commands.
LEMMA DispatchOps ==
  ASSUME NEW id, NEW op \in ApiOps
  PROVE  LET d == Dispatch(Clients(id)[op])
         IN /\ d = op \/ op \in {"getProcess", "killProcess"} \/ op = "getCommands"
            /\ op \in {"getProcess", "killProcess"} =>
                 /\ id \notin {"start", "list", "kill-all"} => d = op
                 /\ d \in {op, "startProcess", "listProcesses", "killAllProcesses"}
            /\ op = "getCommands" => d = "invalid"
<1>1. CASE op \in DOMAIN FileClient
  BY <1>1, FileDispatch, ClientsTable, Domains
<1>2. CASE op \in DOMAIN ProcessClient(id)
  BY <1>2, ProcessDispatch, ClientsTable, Domains
<1>3. CASE op \in DOMAIN CommandClient
  BY <1>3, CommandDispatch, ClientsTable, Domains
<1>4. CASE op \in DOMAIN PortClient(id)
  BY <1>4, PortDispatch, ClientsTable, Domains
<1>5. CASE op \in DOMAIN GitClient
  BY <1>5, GitDispatch, ClientsTable, Domains
<1>6. CASE op \in DOMAIN UtilityClient
  BY <1>6, UtilityDispatch, ClientsTable, Domains
<1>7. CASE op \in DOMAIN InterpreterClient(id)
  BY <1>7, InterpreterDispatch, ClientsTable, Domains
<1> QED
  BY <1>1, <1>2, <1>3, <1>4, <1>5, <1>6, <1>7, ClientsTable

-----------------------------------------------------------------------------
(***************************************************************************)
(* Answers and the records of calls                                        *)
(***************************************************************************)

\* The operations of the container answer with codes.
LEMMA ErrorsAreCodes == \A op : Errors(op) \subseteq Codes
<1>1. \A op : FileErrors(op) \subseteq Codes
  BY DEF FileErrors, Codes
<1>2. \A op : ProcessErrors(op) \subseteq Codes
  BY DEF ProcessErrors, Codes
<1>3. \A op : PortErrors(op) \subseteq Codes
  BY DEF PortErrors, Codes
<1>4. GitErrors \subseteq Codes
  BY DEF GitErrors, Codes
<1>5. \A op : InterpreterErrors(op) \subseteq Codes
  BY DEF InterpreterErrors, Codes
<1>6. /\ {"COMMAND_EXECUTION_ERROR"} \subseteq Codes /\ {"STREAM_START_ERROR"} \subseteq Codes
      /\ {"INTERNAL_ERROR"} \subseteq Codes
  BY DEF Codes
<1> HIDE DEF Codes
<1> QED
  BY <1>1, <1>2, <1>3, <1>4, <1>5, <1>6 DEF Errors

\* 503 is the answer of a container that starts, and no other is taken for a
\* success or for a session that exists.
LEMMA AnswerFacts ==
  ASSUME NEW r \in Codes \cup Answers
  PROVE  /\ StatusOf(r) = 503 => r = "starting"
         /\ HttpStatus(r) \in Nat
         /\ HttpStatus(r) = 503 => r = "starting"
         /\ ErrorClass(r) \notin {"ok", "none"}
         /\ ErrorClass(r) = "SessionAlreadyExistsError" => r = "SESSION_ALREADY_EXISTS"
<1>1. \A x : Status(x) \in {404, 400, 401, 409, 501, 500}
  BY DEF Status
<1>2. StatusOf(r) \in Nat /\ (StatusOf(r) = 503 => r = "starting")
  <2>1. CASE r = "starting"
    BY <2>1 DEF StatusOf
  <2>2. CASE r \in {"ok", "nonzero"}
    <3>1. StatusOf(r) = 200
      BY <2>2 DEF StatusOf
    <3> QED
      BY <3>1
  <2>3. CASE r = "no context"
    <3>1. StatusOf(r) = 404
      BY <2>3 DEF StatusOf
    <3> QED
      BY <3>1
  <2>6. CASE r = "terminated"
    <3>1. StatusOf(r) = 410
      BY <2>6 DEF StatusOf
    <3> QED
      BY <3>1
  <2>5. CASE r \in {"failed", "lost", "uncoded"}
    <3>1. StatusOf(r) = 500
      BY <2>5 DEF StatusOf
    <3> QED
      BY <3>1
  <2>4. CASE r \notin {"starting", "ok", "nonzero", "no context", "terminated", "failed", "lost",
                     "uncoded"}
    <3>1. StatusOf(r) = Status(r)
      BY <2>4 DEF StatusOf
    <3>2. Status(r) \in {404, 400, 401, 409, 501, 500}
      BY <1>1
    <3> QED
      BY <3>1, <3>2
  <2> QED
    BY <2>1, <2>2, <2>3, <2>4, <2>5, <2>6
<1>5. HttpStatus(r) \in Nat /\ (HttpStatus(r) = 503 => r = "starting")
  <2>1. HttpStatus(r) = 0 \/ HttpStatus(r) = StatusOf(r)
    BY DEF HttpStatus
  <2> QED
    BY <1>2, <2>1
<1>3. ErrorClass(r) \notin {"ok", "none"}
  BY DEF ErrorClass
<1>4. ErrorClass(r) = "SessionAlreadyExistsError" => r = "SESSION_ALREADY_EXISTS"
  BY DEF ErrorClass
<1> QED
  BY <1>2, <1>3, <1>4, <1>5

\* The same method of the same caller, the same variables, the same work done.
SameCall(j, k) == j.op = k.op /\ j.id = k.id /\ j.wrapped = k.wrapped
SameVars(j, k) == j.env = k.env /\ j.old = k.old /\ j.todo = k.todo /\ j.key = k.key
                  /\ j.named = k.named
SameWork(j, k) == j.runs = k.runs /\ j.did = k.did
SameEnd(j, k)  == j.class = k.class /\ j.status = k.status

\* A request leaves.
LEMMA AskFacts ==
  ASSUME DataOK, NEW k \in CallRecords, NEW what \in {"session", "context", "own"}
  PROVE  LET j == Ask(k, what)
         IN /\ j \in CallRecords
            /\ SameCall(j, k) /\ SameVars(j, k) /\ SameWork(j, k) /\ SameEnd(j, k)
            /\ j.pc = "send" /\ j.req = what /\ j.on = sdk.announced
            /\ j.ctx = k.ctx /\ j.reply = k.reply
BY DEF Ask, CallRecords, DataOK, SdkRecords, SameCall, SameVars, SameWork, SameEnd

\* The fields of a call that ends.
LEMMA EndedCall ==
  ASSUME NEW k \in CallRecords,
         NEW op \in ApiOps \cup {"none", "setEnvVars"}, NEW id \in Ids \cup {"none", Plain},
         NEW wrapped \in BOOLEAN
  PROVE  [k EXCEPT !.op = op, !.id = id, !.wrapped = wrapped, !.pc = "done"] \in CallRecords
BY DEF CallRecords

\* What was done for it.
LEMMA EndedWork ==
  ASSUME NEW k \in CallRecords, NEW runs \in Nat, NEW did \in ApiOps \cup {"none", "invalid"}
  PROVE  [k EXCEPT !.runs = runs, !.did = did] \in CallRecords
BY DEF CallRecords

\* And how.
LEMMA EndedHow ==
  ASSUME NEW k \in CallRecords, NEW class \in Classes, NEW status \in Nat
  PROVE  [k EXCEPT !.class = class, !.status = status] \in CallRecords
BY DEF CallRecords

\* A call ends.
LEMMA EndsFacts ==
  ASSUME NEW k \in CallRecords
  PROVE  LET j == Ends(k)
         IN /\ j \in CallRecords
            /\ SameCall(j, k) /\ SameWork(j, k)
            /\ j.pc = "done" /\ j.req = "own" /\ j.on = 0 /\ j.reply = "none"
            /\ j.class = IF k.reply = "ok" THEN "ok" ELSE ErrorClass(k.reply)
            /\ j.status = HttpStatus(k.reply)
<1> DEFINE j == Ends(k)
<1>1. /\ SameCall(j, k) /\ SameWork(j, k)
      /\ j.pc = "done" /\ j.req = "own" /\ j.on = 0 /\ j.reply = "none"
      /\ j.class = IF k.reply = "ok" THEN "ok" ELSE ErrorClass(k.reply)
      /\ j.status = HttpStatus(k.reply)
  BY DEF Ends, Idle, SameCall, SameWork
<1>2. NoVars \in Env
  BY DEF NoVars, Env, Values
<1>3. k.reply \in Codes \cup Answers
  BY DEF CallRecords
<1>4. j.status \in Nat
  BY <1>1, <1>3, AnswerFacts
<1>5. j.class \in Classes
  BY <1>1, <1>3 DEF Classes
<1>6. j.reply \in Codes \cup Answers
  BY <1>1 DEF Answers
<1>7. Idle \in CallRecords
  BY <1>2 DEF Idle, CallRecords, Classes, Answers
<1>8. /\ (IF k.reply = "ok" THEN "ok" ELSE ErrorClass(k.reply)) \in Classes
      /\ HttpStatus(k.reply) \in Nat
  BY <1>1, <1>4, <1>5
<1>9. /\ k.op \in ApiOps \cup {"none", "setEnvVars"} /\ k.id \in Ids \cup {"none", Plain}
       /\ k.wrapped \in BOOLEAN /\ k.runs \in Nat /\ k.did \in ApiOps \cup {"none", "invalid"}
  BY DEF CallRecords
<1>10. j \in CallRecords
  <2> DEFINE class == IF k.reply = "ok" THEN "ok" ELSE ErrorClass(k.reply)
             status == HttpStatus(k.reply)
             same == [Idle EXCEPT !.op = k.op, !.id = k.id, !.wrapped = k.wrapped, !.pc = "done"]
             work == [same EXCEPT !.runs = k.runs, !.did = k.did]
             last == [work EXCEPT !.class = class, !.status = status]
  <2>1. class \in Classes /\ status \in Nat
    BY <1>8
  <2>2. j = last
    BY DEF Ends
  <2> HIDE DEF class, status, j
  <2>3. same \in CallRecords
    BY <1>7, <1>9, EndedCall
  <2> HIDE DEF same
  <2>4. work \in CallRecords
    BY <1>9, <2>3, EndedWork
  <2> HIDE DEF work
  <2>5. last \in CallRecords
    BY <2>1, <2>4, EndedHow
  <2> QED
    BY <2>2, <2>5
<1> QED
  BY <1>1, <1>10

-----------------------------------------------------------------------------
(***************************************************************************)
(* A step of one call                                                      *)
(***************************************************************************)

\* The names of methods that are told apart are different.
LEMMA OpFacts ==
  /\ "none" \notin ApiOps /\ "setEnvVars" \notin ApiOps /\ "invalid" \notin ApiOps
  /\ SessionOps \subseteq ApiOps
  /\ InSession \subseteq SessionOps
  /\ {"runCode", "createCodeContext"} \cap SessionOps = {}
  /\ {"runCode", "createCodeContext"} \subseteq ApiOps
<1>1. ApiOps = {"mkdir", "writeFile", "readFile", "readFileStream", "deleteFile", "renameFile",
                "moveFile", "listFiles", "exists", "execute", "executeStream", "checkout", "ping",
                "getCommands", "createSession", "deleteSession", "getVersion", "exposePort",
                "unexposePort", "getExposedPorts", "watchPort", "createCodeContext",
                "listCodeContexts", "deleteCodeContext", "runCode", "startProcess",
                "listProcesses", "getProcess", "killProcess", "killAllProcesses",
                "getProcessLogs", "streamProcessLogs"}
  BY ClientsTable, Domains
<1>2. SessionOps = {"mkdir", "writeFile", "readFile", "readFileStream", "deleteFile", "renameFile",
                    "moveFile", "listFiles", "exists", "execute", "executeStream", "startProcess",
                    "listProcesses", "getProcess", "checkout", "exposePort", "unexposePort",
                    "getExposedPorts"}
  BY Domains DEF SessionOps
<1> QED
  BY <1>1, <1>2 DEF InSession

\* One call is changed, the others are as they were.
LEMMA Others ==
  ASSUME DataOK, NEW c \in Calls, NEW K \in CallRecords, call' = [call EXCEPT ![c] = K]
  PROVE  /\ call'[c] = K
         /\ \A x \in Calls \ {c} : call'[x] = call[x]
         /\ call' \in [Calls -> CallRecords]
BY DEF DataOK

\* The variables of the session are as before, and none that was about to be set is forgotten.
LEMMA SameSession ==
  ASSUME DataOK, EnvInv, NEW c \in Calls, NEW K \in CallRecords, call' = [call EXCEPT ![c] = K],
         Still(call[c]) \subseteq Still(K),
         box'.session = box.session, lapse => lapse', sdk'.env = sdk.env,
         sdk.default => sdk'.default
  PROVE  SessionEnv'
<1>1. call'[c] = K /\ \A x \in Calls \ {c} : call'[x] = call[x]
  BY Others
<1>2. \A x \in Calls : Still(call[x]) \subseteq Still(call'[x])
  BY <1>1
<1> QED
  BY <1>2 DEF EnvInv, SessionEnv

\* What a step of one call has to keep.
LEMMA OneCall ==
  ASSUME IInv, NEW c \in Calls, NEW K \in CallRecords, call' = [call EXCEPT ![c] = K],
         CallOK(K), KnownOf(K)', EnvOf(K), SessionEnv',
         box' \in [up : BOOLEAN, stops : 0..MaxStops, session : Env \cup {None},
                   ctxs : SUBSET Contexts],
         box'.stops = box.stops, box.up => box'.up, K.pc = "wire" => box'.up,
         ~ box'.up => box'.session = None /\ box'.ctxs = {},
         box.session # None => box'.session # None,
         sdk' \in SdkRecords, sdk'.announced = sdk.announced, sdk'.env = sdk.env,
         sdk.late => sdk'.late, sdk'.stored = sdk'.default,
         sdk'.default /\ Sound' => box'.session # None,
         lapse' \in BOOLEAN
  PROVE  IInv'
<1>1. call'[c] = K /\ (\A x \in Calls \ {c} : call'[x] = call[x]) /\ call' \in [Calls -> CallRecords]
  BY Others DEF IInv
<1>2. DataOK'
  BY <1>1 DEF DataOK
<1>3. CallInv'
  <2>1. \A x \in Calls : CallOK(call'[x])
    BY <1>1 DEF IInv, CallInv
  <2> QED
    BY <2>1 DEF CallInv
<1>4. TypeOK'
  <2>1. \A x \in Calls : call'[x].pc = "wire" => box'.up
    BY <1>1 DEF IInv, TypeOK
  <2>2. \A x \in Calls : call'[x].pc = "done" <=> call'[x].class # "none"
    BY <1>3 DEF CallInv, CallOK, WayOf
  <2>3. \A x \in Calls : /\ call'[x].pc \in {"idle", "send", "wire", "reply", "done"}
                         /\ call'[x].req \in {"session", "context", "own"}
    BY <1>1 DEF CallRecords
  <2>4. /\ sdk'.default \in BOOLEAN /\ sdk'.late \in BOOLEAN /\ sdk'.env \in Env
        /\ sdk'.ctxs \subseteq Contexts /\ sdk'.evicts \in 0..MaxEvicts
    BY DEF SdkRecords
  <2>5. sdk'.announced \in 0..box'.stops
    BY DEF IInv, TypeOK
  <2> QED
    BY <2>1, <2>2, <2>3, <2>4, <2>5 DEF TypeOK
<1>5. KnownInv'
  <2>1. \A x \in Calls \ {c} : KnownOf(call[x])'
    <3> SUFFICES ASSUME NEW x \in Calls \ {c}
                 PROVE  KnownOf(call[x])'
      OBVIOUS
    <3>1. KnownOf(call[x]) /\ call'[x] = call[x]
      BY <1>1 DEF IInv, KnownInv
    <3>2. Sound' => Sound
      BY DEF Sound
    <3> QED
      BY <3>1, <3>2 DEF KnownOf, ForSession, OnItsWay
  <2>2. KnownOf(call[c])'
    BY <1>1 DEF KnownOf, ForSession, OnItsWay
  <2> QED
    BY <2>1, <2>2 DEF KnownInv
<1>6. EnvInv'
  <2>1. \A x \in Calls : EnvOf(call[x])'
    <3> SUFFICES ASSUME NEW x \in Calls
                 PROVE  EnvOf(call[x])'
      OBVIOUS
    <3>1. CASE x = c
      BY <1>1, <3>1 DEF EnvOf, IsSetting
    <3>2. CASE x # c
      <4>1. EnvOf(call[x]) /\ call'[x] = call[x]
        BY <1>1, <3>2 DEF IInv, EnvInv
      <4> QED
        BY <4>1 DEF EnvOf, IsSetting
    <3> QED
      BY <3>1, <3>2
  <2> QED
    BY <2>1 DEF EnvInv
<1> QED
  BY <1>2, <1>3, <1>4, <1>5, <1>6 DEF IInv

\* A step of one call that the container has no part in.
LEMMA DurableStep ==
  ASSUME IInv, NEW c \in Calls, NEW K \in CallRecords, call' = [call EXCEPT ![c] = K],
         CallOK(K), KnownOf(K)', EnvOf(K), K.pc = "wire" => box.up,
         Still(call[c]) \subseteq Still(K), UNCHANGED << box, lapse >>,
         sdk' \in SdkRecords, sdk'.announced = sdk.announced, sdk'.env = sdk.env,
         sdk.late => sdk'.late, sdk'.stored = sdk'.default, sdk.default => sdk'.default,
         sdk'.default /\ Sound' => box.session # None
  PROVE  IInv'
<1>1. SessionEnv'
  BY SameSession DEF IInv
<1>2. /\ box' \in [up : BOOLEAN, stops : 0..MaxStops, session : Env \cup {None},
                   ctxs : SUBSET Contexts]
      /\ ~ box'.up => box'.session = None /\ box'.ctxs = {}
      /\ lapse' \in BOOLEAN
  BY DEF IInv, TypeOK
<1> QED
  BY <1>1, <1>2, OneCall

\* A step of one call that changes nothing else.
LEMMA QuietStep ==
  ASSUME IInv, NEW c \in Calls, NEW K \in CallRecords, call' = [call EXCEPT ![c] = K],
         CallOK(K), KnownOf(K), EnvOf(K), K.pc = "wire" => box.up,
         Still(call[c]) \subseteq Still(K), UNCHANGED << box, sdk, lapse >>
  PROVE  IInv'
<1>1. KnownOf(K)' /\ (Sound' => Sound)
  BY DEF KnownOf, ForSession, OnItsWay, Sound
<1>2. sdk' \in SdkRecords /\ sdk'.stored = sdk'.default /\ (sdk'.default /\ Sound' => box.session # None)
  BY <1>1 DEF IInv, TypeOK, DataOK, KnownInv
<1> QED
  BY <1>1, <1>2, DurableStep

\* What an idle call is.
LEMMA IdleFacts ==
  ASSUME IInv, NEW c \in Calls, call[c].pc = "idle"
  PROVE  /\ call[c] \in CallRecords
         /\ call[c].runs = 0 /\ call[c].did = "none" /\ call[c].req = "own"
         /\ call[c].reply = "none" /\ call[c].class = "none" /\ call[c].status = 0
         /\ Still(call[c]) = {}
<1>1. call[c] \in CallRecords /\ WayOf(call[c])
  BY DEF IInv, DataOK, CallInv, CallOK
<1> QED
  BY <1>1 DEF WayOf, Still, IsSetting

\* A call begins: for the session that is known, or on its own.
LEMMA BeginsOK ==
  ASSUME IInv, NEW k \in CallRecords, NEW what \in {"context", "own"},
         k.op \in ApiOps, k.runs = 0, k.did = "none", k.reply = "none",
         k.class = "none", k.status = 0,
         what = "context" => k.op = "runCode",
         k.op \in SessionOps /\ ~ k.wrapped => sdk.default
  PROVE  LET K == Ask(k, what)
         IN /\ K \in CallRecords /\ K.pc = "send" /\ Still(K) = {}
            /\ CallOK(K) /\ KnownOf(K) /\ EnvOf(K)
<1> DEFINE K == Ask(k, what)
<1>1. /\ K \in CallRecords
      /\ SameCall(K, k) /\ SameVars(K, k) /\ SameWork(K, k) /\ SameEnd(K, k)
      /\ K.pc = "send" /\ K.req = what /\ K.on = sdk.announced
      /\ K.ctx = k.ctx /\ K.reply = k.reply
  BY AskFacts DEF IInv
<1> HIDE DEF K
<1>2. k.op # "none" /\ k.op # "setEnvVars"
  BY OpFacts
<1>3. CallOK(K)
  BY <1>1, <1>2 DEF CallOK, WayOf, AsAskedOf, ToldOf, SameCall, SameWork, SameEnd
<1>4. KnownOf(K)
  <2>1. sdk.announced <= box.stops /\ (sdk.default /\ Sound => box.session # None)
    BY DEF IInv, TypeOK, KnownInv
  <2>2. ForSession(K) => sdk.default
    BY <1>1, <1>2 DEF ForSession, SameCall
  <2>3. sdk.announced \in Nat
    BY DEF IInv, DataOK, SdkRecords
  <2> QED
    BY <1>1, <2>1, <2>2, <2>3 DEF KnownOf
<1>5. EnvOf(K) /\ Still(K) = {}
  BY <1>1, <1>2 DEF EnvOf, IsSetting, Still, SameCall
<1> QED
  BY <1>1, <1>3, <1>4, <1>5 DEF K

\* A call begins with the creation of the session, with the variables of now.
LEMMA CreatesOK ==
  ASSUME IInv, NEW k \in CallRecords,
         k.op \in SessionOps, k.runs = 0, k.did = "none", k.reply = "none",
         k.class = "none", k.status = 0
  PROVE  LET K == [Ask(k, "session") EXCEPT !.env = sdk.env, !.old = FALSE]
         IN /\ K \in CallRecords /\ K.pc = "send" /\ Still(K) = {}
            /\ CallOK(K) /\ KnownOf(K) /\ EnvOf(K)
<1> DEFINE j == Ask(k, "session")
           K == [j EXCEPT !.env = sdk.env, !.old = FALSE]
<1>1. /\ j \in CallRecords
      /\ SameCall(j, k) /\ SameWork(j, k) /\ SameEnd(j, k)
      /\ j.pc = "send" /\ j.req = "session" /\ j.on = sdk.announced
      /\ j.ctx = k.ctx /\ j.reply = k.reply
  BY AskFacts DEF IInv
<1>2. /\ sdk.env \in Env /\ sdk.announced \in Nat /\ sdk.announced <= box.stops
  BY DEF IInv, TypeOK, DataOK, SdkRecords
<1> HIDE DEF j
<1>3. /\ K \in CallRecords
      /\ SameCall(K, k) /\ SameWork(K, k) /\ SameEnd(K, k)
      /\ K.pc = "send" /\ K.req = "session" /\ K.on = sdk.announced
      /\ K.ctx = k.ctx /\ K.reply = k.reply /\ K.env = sdk.env
  <2>1. \A v \in Env : [j EXCEPT !.env = v, !.old = FALSE] \in CallRecords
    BY <1>1 DEF CallRecords
  <2>2. K \in CallRecords
    BY <1>2, <2>1
  <2>3. /\ SameCall(K, j) /\ SameWork(K, j) /\ SameEnd(K, j) /\ K.pc = j.pc /\ K.req = j.req
        /\ K.on = j.on /\ K.ctx = j.ctx /\ K.reply = j.reply /\ K.env = sdk.env
    BY <1>1 DEF CallRecords, SameCall, SameWork, SameEnd
  <2> QED
    BY <1>1, <2>2, <2>3 DEF SameCall, SameWork, SameEnd
<1> HIDE DEF K
<1>4. k.op # "none" /\ k.op # "setEnvVars" /\ k.op # "createCodeContext"
  BY OpFacts
<1>5. CallOK(K)
  BY <1>3, <1>4 DEF CallOK, WayOf, AsAskedOf, ToldOf, SameCall, SameWork, SameEnd
<1>6. KnownOf(K)
  BY <1>2, <1>3 DEF KnownOf, ForSession
<1>7. EnvOf(K) /\ Still(K) = {}
  BY <1>3, <1>4 DEF EnvOf, IsSetting, Still, SameCall
<1> QED
  BY <1>3, <1>5, <1>6, <1>7 DEF K, j

\* Begin keeps the invariant.
LEMMA BeginStep ==
  ASSUME IInv, NEW c \in Calls, Begin(c)
  PROVE  IInv'
<1>0. PICK op \in ApiOps \ {"runCode"} :
        \E id \in IF op \in OfProcess THEN Ids ELSE {Plain},
           x \in IF op = "deleteCodeContext" THEN sdk.ctxs ELSE {None},
           wrapped \in Wrapped(op) :
          LET k == [call[c] EXCEPT !.op = op, !.id = id, !.ctx = x, !.wrapped = wrapped]
          IN /\ MayCall(c, op, wrapped)
             /\ call' = [call EXCEPT ![c] = IF op \in SessionOps /\ ~ wrapped THEN Session(k)
                                           ELSE Ask(k, "own")]
  BY Zenon DEF Begin
<1>1. PICK id \in (IF op \in OfProcess THEN Ids ELSE {Plain}),
           x \in (IF op = "deleteCodeContext" THEN sdk.ctxs ELSE {None}), wrapped \in Wrapped(op) :
        LET k == [call[c] EXCEPT !.op = op, !.id = id, !.ctx = x, !.wrapped = wrapped]
        IN /\ MayCall(c, op, wrapped)
           /\ call' = [call EXCEPT ![c] = IF op \in SessionOps /\ ~ wrapped THEN Session(k)
                                         ELSE Ask(k, "own")]
  BY <1>0, Zenon
<1> DEFINE k == [call[c] EXCEPT !.op = op, !.id = id, !.ctx = x, !.wrapped = wrapped]
           K == IF op \in SessionOps /\ ~ wrapped THEN Session(k) ELSE Ask(k, "own")
<1>2. id \in Ids \cup {"none", Plain} /\ x \in Contexts \cup {None} /\ wrapped \in BOOLEAN
  BY DEF IInv, TypeOK, Wrapped
<1>3. /\ call[c] \in CallRecords /\ call[c].runs = 0 /\ call[c].did = "none"
      /\ call[c].reply = "none" /\ call[c].class = "none" /\ call[c].status = 0
      /\ Still(call[c]) = {}
  BY <1>1, IdleFacts DEF MayCall
<1>4. k \in CallRecords
  BY <1>2, <1>3 DEF CallRecords
<1>5. /\ k.op = op /\ k.wrapped = wrapped /\ k.runs = 0 /\ k.did = "none" /\ k.reply = "none"
      /\ k.class = "none" /\ k.status = 0
  BY <1>3 DEF CallRecords
<1>6. call' = [call EXCEPT ![c] = K] /\ UNCHANGED << box, sdk, lapse >>
  BY <1>1 DEF Begin
<1>7. K = IF op \in SessionOps /\ ~ wrapped /\ ~ sdk.default
          THEN [Ask(k, "session") EXCEPT !.env = sdk.env, !.old = FALSE] ELSE Ask(k, "own")
  BY DEF Session
<1> HIDE DEF k, K
<1>8. K \in CallRecords /\ K.pc = "send" /\ Still(K) = {} /\ CallOK(K) /\ KnownOf(K) /\ EnvOf(K)
  <2>1. CASE op \in SessionOps /\ ~ wrapped /\ ~ sdk.default
    <3>1. K = [Ask(k, "session") EXCEPT !.env = sdk.env, !.old = FALSE]
      BY <1>7, <2>1
    <3> QED
      BY <1>4, <1>5, <2>1, <3>1, CreatesOK
  <2>2. CASE ~ (op \in SessionOps /\ ~ wrapped /\ ~ sdk.default)
    <3>1. K = Ask(k, "own")
      BY <1>7, <2>2
    <3>2. k.op \in SessionOps /\ ~ k.wrapped => sdk.default
      BY <1>5, <2>2
    <3> QED
      BY <1>4, <1>5, <3>1, <3>2, BeginsOK
  <2> QED
    BY <2>1, <2>2
<1> QED
  BY <1>3, <1>6, <1>8, QuietStep

\* RunCode keeps the invariant.
LEMMA RunCodeStep ==
  ASSUME IInv, NEW c \in Calls, RunCode(c)
  PROVE  IInv'
<1> DEFINE k == [call[c] EXCEPT !.op = "runCode", !.id = Plain]
<1>1. call[c].pc = "idle"
  BY DEF RunCode, MayCall
<1>2. /\ call[c] \in CallRecords /\ call[c].runs = 0 /\ call[c].did = "none"
      /\ call[c].reply = "none" /\ call[c].class = "none" /\ call[c].status = 0
      /\ Still(call[c]) = {}
  BY <1>1, IdleFacts
<1>3. "runCode" \in ApiOps /\ "runCode" \notin SessionOps
  BY OpFacts
<1>4. ASSUME NEW j \in CallRecords, NEW what \in {"context", "own"}, j.op = "runCode",
             j.runs = 0, j.did = "none", j.reply = "none", j.class = "none", j.status = 0,
             call' = [call EXCEPT ![c] = Ask(j, what)], UNCHANGED << box, sdk, lapse >>
      PROVE  IInv'
  <2> DEFINE K == Ask(j, what)
  <2>1. K \in CallRecords /\ K.pc = "send" /\ Still(K) = {} /\ CallOK(K) /\ KnownOf(K) /\ EnvOf(K)
    BY <1>3, <1>4, BeginsOK
  <2>2. call' = [call EXCEPT ![c] = K]
    BY <1>4
  <2> HIDE DEF K
  <2> QED
    BY <1>2, <1>4, <2>1, <2>2, QuietStep
<1>5. /\ k \in CallRecords /\ k.op = "runCode" /\ k.runs = 0 /\ k.did = "none" /\ k.reply = "none"
      /\ k.class = "none" /\ k.status = 0
  BY <1>2, <1>3 DEF CallRecords
<1>6. /\ UNCHANGED << box, sdk, lapse >>
      /\ \/ call' = [call EXCEPT ![c] = Ask(k, "context")]
         \/ \E x \in sdk.ctxs : call' = [call EXCEPT ![c] = Ask([k EXCEPT !.ctx = x], "own")]
  BY DEF RunCode
<1>7. sdk.ctxs \subseteq Contexts
  BY DEF IInv, TypeOK
<1> HIDE DEF k
<1>8. \A x \in Contexts : [k EXCEPT !.ctx = x] \in CallRecords
  BY <1>5 DEF CallRecords
<1>9. \A x \in Contexts :
        LET j == [k EXCEPT !.ctx = x]
        IN /\ j.op = "runCode" /\ j.runs = 0 /\ j.did = "none" /\ j.reply = "none"
           /\ j.class = "none" /\ j.status = 0
  BY <1>5 DEF CallRecords
<1>10. CASE call' = [call EXCEPT ![c] = Ask(k, "context")]
  BY <1>4, <1>5, <1>6, <1>10
<1>11. ASSUME NEW x \in sdk.ctxs, call' = [call EXCEPT ![c] = Ask([k EXCEPT !.ctx = x], "own")]
       PROVE  IInv'
  <2> DEFINE j == [k EXCEPT !.ctx = x]
  <2>1. /\ j \in CallRecords /\ j.op = "runCode" /\ j.runs = 0 /\ j.did = "none"
        /\ j.reply = "none" /\ j.class = "none" /\ j.status = 0
    BY <1>7, <1>8, <1>9
  <2>2. call' = [call EXCEPT ![c] = Ask(j, "own")]
    BY <1>11
  <2> HIDE DEF j
  <2> QED
    BY <1>4, <1>6, <2>1, <2>2
<1> QED
  BY <1>6, <1>10, <1>11
\* A call that is under way has a method, and its record.
LEMMA CallFacts ==
  ASSUME IInv, NEW c \in Calls
  PROVE  /\ call[c] \in CallRecords /\ CallOK(call[c]) /\ KnownOf(call[c]) /\ EnvOf(call[c])
         /\ call = [call EXCEPT ![c] = call[c]]
         /\ call[c].pc = "wire" => box.up
         /\ call[c].pc # "idle" => call[c].op # "none"
BY DEF IInv, TypeOK, DataOK, CallInv, KnownInv, EnvInv, CallOK, WayOf

\* Two requests of the same call, that carry the same; one may be further on its way.
SameRequest(j, k) == SameCall(j, k) /\ SameVars(j, k) /\ j.req = k.req /\ j.ctx = k.ctx /\ j.on = k.on

\* A request is sent, on the wire, or answered that the container starts.
LEMMA OnItsWayOK ==
  ASSUME IInv, NEW c \in Calls, NEW K \in CallRecords, OnItsWay(call[c]), OnItsWay(K),
         SameRequest(K, call[c]), SameWork(K, call[c]), SameEnd(K, call[c]),
         K.pc \in {"send", "wire", "reply"}, K.pc # "reply" => K.reply = "none",
         K.pc = "reply" => K.reply = "starting"
  PROVE  CallOK(K) /\ KnownOf(K) /\ EnvOf(K) /\ Still(call[c]) \subseteq Still(K)
<1> DEFINE k == call[c]
<1>1. k \in CallRecords /\ CallOK(k) /\ KnownOf(k) /\ EnvOf(k)
  BY CallFacts
<1>2. k.pc \in {"send", "wire", "reply"} /\ k.reply \in {"none", "starting"}
  BY <1>1 DEF CallOK, WayOf, OnItsWay, CallRecords
<1>3. CallOK(K)
  BY <1>1, <1>2 DEF CallOK, WayOf, AsAskedOf, ToldOf, OnItsWay, SameRequest, SameCall, SameVars,
       SameWork, SameEnd
<1>4. KnownOf(K)
  BY <1>1, <1>2 DEF KnownOf, ForSession, SameRequest, SameCall, SameVars
<1>5. EnvOf(K)
  BY <1>1, <1>2 DEF EnvOf, IsSetting, SameRequest, SameCall, SameVars
<1>6. Still(k) \subseteq Still(K)
  BY <1>1, <1>2 DEF Still, IsSetting, SameRequest, SameCall, SameVars
<1> QED
  BY <1>3, <1>4, <1>5, <1>6

\* A request is answered with a failure: the container has stopped or could not
\* be started, the connection broke, or the operation failed.
LEMMA FailedOK ==
  ASSUME IInv, NEW c \in Calls, NEW K \in CallRecords, call[c].pc \in {"send", "wire", "reply"},
         SameRequest(K, call[c]), SameWork(K, call[c]), SameEnd(K, call[c]),
         K.pc = "reply",
         K.reply \notin {"none", "ok", "starting", "SESSION_ALREADY_EXISTS"}
  PROVE  CallOK(K) /\ KnownOf(K) /\ EnvOf(K) /\ Still(call[c]) \subseteq Still(K)
<1> DEFINE k == call[c]
<1>1. k \in CallRecords /\ CallOK(k) /\ KnownOf(k) /\ EnvOf(k)
  BY CallFacts
<1>3. CallOK(K)
  BY <1>1 DEF CallOK, WayOf, AsAskedOf, ToldOf, SameRequest, SameCall, SameVars,
       SameWork, SameEnd
<1>4. KnownOf(K)
  BY <1>1 DEF KnownOf, OnItsWay, SameRequest
<1>5. EnvOf(K)
  BY <1>1 DEF EnvOf, IsSetting, SameRequest, SameCall, SameVars
<1>6. Still(k) \subseteq Still(K)
  BY <1>1 DEF Still, IsSetting, SameRequest, SameCall, SameVars
<1> QED
  BY <1>3, <1>4, <1>5, <1>6

\* A step of one call that the container has a part in, and the Durable Object not.
LEMMA ContainerStep ==
  ASSUME IInv, NEW c \in Calls, NEW K \in CallRecords, call' = [call EXCEPT ![c] = K],
         CallOK(K), EnvOf(K), K.pc = "wire" => box'.up, SessionEnv',
         \/ KnownOf(K)
         \/ /\ K.pc = "reply" /\ K.reply # "starting" /\ K.on <= box.stops
            /\ K.req = "session" /\ K.reply \in {"ok", "SESSION_ALREADY_EXISTS"} =>
                 box'.session # None,
         box' \in [up : BOOLEAN, stops : 0..MaxStops, session : Env \cup {None},
                   ctxs : SUBSET Contexts],
         box'.stops = box.stops, box'.up, box.session # None => box'.session # None,
         UNCHANGED sdk, lapse' \in BOOLEAN
  PROVE  IInv'
<1>1. KnownOf(K)' /\ (Sound' => Sound)
  BY DEF KnownOf, ForSession, OnItsWay, Sound
<1>2. sdk' \in SdkRecords /\ sdk'.stored = sdk'.default /\ (sdk'.default /\ Sound' => box'.session # None)
  BY <1>1 DEF IInv, TypeOK, DataOK, KnownInv
<1> QED
  BY <1>1, <1>2, OneCall

\* What the container is.
LEMMA BoxFacts ==
  ASSUME IInv
  PROVE  /\ box \in [up : BOOLEAN, stops : 0..MaxStops, session : Env \cup {None},
                     ctxs : SUBSET Contexts]
         /\ box.session \in Env \cup {None} /\ box.ctxs \subseteq Contexts
         /\ box.stops \in 0..MaxStops /\ box.stops \in Nat /\ box.stops <= box.stops
         /\ lapse \in BOOLEAN
BY DEF IInv, TypeOK

\* Its session or its contexts change.
LEMMA BoxUpdates ==
  ASSUME IInv, NEW s \in Env \cup {None}, NEW x \in SUBSET Contexts
  PROVE  /\ LET b == [box EXCEPT !.session = s]
            IN /\ b \in [up : BOOLEAN, stops : 0..MaxStops, session : Env \cup {None},
                         ctxs : SUBSET Contexts]
               /\ b.session = s /\ b.up = box.up /\ b.stops = box.stops
         /\ LET b == [box EXCEPT !.ctxs = x]
            IN /\ b \in [up : BOOLEAN, stops : 0..MaxStops, session : Env \cup {None},
                         ctxs : SUBSET Contexts]
               /\ b.session = box.session /\ b.up = box.up /\ b.stops = box.stops
<1> DEFINE Boxes == [up : BOOLEAN, stops : 0..MaxStops, session : Env \cup {None},
                     ctxs : SUBSET Contexts]
<1>1. box \in Boxes
  BY BoxFacts
<1>2. LET b == [box EXCEPT !.session = s]
      IN b \in Boxes /\ b.session = s /\ b.up = box.up /\ b.stops = box.stops
  BY <1>1
<1>3. LET b == [box EXCEPT !.ctxs = x]
      IN b \in Boxes /\ b.session = box.session /\ b.up = box.up /\ b.stops = box.stops
  BY <1>1
<1> QED
  BY <1>2, <1>3

\* An answer, and the time it took.
LEMMA ReplyRecord ==
  ASSUME NEW k \in CallRecords, NEW r \in Codes \cup Answers
  PROVE  LET K == [k EXCEPT !.pc = "reply", !.reply = r]
         IN /\ K \in CallRecords /\ K.pc = "reply" /\ K.reply = r
            /\ SameRequest(K, k) /\ SameWork(K, k) /\ SameEnd(K, k)
BY DEF CallRecords, SameRequest, SameCall, SameVars, SameWork, SameEnd

\* The clock of a request is a number.
LEMMA ClockRecord ==
  ASSUME NEW k \in CallRecords, NEW d \in Nat
  PROVE  LET K == [k EXCEPT !.clock = UpTo(@ + d)]
         IN /\ K \in CallRecords /\ K.pc = k.pc /\ K.reply = k.reply
            /\ SameRequest(K, k) /\ SameWork(K, k) /\ SameEnd(K, k)
<1>1. MaxClock \in Nat
  BY BoundsAssumption
<1>2. k.clock \in Nat
  BY DEF CallRecords
<1>3. UpTo(k.clock + d) \in Nat
  BY <1>1, <1>2 DEF UpTo
<1>4. \A t \in Nat : [k EXCEPT !.clock = t] \in CallRecords
  BY DEF CallRecords
<1>5. \A t \in Nat : LET K == [k EXCEPT !.clock = t]
                     IN /\ K.pc = k.pc /\ K.reply = k.reply
                        /\ SameRequest(K, k) /\ SameWork(K, k) /\ SameEnd(K, k)
  BY DEF CallRecords, SameRequest, SameCall, SameVars, SameWork, SameEnd
<1> QED
  BY <1>3, <1>4, <1>5

\* Fetch keeps the invariant.
LEMMA FetchStep ==
  ASSUME IInv, NEW c \in Calls, Fetch(c)
  PROVE  IInv'
<1> DEFINE k == call[c]
           Wired == [k EXCEPT !.pc = "wire"]
           Answered(r) == [k EXCEPT !.pc = "reply", !.reply = r]
           After(j, d) == [j EXCEPT !.clock = UpTo(@ + d)]
<1>1. k \in CallRecords /\ CallOK(k) /\ k.pc = "send" /\ k.reply = "none" /\ OnItsWay(k)
  BY CallFacts DEF Fetch, CallOK, WayOf, OnItsWay
<1>2. /\ Wired \in CallRecords /\ Wired.pc = "wire" /\ Wired.reply = "none"
      /\ SameRequest(Wired, k) /\ SameWork(Wired, k) /\ SameEnd(Wired, k)
  BY <1>1 DEF CallRecords, SameRequest, SameCall, SameVars, SameWork, SameEnd
<1>3. \A r \in {"starting", "failed"} :
        /\ Answered(r) \in CallRecords /\ Answered(r).pc = "reply" /\ Answered(r).reply = r
        /\ SameRequest(Answered(r), k) /\ SameWork(Answered(r), k) /\ SameEnd(Answered(r), k)
  <2>1. {"starting", "failed"} \subseteq Codes \cup Answers
    BY DEF Answers
  <2> QED
    BY <1>1, <2>1, ReplyRecord
<1>4. DataOK /\ UNCHANGED << sdk, lapse >>
  BY DEF Fetch, IInv
<1>5. CASE box.up /\ call' = [call EXCEPT ![c].pc = "wire"] /\ UNCHANGED box
  <2>1. OnItsWay(Wired)
    BY <1>2 DEF OnItsWay
  <2>2. call' = [call EXCEPT ![c] = Wired]
    BY <1>4, <1>5
  <2> HIDE DEF k, Wired
  <2>3. CallOK(Wired) /\ KnownOf(Wired) /\ EnvOf(Wired) /\ Still(call[c]) \subseteq Still(Wired)
    BY <1>1, <1>2, <2>1, OnItsWayOK DEF k
  <2> QED
    BY <1>2, <1>4, <1>5, <2>2, <2>3, QuietStep
<1>6. ASSUME NEW d \in Durations, box' = [box EXCEPT !.up = TRUE],
             call' = [call EXCEPT ![c].pc = "wire", ![c].clock = UpTo(@ + d)]
      PROVE  IInv'
  <2> DEFINE K == [Wired EXCEPT !.clock = UpTo(@ + d)]
  <2>1. d \in Nat
    BY BoundsAssumption
  <2>2. call' = [call EXCEPT ![c] = K]
    BY <1>4, <1>6
  <2> HIDE DEF Wired
  <2>3. /\ K \in CallRecords /\ K.pc = "wire" /\ K.reply = "none"
        /\ SameRequest(K, k) /\ SameWork(K, k) /\ SameEnd(K, k)
    BY <1>2, <2>1, ClockRecord DEF SameRequest, SameCall, SameVars, SameWork, SameEnd
  <2> HIDE DEF K
  <2>4. CallOK(K) /\ KnownOf(K) /\ EnvOf(K) /\ Still(k) \subseteq Still(K)
    BY <1>1, <2>3, OnItsWayOK DEF OnItsWay
  <2>5. PICK j \in CallRecords : /\ call' = [call EXCEPT ![c] = j] /\ CallOK(j) /\ KnownOf(j)
                                 /\ EnvOf(j) /\ Still(k) \subseteq Still(j)
    BY <2>2, <2>3, <2>4
  <2>6. /\ box' \in [up : BOOLEAN, stops : 0..MaxStops, session : Env \cup {None},
                      ctxs : SUBSET Contexts]
        /\ box'.up /\ box'.stops = box.stops /\ box'.session = box.session
    BY <1>6, BoxFacts
  <2>7. SessionEnv'
    BY <1>4, <2>5, <2>6, SameSession DEF IInv
  <2>8. lapse' \in BOOLEAN
    BY <1>4, BoxFacts
  <2> QED
    BY <1>4, <2>5, <2>6, <2>7, <2>8, ContainerStep
<1>7. ASSUME NEW d \in Durations, NEW r \in {"starting", "failed"}, UNCHANGED box,
             call' = [Replies(c, r) EXCEPT ![c].clock = UpTo(@ + d)]
      PROVE  IInv'
  <2> DEFINE J == Answered(r)
             K == [J EXCEPT !.clock = UpTo(@ + d)]
  <2>1. d \in Nat
    BY BoundsAssumption
  <2>2. call' = [call EXCEPT ![c] = K]
    BY <1>4, <1>7 DEF Replies, DataOK
  <2>3. /\ J \in CallRecords /\ J.pc = "reply" /\ J.reply = r
        /\ SameRequest(J, k) /\ SameWork(J, k) /\ SameEnd(J, k)
    BY <1>3
  <2> HIDE DEF J
  <2>4. /\ K \in CallRecords /\ K.pc = "reply" /\ K.reply = r
        /\ SameRequest(K, k) /\ SameWork(K, k) /\ SameEnd(K, k)
    BY <2>1, <2>3, ClockRecord DEF SameRequest, SameCall, SameVars, SameWork, SameEnd
  <2> HIDE DEF K
  <2>5. CallOK(K) /\ KnownOf(K) /\ EnvOf(K) /\ Still(k) \subseteq Still(K)
    <3>1. CASE r = "starting"
      BY <1>1, <2>4, <3>1, OnItsWayOK DEF OnItsWay
    <3>2. CASE r = "failed"
      BY <1>1, <2>4, <3>2, FailedOK
    <3> QED
      BY <3>1, <3>2
  <2> QED
    BY <1>4, <1>7, <2>2, <2>4, <2>5, QuietStep
<1> QED
  BY <1>5, <1>6, <1>7 DEF Fetch

\* An answer, as it changes the calls.
LEMMA RepliesRecord ==
  ASSUME IInv, NEW c \in Calls, NEW r \in Codes \cup Answers
  PROVE  \E K \in CallRecords :
           /\ Replies(c, r) = [call EXCEPT ![c] = K] /\ K.pc = "reply" /\ K.reply = r
           /\ SameRequest(K, call[c]) /\ SameWork(K, call[c]) /\ SameEnd(K, call[c])
<1> DEFINE K == [call[c] EXCEPT !.pc = "reply", !.reply = r]
<1>1. Replies(c, r) = [call EXCEPT ![c] = K]
  BY DEF Replies, IInv, DataOK
<1>2. /\ K \in CallRecords /\ K.pc = "reply" /\ K.reply = r
      /\ SameRequest(K, call[c]) /\ SameWork(K, call[c]) /\ SameEnd(K, call[c])
  BY CallFacts, ReplyRecord
<1> HIDE DEF K
<1> QED
  BY <1>1, <1>2

\* ReplyLost keeps the invariant.
LEMMA ReplyLostStep ==
  ASSUME IInv, NEW c \in Calls, ReplyLost(c)
  PROVE  IInv'
<1>1. /\ call[c].pc \in {"wire", "reply"} /\ call' = Replies(c, "lost")
      /\ UNCHANGED << box, sdk, lapse >>
  BY DEF ReplyLost
<1>2. "lost" \in Codes \cup Answers
  BY DEF Answers
<1>3. PICK K \in CallRecords :
        /\ call' = [call EXCEPT ![c] = K] /\ K.pc = "reply" /\ K.reply = "lost"
        /\ SameRequest(K, call[c]) /\ SameWork(K, call[c]) /\ SameEnd(K, call[c])
  BY <1>1, <1>2, RepliesRecord
<1>4. CallOK(K) /\ KnownOf(K) /\ EnvOf(K) /\ Still(call[c]) \subseteq Still(K)
  BY <1>1, <1>3, FailedOK
<1> QED
  BY <1>1, <1>3, <1>4, QuietStep

\* What is tried again is a request the container had no part in.
LEMMA RetryableStarts == \A k \in CallRecords : Retryable(k) => k.reply = "starting"
<1>1. \A k \in CallRecords : k.reply \in Codes \cup Answers
  BY DEF CallRecords
<1> QED
  BY <1>1, AnswerFacts DEF Retryable

\* Retry keeps the invariant.
LEMMA RetryStep ==
  ASSUME IInv, NEW c \in Calls, Retry(c)
  PROVE  IInv'
<1> DEFINE k == call[c]
           wait == UpTo(k.clock + Delay(k.attempt))
           next == IF k.attempt < 9 THEN k.attempt + 1 ELSE k.attempt
           K == [k EXCEPT !.pc = "send", !.reply = "none", !.clock = wait, !.attempt = next]
<1>1. k \in CallRecords /\ k.pc = "reply" /\ k.reply = "starting" /\ UNCHANGED << box, sdk, lapse >>
  BY CallFacts, RetryableStarts DEF Retry
<1>2. call' = [call EXCEPT ![c] = K]
  BY DEF Retry, IInv, DataOK
<1>3. wait \in Nat /\ next \in Nat
  <2>1. k.clock \in Nat /\ k.attempt \in Nat /\ MaxClock \in Nat
    BY <1>1, BoundsAssumption DEF CallRecords
  <2>2. Delay(k.attempt) \in Nat
    <3>1. k.attempt < 4 => k.attempt \in {0, 1, 2, 3}
      BY <2>1
    <3> QED
      BY <3>1 DEF Delay
  <2> QED
    BY <2>1, <2>2 DEF UpTo
<1>4. "none" \in Codes \cup Answers
  BY DEF Answers
<1> HIDE DEF wait, next
<1>5. /\ K \in CallRecords /\ K.pc = "send" /\ K.reply = "none"
      /\ SameRequest(K, k) /\ SameWork(K, k) /\ SameEnd(K, k)
  BY <1>1, <1>3, <1>4 DEF CallRecords, SameRequest, SameCall, SameVars, SameWork, SameEnd
<1> HIDE DEF K
<1>6. CallOK(K) /\ KnownOf(K) /\ EnvOf(K) /\ Still(k) \subseteq Still(K)
  BY <1>1, <1>5, OnItsWayOK DEF OnItsWay
<1> QED
  BY <1>1, <1>2, <1>5, <1>6, QuietStep

\* An answer to the creation of the session.
LEMMA CreatedOK ==
  ASSUME IInv, NEW c \in Calls, NEW K \in CallRecords, call[c].pc = "wire", call[c].req = "session",
         SameCall(K, call[c]), SameVars(K, call[c]), SameWork(K, call[c]), SameEnd(K, call[c]),
         K.req = "session", K.ctx = call[c].ctx, K.pc = "reply",
         K.reply \in {"ok", "SESSION_ALREADY_EXISTS"}
  PROVE  CallOK(K) /\ EnvOf(K) /\ Still(call[c]) = {} /\ Still(K) = {}
<1> DEFINE k == call[c]
<1>1. k \in CallRecords /\ CallOK(k) /\ EnvOf(k) /\ k.op # "none"
  BY CallFacts
<1>2. CallOK(K)
  BY <1>1 DEF CallOK, WayOf, AsAskedOf, ToldOf, SameCall, SameVars, SameWork, SameEnd
<1>3. k.op # "setEnvVars" /\ K.op # "setEnvVars"
  BY <1>1 DEF CallOK, WayOf, SameCall
<1>4. EnvOf(K) /\ Still(k) = {} /\ Still(K) = {}
  BY <1>1, <1>3 DEF EnvOf, Still, IsSetting, SameCall, SameVars
<1> QED
  BY <1>2, <1>4

AnswerAt(c, r) == [Replies(c, r) EXCEPT ![c].on = box.stops]

\* The same, with the stops of the container as the answer has them.
LEMMA AnswerRecord ==
  ASSUME IInv, NEW c \in Calls, NEW r \in Codes \cup Answers
  PROVE  \E K \in CallRecords :
           /\ AnswerAt(c, r) = [call EXCEPT ![c] = K]
           /\ K.pc = "reply" /\ K.reply = r /\ K.on = box.stops
           /\ SameCall(K, call[c]) /\ SameVars(K, call[c]) /\ SameWork(K, call[c])
           /\ SameEnd(K, call[c]) /\ K.req = call[c].req /\ K.ctx = call[c].ctx
<1>1. PICK J \in CallRecords :
        /\ Replies(c, r) = [call EXCEPT ![c] = J] /\ J.pc = "reply" /\ J.reply = r
        /\ SameRequest(J, call[c]) /\ SameWork(J, call[c]) /\ SameEnd(J, call[c])
  BY RepliesRecord
<1> DEFINE K == [J EXCEPT !.on = box.stops]
<1>2. AnswerAt(c, r) = [call EXCEPT ![c] = K]
  BY <1>1 DEF IInv, DataOK, AnswerAt
<1>3. box.stops \in Nat
  BY BoxFacts
<1>4. K \in CallRecords
  BY <1>3 DEF CallRecords
<1>5. /\ K.pc = J.pc /\ K.reply = J.reply /\ K.on = box.stops /\ SameCall(K, J) /\ SameVars(K, J)
      /\ SameWork(K, J) /\ SameEnd(K, J) /\ K.req = J.req /\ K.ctx = J.ctx
  BY DEF CallRecords, SameCall, SameVars, SameWork, SameEnd
<1> HIDE DEF K
<1>6. /\ SameCall(K, call[c]) /\ SameVars(K, call[c]) /\ SameWork(K, call[c])
      /\ SameEnd(K, call[c]) /\ K.req = call[c].req /\ K.ctx = call[c].ctx
  BY <1>1, <1>5 DEF SameRequest, SameCall, SameVars, SameWork, SameEnd
<1> QED
  BY <1>1, <1>2, <1>4, <1>5, <1>6

\* CreateSession keeps the invariant.
LEMMA CreateSessionStep ==
  ASSUME IInv, NEW c \in Calls, CreateSession(c)
  PROVE  IInv'
<1> DEFINE k == call[c]
<1>1. /\ k \in CallRecords /\ k.pc = "wire" /\ k.req = "session" /\ box.up /\ UNCHANGED sdk
      /\ EnvOf(k) /\ k.env \in Env /\ k.old \in BOOLEAN
  BY CallFacts DEF CreateSession, Arrives, CallRecords
<1>2. "ok" \in Codes \cup Answers /\ "SESSION_ALREADY_EXISTS" \in Codes \cup Answers
  BY DEF Answers
<1>6. box.stops \in Nat /\ box.stops <= box.stops
  BY BoxFacts
<1>3. CASE /\ box.session = None /\ box' = [box EXCEPT !.session = k.env] /\ lapse' = k.old
           /\ call' = [Replies(c, "ok") EXCEPT ![c].on = box.stops]
  <2>1. PICK K \in CallRecords :
           /\ call' = [call EXCEPT ![c] = K]
           /\ K.pc = "reply" /\ K.reply = "ok" /\ K.on = box.stops
           /\ SameCall(K, k) /\ SameVars(K, k) /\ SameWork(K, k) /\ SameEnd(K, k)
           /\ K.req = k.req /\ K.ctx = k.ctx
    <3>1. PICK K \in CallRecords :
            /\ AnswerAt(c, "ok") = [call EXCEPT ![c] = K]
            /\ K.pc = "reply" /\ K.reply = "ok" /\ K.on = box.stops
            /\ SameCall(K, k) /\ SameVars(K, k) /\ SameWork(K, k) /\ SameEnd(K, k)
            /\ K.req = k.req /\ K.ctx = k.ctx
      BY <1>2, AnswerRecord
    <3> QED
      BY <1>3, <3>1 DEF AnswerAt
  <2>2. CallOK(K) /\ EnvOf(K)
    BY <1>1, <2>1, CreatedOK
  <2>3. /\ box' \in [up : BOOLEAN, stops : 0..MaxStops, session : Env \cup {None},
                      ctxs : SUBSET Contexts]
        /\ box'.up /\ box'.stops = box.stops /\ box'.session = k.env /\ box'.session # None
    BY <1>1, <1>3, BoxUpdates, NoneAssumption
  <2>4. SessionEnv'
    <3>1. ~ lapse' => k.env = sdk'.env
      BY <1>1, <1>3 DEF EnvOf
    <3> QED
      BY <2>3, <3>1 DEF SessionEnv
  <2>5. lapse' \in BOOLEAN /\ K.on <= box.stops
    BY <1>1, <1>3, <1>6, <2>1
  <2> QED
    BY <1>1, <2>1, <2>2, <2>3, <2>4, <2>5, ContainerStep
<1>4. CASE /\ box.session # None
           /\ call' = [Replies(c, "SESSION_ALREADY_EXISTS") EXCEPT ![c].on = box.stops]
           /\ UNCHANGED << box, lapse >>
  <2>1. PICK K \in CallRecords :
           /\ call' = [call EXCEPT ![c] = K]
           /\ K.pc = "reply" /\ K.reply = "SESSION_ALREADY_EXISTS" /\ K.on = box.stops
           /\ SameCall(K, k) /\ SameVars(K, k) /\ SameWork(K, k) /\ SameEnd(K, k)
           /\ K.req = k.req /\ K.ctx = k.ctx
    <3>1. PICK K \in CallRecords :
            /\ AnswerAt(c, "SESSION_ALREADY_EXISTS") = [call EXCEPT ![c] = K]
            /\ K.pc = "reply" /\ K.reply = "SESSION_ALREADY_EXISTS" /\ K.on = box.stops
            /\ SameCall(K, k) /\ SameVars(K, k) /\ SameWork(K, k) /\ SameEnd(K, k)
            /\ K.req = k.req /\ K.ctx = k.ctx
      BY <1>2, AnswerRecord
    <3> QED
      BY <1>4, <3>1 DEF AnswerAt
  <2>2. CallOK(K) /\ EnvOf(K) /\ Still(k) \subseteq Still(K)
    BY <1>1, <2>1, CreatedOK
  <2>3. KnownOf(K)
    BY <1>1, <1>4, <1>6, <2>1 DEF KnownOf, OnItsWay
  <2> QED
    BY <1>1, <1>4, <2>1, <2>2, <2>3, QuietStep
<1>5. ASSUME NEW r \in Errors("createSession"), call' = Replies(c, r), UNCHANGED << box, lapse >>
      PROVE  IInv'
  <2>1. r \in Codes \cup Answers /\ r \notin {"none", "ok", "starting", "SESSION_ALREADY_EXISTS"}
    BY ErrorsAreCodes DEF Codes
  <2>2. PICK K \in CallRecords :
          /\ call' = [call EXCEPT ![c] = K] /\ K.pc = "reply" /\ K.reply = r
          /\ SameRequest(K, k) /\ SameWork(K, k) /\ SameEnd(K, k)
    BY <1>5, <2>1, RepliesRecord
  <2>3. CallOK(K) /\ KnownOf(K) /\ EnvOf(K) /\ Still(k) \subseteq Still(K)
    BY <1>1, <2>1, <2>2, FailedOK
  <2> QED
    BY <1>1, <1>5, <2>2, <2>3, QuietStep
<1> QED
  BY <1>3, <1>4, <1>5 DEF CreateSession

\* What the container does for a call, as it changes the calls.
LEMMA DoesRecord ==
  ASSUME IInv, NEW c \in Calls, NEW r \in Codes \cup Answers, NEW op \in ApiOps \cup {"none", "invalid"}
  PROVE  \E K \in CallRecords :
           /\ Does(c, op, r) = [call EXCEPT ![c] = K]
           /\ K.pc = "reply" /\ K.reply = r /\ K.on = box.stops
           /\ K.did = op /\ K.runs = call[c].runs + 1
           /\ SameCall(K, call[c]) /\ SameVars(K, call[c])
           /\ SameEnd(K, call[c]) /\ K.req = call[c].req /\ K.ctx = call[c].ctx
<1>1. PICK J \in CallRecords :
        /\ Replies(c, r) = [call EXCEPT ![c] = J] /\ J.pc = "reply" /\ J.reply = r
        /\ SameRequest(J, call[c]) /\ SameWork(J, call[c]) /\ SameEnd(J, call[c])
  BY RepliesRecord
<1> DEFINE runs == J.runs + 1
           K == [J EXCEPT !.did = op, !.runs = runs, !.on = box.stops]
<1>2. Does(c, op, r) = [call EXCEPT ![c] = K]
  BY <1>1 DEF IInv, DataOK, Does
<1>3. box.stops \in Nat
  BY BoxFacts
<1>4. runs \in Nat
  BY DEF CallRecords
<1> HIDE DEF runs
<1>5. K \in CallRecords
  BY <1>3, <1>4 DEF CallRecords
<1>6. /\ K.pc = J.pc /\ K.reply = J.reply /\ K.on = box.stops /\ K.did = op /\ K.runs = runs
      /\ SameCall(K, J) /\ SameVars(K, J)
      /\ SameEnd(K, J) /\ K.req = J.req /\ K.ctx = J.ctx
  BY DEF CallRecords, SameCall, SameVars, SameEnd
<1> HIDE DEF K
<1>7. /\ SameCall(K, call[c]) /\ SameVars(K, call[c]) /\ K.runs = call[c].runs + 1
      /\ SameEnd(K, call[c]) /\ K.req = call[c].req /\ K.ctx = call[c].ctx
  BY <1>1, <1>6 DEF SameRequest, SameCall, SameVars, SameWork, SameEnd, runs
<1> QED
  BY <1>1, <1>2, <1>5, <1>6, <1>7

\* A context it names.
LEMMA ContextRecord ==
  ASSUME DataOK, NEW c \in Calls, NEW K \in CallRecords, NEW x \in Contexts
  PROVE  LET J == [K EXCEPT !.ctx = x]
         IN /\ [[call EXCEPT ![c] = K] EXCEPT ![c].ctx = x] = [call EXCEPT ![c] = J]
            /\ J \in CallRecords /\ J.ctx = x /\ J.pc = K.pc /\ J.reply = K.reply /\ J.on = K.on
            /\ SameCall(J, K) /\ SameVars(J, K) /\ SameWork(J, K) /\ SameEnd(J, K) /\ J.req = K.req
<1>1. [[call EXCEPT ![c] = K] EXCEPT ![c].ctx = x] = [call EXCEPT ![c] = [K EXCEPT !.ctx = x]]
  BY DEF DataOK
<1>2. [K EXCEPT !.ctx = x] \in CallRecords
  BY DEF CallRecords
<1>3. LET J == [K EXCEPT !.ctx = x]
      IN /\ J.ctx = x /\ J.pc = K.pc /\ J.reply = K.reply /\ J.on = K.on
         /\ SameCall(J, K) /\ SameVars(J, K) /\ SameWork(J, K) /\ SameEnd(J, K) /\ J.req = K.req
  BY DEF CallRecords, SameCall, SameVars, SameWork, SameEnd
<1> QED
  BY <1>1, <1>2, <1>3

\* The contexts it lists.
LEMMA ListRecord ==
  ASSUME DataOK, NEW c \in Calls, NEW K \in CallRecords, NEW x \in SUBSET Contexts
  PROVE  LET J == [K EXCEPT !.list = x]
         IN /\ [[call EXCEPT ![c] = K] EXCEPT ![c].list = x] = [call EXCEPT ![c] = J]
            /\ J \in CallRecords /\ J.ctx = K.ctx /\ J.pc = K.pc /\ J.reply = K.reply /\ J.on = K.on
            /\ SameCall(J, K) /\ SameVars(J, K) /\ SameWork(J, K) /\ SameEnd(J, K) /\ J.req = K.req
<1>1. [[call EXCEPT ![c] = K] EXCEPT ![c].list = x] = [call EXCEPT ![c] = [K EXCEPT !.list = x]]
  BY DEF DataOK
<1>2. [K EXCEPT !.list = x] \in CallRecords
  BY DEF CallRecords
<1>3. LET J == [K EXCEPT !.list = x]
      IN /\ J.ctx = K.ctx /\ J.pc = K.pc /\ J.reply = K.reply /\ J.on = K.on
         /\ SameCall(J, K) /\ SameVars(J, K) /\ SameWork(J, K) /\ SameEnd(J, K) /\ J.req = K.req
  BY DEF CallRecords, SameCall, SameVars, SameWork, SameEnd
<1> QED
  BY <1>1, <1>2, <1>3

\* The request of a method itself is answered, and the method is another than setEnvVars.
LEMMA ServedOK ==
  ASSUME IInv, NEW c \in Calls, NEW K \in CallRecords, call[c].pc = "wire", call[c].req = "own",
         call[c].op # "setEnvVars",
         SameCall(K, call[c]), SameVars(K, call[c]), SameEnd(K, call[c]), K.req = "own",
         K.pc = "reply", K.reply \notin {"none", "starting"}, K.on = box.stops, K.runs = 1,
         \/ K.did = call[c].op
         \/ call[c].op \in {"getProcess", "killProcess"} /\ call[c].id \in {"start", "list", "kill-all"}
         \/ call[c].op = "getCommands" /\ K.did = "invalid",
         K.reply = "SESSION_ALREADY_EXISTS" => call[c].op = "createSession",
         K.reply = "ok" /\ call[c].op = "createCodeContext" => K.ctx \in Contexts
  PROVE  CallOK(K) /\ KnownOf(K) /\ EnvOf(K) /\ Still(call[c]) = {} /\ Still(K) = {}
<1> DEFINE k == call[c]
<1>1. k \in CallRecords /\ CallOK(k) /\ KnownOf(k) /\ EnvOf(k) /\ k.op # "none"
  BY CallFacts
<1>2. K.op = k.op /\ K.id = k.id /\ K.wrapped = k.wrapped /\ K.class = "none" /\ K.status = 0
  BY <1>1 DEF CallOK, WayOf, SameCall, SameEnd
<1>3. WayOf(K)
  BY <1>1, <1>2 DEF WayOf
<1>4. AsAskedOf(K) /\ ToldOf(K)
  BY <1>1, <1>2 DEF AsAskedOf, ToldOf
<1>5. box.stops <= box.stops
  BY BoxFacts
<1>6. KnownOf(K)
  BY <1>5 DEF KnownOf, OnItsWay
<1>7. EnvOf(K) /\ Still(k) = {} /\ Still(K) = {}
  BY <1>2 DEF EnvOf, Still, IsSetting
<1> QED
  BY <1>3, <1>4, <1>6, <1>7 DEF CallOK

\* A context is created for runCode.
LEMMA ContextOK ==
  ASSUME IInv, NEW c \in Calls, NEW K \in CallRecords, call[c].pc = "wire", call[c].req = "context",
         SameCall(K, call[c]), SameVars(K, call[c]), SameWork(K, call[c]), SameEnd(K, call[c]),
         K.req = "context", K.on = call[c].on, K.ctx \in Contexts, K.pc = "reply", K.reply = "ok"
  PROVE  CallOK(K) /\ KnownOf(K) /\ EnvOf(K) /\ Still(call[c]) = {} /\ Still(K) = {}
<1> DEFINE k == call[c]
<1>1. k \in CallRecords /\ CallOK(k) /\ KnownOf(k) /\ k.op # "none"
  BY CallFacts
<1>2. K.op = "runCode" /\ k.op = "runCode"
  BY <1>1 DEF CallOK, WayOf, SameCall
<1>3. CallOK(K)
  BY <1>1, <1>2 DEF CallOK, WayOf, AsAskedOf, ToldOf, SameCall, SameVars, SameWork, SameEnd
<1>4. KnownOf(K) /\ EnvOf(K) /\ Still(k) = {} /\ Still(K) = {}
  BY <1>1, <1>2 DEF KnownOf, OnItsWay, EnvOf, Still, IsSetting
<1> QED
  BY <1>3, <1>4

\* A step of one call that changes the contexts of the container.
LEMMA ContextsStep ==
  ASSUME IInv, NEW c \in Calls, NEW K \in CallRecords, call' = [call EXCEPT ![c] = K],
         CallOK(K), KnownOf(K), EnvOf(K), Still(call[c]) \subseteq Still(K), box.up,
         NEW x \in SUBSET Contexts, box' = [box EXCEPT !.ctxs = x], UNCHANGED << sdk, lapse >>
  PROVE  IInv'
<1>1. /\ box' \in [up : BOOLEAN, stops : 0..MaxStops, session : Env \cup {None},
                   ctxs : SUBSET Contexts]
      /\ box'.up /\ box'.stops = box.stops /\ box'.session = box.session
  <2>1. box.session \in Env \cup {None}
    BY BoxFacts
  <2> QED
    BY <2>1, BoxUpdates
<1>2. SessionEnv'
  BY <1>1, SameSession DEF IInv
<1>3. lapse' \in BOOLEAN
  BY BoxFacts
<1> QED
  BY <1>1, <1>2, <1>3, ContainerStep

\* CreateContext keeps the invariant.
LEMMA CreateContextStep ==
  ASSUME IInv, NEW c \in Calls, CreateContext(c)
  PROVE  IInv'
<1> DEFINE k == call[c]
           x == << box.stops, c >>
           next == IF k.req = "own" THEN Does(c, "createCodeContext", "ok") ELSE Replies(c, "ok")
<1>1. /\ k \in CallRecords /\ k.pc = "wire" /\ box.up /\ UNCHANGED << sdk, lapse >>
      /\ CallOK(k)
      /\ k.req = "context" \/ (k.req = "own" /\ k.op = "createCodeContext")
  BY CallFacts DEF CreateContext, Arrives
<1>2. x \in Contexts /\ box.ctxs \cup {x} \in SUBSET Contexts
  BY BoxFacts DEF Contexts
<1>3. CASE /\ box' = [box EXCEPT !.ctxs = @ \cup {x}]
           /\ call' = [next EXCEPT ![c].ctx = x]
  <2>1. "ok" \in Codes \cup Answers
    BY DEF Answers
  <2>2. PICK J \in CallRecords :
          /\ next = [call EXCEPT ![c] = J] /\ J.pc = "reply" /\ J.reply = "ok"
          /\ SameCall(J, k) /\ SameVars(J, k) /\ SameEnd(J, k) /\ J.req = k.req
          /\ k.req = "own" => J.did = "createCodeContext" /\ J.runs = k.runs + 1 /\ J.on = box.stops
          /\ k.req = "context" => SameWork(J, k) /\ J.on = k.on
    <3>1. CASE k.req = "own"
      <4>1. "createCodeContext" \in ApiOps \cup {"none", "invalid"}
        BY OpFacts
      <4>2. next = Does(c, "createCodeContext", "ok")
        BY <3>1
      <4> HIDE DEF next
      <4> QED
        BY <2>1, <3>1, <4>1, <4>2, DoesRecord
    <3>2. CASE k.req = "context"
      <4>1. next = Replies(c, "ok")
        BY <3>2
      <4> HIDE DEF next
      <4>2. PICK J \in CallRecords :
              /\ Replies(c, "ok") = [call EXCEPT ![c] = J] /\ J.pc = "reply" /\ J.reply = "ok"
              /\ SameRequest(J, k) /\ SameWork(J, k) /\ SameEnd(J, k)
        BY <2>1, RepliesRecord
      <4>3. SameCall(J, k) /\ SameVars(J, k) /\ J.req = k.req /\ J.on = k.on
        BY <4>2 DEF SameRequest
      <4> QED
        BY <3>2, <4>1, <4>2, <4>3
    <3> QED
      BY <1>1, <3>1, <3>2
  <2> HIDE DEF next, x
  <2>3. call' = [[call EXCEPT ![c] = J] EXCEPT ![c].ctx = x]
    BY <1>3, <2>2
  <2>4. PICK K \in CallRecords :
          /\ call' = [call EXCEPT ![c] = K] /\ K.ctx = x /\ K.pc = J.pc /\ K.reply = J.reply
          /\ K.on = J.on /\ SameCall(K, J) /\ SameVars(K, J) /\ SameWork(K, J) /\ SameEnd(K, J)
          /\ K.req = J.req
    <3>1. DataOK
      BY DEF IInv
    <3> DEFINE K == [J EXCEPT !.ctx = x]
    <3>2. /\ [[call EXCEPT ![c] = J] EXCEPT ![c].ctx = x] = [call EXCEPT ![c] = K]
          /\ K \in CallRecords /\ K.ctx = x /\ K.pc = J.pc /\ K.reply = J.reply
          /\ K.on = J.on /\ SameCall(K, J) /\ SameVars(K, J) /\ SameWork(K, J) /\ SameEnd(K, J)
          /\ K.req = J.req
      BY <1>2, <3>1, ContextRecord
    <3>3. call' = [call EXCEPT ![c] = K]
      BY <2>3, <3>2, Zenon
    <3> HIDE DEF K
    <3> QED
      BY <3>2, <3>3
  <2>5. SameCall(K, k) /\ SameVars(K, k) /\ SameEnd(K, k)
    BY <2>2, <2>4 DEF SameCall, SameVars, SameEnd
  <2>6. CallOK(K) /\ KnownOf(K) /\ EnvOf(K) /\ Still(k) \subseteq Still(K)
    <3>1. CASE k.req = "own"
      <4>1. k.op = "createCodeContext" /\ k.runs = 0
        BY <1>1, <3>1 DEF CallOK, WayOf
      <4>2. K.did = k.op /\ K.runs = 1 /\ K.on = box.stops
        BY <2>2, <2>4, <3>1, <4>1 DEF SameWork
      <4> QED
        BY <1>1, <1>2, <2>2, <2>4, <2>5, <3>1, <4>1, <4>2, ServedOK
    <3>2. CASE k.req = "context"
      <4>1. SameWork(K, k) /\ K.on = k.on
        BY <2>2, <2>4, <3>2 DEF SameWork
      <4> QED
        BY <1>1, <1>2, <2>2, <2>4, <2>5, <3>2, <4>1, ContextOK
    <3> QED
      BY <1>1, <3>1, <3>2
  <2>7. PICK y \in SUBSET Contexts : box' = [box EXCEPT !.ctxs = y]
    BY <1>2, <1>3
  <2> QED
    BY <1>1, <2>4, <2>6, <2>7, ContextsStep
<1>4. ASSUME NEW r \in Errors("createCodeContext"), call' = Replies(c, r), UNCHANGED box
      PROVE  IInv'
  <2>1. r \in Codes \cup Answers /\ r \notin {"none", "ok", "starting", "SESSION_ALREADY_EXISTS"}
    BY ErrorsAreCodes DEF Codes
  <2>2. PICK K \in CallRecords :
          /\ call' = [call EXCEPT ![c] = K] /\ K.pc = "reply" /\ K.reply = r
          /\ SameRequest(K, k) /\ SameWork(K, k) /\ SameEnd(K, k)
    BY <1>4, <2>1, RepliesRecord
  <2>3. CallOK(K) /\ KnownOf(K) /\ EnvOf(K) /\ Still(k) \subseteq Still(K)
    BY <1>1, <2>1, <2>2, FailedOK
  <2> QED
    BY <1>1, <1>4, <2>2, <2>3, QuietStep
<1> QED
  BY <1>3, <1>4 DEF CreateContext

\* A command for the session that is known finds it, or is excused.
LEMMA FoundOrExcused ==
  ASSUME IInv, NEW c \in Calls, call[c].pc = "wire", ForSession(call[c]), box.session = None
  PROVE  Excused(c)
BY CallFacts DEF KnownOf, OnItsWay, Excused, Sound

\* The session a command enters.
LEMMA EnteredFacts ==
  ASSUME IInv
  PROVE  /\ Entered \in Env /\ Entered # None
         /\ box.session # None => Entered = box.session
<1>1. NoVars \in Env
  BY DEF NoVars, Env, Values
<1>2. box.session \in Env \cup {None}
  BY BoxFacts
<1> QED
  BY <1>1, <1>2, NoneAssumption DEF Entered

\* An `unset` or `export` is answered.
LEMMA VarDoneOK ==
  ASSUME IInv, NEW c \in Calls, NEW K \in CallRecords, call[c].pc = "wire", call[c].req = "own",
         call[c].op = "setEnvVars",
         SameCall(K, call[c]), SameVars(K, call[c]), SameEnd(K, call[c]), K.req = "own",
         K.pc = "reply", K.reply \in {"ok", "nonzero"}, K.on = box.stops, K.did = "execute"
  PROVE  CallOK(K) /\ KnownOf(K) /\ EnvOf(K)
<1> DEFINE k == call[c]
<1>1. k \in CallRecords /\ CallOK(k) /\ KnownOf(k) /\ EnvOf(k)
  BY CallFacts
<1>2. CallOK(K)
  BY <1>1 DEF CallOK, WayOf, AsAskedOf, ToldOf, SameCall, SameVars, SameEnd
<1>3. box.stops <= box.stops
  BY BoxFacts
<1>4. KnownOf(K)
  BY <1>3 DEF KnownOf, OnItsWay
<1>5. EnvOf(K)
  BY <1>1 DEF EnvOf, IsSetting, SameCall, SameVars
<1> QED
  BY <1>2, <1>4, <1>5

\* SetVar keeps the invariant.
LEMMA SetVarStep ==
  ASSUME IInv, NEW c \in Calls, SetVar(c)
  PROVE  IInv'
<1> DEFINE k == call[c]
<1>1. /\ k \in CallRecords /\ k.pc = "wire" /\ k.req = "own" /\ k.op = "setEnvVars"
      /\ box.up /\ CallOK(k) /\ EnvOf(k) /\ UNCHANGED sdk
  BY CallFacts DEF SetVar, Arrives
<1>2. {"ok", "nonzero"} \subseteq Codes \cup Answers /\ "execute" \in ApiOps
  BY ClientsTable, Domains DEF Answers
<1>3. k.reply = "none"
  BY <1>1 DEF CallOK, WayOf
<1>4. \A r \in {"ok", "nonzero"} :
        \E K \in CallRecords :
          /\ Does(c, "execute", r) = [call EXCEPT ![c] = K]
          /\ K.pc = "reply" /\ K.reply = r
          /\ SameCall(K, k) /\ SameVars(K, k) /\ CallOK(K) /\ KnownOf(K) /\ EnvOf(K)
  <2> SUFFICES ASSUME NEW r \in {"ok", "nonzero"}
               PROVE  \E K \in CallRecords :
                        /\ Does(c, "execute", r) = [call EXCEPT ![c] = K]
                        /\ K.pc = "reply" /\ K.reply = r
                        /\ SameCall(K, k) /\ SameVars(K, k) /\ CallOK(K) /\ KnownOf(K) /\ EnvOf(K)
    OBVIOUS
  <2>1. PICK K \in CallRecords :
          /\ Does(c, "execute", r) = [call EXCEPT ![c] = K]
          /\ K.pc = "reply" /\ K.reply = r /\ K.on = box.stops
          /\ K.did = "execute" /\ K.runs = k.runs + 1
          /\ SameCall(K, k) /\ SameVars(K, k) /\ SameEnd(K, k) /\ K.req = k.req /\ K.ctx = k.ctx
    BY <1>2, DoesRecord
  <2>2. CallOK(K) /\ KnownOf(K) /\ EnvOf(K)
    BY <1>1, <2>1, VarDoneOK
  <2> QED
    BY <2>1, <2>2
<1>5. CASE ~ k.named
  <2>1. PICK r \in {"ok", "nonzero"} : call' = Does(c, "execute", r) /\ UNCHANGED << box, lapse >>
    BY <1>5 DEF SetVar
  <2>2. PICK K \in CallRecords :
          /\ call' = [call EXCEPT ![c] = K] /\ K.pc = "reply"
          /\ SameCall(K, k) /\ SameVars(K, k) /\ CallOK(K) /\ KnownOf(K) /\ EnvOf(K)
    BY <1>4, <2>1
  <2>3. Still(k) \subseteq Still(K)
    BY <1>1, <1>5, <2>2 DEF Still, IsSetting, SameCall, SameVars
  <2> QED
    BY <1>1, <2>1, <2>2, <2>3, QuietStep
<1>6. CASE k.named
  <2> DEFINE s(done) == IF done THEN [Entered EXCEPT ![k.key] = k.env[k.key]] ELSE Entered
  <2>1. PICK done \in BOOLEAN : /\ box' = [box EXCEPT !.session = s(done)]
                               /\ call' = Does(c, "execute", IF done THEN "ok" ELSE "nonzero")
    BY <1>6 DEF SetVar
  <2>2. lapse' = (lapse \/ k.old \/ (box.session = None /\ Excused(c)))
    BY <1>6 DEF SetVar
  <2>3. PICK K \in CallRecords :
          /\ call' = [call EXCEPT ![c] = K]
          /\ K.pc = "reply" /\ K.reply = (IF done THEN "ok" ELSE "nonzero")
          /\ SameCall(K, k) /\ SameVars(K, k) /\ CallOK(K) /\ KnownOf(K) /\ EnvOf(K)
    BY <1>4, <2>1
  <2>4. /\ ~ k.wrapped /\ k.key \in k.todo /\ k.todo \subseteq Keys /\ k.env \in Env
        /\ k.old \in BOOLEAN
        /\ ~ k.old => k.env[k.key] = sdk.env[k.key]
    BY <1>1, <1>6 DEF CallOK, WayOf, EnvOf, IsSetting, CallRecords
  <2>5. s(done) \in Env /\ s(done) # None
    <3>1. k.env[k.key] \in Values
      BY <2>4 DEF Env
    <3>2. s(done) \in Env
      BY <3>1, EnteredFacts DEF Env
    <3> QED
      BY <3>2, NoneAssumption
  <2>6. \A x \in Keys : s(done)[x] = IF done /\ x = k.key THEN k.env[x] ELSE Entered[x]
    BY EnteredFacts DEF Env
  <2> HIDE DEF s
  <2>7. /\ box' \in [up : BOOLEAN, stops : 0..MaxStops, session : Env \cup {None},
                     ctxs : SUBSET Contexts]
        /\ box'.up /\ box'.stops = box.stops /\ box'.session = s(done)
    BY <1>1, <2>1, <2>5, BoxUpdates
  <2>8. SessionEnv'
    <3> SUFFICES ASSUME ~ lapse'
                 PROVE  /\ \A x \in Keys : \/ box'.session[x] = sdk'.env[x]
                                          \/ \E y \in Calls : x \in Still(call'[y])
                        /\ ~ sdk'.default => box'.session = sdk'.env
      BY DEF SessionEnv
    <3>1. ForSession(k)
      BY <1>1, <1>6, <2>4 DEF ForSession
    <3>2. box.session # None /\ ~ lapse /\ ~ k.old /\ Entered = box.session
      BY <1>1, <2>2, <3>1, FoundOrExcused, EnteredFacts
    <3>3. /\ \A x \in Keys : \/ box.session[x] = sdk.env[x]
                             \/ \E y \in Calls : x \in Still(call[y])
          /\ ~ sdk.default => box.session = sdk.env
      BY <3>2 DEF IInv, EnvInv, SessionEnv
    <3>4. call'[c] = K /\ \A x \in Calls \ {c} : call'[x] = call[x]
      BY <2>3, Others DEF IInv
    <3>5. Still(k) \subseteq Still(K) \cup (IF done THEN {k.key} ELSE {})
      BY <1>1, <1>6, <2>3 DEF Still, IsSetting, SameCall, SameVars
    <3>6. \A x \in Keys : \/ box'.session[x] = sdk'.env[x]
                          \/ \E y \in Calls : x \in Still(call'[y])
      <4> SUFFICES ASSUME NEW x \in Keys
                   PROVE  \/ box'.session[x] = sdk'.env[x]
                          \/ \E y \in Calls : x \in Still(call'[y])
        OBVIOUS
      <4>1. CASE done /\ x = k.key
        BY <1>1, <2>4, <2>6, <2>7, <3>2, <4>1
      <4>2. CASE ~ (done /\ x = k.key)
        <5>1. box'.session[x] = box.session[x]
          BY <2>6, <2>7, <3>2, <4>2
        <5>2. \A y \in Calls : x \in Still(call[y]) => x \in Still(call'[y])
          BY <3>4, <3>5, <4>2
        <5> QED
          BY <1>1, <3>3, <5>1, <5>2
      <4> QED
        BY <4>1, <4>2
    <3>7. ASSUME ~ sdk'.default
          PROVE  box'.session = sdk'.env
      <4>1. box.session = sdk.env
        BY <1>1, <3>3, <3>7
      <4>2. \A x \in Keys : s(done)[x] = sdk.env[x]
        BY <2>4, <2>6, <3>2, <4>1
      <4>3. sdk.env \in Env
        BY DEF IInv, DataOK, SdkRecords
      <4>4. s(done) = sdk.env
        BY <2>5, <4>2, <4>3 DEF Env
      <4> QED
        BY <1>1, <2>7, <4>4
    <3> QED
      BY <3>6, <3>7
  <2>9. lapse' \in BOOLEAN
    BY <2>2
  <2> QED
    BY <1>1, <2>3, <2>5, <2>7, <2>8, <2>9, ContainerStep
<1> QED
  BY <1>5, <1>6

\* What a served call is answered, by what the container took it for.
LEMMA ServedReply ==
  ASSUME NEW op, NEW known \in BOOLEAN, NEW bodyless \in BOOLEAN,
         NEW r \in CASE op = "runCode" /\ ~ known -> {"no context"}
                     [] op = "deleteCodeContext" /\ ~ known -> {"CONTEXT_NOT_FOUND"}
                     [] op = "createSession" -> {"ok", "SESSION_ALREADY_EXISTS"} \cup Errors(op)
                     [] bodyless -> {"INTERNAL_ERROR"}
                     [] op = "invalid" -> {"UNKNOWN_ERROR"}
                     [] OTHER -> {"ok"} \cup Errors(op)
  PROVE  /\ r \in Codes \cup Answers /\ r \notin {"none", "starting"}
         /\ r = "SESSION_ALREADY_EXISTS" => op = "createSession"
<1>1. \/ r \in {"no context", "CONTEXT_NOT_FOUND", "ok", "INTERNAL_ERROR", "UNKNOWN_ERROR"}
      \/ r = "SESSION_ALREADY_EXISTS" /\ op = "createSession"
      \/ r \in Errors(op)
  OBVIOUS
<1>2. r \in Errors(op) => r \in Codes
  BY ErrorsAreCodes
<1>3. /\ "none" \notin Codes /\ "starting" \notin Codes /\ "SESSION_ALREADY_EXISTS" \notin Codes
      /\ "INTERNAL_ERROR" \in Codes
  BY DEF Codes
<1>4. /\ {"no context", "CONTEXT_NOT_FOUND", "ok", "UNKNOWN_ERROR", "SESSION_ALREADY_EXISTS"}
           \subseteq Answers
  BY DEF Answers
<1> QED
  BY <1>1, <1>2, <1>3, <1>4

\* Serve keeps the invariant.
LEMMA ServeStep ==
  ASSUME IInv, NEW c \in Calls, Serve(c)
  PROVE  IInv'
<1> DEFINE k == call[c]
           op == Dispatch(Clients(k.id)[k.op])
           known == k.ctx \in box.ctxs
           bodyless == op = "startProcess" /\ k.op # op
           inside == op \in InSession /\ ~ bodyless /\ ~ k.wrapped
           list == IF op = "listCodeContexts" THEN box.ctxs ELSE {}
<1>1. /\ k \in CallRecords /\ k.pc = "wire" /\ k.req = "own" /\ box.up /\ CallOK(k)
      /\ k.op \notin {"setEnvVars", "createCodeContext"} /\ UNCHANGED sdk
  BY CallFacts DEF Serve, Arrives
<1>2. k.op \in ApiOps
  BY <1>1, CallFacts DEF CallRecords
<1>3. /\ op = k.op \/ k.op \in {"getProcess", "killProcess"} \/ k.op = "getCommands"
      /\ k.op \in {"getProcess", "killProcess"} =>
           /\ k.id \notin {"start", "list", "kill-all"} => op = k.op
           /\ op \in {k.op, "startProcess", "listProcesses", "killAllProcesses"}
      /\ k.op = "getCommands" => op = "invalid"
  BY <1>2, DispatchOps
<1>4. IF inside
      THEN /\ box' = [box EXCEPT !.session = Entered]
           /\ lapse' = (lapse \/ (box.session = None /\ Excused(c)))
      ELSE /\ box' = IF op = "deleteCodeContext" THEN [box EXCEPT !.ctxs = @ \ {k.ctx}] ELSE box
           /\ UNCHANGED lapse
  BY DEF Serve
<1> HIDE DEF op, known
<1>5. known \in BOOLEAN /\ bodyless \in BOOLEAN
  BY DEF known
<1>6. \E r \in CASE op = "runCode" /\ ~ known -> {"no context"}
                [] op = "deleteCodeContext" /\ ~ known -> {"CONTEXT_NOT_FOUND"}
                [] op = "createSession" -> {"ok", "SESSION_ALREADY_EXISTS"} \cup Errors(op)
                [] bodyless -> {"INTERNAL_ERROR"}
                [] op = "invalid" -> {"UNKNOWN_ERROR"}
                [] OTHER -> {"ok"} \cup Errors(op) :
        call' = [Does(c, op, r) EXCEPT ![c].list = list]
  BY DEF Serve, op, known
<1> HIDE DEF bodyless
<1>7. PICK r \in Codes \cup Answers :
        /\ r \notin {"none", "starting"} /\ (r = "SESSION_ALREADY_EXISTS" => op = "createSession")
        /\ call' = [Does(c, op, r) EXCEPT ![c].list = list]
  BY <1>5, <1>6, ServedReply
<1>8. op \in ApiOps \cup {"none", "invalid"}
  <2>1. {"startProcess", "listProcesses", "killAllProcesses"} \subseteq ApiOps
    BY ClientsTable, Domains
  <2> QED
    BY <1>2, <1>3, <2>1
<1>9. k.runs = 0
  BY <1>1 DEF CallOK, WayOf
<1>10. PICK J \in CallRecords :
         /\ Does(c, op, r) = [call EXCEPT ![c] = J] /\ J.pc = "reply" /\ J.reply = r
         /\ J.on = box.stops /\ J.did = op /\ J.runs = k.runs + 1
         /\ SameCall(J, k) /\ SameVars(J, k) /\ SameEnd(J, k) /\ J.req = k.req /\ J.ctx = k.ctx
  BY <1>8, DoesRecord
<1>11. PICK K \in CallRecords :
         /\ call' = [call EXCEPT ![c] = K] /\ K.pc = "reply" /\ K.reply = r
         /\ K.on = box.stops /\ K.did = op /\ K.runs = 1
         /\ SameCall(K, k) /\ SameVars(K, k) /\ SameEnd(K, k) /\ K.req = "own"
  <2> DEFINE K == [J EXCEPT !.list = list]
  <2>1. list \in SUBSET Contexts /\ DataOK
    BY BoxFacts DEF IInv
  <2>2. call' = [[call EXCEPT ![c] = J] EXCEPT ![c].list = list]
    BY <1>7, <1>10
  <2> HIDE DEF list
  <2>3. /\ [[call EXCEPT ![c] = J] EXCEPT ![c].list = list] = [call EXCEPT ![c] = K]
        /\ K \in CallRecords /\ K.pc = J.pc /\ K.reply = J.reply /\ K.on = J.on
        /\ SameCall(K, J) /\ SameVars(K, J) /\ SameWork(K, J) /\ SameEnd(K, J) /\ K.req = J.req
    BY <2>1, ListRecord
  <2>4. call' = [call EXCEPT ![c] = K]
    BY <2>2, <2>3, Zenon
  <2> HIDE DEF K
  <2> QED
    <3>1. K.did = op /\ K.runs = 1
      BY <1>9, <1>10, <2>3 DEF SameWork
    <3>2. SameCall(K, k) /\ SameVars(K, k) /\ SameEnd(K, k)
      BY <1>10, <2>3 DEF SameCall, SameVars, SameEnd
    <3> QED
      BY <1>1, <1>10, <2>3, <2>4, <3>1, <3>2
<1>12. CallOK(K) /\ KnownOf(K) /\ EnvOf(K) /\ Still(k) \subseteq Still(K)
  BY <1>1, <1>3, <1>7, <1>11, ServedOK
<1>13. CASE inside
  <2>1. k.op \in SessionOps /\ ~ k.wrapped
    <3>1. op \in SessionOps /\ op # "invalid"
      BY <1>13, OpFacts
    <3>2. op \notin {"killAllProcesses", "listProcesses"}
      BY <1>13 DEF InSession
    <3> QED
      BY <1>3, <1>13, <3>1, <3>2 DEF bodyless
  <2>2. ForSession(k)
    BY <1>1, <2>1 DEF ForSession
  <2>3. /\ box' \in [up : BOOLEAN, stops : 0..MaxStops, session : Env \cup {None},
                     ctxs : SUBSET Contexts]
        /\ box'.up /\ box'.stops = box.stops /\ box'.session = Entered /\ Entered # None
    BY <1>1, <1>4, <1>13, BoxUpdates, EnteredFacts
  <2>4. lapse' \in BOOLEAN /\ lapse' = (lapse \/ (box.session = None /\ Excused(c)))
    BY <1>4, <1>13
  <2>5. SessionEnv'
    <3>1. CASE box.session = None
      BY <1>1, <2>2, <2>4, <3>1, FoundOrExcused DEF SessionEnv
    <3>2. CASE box.session # None
      BY <1>1, <1>11, <1>12, <2>3, <2>4, <3>2, EnteredFacts, SameSession DEF IInv
    <3> QED
      BY <3>1, <3>2
  <2> QED
    BY <1>1, <1>11, <1>12, <2>3, <2>4, <2>5, ContainerStep
<1>14. CASE ~ inside
  <2>1. CASE op = "deleteCodeContext"
    <3>1. PICK x \in SUBSET Contexts : box' = [box EXCEPT !.ctxs = x]
      BY <1>4, <1>14, <2>1, BoxFacts
    <3> QED
      BY <1>1, <1>4, <1>11, <1>12, <1>14, <3>1, ContextsStep
  <2>2. CASE op # "deleteCodeContext"
    BY <1>1, <1>4, <1>11, <1>12, <1>14, <2>2, QuietStep
  <2> QED
    BY <2>1, <2>2
<1> QED
  BY <1>13, <1>14

\* A call ends with its answer, which the caller may believe.
LEMMA EndsOK ==
  ASSUME IInv, NEW c \in Calls, call[c].pc = "reply", call[c].reply = "ok" => call[c].req = "own",
         call[c].reply = "SESSION_ALREADY_EXISTS" => call[c].req # "session"
  PROVE  LET K == Ends(call[c])
         IN /\ K \in CallRecords /\ CallOK(K) /\ KnownOf(K) /\ EnvOf(K) /\ Still(K) = {}
            /\ K.pc = "done" /\ K.on = 0
<1> DEFINE k == call[c]
           K == Ends(k)
<1>1. k \in CallRecords /\ CallOK(k) /\ KnownOf(k) /\ k.op # "none"
  BY CallFacts
<1>2. /\ K \in CallRecords /\ SameCall(K, k) /\ SameWork(K, k)
      /\ K.pc = "done" /\ K.req = "own" /\ K.on = 0 /\ K.reply = "none"
      /\ K.class = IF k.reply = "ok" THEN "ok" ELSE ErrorClass(k.reply)
      /\ K.status = HttpStatus(k.reply)
  BY <1>1, EndsFacts
<1> HIDE DEF K
<1>3. k.reply \in Codes \cup Answers
  BY <1>1 DEF CallRecords
<1>4. /\ HttpStatus(k.reply) = 503 => k.reply = "starting"
      /\ ErrorClass(k.reply) \notin {"ok", "none"}
      /\ ErrorClass(k.reply) = "SessionAlreadyExistsError" => k.reply = "SESSION_ALREADY_EXISTS"
  BY <1>3, AnswerFacts
<1>5. WayOf(K)
  BY <1>1, <1>2, <1>4 DEF CallOK, WayOf, SameCall, SameWork
<1>6. AsAskedOf(K)
  BY <1>1, <1>2 DEF CallOK, AsAskedOf, SameCall, SameWork
<1>7. ToldOf(K)
  <2>1. K.class = "ok" => k.reply = "ok"
    BY <1>2, <1>4
  <2>2. K.status = 503 => k.reply = "starting"
    BY <1>2, <1>4
  <2>3. K.class = "SessionAlreadyExistsError" => k.reply = "SESSION_ALREADY_EXISTS"
    BY <1>2, <1>4
  <2> QED
    BY <1>1, <1>2, <2>1, <2>2, <2>3 DEF CallOK, WayOf, ToldOf, SameCall, SameWork
<1>8. box.stops \in Nat
  BY BoxFacts
<1>9. KnownOf(K) /\ EnvOf(K) /\ Still(K) = {}
  BY <1>2, <1>8 DEF KnownOf, OnItsWay, EnvOf, Still, IsSetting
<1> QED
  BY <1>2, <1>5, <1>6, <1>7, <1>9 DEF CallOK, K

\* The request of a method itself leaves, once the session or the context is there.
LEMMA GoesOnOK ==
  ASSUME IInv, NEW c \in Calls, call[c].pc = "reply", call[c].req \in {"session", "context"}
  PROVE  LET K == [Ask(call[c], "own") EXCEPT !.reply = "none"]
         IN /\ K \in CallRecords /\ CallOK(K) /\ EnvOf(K) /\ Still(K) = {}
            /\ Still(call[c]) = {} /\ K.pc = "send" /\ K.on = sdk.announced
            /\ call[c].req = "context" => ~ ForSession(K)
<1> DEFINE k == call[c]
           J == Ask(k, "own")
           K == [J EXCEPT !.reply = "none"]
<1>1. k \in CallRecords /\ CallOK(k) /\ k.op # "none"
  BY CallFacts
<1>2. /\ J \in CallRecords
      /\ SameCall(J, k) /\ SameVars(J, k) /\ SameWork(J, k) /\ SameEnd(J, k)
      /\ J.pc = "send" /\ J.req = "own" /\ J.on = sdk.announced
      /\ J.ctx = k.ctx /\ J.reply = k.reply
  BY <1>1, AskFacts DEF IInv
<1> HIDE DEF J
<1>3. K \in CallRecords
  <2>1. "none" \in Codes \cup Answers
    BY DEF Answers
  <2> QED
    BY <1>2, <2>1 DEF CallRecords
<1>4. /\ SameCall(K, J) /\ SameVars(K, J) /\ SameWork(K, J) /\ SameEnd(K, J)
      /\ K.pc = J.pc /\ K.req = J.req /\ K.on = J.on /\ K.reply = "none"
  BY <1>2 DEF CallRecords, SameCall, SameVars, SameWork, SameEnd
<1> HIDE DEF K
<1>5. /\ SameCall(K, k) /\ SameWork(K, k) /\ SameEnd(K, k)
      /\ K.pc = "send" /\ K.req = "own" /\ K.on = sdk.announced /\ K.reply = "none"
  BY <1>2, <1>4 DEF SameCall, SameWork, SameEnd
<1>6. k.op # "setEnvVars" /\ K.op # "setEnvVars" /\ (k.req = "context" => K.op = "runCode")
  BY <1>1, <1>5 DEF CallOK, WayOf, SameCall
<1>7. CallOK(K)
  BY <1>1, <1>5, <1>6 DEF CallOK, WayOf, AsAskedOf, ToldOf, SameCall, SameWork, SameEnd
<1>8. EnvOf(K) /\ Still(K) = {} /\ Still(k) = {}
  BY <1>5, <1>6 DEF EnvOf, Still, IsSetting
<1>9. k.req = "context" => ~ ForSession(K)
  BY <1>6, OpFacts DEF ForSession
<1> QED
  BY <1>3, <1>5, <1>7, <1>8, <1>9 DEF K, J

\* What the Durable Object is.
LEMMA SdkFacts ==
  ASSUME IInv
  PROVE  /\ sdk \in SdkRecords /\ sdk.stored = sdk.default /\ sdk.ctxs \subseteq Contexts
         /\ sdk.announced \in Nat /\ box.stops \in Nat /\ sdk.announced <= box.stops
         /\ sdk.env \in Env /\ sdk.late \in BOOLEAN
         /\ sdk.default /\ Sound => box.session # None
BY DEF IInv, TypeOK, DataOK, SdkRecords, KnownInv

\* SessionKnown keeps the invariant.
LEMMA SessionKnownStep ==
  ASSUME IInv, NEW c \in Calls, SessionKnown(c)
  PROVE  IInv'
<1> DEFINE k == call[c]
<1>1. /\ k \in CallRecords /\ CallOK(k) /\ KnownOf(k) /\ k.pc = "reply" /\ k.req = "session"
      /\ UNCHANGED << box, lapse >>
  BY CallFacts DEF SessionKnown
<1>2. CASE k.reply \in {"ok", "SESSION_ALREADY_EXISTS"}
  <2>1. sdk' = Synced(k) /\ call' = [call EXCEPT ![c] = [Ask(k, "own") EXCEPT !.reply = "none"]]
    BY <1>2 DEF SessionKnown, Goes, Exists
  <2>2. PICK K \in CallRecords :
          /\ call' = [call EXCEPT ![c] = K] /\ CallOK(K) /\ EnvOf(K) /\ Still(K) = {}
          /\ Still(k) = {} /\ K.pc = "send" /\ K.on = sdk.announced
    BY <1>1, <2>1, GoesOnOK
  <2>3. /\ sdk' \in SdkRecords /\ sdk'.default = TRUE /\ sdk'.stored = TRUE
        /\ sdk'.announced = sdk.announced /\ sdk'.env = sdk.env
        /\ sdk'.late = (sdk.late \/ k.on < sdk.announced)
    BY <2>1, SdkFacts DEF Synced, SdkRecords
  <2>4. Sound' => box.session # None
    <3>1. k.on \in Nat /\ k.on <= box.stops
      BY <1>1 DEF CallRecords, KnownOf
    <3>2. Sound' => k.on = box.stops
      <4>1. sdk.announced \in Nat /\ box.stops \in Nat
        BY SdkFacts
      <4>2. Sound' => ~ (k.on < sdk.announced) /\ sdk.announced = box.stops
        BY <1>1, <2>3, Zenon DEF Sound
      <4> QED
        BY <3>1, <4>1, <4>2
    <3> QED
      BY <1>1, <1>2, <3>2 DEF KnownOf
  <2>5. KnownOf(K)'
    BY <1>1, <2>2, <2>3, <2>4, SdkFacts DEF KnownOf
  <2> QED
    BY <1>1, <2>2, <2>3, <2>4, <2>5, DurableStep
<1>3. CASE k.reply \notin {"ok", "SESSION_ALREADY_EXISTS"}
  <2>1. UNCHANGED sdk /\ call' = [call EXCEPT ![c] = Ends(k)]
    BY <1>3 DEF SessionKnown, Goes, Exists
  <2>2. PICK K \in CallRecords :
          /\ call' = [call EXCEPT ![c] = K] /\ CallOK(K) /\ KnownOf(K) /\ EnvOf(K) /\ K.pc = "done"
    BY <1>1, <1>3, <2>1, EndsOK
  <2>3. Still(k) = {}
    BY <1>1 DEF CallOK, WayOf, Still, IsSetting
  <2> QED
    BY <1>1, <2>1, <2>2, <2>3, QuietStep
<1> QED
  BY <1>2, <1>3

\* ContextKnown keeps the invariant.
LEMMA ContextKnownStep ==
  ASSUME IInv, NEW c \in Calls, ContextKnown(c)
  PROVE  IInv'
<1> DEFINE k == call[c]
<1>1. /\ k \in CallRecords /\ CallOK(k) /\ k.pc = "reply" /\ k.req = "context"
      /\ UNCHANGED << box, lapse >>
  BY CallFacts DEF ContextKnown
<1>2. CASE k.reply = "ok"
  <2>1. /\ sdk' = [sdk EXCEPT !.ctxs = @ \cup {k.ctx}]
        /\ call' = [call EXCEPT ![c] = [Ask(k, "own") EXCEPT !.reply = "none"]]
    BY <1>2 DEF ContextKnown, Goes
  <2>2. PICK K \in CallRecords :
          /\ call' = [call EXCEPT ![c] = K] /\ CallOK(K) /\ EnvOf(K) /\ Still(K) = {}
          /\ Still(k) = {} /\ K.pc = "send" /\ K.on = sdk.announced /\ ~ ForSession(K)
    BY <1>1, <2>1, GoesOnOK
  <2>3. k.ctx \in Contexts
    BY <1>1, <1>2 DEF CallOK, WayOf
  <2>4. /\ sdk' \in SdkRecords /\ sdk'.default = sdk.default /\ sdk'.stored = sdk.stored
        /\ sdk'.announced = sdk.announced /\ sdk'.env = sdk.env /\ sdk'.late = sdk.late
    BY <2>1, <2>3, SdkFacts DEF SdkRecords
  <2>5. Sound' => Sound
    BY <1>1, <2>4 DEF Sound
  <2>6. KnownOf(K)'
    BY <1>1, <2>2, <2>4, SdkFacts DEF KnownOf, ForSession
  <2> QED
    BY <1>1, <2>2, <2>4, <2>5, <2>6, SdkFacts, DurableStep
<1>3. CASE k.reply # "ok"
  <2>1. UNCHANGED sdk /\ call' = [call EXCEPT ![c] = Ends(k)]
    BY <1>3 DEF ContextKnown, Goes
  <2>2. PICK K \in CallRecords :
          /\ call' = [call EXCEPT ![c] = K] /\ CallOK(K) /\ KnownOf(K) /\ EnvOf(K) /\ K.pc = "done"
    BY <1>1, <1>3, <2>1, EndsOK
  <2>3. Still(k) = {}
    BY <1>1 DEF CallOK, WayOf, Still, IsSetting
  <2> QED
    BY <1>1, <2>1, <2>2, <2>3, QuietStep
<1> QED
  BY <1>2, <1>3

\* Returns keeps the invariant.
LEMMA ReturnsStep ==
  ASSUME IInv, NEW c \in Calls, Returns(c)
  PROVE  IInv'
<1> DEFINE k == call[c]
<1>1. /\ k \in CallRecords /\ CallOK(k) /\ k.pc = "reply" /\ k.req = "own" /\ k.op # "setEnvVars"
      /\ call' = [call EXCEPT ![c] = Ends(k)] /\ UNCHANGED << box, lapse >>
  BY CallFacts DEF Returns, Goes
<1>2. k.list \subseteq Contexts /\ (k.reply = "ok" /\ k.op = "createCodeContext" => k.ctx \in Contexts)
  BY <1>1 DEF CallOK, WayOf, CallRecords
<1>3. \E x \in SUBSET Contexts : sdk' = [sdk EXCEPT !.ctxs = x]
  <2>1. sdk.ctxs \subseteq Contexts /\ sdk = [sdk EXCEPT !.ctxs = sdk.ctxs]
    BY SdkFacts DEF SdkRecords
  <2>2. CASE k.reply = "ok" /\ k.op = "createCodeContext"
    <3>1. sdk' = [sdk EXCEPT !.ctxs = @ \cup {k.ctx}]
      BY <2>2 DEF Returns
    <3> QED
      BY <1>2, <2>1, <2>2, <3>1
  <2>3. CASE k.reply = "ok" /\ k.op = "deleteCodeContext"
    <3>1. sdk' = [sdk EXCEPT !.ctxs = @ \ {k.ctx}]
      BY <2>3 DEF Returns
    <3> QED
      BY <2>1, <3>1
  <2>4. CASE k.reply = "ok" /\ k.op = "listCodeContexts"
    <3>1. sdk' = [sdk EXCEPT !.ctxs = @ \cup k.list]
      BY <2>4 DEF Returns
    <3> QED
      BY <1>2, <2>1, <3>1
  <2>5. CASE ~ (k.reply = "ok" /\ k.op \in {"createCodeContext", "deleteCodeContext", "listCodeContexts"})
    <3>1. sdk' = sdk
      BY <2>5 DEF Returns
    <3> QED
      BY <2>1, <3>1
  <2> QED
    BY <2>2, <2>3, <2>4, <2>5
<1>4. /\ sdk' \in SdkRecords /\ sdk'.default = sdk.default /\ sdk'.stored = sdk.stored
      /\ sdk'.announced = sdk.announced /\ sdk'.env = sdk.env /\ sdk'.late = sdk.late
  BY <1>3, SdkFacts DEF SdkRecords
<1>5. Sound' => Sound
  BY <1>1, <1>4 DEF Sound
<1>6. PICK K \in CallRecords :
        /\ call' = [call EXCEPT ![c] = K] /\ CallOK(K) /\ EnvOf(K) /\ K.pc = "done"
        /\ KnownOf(K)
  BY <1>1, EndsOK
<1>7. KnownOf(K)'
  BY <1>1, <1>4, <1>5, <1>6 DEF KnownOf, ForSession, OnItsWay
<1>8. Still(k) = {}
  BY <1>1 DEF Still, IsSetting
<1> QED
  BY <1>1, <1>4, <1>5, <1>6, <1>7, <1>8, SdkFacts, DurableStep

\* A step of one call that may put the session out of step.
LEMMA LocalStep ==
  ASSUME IInv, NEW c \in Calls, NEW K \in CallRecords, call' = [call EXCEPT ![c] = K],
         CallOK(K), KnownOf(K), EnvOf(K), K.pc # "wire", SessionEnv', lapse' \in BOOLEAN,
         UNCHANGED << box, sdk >>
  PROVE  IInv'
<1>1. KnownOf(K)' /\ (Sound' => Sound)
  BY DEF KnownOf, ForSession, OnItsWay, Sound
<1>2. /\ box' \in [up : BOOLEAN, stops : 0..MaxStops, session : Env \cup {None},
                   ctxs : SUBSET Contexts]
      /\ ~ box'.up => box'.session = None /\ box'.ctxs = {}
  BY DEF IInv, TypeOK
<1>3. sdk' \in SdkRecords /\ sdk'.stored = sdk'.default /\ (sdk'.default /\ Sound' => box'.session # None)
  BY <1>1, SdkFacts
<1> QED
  BY <1>1, <1>2, <1>3, OneCall

\* The next command of a setEnvVars.
LEMMA NextVarFacts ==
  ASSUME IInv, NEW k \in CallRecords, k.op = "setEnvVars", k.did \in {"none", "execute"},
         k.reply = "none", k.class = "none", k.status = 0, NEW K \in NextVar(k)
  PROVE  /\ K \in CallRecords /\ CallOK(K) /\ KnownOf(K)
         /\ SameCall(K, k) /\ K.pc = "send" /\ K.req = "own" /\ K.reply = "none"
         /\ K.env = k.env /\ K.old = k.old /\ K.todo = k.todo /\ K.key \in k.todo
         /\ Still(K) = IF k.wrapped THEN {} ELSE IF sdk.default THEN k.todo ELSE k.todo \ {K.key}
<1> DEFINE J == Ask(k, "own")
           named == sdk.default /\ ~ k.wrapped
<1>1. PICK x \in k.todo : K = [J EXCEPT !.key = x, !.named = named]
  BY DEF NextVar
<1>2. /\ J \in CallRecords
      /\ SameCall(J, k) /\ SameVars(J, k) /\ SameWork(J, k) /\ SameEnd(J, k)
      /\ J.pc = "send" /\ J.req = "own" /\ J.on = sdk.announced
      /\ J.ctx = k.ctx /\ J.reply = k.reply
  BY AskFacts DEF IInv
<1>3. x \in Keys /\ named \in BOOLEAN
  BY DEF CallRecords
<1> HIDE DEF J, named
<1>4. /\ K \in CallRecords /\ K.key = x /\ K.named = named
      /\ SameCall(K, J) /\ SameWork(K, J) /\ SameEnd(K, J)
      /\ K.env = J.env /\ K.old = J.old /\ K.todo = J.todo
      /\ K.pc = J.pc /\ K.req = J.req /\ K.on = J.on /\ K.ctx = J.ctx /\ K.reply = J.reply
  <2>1. K \in CallRecords
    BY <1>1, <1>2, <1>3 DEF CallRecords
  <2> QED
    BY <1>1, <1>2, <2>1 DEF CallRecords, SameCall, SameWork, SameEnd
<1>5. /\ SameCall(K, k) /\ SameWork(K, k) /\ SameEnd(K, k)
      /\ K.env = k.env /\ K.old = k.old /\ K.todo = k.todo /\ K.key \in k.todo
      /\ K.pc = "send" /\ K.req = "own" /\ K.on = sdk.announced /\ K.reply = "none"
  BY <1>2, <1>4 DEF SameCall, SameVars, SameWork, SameEnd
<1>6. K.op = "setEnvVars" /\ K.wrapped = k.wrapped /\ K.did = k.did /\ K.class = "none" /\ K.status = 0
  BY <1>5 DEF SameCall, SameWork, SameEnd
<1>7. (K.named => sdk.default) /\ (K.named => ~ K.wrapped)
  BY <1>4, <1>6 DEF named
<1>8. CallOK(K)
  BY <1>5, <1>6, <1>7 DEF CallOK, WayOf, AsAskedOf, ToldOf
<1>9. KnownOf(K)
  <2>1. ForSession(K) => sdk.default
    BY <1>6, <1>7, OpFacts DEF ForSession
  <2> QED
    BY <1>5, <2>1, SdkFacts DEF KnownOf
<1>10. Still(K) = IF k.wrapped THEN {} ELSE IF sdk.default THEN k.todo ELSE k.todo \ {K.key}
  BY <1>4, <1>5, <1>6 DEF Still, IsSetting, named
<1> QED
  BY <1>4, <1>5, <1>8, <1>9, <1>10

\* VarSet keeps the invariant.
LEMMA VarSetStep ==
  ASSUME IInv, NEW c \in Calls, VarSet(c)
  PROVE  IInv'
<1> DEFINE k == call[c]
           todo == k.todo \ {k.key}
           rest == [k EXCEPT !.todo = todo, !.reply = "none"]
<1>1. /\ k \in CallRecords /\ CallOK(k) /\ EnvOf(k) /\ k.pc = "reply" /\ k.req = "own"
      /\ k.op = "setEnvVars" /\ UNCHANGED << box, sdk >> /\ lapse \in BOOLEAN
  BY CallFacts, BoxFacts DEF VarSet
<1>2. /\ k.did \in {"none", "execute"} /\ k.class = "none" /\ k.status = 0
      /\ k.reply # "SESSION_ALREADY_EXISTS"
  <2>1. "setEnvVars" # "createSession"
    OBVIOUS
  <2> QED
    BY <1>1, <2>1 DEF CallOK, WayOf
<1>3. CASE k.reply = "ok" /\ todo # {}
  <2>1. rest \in CallRecords
    <3>1. todo \in SUBSET Keys /\ "none" \in Codes \cup Answers
      BY <1>1 DEF CallRecords, Answers
    <3> HIDE DEF todo
    <3> QED
      BY <1>1, <3>1 DEF CallRecords
  <2>2. /\ rest.op = "setEnvVars" /\ rest.did = k.did /\ rest.class = "none" /\ rest.status = 0
        /\ rest.reply = "none" /\ rest.wrapped = k.wrapped /\ rest.env = k.env /\ rest.old = k.old
        /\ rest.todo = todo
    BY <1>1, <1>2 DEF CallRecords
  <2>3. PICK K \in NextVar(rest) : call' = [call EXCEPT ![c] = K] /\ UNCHANGED lapse
    BY <1>3, <2>2 DEF VarSet, Goes
  <2> HIDE DEF rest, todo
  <2>4. /\ K \in CallRecords /\ CallOK(K) /\ KnownOf(K)
        /\ SameCall(K, rest) /\ K.pc = "send" /\ K.req = "own" /\ K.reply = "none"
        /\ K.env = rest.env /\ K.old = rest.old /\ K.todo = rest.todo /\ K.key \in rest.todo
        /\ Still(K) = IF rest.wrapped THEN {} ELSE IF sdk.default THEN rest.todo ELSE rest.todo \ {K.key}
    BY <1>2, <2>1, <2>2, NextVarFacts
  <2>5. EnvOf(K)
    <3>1. ~ k.wrapped /\ ~ k.old => \A x \in todo : k.env[x] = sdk.env[x]
      BY <1>1 DEF EnvOf, IsSetting, todo
    <3> QED
      BY <2>2, <2>4, <3>1 DEF EnvOf, IsSetting, SameCall
  <2>6. SessionEnv'
    <3>1. CASE k.wrapped \/ sdk.default
      <4>1. Still(k) \subseteq Still(K)
        BY <1>1, <1>3, <2>2, <2>4, <3>1 DEF Still, IsSetting, todo
      <4> QED
        BY <1>1, <2>3, <2>4, <4>1, SameSession DEF IInv
    <3>2. CASE ~ k.wrapped /\ ~ sdk.default
      <4>1. box.session # None /\ ~ lapse => box.session = sdk.env
        BY <3>2 DEF IInv, EnvInv, SessionEnv
      <4> QED
        BY <1>1, <2>3, <4>1 DEF SessionEnv
    <3> QED
      BY <3>1, <3>2
  <2> QED
    BY <1>1, <2>3, <2>4, <2>5, <2>6, LocalStep
<1>4. CASE k.reply = "ok" /\ todo = {}
  <2>1. call' = [call EXCEPT ![c] = Ends(k)] /\ UNCHANGED lapse
    <3>1. rest.todo = {}
      BY <1>1, <1>4 DEF CallRecords
    <3> QED
      BY <1>4, <3>1 DEF VarSet, Goes
  <2>2. PICK K \in CallRecords : /\ call' = [call EXCEPT ![c] = K] /\ CallOK(K) /\ KnownOf(K)
                                 /\ EnvOf(K) /\ K.pc = "done"
    BY <1>1, <2>1, <1>2, EndsOK
  <2>3. Still(k) = {}
    BY <1>4 DEF Still
  <2> QED
    BY <1>1, <2>1, <2>2, <2>3, QuietStep
<1>5. CASE k.reply # "ok"
  <2>1. /\ call' = [call EXCEPT ![c] = Ends(k)]
        /\ lapse' = (lapse \/ (box.session # None /\ ~ k.wrapped))
    BY <1>5 DEF VarSet, Goes
  <2>2. PICK K \in CallRecords : /\ call' = [call EXCEPT ![c] = K] /\ CallOK(K) /\ KnownOf(K)
                                 /\ EnvOf(K) /\ K.pc = "done"
    BY <1>1, <1>2, <2>1, EndsOK
  <2>3. SessionEnv'
    <3>1. CASE k.wrapped
      <4>1. Still(k) = {}
        BY <3>1 DEF Still, IsSetting
      <4> QED
        BY <1>1, <2>1, <2>2, <4>1, SameSession DEF IInv
    <3>2. CASE ~ k.wrapped
      BY <1>1, <2>1, <3>2 DEF SessionEnv
    <3> QED
      BY <3>1, <3>2
  <2>4. lapse' \in BOOLEAN
    BY <2>1
  <2> QED
    BY <1>1, <2>2, <2>3, <2>4, LocalStep
<1> QED
  BY <1>3, <1>4, <1>5

Overtaken(j, c, older) == [j EXCEPT !.old = @ \/ c \in older]

\* The calls that a setEnvVars overtakes carry what they carried.
LEMMA OvertakenOK ==
  ASSUME NEW j \in CallRecords, NEW c, NEW older
  PROVE  LET J == Overtaken(j, c, older)
         IN /\ J \in CallRecords /\ J.old = (j.old \/ c \in older) /\ J.env = j.env /\ J.todo = j.todo
            /\ J.key = j.key /\ J.req = j.req /\ J.pc = j.pc /\ J.class = j.class
            /\ IsSetting(J) = IsSetting(j)
            /\ CallOK(j) => CallOK(J)
            /\ KnownOf(j) => KnownOf(J)
            /\ Still(J) = Still(j)
<1> DEFINE old == j.old \/ c \in older
           J == [j EXCEPT !.old = old]
<1>1. old \in BOOLEAN
  BY DEF CallRecords
<1> HIDE DEF old
<1>2. J \in CallRecords
  BY <1>1 DEF CallRecords
<1>3. /\ J.old = old /\ J.env = j.env /\ J.todo = j.todo /\ J.key = j.key /\ J.req = j.req
      /\ J.pc = j.pc /\ J.class = j.class /\ J.op = j.op /\ J.wrapped = j.wrapped
      /\ J.named = j.named /\ J.reply = j.reply /\ J.on = j.on /\ J.runs = j.runs /\ J.did = j.did
      /\ J.id = j.id /\ J.status = j.status /\ J.ctx = j.ctx
  BY DEF CallRecords
<1> HIDE DEF J
<1>4. /\ IsSetting(J) = IsSetting(j) /\ Still(J) = Still(j)
  BY <1>3 DEF IsSetting, Still
<1>5. CallOK(j) => CallOK(J)
  BY <1>3 DEF CallOK, WayOf, AsAskedOf, ToldOf
<1>6. KnownOf(j) => KnownOf(J)
  BY <1>3 DEF KnownOf, OnItsWay, ForSession
<1> QED
  BY <1>2, <1>3, <1>4, <1>5, <1>6 DEF J, old, Overtaken

\* What a setEnvVars goes on with.
Setter(c, d, v, wrapped) ==
  LET k == [call[c] EXCEPT !.op = "setEnvVars", !.id = Plain, !.wrapped = wrapped,
                           !.env = v, !.todo = d]
  IN IF sdk.default \/ wrapped THEN NextVar(k) ELSE {Ends([k EXCEPT !.reply = "ok"])}

\* The call of a setEnvVars: a command for the first variable, or its end if
\* there is no session.
LEMMA SetterFacts ==
  ASSUME IInv, NEW c \in Calls, call[c].pc = "idle",
         NEW d \in SUBSET Keys, NEW v \in Env, NEW wrapped \in BOOLEAN,
         NEW K \in Setter(c, d, v, wrapped)
  PROVE  /\ K \in CallRecords /\ CallOK(K) /\ KnownOf(K) /\ K.pc \in {"send", "done"}
         /\ K.req = "own" /\ K.wrapped = wrapped
         /\ IsSetting(K) => K.env = v /\ K.todo = d /\ K.key \in d
         /\ Still(K) = IF sdk.default /\ ~ K.wrapped THEN d ELSE {}
<1> DEFINE k == [call[c] EXCEPT !.op = "setEnvVars", !.id = Plain, !.wrapped = wrapped,
                                !.env = v, !.todo = d]
<1>1. /\ call[c] \in CallRecords /\ call[c].runs = 0 /\ call[c].did = "none"
      /\ call[c].reply = "none" /\ call[c].class = "none" /\ call[c].status = 0
  BY IdleFacts
<1>2. k \in CallRecords
  <2> DEFINE j == [call[c] EXCEPT !.op = "setEnvVars", !.id = Plain, !.wrapped = wrapped]
  <2>1. j \in CallRecords
    BY <1>1 DEF CallRecords
  <2> HIDE DEF j
  <2>2. [j EXCEPT !.env = v, !.todo = d] \in CallRecords
    BY <2>1 DEF CallRecords
  <2> QED
    BY <2>2 DEF j
<1>3. /\ k.op = "setEnvVars" /\ k.wrapped = wrapped /\ k.env = v /\ k.todo = d /\ k.runs = 0
      /\ k.did = "none" /\ k.reply = "none" /\ k.class = "none" /\ k.status = 0
  BY <1>1 DEF CallRecords
<1>4. K \in IF sdk.default \/ wrapped THEN NextVar(k) ELSE {Ends([k EXCEPT !.reply = "ok"])}
  BY DEF Setter
<1> HIDE DEF k
<1>5. CASE sdk.default \/ wrapped
  <2>1. K \in NextVar(k)
    BY <1>4, <1>5
  <2>2. /\ K \in CallRecords /\ CallOK(K) /\ KnownOf(K)
        /\ SameCall(K, k) /\ K.pc = "send" /\ K.req = "own" /\ K.reply = "none"
        /\ K.env = k.env /\ K.old = k.old /\ K.todo = k.todo /\ K.key \in k.todo
        /\ Still(K) = IF k.wrapped THEN {} ELSE IF sdk.default THEN k.todo ELSE k.todo \ {K.key}
    BY <1>2, <1>3, <2>1, NextVarFacts
  <2> QED
    BY <1>3, <1>5, <2>2 DEF SameCall
<1>6. CASE ~ (sdk.default \/ wrapped)
  <2> DEFINE j == [k EXCEPT !.reply = "ok"]
  <2>1. j \in CallRecords
    <3>1. "ok" \in Codes \cup Answers
      BY DEF Answers
    <3> QED
      BY <1>2, <3>1 DEF CallRecords
  <2>2. /\ j.op = "setEnvVars" /\ j.wrapped = wrapped /\ j.runs = 0 /\ j.did = "none" /\ j.reply = "ok"
    BY <1>2, <1>3 DEF CallRecords
  <2>3. K = Ends(j)
    BY <1>4, <1>6
  <2> HIDE DEF j
  <2>4. /\ K \in CallRecords /\ SameCall(K, j) /\ SameWork(K, j)
        /\ K.pc = "done" /\ K.req = "own" /\ K.on = 0 /\ K.reply = "none" /\ K.class = "ok"
    BY <2>1, <2>2, <2>3, EndsFacts
  <2>5. CallOK(K)
    BY <2>2, <2>4 DEF CallOK, WayOf, AsAskedOf, ToldOf, SameCall, SameWork
  <2>6. KnownOf(K)
    BY <2>4, SdkFacts DEF KnownOf, OnItsWay
  <2> QED
    BY <1>6, <2>2, <2>4, <2>5, <2>6 DEF IsSetting, Still, SameCall
<1> QED
  BY <1>5, <1>6

\* setEnvVars, for given variables.
Sets(c, d, v, wrapped) ==
  LET k == [call[c] EXCEPT !.op = "setEnvVars", !.id = Plain, !.wrapped = wrapped,
                           !.env = v, !.todo = d]
      older == IF wrapped THEN {}
               ELSE Creating \cup {s \in Setting : call[s].todo \cap d # {}}
  IN /\ MayCall(c, "setEnvVars", wrapped)
     /\ \A x \in Keys \ d : v[x] = 0
     /\ sdk' = IF wrapped THEN sdk ELSE [sdk EXCEPT !.env = Kept(d, v)]
     /\ \E next \in IF sdk.default \/ wrapped THEN NextVar(k)
                   ELSE {Ends([k EXCEPT !.reply = "ok"])} :
          call' = [x \in Calls |-> IF x = c THEN next
                                   ELSE [call[x] EXCEPT !.old = @ \/ x \in older]]
     /\ lapse' = (lapse \/ (~ wrapped /\ ~ sdk.default /\ box.session # None))

\* setEnvVars keeps the invariant.
LEMMA SetEnvVarsStep ==
  ASSUME IInv, NEW c \in Calls, setEnvVars(c)
  PROVE  IInv'
<1>1. PICK d \in SUBSET Keys, v \in Env, wrapped \in BOOLEAN : Sets(c, d, v, wrapped)
  <2>1. PICK d \in (SUBSET Keys) \ {{}}, v \in Env, wrapped \in Wrapped("setEnvVars") :
          Sets(c, d, v, wrapped)
    BY Zenon DEF setEnvVars, Sets
  <2>2. d \in SUBSET Keys /\ wrapped \in BOOLEAN
    BY DEF Wrapped
  <2> QED
    BY <2>1, <2>2
<1> DEFINE older == IF wrapped THEN {} ELSE Creating \cup {s \in Setting : call[s].todo \cap d # {}}
<1>2. /\ wrapped \in BOOLEAN /\ UNCHANGED box /\ call[c].pc = "idle"
      /\ sdk' = IF wrapped THEN sdk ELSE [sdk EXCEPT !.env = Kept(d, v)]
      /\ lapse' = (lapse \/ (~ wrapped /\ ~ sdk.default /\ box.session # None))
  BY <1>1 DEF setEnvVars, Sets, MayCall
<1>3. PICK K \in CallRecords :
        /\ call' = [x \in Calls |-> IF x = c THEN K ELSE [call[x] EXCEPT !.old = @ \/ x \in older]]
        /\ CallOK(K) /\ KnownOf(K) /\ K.pc \in {"send", "done"}
        /\ K.req = "own" /\ K.wrapped = wrapped
        /\ IsSetting(K) => K.env = v /\ K.todo = d /\ K.key \in d
        /\ Still(K) = IF sdk.default /\ ~ K.wrapped THEN d ELSE {}
  <2>1. PICK K \in Setter(c, d, v, wrapped) :
          call' = [x \in Calls |-> IF x = c THEN K ELSE [call[x] EXCEPT !.old = @ \/ x \in older]]
    BY <1>1, Zenon DEF Setter, Sets
  <2>2. /\ K \in CallRecords /\ CallOK(K) /\ KnownOf(K) /\ K.pc \in {"send", "done"}
        /\ K.req = "own" /\ K.wrapped = wrapped
        /\ IsSetting(K) => K.env = v /\ K.todo = d /\ K.key \in d
        /\ Still(K) = IF sdk.default /\ ~ K.wrapped THEN d ELSE {}
    <3>1. d \in SUBSET Keys /\ v \in Env /\ wrapped \in BOOLEAN /\ call[c].pc = "idle"
      BY <1>2
    <3> QED
      BY <2>1, <3>1, SetterFacts
  <2> QED
    BY <2>1, <2>2
<1> HIDE DEF older
<1>4. call'[c] = K
  BY <1>3
<1>5. ASSUME NEW x \in Calls \ {c}
      PROVE  /\ call'[x] \in CallRecords /\ call'[x].old = (call[x].old \/ x \in older)
             /\ call'[x].env = call[x].env /\ call'[x].todo = call[x].todo
             /\ call'[x].key = call[x].key /\ call'[x].req = call[x].req
             /\ call'[x].pc = call[x].pc /\ call'[x].class = call[x].class
             /\ IsSetting(call'[x]) = IsSetting(call[x])
             /\ CallOK(call'[x]) /\ KnownOf(call'[x]) /\ Still(call'[x]) = Still(call[x])
  <2>1. call'[x] = Overtaken(call[x], x, older)
    BY <1>3 DEF Overtaken
  <2>2. call[x] \in CallRecords /\ CallOK(call[x]) /\ KnownOf(call[x])
    BY CallFacts
  <2> QED
    BY <2>1, <2>2, OvertakenOK
<1>6. /\ sdk' \in SdkRecords /\ sdk'.default = sdk.default /\ sdk'.stored = sdk.stored
      /\ sdk'.announced = sdk.announced /\ sdk'.late = sdk.late /\ sdk'.ctxs = sdk.ctxs
      /\ sdk'.evicts = sdk.evicts
      /\ sdk'.env = IF wrapped THEN sdk.env ELSE Kept(d, v)
  <2>1. Kept(d, v) \in Env
    BY SdkFacts DEF Kept, Env
  <2>2. \A e \in Env : LET s == [sdk EXCEPT !.env = e]
                       IN /\ s \in SdkRecords /\ s.default = sdk.default /\ s.stored = sdk.stored
                          /\ s.announced = sdk.announced /\ s.late = sdk.late /\ s.ctxs = sdk.ctxs
                          /\ s.evicts = sdk.evicts /\ s.env = e
    BY SdkFacts DEF SdkRecords
  <2> QED
    BY <1>2, <2>1, <2>2, SdkFacts
<1>7. /\ \A x \in d : Kept(d, v)[x] = v[x]
      /\ \A x \in Keys \ d : Kept(d, v)[x] = sdk.env[x]
  BY DEF Kept
<1>8. DataOK'
  BY <1>3, <1>4, <1>5, <1>6 DEF DataOK
<1>9. CallInv'
  <2>1. \A x \in Calls : CallOK(call'[x])
    BY <1>3, <1>4, <1>5
  <2> QED
    BY <2>1 DEF CallInv
<1>10. TypeOK'
  <2>1. \A x \in Calls : call'[x].pc = "wire" => box'.up
    BY <1>2, <1>3, <1>4, <1>5 DEF IInv, TypeOK
  <2>2. \A x \in Calls : call'[x].pc = "done" <=> call'[x].class # "none"
    BY <1>9 DEF CallInv, CallOK, WayOf
  <2>3. \A x \in Calls : /\ call'[x].pc \in {"idle", "send", "wire", "reply", "done"}
                         /\ call'[x].req \in {"session", "context", "own"}
    BY <1>8 DEF DataOK, CallRecords
  <2>4. /\ sdk'.default \in BOOLEAN /\ sdk'.late \in BOOLEAN /\ sdk'.env \in Env
        /\ lapse' \in BOOLEAN
    BY <1>2, <1>6 DEF SdkRecords
  <2> QED
    BY <1>2, <1>6, <2>1, <2>2, <2>3, <2>4 DEF IInv, TypeOK
<1>11. KnownInv'
  <2>1. Sound' => Sound
    BY <1>2, <1>6 DEF Sound
  <2>2. \A x \in Calls : KnownOf(call'[x])
    BY <1>3, <1>4, <1>5
  <2>3. \A x \in Calls : KnownOf(call[x])'
    BY <1>2, <1>6, <2>1, <2>2 DEF KnownOf, OnItsWay, ForSession
  <2> QED
    BY <1>2, <1>6, <2>1, <2>3, SdkFacts DEF KnownInv
<1>12. \A x \in Calls : EnvOf(call[x])'
  <2>1. EnvOf(call[c])'
    <3>1. IsSetting(K) => ~ wrapped
      BY <1>3 DEF IsSetting
    <3> QED
      BY <1>3, <1>4, <1>6, <1>7, <3>1 DEF EnvOf, IsSetting
  <2>2. ASSUME NEW x \in Calls \ {c}
        PROVE  EnvOf(call[x])'
    <3> DEFINE j == call[x]
               J == call'[x]
    <3>1. j \in CallRecords /\ EnvOf(j)
      BY CallFacts
    <3>2. /\ J.old = (j.old \/ x \in older) /\ J.env = j.env /\ J.todo = j.todo /\ J.key = j.key
          /\ J.req = j.req /\ J.pc = j.pc /\ IsSetting(J) = IsSetting(j)
      BY <1>5
    <3>3. ASSUME J.req = "session", J.pc \notin {"idle", "done"}, ~ J.old
          PROVE  J.env = sdk'.env
      <4>1. x \in Creating
        BY <3>2, <3>3 DEF Creating, Under
      <4>2. wrapped
        BY <3>2, <3>3, <4>1 DEF older
      <4> QED
        BY <1>6, <3>1, <3>2, <3>3, <4>2 DEF EnvOf
    <3>4. ASSUME IsSetting(J)
          PROVE  /\ J.key \in J.todo
                 /\ ~ J.old => \A y \in J.todo : J.env[y] = sdk'.env[y]
      <4>1. J.key \in J.todo /\ (~ j.old => \A y \in j.todo : j.env[y] = sdk.env[y])
        BY <3>1, <3>2, <3>4 DEF EnvOf
      <4>2. x \in Setting
        BY <3>2, <3>4 DEF Setting, Under, IsSetting
      <4>3. ASSUME ~ J.old, NEW y \in J.todo
            PROVE  J.env[y] = sdk'.env[y]
        <5>1. ~ j.old /\ x \notin older /\ j.env[y] = sdk.env[y]
          BY <3>2, <4>1, <4>3
        <5>2. ~ wrapped => y \notin d
          BY <3>2, <4>2, <4>3, <5>1 DEF older
        <5>3. y \in Keys
          BY <3>1, <3>2 DEF CallRecords
        <5> QED
          BY <1>6, <1>7, <3>2, <5>1, <5>2, <5>3
      <4> QED
        BY <4>1, <4>3
    <3> HIDE DEF J
    <3>5. /\ J.req = "session" /\ J.pc \notin {"idle", "done"} /\ ~ J.old => J.env = sdk'.env
          /\ IsSetting(J) =>
               /\ J.key \in J.todo
               /\ ~ J.old => \A y \in J.todo : J.env[y] = sdk'.env[y]
      BY <3>3, <3>4
    <3> QED
      BY <3>5 DEF EnvOf, IsSetting, J
  <2> QED
    BY <2>1, <2>2
<1>13. SessionEnv'
  <2> SUFFICES ASSUME box'.session # None, ~ lapse'
               PROVE  /\ \A x \in Keys : \/ box'.session[x] = sdk'.env[x]
                                        \/ \E y \in Calls : x \in Still(call'[y])
                      /\ ~ sdk'.default => box'.session = sdk'.env
    BY DEF SessionEnv
  <2>1. /\ \A x \in Keys : \/ box.session[x] = sdk.env[x]
                           \/ \E y \in Calls : x \in Still(call[y])
        /\ ~ sdk.default => box.session = sdk.env
    BY <1>2 DEF IInv, EnvInv, SessionEnv
  <2>2. Still(call[c]) = {}
    BY <1>2, IdleFacts
  <2>3. \A x \in Keys : (\E y \in Calls : x \in Still(call[y])) => \E y \in Calls : x \in Still(call'[y])
    BY <1>5, <2>2
  <2>4. CASE wrapped
    BY <1>2, <1>6, <2>1, <2>3, <2>4
  <2>5. CASE ~ wrapped
    <3>1. sdk.default
      BY <1>2, <2>5
    <3>2. Still(call'[c]) = d
      BY <1>3, <1>4, <2>5, <3>1
    <3>3. \A x \in Keys : \/ box'.session[x] = sdk'.env[x]
                          \/ \E y \in Calls : x \in Still(call'[y])
      BY <1>2, <1>6, <1>7, <2>1, <2>3, <2>5, <3>2
    <3> QED
      BY <1>6, <3>1, <3>3
  <2> QED
    BY <2>4, <2>5
<1> QED
  BY <1>8, <1>9, <1>10, <1>11, <1>12, <1>13 DEF IInv, EnvInv

\* What the stop of the container makes of a call.
Stopped(k) == IF k.pc = "wire" THEN [k EXCEPT !.pc = "reply", !.reply = "lost"] ELSE k

\* A request that is on the wire when the container stops is lost.
LEMMA StoppedOK ==
  ASSUME IInv, NEW c \in Calls
  PROVE  LET K == Stopped(call[c])
         IN /\ K \in CallRecords /\ CallOK(K) /\ EnvOf(K) /\ K.on = call[c].on /\ K.pc # "wire"
            /\ K.old = call[c].old /\ K.env = call[c].env /\ K.todo = call[c].todo
            /\ K.key = call[c].key
<1> DEFINE k == call[c]
           K == Stopped(k)
<1>1. k \in CallRecords /\ CallOK(k) /\ KnownOf(k) /\ EnvOf(k)
  BY CallFacts
<1>2. CASE k.pc = "wire"
  <2>1. "lost" \in Codes \cup Answers
    BY DEF Answers
  <2>2. K = [k EXCEPT !.pc = "reply", !.reply = "lost"]
    BY <1>2 DEF Stopped
  <2>3. K \in CallRecords
    BY <1>1, <2>1, <2>2 DEF CallRecords
  <2>4. /\ K.pc = "reply" /\ K.reply = "lost"
        /\ SameRequest(K, k) /\ SameWork(K, k) /\ SameEnd(K, k)
    BY <1>1, <2>2 DEF CallRecords, SameRequest, SameCall, SameVars, SameWork, SameEnd
  <2> HIDE DEF K
  <2>5. CallOK(K) /\ EnvOf(K)
    BY <1>2, <2>3, <2>4, FailedOK
  <2> QED
    BY <2>3, <2>4, <2>5 DEF SameRequest, SameVars, K
<1>3. CASE k.pc # "wire"
  BY <1>1, <1>3 DEF Stopped
<1> QED
  BY <1>2, <1>3

\* BoxStops keeps the invariant.
LEMMA BoxStopsStep ==
  ASSUME IInv, BoxStops
  PROVE  IInv'
<1>1. /\ box.stops < MaxStops /\ UNCHANGED sdk /\ lapse' = FALSE
      /\ box' = [up |-> FALSE, stops |-> box.stops + 1, session |-> None, ctxs |-> {}]
  BY DEF BoxStops
<1>2. call' = [c \in Calls |-> Stopped(call[c])]
  BY DEF BoxStops, Stopped
<1>3. ~ box'.up /\ box'.stops = box.stops + 1 /\ box'.session = None /\ box'.ctxs = {}
  BY <1>1
<1>4. box.stops \in Nat /\ MaxStops \in Nat
  BY BoxFacts, BoundsAssumption
<1>5. ASSUME NEW c \in Calls
      PROVE  /\ call'[c] \in CallRecords /\ CallOK(call'[c]) /\ EnvOf(call'[c])
             /\ call'[c].on = call[c].on /\ call'[c].pc # "wire"
  BY <1>2, StoppedOK
<1>6. DataOK'
  BY <1>1, <1>2, <1>5, SdkFacts DEF DataOK
<1>7. CallInv'
  <2>1. \A c \in Calls : CallOK(call'[c])
    BY <1>5
  <2> QED
    BY <2>1 DEF CallInv
<1>8. TypeOK'
  <2>1. box' \in [up : BOOLEAN, stops : 0..MaxStops, session : Env \cup {None},
                  ctxs : SUBSET Contexts]
    BY <1>1, <1>4
  <2>2. \A c \in Calls : call'[c].pc = "done" <=> call'[c].class # "none"
    BY <1>7 DEF CallInv, CallOK, WayOf
  <2>3. \A c \in Calls : /\ call'[c].pc \in {"idle", "send", "wire", "reply", "done"}
                         /\ call'[c].req \in {"session", "context", "own"}
    BY <1>6 DEF DataOK, CallRecords
  <2>4. sdk'.announced \in 0..box'.stops
    BY <1>1, <1>3, SdkFacts
  <2> QED
    BY <1>1, <1>3, <1>5, <2>1, <2>2, <2>3, <2>4 DEF IInv, TypeOK
<1>9. KnownInv'
  <2>1. ~ Sound' /\ sdk'.announced = sdk.announced /\ sdk.announced < box'.stops
    BY <1>1, <1>3, SdkFacts DEF Sound
  <2>2. ASSUME NEW c \in Calls
        PROVE  KnownOf(call[c])'
    <3> DEFINE k == call[c]
               K == call'[c]
    <3>1. k \in CallRecords /\ KnownOf(k) /\ CallOK(k)
      BY CallFacts
    <3>2. k.on \in Nat /\ K.on = k.on /\ k.on <= box.stops
      BY <1>5, <3>1 DEF CallRecords, KnownOf
    <3>3. OnItsWay(K) => OnItsWay(k)
      BY <1>2 DEF OnItsWay, Stopped
    <3>4. OnItsWay(K) => K.on <= sdk.announced
      BY <3>1, <3>2, <3>3 DEF KnownOf
    <3> HIDE DEF K, k
    <3> QED
      BY <1>3, <1>4, <2>1, <3>2, <3>4 DEF KnownOf, OnItsWay, K
  <2> QED
    BY <2>1, <2>2 DEF KnownInv
<1>10. EnvInv'
  <2>1. SessionEnv'
    BY <1>3 DEF SessionEnv
  <2>2. ASSUME NEW c \in Calls
        PROVE  EnvOf(call[c])'
    <3>1. EnvOf(call'[c])
      BY <1>5
    <3> QED
      BY <1>1, <3>1 DEF EnvOf, IsSetting
  <2> QED
    BY <2>1, <2>2 DEF EnvInv
<1> QED
  BY <1>6, <1>7, <1>8, <1>9, <1>10 DEF IInv

\* No setEnvVars is under way: nothing is still to be set.
LEMMA NothingStill ==
  ASSUME IInv, Setting = {}
  PROVE  /\ \A c \in Calls : Still(call[c]) = {}
         /\ box.session # None /\ ~ lapse => box.session = sdk.env
<1>1. \A c \in Calls : Still(call[c]) = {}
  BY DEF Setting, Under, Still, IsSetting
<1>2. ASSUME box.session # None, ~ lapse
      PROVE  box.session = sdk.env
  <2>1. box.session \in [Keys -> Values] /\ sdk.env \in [Keys -> Values]
    BY <1>2, BoxFacts, SdkFacts DEF Env
  <2>2. \A x \in Keys : box.session[x] = sdk.env[x]
    BY <1>1, <1>2 DEF IInv, EnvInv, SessionEnv
  <2> HIDE DEF Values
  <2> QED
    BY <2>1, <2>2
<1> QED
  BY <1>1, <1>2

\* The calls go on as they are.
LEMMA SameCalls ==
  ASSUME IInv, UNCHANGED call, UNCHANGED box, sdk' \in SdkRecords, sdk'.stored = sdk'.default,
         sdk'.announced \in 0..box.stops, lapse' \in BOOLEAN
  PROVE  TypeOK' /\ DataOK' /\ CallInv'
<1>1. DataOK' /\ CallInv'
  BY DEF IInv, DataOK, CallInv
<1>2. TypeOK'
  <2>1. /\ sdk'.default \in BOOLEAN /\ sdk'.late \in BOOLEAN /\ sdk'.env \in Env
        /\ sdk'.ctxs \subseteq Contexts /\ sdk'.evicts \in 0..MaxEvicts
    BY DEF SdkRecords
  <2> QED
    BY <2>1 DEF IInv, TypeOK
<1> QED
  BY <1>1, <1>2

\* onStop keeps the invariant.
LEMMA onStopStep ==
  ASSUME IInv, onStop
  PROVE  IInv'
<1>1. /\ sdk.announced < box.stops /\ UNCHANGED box /\ UNCHANGED call
      /\ sdk' = [sdk EXCEPT !.announced = @ + 1, !.default = FALSE, !.stored = FALSE, !.late = FALSE]
      /\ lapse' = (lapse \/ (box.session # None /\ Setting # {}))
  BY DEF onStop
<1>2. /\ sdk' \in SdkRecords /\ sdk'.announced = sdk.announced + 1 /\ sdk'.default = FALSE
      /\ sdk'.stored = FALSE /\ sdk'.env = sdk.env
  <2> DEFINE n == sdk.announced + 1
             s == [sdk EXCEPT !.announced = n, !.default = FALSE]
  <2>1. n \in Nat
    BY SdkFacts
  <2>2. sdk' = [s EXCEPT !.stored = FALSE, !.late = FALSE]
    BY <1>1, SdkFacts DEF SdkRecords
  <2> HIDE DEF n
  <2>3. s \in SdkRecords /\ s.announced = n /\ s.default = FALSE /\ s.env = sdk.env
    BY <2>1, SdkFacts DEF SdkRecords
  <2> HIDE DEF s
  <2>4. /\ sdk' \in SdkRecords /\ sdk'.announced = n /\ sdk'.default = FALSE
        /\ sdk'.stored = FALSE /\ sdk'.env = sdk.env
    BY <2>2, <2>3 DEF SdkRecords
  <2> QED
    BY <2>4 DEF n
<1>3. TypeOK' /\ DataOK' /\ CallInv'
  <2>1. sdk'.announced \in 0..box.stops /\ lapse' \in BOOLEAN
    BY <1>1, <1>2, SdkFacts, BoxFacts
  <2> QED
    BY <1>1, <1>2, <2>1, SameCalls
<1>4. KnownInv'
  <2>1. ASSUME NEW c \in Calls
        PROVE  KnownOf(call[c])'
    <3>1. call[c] \in CallRecords /\ KnownOf(call[c])
      BY CallFacts
    <3>2. call[c].on \in Nat
      BY <3>1 DEF CallRecords
    <3>3. OnItsWay(call[c]) => call[c].on <= sdk.announced
      BY <3>1 DEF KnownOf
    <3>4. OnItsWay(call[c]) => call[c].on <= sdk'.announced /\ call[c].on # box.stops
      BY <1>1, <1>2, <3>2, <3>3, SdkFacts
    <3> QED
      BY <1>1, <3>1, <3>4 DEF KnownOf, OnItsWay
  <2> QED
    BY <1>2, <2>1 DEF KnownInv
<1>5. SessionEnv'
  <2>1. ASSUME box.session # None, ~ lapse'
        PROVE  box.session = sdk.env
    BY <1>1, <2>1, NothingStill
  <2> QED
    BY <1>1, <1>2, <2>1 DEF SessionEnv
<1>6. ASSUME NEW c \in Calls
      PROVE  EnvOf(call[c])'
  BY <1>1, <1>2, CallFacts DEF EnvOf, IsSetting
<1> QED
  BY <1>3, <1>4, <1>5, <1>6 DEF IInv, EnvInv

\* Evict keeps the invariant.
LEMMA EvictStep ==
  ASSUME IInv, Evict
  PROVE  IInv'
<1>1. /\ sdk.evicts < MaxEvicts /\ (\A c \in Calls : ~ Under(c)) /\ UNCHANGED box /\ UNCHANGED call
      /\ sdk' = [sdk EXCEPT !.env = EnvObject, !.default = sdk.stored, !.ctxs = {}, !.evicts = @ + 1]
      /\ lapse' = (lapse \/ (box.session # None /\ sdk.env # EnvObject))
  BY DEF Evict
<1>2. sdk.evicts + 1 \in 0..MaxEvicts /\ EnvObject \in Env
  <2>1. sdk.evicts \in 0..MaxEvicts /\ MaxEvicts \in Nat
    BY SdkFacts, BoundsAssumption DEF SdkRecords
  <2> QED
    BY <1>1, <2>1, EnvObjectAssumption
<1>3. /\ sdk' \in SdkRecords /\ sdk'.announced = sdk.announced /\ sdk'.default = sdk.default
      /\ sdk'.stored = sdk'.default /\ sdk'.env = EnvObject /\ sdk'.late = sdk.late
  <2> DEFINE s == [sdk EXCEPT !.env = EnvObject, !.default = sdk.stored]
             ctxs == [s EXCEPT !.ctxs = {}]
  <2>1. /\ s \in SdkRecords /\ s.announced = sdk.announced /\ s.default = sdk.default
        /\ s.stored = s.default /\ s.env = EnvObject /\ s.late = sdk.late
    BY <1>2, SdkFacts DEF SdkRecords
  <2>2. sdk' = [[s EXCEPT !.ctxs = {}] EXCEPT !.evicts = sdk.evicts + 1]
    BY <1>1, SdkFacts DEF SdkRecords
  <2> HIDE DEF s
  <2> QED
    BY <1>2, <2>1, <2>2 DEF SdkRecords
<1>4. TypeOK' /\ DataOK' /\ CallInv'
  <2>1. sdk'.announced \in 0..box.stops /\ lapse' \in BOOLEAN
    BY <1>1, <1>3, SdkFacts, BoxFacts
  <2> QED
    BY <1>1, <1>3, <2>1, SameCalls
<1>5. KnownInv'
  <2>1. Sound' <=> Sound
    BY <1>1, <1>3 DEF Sound
  <2>2. ASSUME NEW c \in Calls
        PROVE  KnownOf(call[c])'
    BY <1>1, <1>3, <2>1, CallFacts DEF KnownOf, OnItsWay, ForSession
  <2> QED
    BY <1>1, <1>3, <2>1, <2>2, SdkFacts DEF KnownInv
<1>6. Setting = {}
  BY <1>1 DEF Setting
<1>7. SessionEnv'
  <2>1. ASSUME box.session # None, ~ lapse'
        PROVE  box.session = EnvObject
    BY <1>1, <1>6, <2>1, NothingStill
  <2> QED
    BY <1>1, <1>3, <2>1 DEF SessionEnv
<1>8. ASSUME NEW c \in Calls
      PROVE  EnvOf(call[c])'
  BY <1>1 DEF EnvOf, IsSetting, Under
<1> QED
  BY <1>4, <1>5, <1>7, <1>8 DEF IInv, EnvInv

\* The initial states: nothing is called, and the session, if there is one, has
\* the variables of the sandbox.
LEMMA InitOK == Init => IInv
<1> SUFFICES ASSUME Init
             PROVE  IInv
  OBVIOUS
<1>1. PICK used \in BOOLEAN :
        /\ box = [up |-> used, stops |-> 0, ctxs |-> {},
                  session |-> IF used THEN EnvObject ELSE None]
        /\ sdk = [default |-> used, stored |-> used, env |-> EnvObject, ctxs |-> {},
                  announced |-> 0, late |-> FALSE, evicts |-> 0]
  BY DEF Init
<1>2. call = [c \in Calls |-> Idle] /\ lapse = FALSE
  BY DEF Init
<1>3. EnvObject \in Env /\ None \notin Env /\ 0 \in 0..MaxStops /\ 0 \in 0..MaxEvicts
  BY EnvObjectAssumption, NoneAssumption, BoundsAssumption
<1>4. Idle \in CallRecords
  <2>1. NoVars \in Env
    BY DEF NoVars, Env, Values
  <2> QED
    BY <2>1 DEF Idle, CallRecords, Classes, Answers
<1>5. /\ Idle.pc = "idle" /\ Idle.req = "own" /\ Idle.class = "none" /\ Idle.reply = "none"
      /\ Idle.on = 0 /\ Idle.op = "none" /\ Idle.runs = 0 /\ Idle.did = "none" /\ Idle.status = 0
  BY DEF Idle
<1>6. \A c \in Calls : call[c] = Idle
  BY <1>2
<1>7. sdk \in SdkRecords
  BY <1>1, <1>3 DEF SdkRecords
<1>8. TypeOK
  <2>1. box \in [up : BOOLEAN, stops : 0..MaxStops, session : Env \cup {None}, ctxs : SUBSET Contexts]
    BY <1>1, <1>3
  <2>2. ~ box.up => box.session = None /\ box.ctxs = {}
    BY <1>1
  <2>3. /\ sdk.default \in BOOLEAN /\ sdk.late \in BOOLEAN /\ sdk.env \in Env
        /\ sdk.ctxs \subseteq Contexts /\ sdk.evicts \in 0..MaxEvicts /\ sdk.announced \in 0..box.stops
        /\ sdk.stored = sdk.default
    BY <1>1, <1>3
  <2>4. \A c \in Calls :
          /\ call[c].pc \in {"idle", "send", "wire", "reply", "done"}
          /\ call[c].req \in {"session", "context", "own"}
          /\ call[c].pc = "wire" => box.up
          /\ call[c].pc = "done" <=> call[c].class # "none"
    BY <1>5, <1>6
  <2> QED
    BY <1>2, <2>1, <2>2, <2>3, <2>4 DEF TypeOK
<1>9. CallOK(Idle)
  BY <1>5 DEF CallOK, WayOf, AsAskedOf, ToldOf
<1>10. KnownInv
  <2>1. sdk.default => box.session # None
    BY <1>1, <1>3
  <2>2. KnownOf(Idle)
    BY <1>1, <1>5 DEF KnownOf, OnItsWay
  <2> QED
    BY <1>6, <2>1, <2>2 DEF KnownInv
<1>11. EnvInv
  <2>1. EnvOf(Idle)
    BY <1>5 DEF EnvOf, IsSetting
  <2>2. box.session # None => box.session = sdk.env
    BY <1>1
  <2> QED
    BY <1>6, <2>1, <2>2 DEF EnvInv, SessionEnv
<1> QED
  BY <1>2, <1>4, <1>6, <1>7, <1>8, <1>9, <1>10, <1>11 DEF IInv, DataOK, CallInv

\* Every step keeps the invariant.
LEMMA NextOK == IInv /\ [Next]_vars => IInv'
<1> SUFFICES ASSUME IInv, [Next]_vars
             PROVE  IInv'
  OBVIOUS
<1>1. ASSUME NEW c \in Calls, OfCall(c)
      PROVE  IInv'
  <2>1. CASE Begin(c) \/ RunCode(c) \/ setEnvVars(c)
    BY <2>1, BeginStep, RunCodeStep, SetEnvVarsStep
  <2>2. CASE Fetch(c) \/ ReplyLost(c) \/ Retry(c)
    BY <2>2, FetchStep, ReplyLostStep, RetryStep
  <2>3. CASE CreateSession(c) \/ CreateContext(c) \/ SetVar(c) \/ Serve(c)
    BY <2>3, CreateSessionStep, CreateContextStep, SetVarStep, ServeStep
  <2>4. CASE SessionKnown(c) \/ ContextKnown(c) \/ VarSet(c) \/ Returns(c)
    BY <2>4, SessionKnownStep, ContextKnownStep, VarSetStep, ReturnsStep
  <2> QED
    BY <1>1, <2>1, <2>2, <2>3, <2>4 DEF OfCall
<1>2. CASE BoxStops
  BY <1>2, BoxStopsStep
<1>3. CASE onStop
  BY <1>3, onStopStep
<1>4. CASE Evict
  BY <1>4, EvictStep
<1>5. CASE UNCHANGED vars
  <2>1. UNCHANGED << box, sdk, call, lapse >>
    BY <1>5 DEF vars
  <2>2. TypeOK' /\ DataOK' /\ CallInv'
    BY <2>1, SdkFacts, BoxFacts, SameCalls DEF IInv, TypeOK
  <2>3. KnownInv' /\ EnvInv'
    BY <2>1 DEF IInv, KnownInv, KnownOf, Sound, OnItsWay, ForSession, EnvInv, SessionEnv, EnvOf,
                IsSetting, Still
  <2> QED
    BY <2>2, <2>3 DEF IInv
<1> QED
  BY <1>1, <1>2, <1>3, <1>4, <1>5 DEF Next

-----------------------------------------------------------------------------
(***************************************************************************)
(* The theorems                                                            *)
(***************************************************************************)

\* IInv always holds.
THEOREM PathInvariant == Spec => []IInv
BY InitOK, NextOK, PTL DEF Spec

\* The variables keep their types.
THEOREM TypeCorrect == Spec => []TypeOK
<1>1. IInv => TypeOK
  BY DEF IInv
<1> QED
  BY <1>1, PathInvariant, PTL

\* EnvKept: the default session has the variables of the sandbox whenever no
\* setEnvVars is under way, across stops of the container and evictions of the
\* Durable Object, but for the ways of losing step that EnvKept lists
\* (sandbox.ts:276-315, 1097-1132).
THEOREM EnvIsKept == Spec => []EnvKept
<1>1. IInv => EnvKept
  BY NothingStill DEF EnvKept
<1> QED
  BY <1>1, PathInvariant, PTL

\* AsAsked: what is retried is done once, and what is done is what was asked for,
\* for every id of a process but the names of fixed routes (base-transport.ts:37-75,
\* routes/setup.ts).
THEOREM DoneOnce == Spec => []AsAsked
<1>1. IInv => AsAsked
  BY DEF IInv, CallInv, CallOK, AsAskedOf, AsAsked
<1> QED
  BY <1>1, PathInvariant, PTL

\* Told: an "ok" was done, a 503 was not, and that the default session exists is
\* not an error (sandbox.ts:1118-1129).
THEOREM TruthIsTold == Spec => []Told
<1>1. IInv => Told
  BY DEF IInv, CallInv, CallOK, ToldOf, Told
<1> QED
  BY <1>1, PathInvariant, PTL

=============================================================================
