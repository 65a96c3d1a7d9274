-------------------------------- MODULE Api --------------------------------
(***************************************************************************)
(* The interface between the SDK and the container: what the clients ask   *)
(* for (packages/sandbox/src/clients), how the container's router and      *)
(* handlers find the operation, and how an error of the container becomes  *)
(* a class of the SDK.  All of it is data: a path is the sequence of its   *)
(* segments, and the bodies, which the services read, are left out.        *)
(***************************************************************************)
EXTENDS Naturals, Sequences

-----------------------------------------------------------------------------
(* Clients: the request of each method *)

Get(path)    == [method |-> "GET", path |-> path]
Post(path)   == [method |-> "POST", path |-> path]
Put(path)    == [method |-> "PUT", path |-> path]
Delete(path) == [method |-> "DELETE", path |-> path]

FileClient ==
  [mkdir          |-> Post(<< "api", "mkdir" >>),
   writeFile      |-> Post(<< "api", "write" >>),
   readFile       |-> Post(<< "api", "read" >>),
   readFileStream |-> Post(<< "api", "read", "stream" >>),
   deleteFile     |-> Post(<< "api", "delete" >>),
   renameFile     |-> Post(<< "api", "rename" >>),
   moveFile       |-> Post(<< "api", "move" >>),
   listFiles      |-> Post(<< "api", "list-files" >>),
   exists         |-> Post(<< "api", "exists" >>)]

ProcessClient(id) ==
  [startProcess      |-> Post(<< "api", "process", "start" >>),
   listProcesses     |-> Get(<< "api", "process", "list" >>),
   getProcess        |-> Get(<< "api", "process", id >>),
   killProcess       |-> Delete(<< "api", "process", id >>),
   killAllProcesses  |-> Delete(<< "api", "process", "kill-all" >>),
   getProcessLogs    |-> Get(<< "api", "process", id, "logs" >>),
   streamProcessLogs |-> Get(<< "api", "process", id, "stream" >>)]

CommandClient ==
  [execute       |-> Post(<< "api", "execute" >>),
   executeStream |-> Post(<< "api", "execute", "stream" >>)]

PortClient(id) ==
  [exposePort      |-> Post(<< "api", "expose-port" >>),
   unexposePort    |-> Delete(<< "api", "exposed-ports", id >>),
   getExposedPorts |-> Get(<< "api", "exposed-ports" >>),
   watchPort       |-> Post(<< "api", "port-watch" >>)]

GitClient == [checkout |-> Post(<< "api", "git", "checkout" >>)]

UtilityClient ==
  [ping          |-> Get(<< "api", "ping" >>),
   getCommands   |-> Get(<< "api", "commands" >>),
   createSession |-> Post(<< "api", "session", "create" >>),
   deleteSession |-> Post(<< "api", "session", "delete" >>),
   getVersion    |-> Get(<< "api", "version" >>)]

InterpreterClient(id) ==
  [createCodeContext |-> Post(<< "api", "contexts" >>),
   listCodeContexts  |-> Get(<< "api", "contexts" >>),
   deleteCodeContext |-> Delete(<< "api", "contexts", id >>),
   runCode           |-> Post(<< "api", "execute", "code" >>)]

Clients(id) ==
  [op \in DOMAIN FileClient \cup DOMAIN ProcessClient(id) \cup DOMAIN CommandClient
         \cup DOMAIN PortClient(id) \cup DOMAIN GitClient \cup DOMAIN UtilityClient
         \cup DOMAIN InterpreterClient(id) |->
     CASE op \in DOMAIN FileClient            -> FileClient[op]
       [] op \in DOMAIN ProcessClient(id)     -> ProcessClient(id)[op]
       [] op \in DOMAIN CommandClient         -> CommandClient[op]
       [] op \in DOMAIN PortClient(id)        -> PortClient(id)[op]
       [] op \in DOMAIN GitClient             -> GitClient[op]
       [] op \in DOMAIN UtilityClient         -> UtilityClient[op]
       [] op \in DOMAIN InterpreterClient(id) -> InterpreterClient(id)[op]]

ApiOps == DOMAIN Clients("id")

-----------------------------------------------------------------------------
(* Router and handlers of the container *)

Var == "{id}"  \* a segment in braces

Route(request, handler) ==
  [method |-> request.method, path |-> request.path, handler |-> handler]

SessionRoutes ==
  << Route(Post(<< "api", "session", "create" >>), "session"),
     Route(Get(<< "api", "session", "list" >>), "session"),
     Route(Post(<< "api", "session", "delete" >>), "session"),
     Route(Post(<< "api", "execute" >>), "execute"),
     Route(Post(<< "api", "execute", "stream" >>), "execute") >>

FileRoutes ==
  << Route(Post(<< "api", "read" >>), "file"),
     Route(Post(<< "api", "read", "stream" >>), "file"),
     Route(Post(<< "api", "write" >>), "file"),
     Route(Post(<< "api", "delete" >>), "file"),
     Route(Post(<< "api", "rename" >>), "file"),
     Route(Post(<< "api", "move" >>), "file"),
     Route(Post(<< "api", "mkdir" >>), "file"),
     Route(Post(<< "api", "list-files" >>), "file"),
     Route(Post(<< "api", "exists" >>), "file") >>

PortAndProcessRoutes ==
  << Route(Post(<< "api", "expose-port" >>), "port"),
     Route(Post(<< "api", "port-watch" >>), "port"),
     Route(Get(<< "api", "exposed-ports" >>), "port"),
     Route(Delete(<< "api", "exposed-ports", Var >>), "port"),
     Route(Post(<< "api", "process", "start" >>), "process"),
     Route(Get(<< "api", "process", "list" >>), "process"),
     Route(Delete(<< "api", "process", "kill-all" >>), "process"),
     Route(Get(<< "api", "process", Var >>), "process"),
     Route(Delete(<< "api", "process", Var >>), "process"),
     Route(Get(<< "api", "process", Var, "logs" >>), "process"),
     Route(Get(<< "api", "process", Var, "stream" >>), "process") >>

OtherRoutes ==
  << Route(Post(<< "api", "git", "checkout" >>), "git"),
     Route(Get(<< "api", "interpreter", "health" >>), "interpreter"),
     Route(Post(<< "api", "contexts" >>), "interpreter"),
     Route(Get(<< "api", "contexts" >>), "interpreter"),
     Route(Delete(<< "api", "contexts", Var >>), "interpreter"),
     Route(Post(<< "api", "execute", "code" >>), "interpreter"),
     Route(Get(<< "proxy", Var >>), "port"),
     Route(Post(<< "proxy", Var >>), "port"),
     Route(Put(<< "proxy", Var >>), "port"),
     Route(Delete(<< "proxy", Var >>), "port"),
     Route(Get(<< "/" >>), "misc"),
     Route(Get(<< "api", "ping" >>), "misc"),
     Route(Get(<< "api", "commands" >>), "misc"),
     Route(Get(<< "api", "version" >>), "misc") >>

Routes == SessionRoutes \o FileRoutes \o PortAndProcessRoutes \o OtherRoutes

PathMatches(route, path) ==
  /\ Len(route) = Len(path)
  /\ \A i \in DOMAIN path : route[i] \in {Var, path[i]}

\* The handler of the first route that matches, in the order they are listed.
MatchRoute(r) ==
  LET matching == {i \in DOMAIN Routes :
                     Routes[i].method = r.method /\ PathMatches(Routes[i].path, r.path)}
  IN IF matching = {} THEN "none"
     ELSE Routes[CHOOSE i \in matching : \A j \in matching : i <= j].handler

\* The operation a handler finds for a request, by its path without a leading
\* "api"; "invalid" is its answer to all other requests.
SessionHandler(p) ==
  CASE p = << "session", "create" >> -> "createSession"
    [] p = << "session", "list" >>   -> "listSessions"
    [] p = << "session", "delete" >> -> "deleteSession"
    [] OTHER -> "invalid"

ExecuteHandler(p) ==
  CASE p = << "execute" >>           -> "execute"
    [] p = << "execute", "stream" >> -> "executeStream"
    [] OTHER -> "invalid"

FileHandler(p) ==
  CASE p = << "read" >>           -> "readFile"
    [] p = << "read", "stream" >> -> "readFileStream"
    [] p = << "write" >>          -> "writeFile"
    [] p = << "delete" >>         -> "deleteFile"
    [] p = << "rename" >>         -> "renameFile"
    [] p = << "move" >>           -> "moveFile"
    [] p = << "mkdir" >>          -> "mkdir"
    [] p = << "list-files" >>     -> "listFiles"
    [] p = << "exists" >>         -> "exists"
    [] OTHER -> "invalid"

\* The fixed paths are compared first, whatever the method is.
ProcessHandler(method, p) ==
  CASE p = << "process", "start" >>    -> "startProcess"
    [] p = << "process", "list" >>     -> "listProcesses"
    [] p = << "process", "kill-all" >> -> "killAllProcesses"
    [] OTHER -> CASE Len(p) = 2 /\ method = "GET"    -> "getProcess"
                  [] Len(p) = 2 /\ method = "DELETE" -> "killProcess"
                  [] Len(p) = 3 /\ method = "GET"    ->
                       IF p[3] = "logs" THEN "getProcessLogs" ELSE "streamProcessLogs"
                  [] OTHER -> "invalid"

PortHandler(method, p) ==
  CASE p = << "expose-port" >>   -> "exposePort"
    [] p = << "port-watch" >>    -> "watchPort"
    [] p = << "exposed-ports" >> -> "getExposedPorts"
    [] Len(p) = 2 /\ p[1] = "exposed-ports" /\ method = "DELETE" -> "unexposePort"
    [] Len(p) = 2 /\ p[1] = "proxy" -> "proxy"
    [] OTHER -> "invalid"

InterpreterHandler(method, p) ==
  CASE p = << "interpreter", "health" >> -> "health"
    [] p = << "contexts" >> /\ method = "POST" -> "createCodeContext"
    [] p = << "contexts" >> /\ method = "GET"  -> "listCodeContexts"
    [] Len(p) = 2 /\ p[1] = "contexts" /\ method = "DELETE" -> "deleteCodeContext"
    [] p = << "execute", "code" >> /\ method = "POST" -> "runCode"
    [] OTHER -> "invalid"

MiscHandler(p) ==
  CASE p = << "/" >> -> "root"
    [] p \in {<< "health" >>, << "ping" >>} -> "ping"
    [] p = << "shutdown" >> -> "shutdown"
    [] p = << "version" >>  -> "getVersion"
    [] OTHER -> "invalid"

\* What the container does of a request.
Dispatch(r) ==
  LET p == IF Head(r.path) = "api" THEN Tail(r.path) ELSE r.path
      h == MatchRoute(r)
  IN CASE h = "session"     -> SessionHandler(p)
       [] h = "execute"     -> ExecuteHandler(p)
       [] h = "file"        -> FileHandler(p)
       [] h = "process"     -> ProcessHandler(r.method, p)
       [] h = "port"        -> PortHandler(r.method, p)
       [] h = "interpreter" -> InterpreterHandler(r.method, p)
       [] h = "git"         -> "checkout"
       [] h = "misc"        -> MiscHandler(p)
       [] OTHER -> "invalid"

-----------------------------------------------------------------------------
(* Errors *)

\* The codes the service of an operation answers with.
FileErrors(op) ==
  LET any == {"VALIDATION_FAILED", "FILESYSTEM_ERROR"}
  IN CASE op \in {"readFile"}   -> any \cup {"FILE_NOT_FOUND"}
       [] op = "deleteFile"     -> any \cup {"FILE_NOT_FOUND", "IS_DIRECTORY"}
       [] op \in {"renameFile", "moveFile"} ->
            {"SECURITY_VALIDATION_FAILED", "FILE_NOT_FOUND", "FILESYSTEM_ERROR"}
       [] op = "listFiles"      -> any \cup {"FILE_NOT_FOUND", "NOT_DIRECTORY"}
       [] op = "readFileStream" -> {}  \* events of its stream
       [] OTHER -> any

ProcessErrors(op) ==
  CASE op = "startProcess" -> {"STREAM_START_ERROR"}
    [] op \in {"listProcesses", "killAllProcesses"} -> {"PROCESS_ERROR"}
    [] OTHER -> {"PROCESS_NOT_FOUND", "PROCESS_ERROR"}

PortErrors(op) ==
  CASE op = "exposePort"   -> {"INVALID_PORT_NUMBER", "PORT_ALREADY_EXPOSED", "PORT_OPERATION_ERROR"}
    [] op = "unexposePort" -> {"PORT_NOT_EXPOSED", "PORT_OPERATION_ERROR"}
    [] op = "watchPort"    -> {}
    [] OTHER -> {"PORT_OPERATION_ERROR"}

GitErrors == {"INVALID_GIT_URL", "VALIDATION_FAILED", "GIT_REPOSITORY_NOT_FOUND",
              "GIT_AUTH_FAILED", "GIT_BRANCH_NOT_FOUND", "GIT_CLONE_FAILED", "GIT_OPERATION_FAILED"}

InterpreterErrors(op) ==
  CASE op = "createCodeContext" -> {"PYTHON_NOT_AVAILABLE", "INTERNAL_ERROR"}
    [] op = "runCode" -> {"uncoded", "terminated"}  \* no code where the client looks for one; the
                                                   \* executor of the context has exited
    [] OTHER -> {"INTERNAL_ERROR"}

Errors(op) ==
  CASE op \in DOMAIN FileClient -> FileErrors(op)
    [] op \in DOMAIN ProcessClient("id") -> ProcessErrors(op)
    [] op \in DOMAIN PortClient("id") -> PortErrors(op)
    [] op \in DOMAIN InterpreterClient("id") -> InterpreterErrors(op)
    [] op = "checkout" -> GitErrors
    [] op = "execute" -> {"COMMAND_EXECUTION_ERROR"}
    [] op = "executeStream" -> {"STREAM_START_ERROR"}
    [] op \in {"createSession", "deleteSession"} -> {"INTERNAL_ERROR"}
    [] OTHER -> {}

\* getHttpStatus: of the codes above, and of what is no ErrorCode.
Status(code) ==
  CASE code \in {"FILE_NOT_FOUND", "PROCESS_NOT_FOUND", "PORT_NOT_EXPOSED", "CONTEXT_NOT_FOUND",
                 "GIT_REPOSITORY_NOT_FOUND", "GIT_BRANCH_NOT_FOUND"} -> 404
    [] code \in {"IS_DIRECTORY", "NOT_DIRECTORY", "INVALID_PORT_NUMBER", "INVALID_GIT_URL",
                 "VALIDATION_FAILED"} -> 400
    [] code = "GIT_AUTH_FAILED" -> 401
    [] code \in {"PORT_ALREADY_EXPOSED", "SESSION_ALREADY_EXISTS"} -> 409
    [] code = "PYTHON_NOT_AVAILABLE" -> 501
    [] OTHER -> 500

\* createErrorFromResponse
ErrorClass(code) ==
  CASE code = "FILE_NOT_FOUND" -> "FileNotFoundError"
    [] code \in {"IS_DIRECTORY", "NOT_DIRECTORY", "FILESYSTEM_ERROR"} -> "FileSystemError"
    [] code \in {"COMMAND_EXECUTION_ERROR", "STREAM_START_ERROR"} -> "CommandError"
    [] code = "PROCESS_NOT_FOUND" -> "ProcessNotFoundError"
    [] code = "PROCESS_ERROR" -> "ProcessError"
    [] code = "SESSION_ALREADY_EXISTS" -> "SessionAlreadyExistsError"
    [] code = "PORT_ALREADY_EXPOSED" -> "PortAlreadyExposedError"
    [] code = "PORT_NOT_EXPOSED" -> "PortNotExposedError"
    [] code = "INVALID_PORT_NUMBER" -> "InvalidPortError"
    [] code = "PORT_OPERATION_ERROR" -> "PortError"
    [] code = "GIT_REPOSITORY_NOT_FOUND" -> "GitRepositoryNotFoundError"
    [] code = "GIT_AUTH_FAILED" -> "GitAuthenticationError"
    [] code = "GIT_BRANCH_NOT_FOUND" -> "GitBranchNotFoundError"
    [] code = "GIT_CLONE_FAILED" -> "GitCloneError"
    [] code = "INVALID_GIT_URL" -> "InvalidGitUrlError"
    [] code = "GIT_OPERATION_FAILED" -> "GitError"
    [] code = "CONTEXT_NOT_FOUND" -> "ContextNotFoundError"
    [] code = "VALIDATION_FAILED" -> "ValidationFailedError"
    [] OTHER -> "SandboxError"
=============================================================================
