------------------------------ MODULE SandboxDO ------------------------------
(***************************************************************************)
(* The Durable Object of a sandbox (packages/sandbox/src/sandbox.ts): the  *)
(* tokens of exposed ports and the visits of their preview URLs, bucket    *)
(* mounts, the default session, and the container they refer to, which     *)
(* stops and comes back empty.                                             *)
(*                                                                         *)
(* Requests to the container let other calls run; accesses to storage do   *)
(* not (input gates).  What a call does between two requests is therefore  *)
(* one action, with the storage it reads and writes.                       *)
(***************************************************************************)
EXTENDS PreviewUrl

CONSTANTS
  Calls,        \* the calls clients make, and the visits of preview URLs
  Name,         \* the name of the sandbox
  Paths,        \* mount paths
  None,         \* no token, no operation
  Ops,          \* the operations clients use
  RequestsFail, \* may requests to the container fail?
  MaxStops,     \* bound: stops of the container
  MaxRestarts   \* bound: restarts of the Durable Object alone

AllOps == {"expose", "unexpose", "visit", "mount", "unmount"}

ASSUME NameAssumption  == Name \in Seq(Words) /\ Sanitary(Name) /\ Lowercase(Name) = Name
ASSUME NoneAssumption  == None \notin Tokens
ASSUME OpsAssumption   == Ops \subseteq AllOps
ASSUME FlagAssumption  == RequestsFail \in BOOLEAN
ASSUME BoundAssumption == MaxStops \in Nat /\ MaxRestarts \in Nat

VARIABLES
  \* the calls
  op,             \* op[c]: what call c asks for
  arg,            \* arg[c]: its port or path
  token,          \* token[c]: the token it exposes its port with, or comes with
  tokens,         \* tokens[c]: exposePort's copy of the stored tokens
  pc,             \* pc[c]: what call c waits for
  todo,           \* todo[c]: the request it makes, or makes once it has a session
  reply,          \* reply[c]: the container's reply, until c has seen it
  \* the Durable Object
  defaultSession, \* is this.defaultSession set?
  activeMounts,   \* activeMounts[p]: the entry of path p
  portTokens,     \* storage: the token of each port
  storedSession,  \* storage: is there a default session?
  \* the container
  exposedPorts,   \* the ports in its PortStore
  s3fs,           \* paths on which a bucket is mounted
  stops,
  restarts

callVars == << op, arg, token, tokens, pc, todo, reply >>
doVars   == << defaultSession, activeMounts, portTokens, storedSession >>
boxVars  == << exposedPorts, s3fs >>
vars     == << callVars, doVars, boxVars, stops, restarts >>

PcStates ==
  {"idle",      \* not made yet
   "session",   \* ensureDefaultSession awaits createSession
   "request",   \* awaits the request todo
   "orphaned",  \* its Durable Object went away after the request was sent
   "done"}

\* The requests each operation makes.  "prepare" stands for the password file
\* (write, chmod) and mkdir, whose exit codes nobody looks at.
Requests ==
  {<< "expose", "expose" >>, << "unexpose", "unexpose" >>,
   << "visit", "list" >>, << "visit", "proxy" >>,
   << "mount", "prepare" >>, << "mount", "s3fs" >>, << "mount", "rm" >>,
   << "unmount", "fusermount" >>, << "unmount", "rm" >>}

AllRequests == {"expose", "unexpose", "list", "proxy", "prepare", "s3fs", "rm", "fusermount"}

Replies == {"none", "ok", "nonzero", "listed", "unlisted", "rejected", "failed"}

TokenMaps == [Ports -> Tokens \cup {None}]

TypeOK ==
  /\ op \in [Calls -> Ops \cup {None}]
  /\ arg \in [Calls -> Ports \cup Paths \cup {None}]
  /\ token \in [Calls -> Tokens \cup {None}]
  /\ tokens \in [Calls -> TokenMaps]
  /\ pc \in [Calls -> PcStates]
  /\ todo \in [Calls -> AllRequests \cup {None}]
  /\ reply \in [Calls -> Replies]
  /\ defaultSession \in BOOLEAN
  /\ activeMounts \in [Paths -> {"none", "reserved", "mounted"}]
  /\ portTokens \in TokenMaps
  /\ storedSession \in BOOLEAN
  /\ exposedPorts \subseteq Ports
  /\ s3fs \subseteq Paths
  /\ stops \in 0..MaxStops
  /\ restarts \in 0..MaxRestarts
  \* A call waits for one of the requests of its operation.
  /\ \A c \in Calls : pc[c] \in {"session", "request", "orphaned"} =>
        /\ << op[c], todo[c] >> \in Requests
        /\ arg[c] \in IF op[c] \in {"mount", "unmount"} THEN Paths ELSE Ports
        /\ op[c] \in {"expose", "visit"} => token[c] \in Tokens

NoTokens == [p \in Ports |-> None]

Init ==
  /\ op = [c \in Calls |-> None]
  /\ arg = [c \in Calls |-> None]
  /\ token = [c \in Calls |-> None]
  /\ tokens = [c \in Calls |-> NoTokens]
  /\ pc = [c \in Calls |-> "idle"]
  /\ todo = [c \in Calls |-> None]
  /\ reply = [c \in Calls |-> "none"]
  /\ defaultSession = FALSE
  /\ activeMounts = [p \in Paths |-> "none"]
  /\ portTokens = NoTokens
  /\ storedSession = FALSE
  /\ exposedPorts = {}
  /\ s3fs = {}
  /\ stops = 0
  /\ restarts = 0

-----------------------------------------------------------------------------
(* Requests to the container *)

\* Make a request; ensureDefaultSession makes another one first, unless this
\* object knows its session.
Ask(c, request) ==
  /\ pc' = [pc EXCEPT ![c] = IF defaultSession THEN "request" ELSE "session"]
  /\ todo' = [todo EXCEPT ![c] = request]
  /\ reply' = [reply EXCEPT ![c] = "none"]

\* The call returns or throws.
End(c) ==
  /\ pc' = [pc EXCEPT ![c] = "done"]
  /\ UNCHANGED << todo, reply >>

Waiting(c) == pc[c] \in {"session", "request"}

\* The await of the request returned, or threw.
Returned(c, request, replies) ==
  /\ pc[c] = "request"
  /\ todo[c] = request
  /\ reply[c] \in replies

Threw(c, request) ==
  /\ Waiting(c)
  /\ todo[c] = request
  /\ reply[c] \in {"rejected", "failed"}

\* createSession: a new session, or SESSION_ALREADY_EXISTS, which is as good.
\* The request that wanted it is made at once.
SessionReady(c) ==
  /\ pc[c] = "session"
  /\ reply[c] = "ok"
  /\ defaultSession' = TRUE
  /\ storedSession' = TRUE
  /\ pc' = [pc EXCEPT ![c] = "request"]
  /\ reply' = [reply EXCEPT ![c] = "none"]
  /\ UNCHANGED << op, arg, token, tokens, todo, activeMounts, portTokens,
                  boxVars, stops, restarts >>

\* The container's side.  Its handlers await only what is already resolved.
Serve(c) ==
  \/ /\ pc[c] = "session"
     /\ reply' = [reply EXCEPT ![c] = "ok"]
     /\ UNCHANGED boxVars
  \/ /\ pc[c] \in {"request", "orphaned"}
     /\ \/ /\ todo[c] = "expose"
           /\ reply' = [reply EXCEPT ![c] =
                          IF arg[c] \in exposedPorts THEN "rejected" ELSE "ok"]
           /\ exposedPorts' = exposedPorts \cup {arg[c]}
           /\ UNCHANGED s3fs
        \/ /\ todo[c] = "unexpose"
           /\ reply' = [reply EXCEPT ![c] =
                          IF arg[c] \in exposedPorts THEN "ok" ELSE "rejected"]
           /\ exposedPorts' = exposedPorts \ {arg[c]}
           /\ UNCHANGED s3fs
        \/ /\ todo[c] = "list"
           /\ reply' = [reply EXCEPT ![c] =
                          IF arg[c] \in exposedPorts THEN "listed" ELSE "unlisted"]
           /\ UNCHANGED boxVars
        \/ /\ todo[c] \in {"proxy", "prepare", "rm"}
           /\ reply' = [reply EXCEPT ![c] = "ok"]
           /\ UNCHANGED boxVars
        \/ /\ todo[c] = "s3fs"
           /\ arg[c] \notin s3fs
           /\ reply' = [reply EXCEPT ![c] = "ok"]
           /\ s3fs' = s3fs \cup {arg[c]}
           /\ UNCHANGED exposedPorts
        \/ /\ todo[c] = "fusermount"
           /\ arg[c] \in s3fs
           /\ reply' = [reply EXCEPT ![c] = "ok"]
           /\ s3fs' = s3fs \ {arg[c]}
           /\ UNCHANGED exposedPorts
        \* the bucket cannot be reached; the path is busy, or not mounted
        \/ /\ todo[c] \in {"s3fs", "fusermount"}
           /\ reply' = [reply EXCEPT ![c] = "nonzero"]
           /\ UNCHANGED boxVars

Handle(c) ==
  /\ reply[c] = "none"
  /\ Serve(c)
  /\ UNCHANGED << op, arg, token, tokens, pc, todo, doVars, stops, restarts >>

\* The connection fails, before the container has served the request or after.
Fail(c) ==
  /\ RequestsFail
  /\ Waiting(c)
  /\ reply[c] # "failed"
  /\ reply' = [reply EXCEPT ![c] = "failed"]
  /\ UNCHANGED << op, arg, token, tokens, pc, todo, doVars, boxVars, stops,
                  restarts >>

-----------------------------------------------------------------------------
(* Ports *)

\* No other port of the map uses the token.
Free(map, p, t) == \A q \in Ports \ {p} : map[q] # t

\* Mutant of CallExpose: the token is stored before the container is asked.
CallExposeStoring(c) ==
  /\ \E p \in Ports, t \in Tokens :
       /\ op' = [op EXCEPT ![c] = "expose"]
       /\ arg' = [arg EXCEPT ![c] = p]
       /\ token' = [token EXCEPT ![c] = t]
       /\ tokens' = [tokens EXCEPT ![c] = portTokens]
       /\ \/ /\ Free(portTokens, p, t)
             /\ portTokens' = [portTokens EXCEPT ![p] = t]
             /\ Ask(c, "expose")
          \/ ~ Free(portTokens, p, t) /\ End(c) /\ UNCHANGED portTokens
  /\ UNCHANGED << defaultSession, activeMounts, storedSession, boxVars, stops, restarts >>

\* exposePort reads the tokens and refuses one that another port has.
CallExpose(c) ==
  /\ \E p \in Ports, t \in Tokens :
       /\ op' = [op EXCEPT ![c] = "expose"]
       /\ arg' = [arg EXCEPT ![c] = p]
       /\ token' = [token EXCEPT ![c] = t]
       /\ tokens' = [tokens EXCEPT ![c] = portTokens]
       /\ \/ Free(portTokens, p, t) /\ Ask(c, "expose")
          \/ ~ Free(portTokens, p, t) /\ End(c)
  /\ UNCHANGED << doVars, boxVars, stops, restarts >>

\* Mutant of Exposed: the tokens are read again after the request, which no
\* longer loses what others wrote meanwhile, but was never checked.
ExposedReadsAgain(c) ==
  /\ Returned(c, "expose", {"ok"})
  /\ portTokens' = [portTokens EXCEPT ![arg[c]] = token[c]]
  /\ End(c)
  /\ UNCHANGED << op, arg, token, tokens, defaultSession, activeMounts,
                  storedSession, boxVars, stops, restarts >>

\* The container has exposed the port: exposePort writes the map it read, with
\* its token added.
Exposed(c) ==
  /\ Returned(c, "expose", {"ok"})
  /\ portTokens' = [tokens[c] EXCEPT ![arg[c]] = token[c]]
  /\ End(c)
  /\ UNCHANGED << op, arg, token, tokens, defaultSession, activeMounts,
                  storedSession, boxVars, stops, restarts >>

CallUnexpose(c) ==
  /\ \E p \in Ports :
       /\ op' = [op EXCEPT ![c] = "unexpose"]
       /\ arg' = [arg EXCEPT ![c] = p]
       /\ Ask(c, "unexpose")
  /\ UNCHANGED << token, tokens, doVars, boxVars, stops, restarts >>

Unexposed(c) ==
  /\ Returned(c, "unexpose", {"ok"})
  /\ portTokens' = [portTokens EXCEPT ![arg[c]] = None]
  /\ End(c)
  /\ UNCHANGED << op, arg, token, tokens, defaultSession, activeMounts,
                  storedSession, boxVars, stops, restarts >>

\* Either throws when the container refuses or cannot be reached.
PortCallThrows(c) ==
  /\ Threw(c, "expose") \/ Threw(c, "unexpose")
  /\ End(c)
  /\ UNCHANGED << op, arg, token, tokens, doVars, boxVars, stops, restarts >>

-----------------------------------------------------------------------------
(* Visits *)

\* proxyToSandbox: the Worker reads port, sandbox and token from the URL, and
\* has the object of that name validate the token.
CallVisit(c) ==
  /\ \E p \in Ports, t \in Tokens :
       LET url   == UrlOf(p, Name, t)
           route == RouteOf(url)
       IN
         /\ IsRoute(url)
         /\ op' = [op EXCEPT ![c] = "visit"]
         /\ arg' = [arg EXCEPT ![c] = route.port]
         /\ token' = [token EXCEPT ![c] = route.token]
         /\ Ask(c, "list")
  /\ UNCHANGED << tokens, doVars, boxVars, stops, restarts >>

\* validatePortToken: the container lists the port, and storage has this token
\* for it by then.  The request is forwarded to the port.
Admitted(c) ==
  /\ Returned(c, "list", {"listed"})
  /\ portTokens[arg[c]] = token[c]
  /\ todo' = [todo EXCEPT ![c] = "proxy"]
  /\ reply' = [reply EXCEPT ![c] = "none"]
  /\ UNCHANGED << op, arg, token, tokens, pc, doVars, boxVars, stops, restarts >>

\* Otherwise it is not; isPortExposed takes a request that fails for a no.
Denied(c) ==
  /\ \/ Returned(c, "list", {"listed"}) /\ portTokens[arg[c]] # token[c]
     \/ Returned(c, "list", {"unlisted"})
     \/ Threw(c, "list")
  /\ End(c)
  /\ UNCHANGED << op, arg, token, tokens, doVars, boxVars, stops, restarts >>

Proxied(c) ==
  /\ Returned(c, "proxy", {"ok"}) \/ Threw(c, "proxy")
  /\ End(c)
  /\ UNCHANGED << op, arg, token, tokens, doVars, boxVars, stops, restarts >>

-----------------------------------------------------------------------------
(* Bucket mounts *)

SetMount(p, entry) == activeMounts' = [activeMounts EXCEPT ![p] = entry]

\* mountBucket reserves the path before its first request.
CallMount(c) ==
  /\ \E p \in Paths :
       /\ op' = [op EXCEPT ![c] = "mount"]
       /\ arg' = [arg EXCEPT ![c] = p]
       /\ \/ /\ activeMounts[p] = "none"
             /\ SetMount(p, "reserved")
             /\ Ask(c, "prepare")
          \/ /\ activeMounts[p] # "none"
             /\ End(c)
             /\ UNCHANGED activeMounts
  /\ UNCHANGED << token, tokens, defaultSession, portTokens, storedSession,
                  boxVars, stops, restarts >>

Prepared(c) ==
  /\ Returned(c, "prepare", {"ok"})
  /\ Ask(c, "s3fs")
  /\ UNCHANGED << op, arg, token, tokens, doVars, boxVars, stops, restarts >>

Mounted(c) ==
  /\ Returned(c, "s3fs", {"ok"})
  /\ SetMount(arg[c], "mounted")
  /\ End(c)
  /\ UNCHANGED << op, arg, token, tokens, defaultSession, portTokens,
                  storedSession, boxVars, stops, restarts >>

\* Any failure of mountBucket: the password file is deleted first.
MountFails(c) ==
  /\ \/ Threw(c, "prepare")
     \/ Threw(c, "s3fs")
     \/ Returned(c, "s3fs", {"nonzero"})
  /\ Ask(c, "rm")
  /\ UNCHANGED << op, arg, token, tokens, doVars, boxVars, stops, restarts >>

\* Mutant of MountGivenUp: a failure to delete the password file is not caught
\* and skips the deletion of the reservation.
MountGivenUpUncaught(c) ==
  /\ op[c] = "mount"
  /\ Returned(c, "rm", {"ok"}) \/ Threw(c, "rm")
  /\ IF reply[c] = "ok" THEN SetMount(arg[c], "none") ELSE UNCHANGED activeMounts
  /\ End(c)
  /\ UNCHANGED << op, arg, token, tokens, defaultSession, portTokens,
                  storedSession, boxVars, stops, restarts >>

\* Then the reservation goes, whether or not the file could be deleted.
MountGivenUp(c) ==
  /\ op[c] = "mount"
  /\ Returned(c, "rm", {"ok"}) \/ Threw(c, "rm")
  /\ SetMount(arg[c], "none")
  /\ End(c)
  /\ UNCHANGED << op, arg, token, tokens, defaultSession, portTokens,
                  storedSession, boxVars, stops, restarts >>

\* unmountBucket only asks whether the path has an entry.
CallUnmount(c) ==
  /\ \E p \in Paths :
       /\ op' = [op EXCEPT ![c] = "unmount"]
       /\ arg' = [arg EXCEPT ![c] = p]
       /\ \/ activeMounts[p] # "none" /\ Ask(c, "fusermount")
          \/ activeMounts[p] = "none" /\ End(c)
  /\ UNCHANGED << token, tokens, doVars, boxVars, stops, restarts >>

\* exec throws when the request does, not when the command's exit code says no.
Unmounted(c) ==
  /\ Returned(c, "fusermount", {"ok", "nonzero"})
  /\ SetMount(arg[c], "none")
  /\ Ask(c, "rm")
  /\ UNCHANGED << op, arg, token, tokens, defaultSession, portTokens,
                  storedSession, boxVars, stops, restarts >>

UnmountThrows(c) ==
  /\ Threw(c, "fusermount")
  /\ Ask(c, "rm")
  /\ UNCHANGED << op, arg, token, tokens, doVars, boxVars, stops, restarts >>

UnmountEnds(c) ==
  /\ op[c] = "unmount"
  /\ Returned(c, "rm", {"ok"}) \/ Threw(c, "rm")
  /\ End(c)
  /\ UNCHANGED << op, arg, token, tokens, doVars, boxVars, stops, restarts >>

-----------------------------------------------------------------------------
(* Stops and restarts *)

\* The container stops and onStop runs.  Requests that are under way may still
\* be served, by the container that starts next.
Stop ==
  /\ stops < MaxStops
  /\ stops' = stops + 1
  /\ exposedPorts' = {}
  /\ s3fs' = {}
  /\ defaultSession' = FALSE
  /\ activeMounts' = [p \in Paths |-> "none"]
  /\ portTokens' = NoTokens
  /\ storedSession' = FALSE
  /\ UNCHANGED << callVars, restarts >>

\* The Durable Object is replaced by a new instance: memory and calls are gone,
\* requests that were sent are not.  The constructor reads the session.
Restart ==
  /\ restarts < MaxRestarts
  /\ restarts' = restarts + 1
  /\ defaultSession' = storedSession
  /\ activeMounts' = [p \in Paths |-> "none"]
  /\ pc' = [c \in Calls |-> CASE pc[c] = "session" -> "done"
                              [] pc[c] = "request" -> "orphaned"
                              [] OTHER -> pc[c]]
  /\ UNCHANGED << op, arg, token, tokens, todo, reply, portTokens,
                  storedSession, boxVars, stops >>

-----------------------------------------------------------------------------

NewCall(c) ==
  /\ pc[c] = "idle"
  /\ \/ "expose" \in Ops /\ CallExpose(c)
     \/ "unexpose" \in Ops /\ CallUnexpose(c)
     \/ "visit" \in Ops /\ CallVisit(c)
     \/ "mount" \in Ops /\ CallMount(c)
     \/ "unmount" \in Ops /\ CallUnmount(c)

Continue(c) ==
  \/ SessionReady(c)
  \/ Exposed(c) \/ Unexposed(c) \/ PortCallThrows(c)
  \/ Admitted(c) \/ Denied(c) \/ Proxied(c)
  \/ Prepared(c) \/ Mounted(c) \/ MountFails(c) \/ MountGivenUp(c)
  \/ Unmounted(c) \/ UnmountThrows(c) \/ UnmountEnds(c)

Next ==
  \/ \E c \in Calls : NewCall(c) \/ Handle(c) \/ Fail(c) \/ Continue(c)
  \/ Stop
  \/ Restart

Spec == Init /\ [][Next]_vars

-----------------------------------------------------------------------------
(* Properties *)

\* No two ports have the same token (sandbox.ts:2170), although exposePort
\* checks this before its requests and writes after them.  What keeps it true
\* is that it writes the map it has checked.
UniqueIn(map) == \A p \in Ports : map[p] # None => Free(map, p, map[p])

TokensUnique == UniqueIn(portTokens)

\* The token was stored for the port by an exposePort to which the container had
\* answered yes.
Issued(p, t) ==
  \E d \in Calls :
    op[d] = "expose" /\ arg[d] = p /\ token[d] = t /\ pc[d] = "done" /\ reply[d] = "ok"

\* A visit reaches a port only with a token that an exposePort of that port has
\* chosen and has been granted (sandbox.ts:2272-2300): not with that of a call
\* that was refused, failed or has not ended, although tokens are written from
\* copies that were read some requests ago.
VisitsIssued ==
  \A c \in Calls : op[c] = "visit" /\ todo[c] = "proxy" => Issued(arg[c], token[c])

\* A path is never left reserved: an entry that is not mounted is that of a
\* mountBucket which is still at work, in whatever order mounts, unmounts,
\* failures and stops came (sandbox.ts:490-534).
NoOrphanReservation ==
  \A p \in Paths : activeMounts[p] = "reserved" =>
    \E c \in Calls : op[c] = "mount" /\ arg[c] = p /\ Waiting(c)

Quiescent == \A c \in Calls : ~ Waiting(c)

\* "Port is exposed but has no token.  This should not happen."
\* (sandbox.ts:2240), at least not once all calls have ended.
\* Not kept by the code (README, "Where the code does not do what it says").
ExposedHaveTokens ==
  Quiescent => \A p \in exposedPorts : portTokens[p] # None

\* "Only remove from tracking if unmount succeeded" (sandbox.ts:561): what is
\* mounted when all calls have ended is tracked.
\* Not kept by the code (README, "Where the code does not do what it says").
MountsTracked ==
  Quiescent => \A p \in s3fs : activeMounts[p] # "none"

=============================================================================
