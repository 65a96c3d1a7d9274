----------------------------- MODULE WsTransport -----------------------------
(***************************************************************************)
(* The WebSocket transport of the SDK (packages/sandbox/src/clients/       *)
(* transport/ws-transport.ts) and the other end of its socket              *)
(* (packages/sandbox-container/src/handlers/ws-adapter.ts): the shared     *)
(* connection attempt, requests and streams that are matched by id, their  *)
(* timers, a socket that closes, disconnect.                               *)
(*                                                                         *)
(* An attempt to connect and the socket it makes share a number.  The      *)
(* continuations of connect() are microtasks: events and timers wait for   *)
(* them (Quiet), while new calls and disconnect() may come from one.  For  *)
(* the same reason a rejected promise has run the catch of connect() when  *)
(* anybody runs again.                                                     *)
(***************************************************************************)
EXTENDS Naturals, Sequences, FiniteSets

CONSTANTS
  Calls,          \* fetches and streams clients ask for
  Streams,        \* the calls that are streams
  None,           \* no socket, no attempt
  MaxChunks,      \* bound: chunks of a stream
  MaxDisconnects  \* bound: calls of disconnect()

ASSUME StreamsAssumption == Streams \subseteq Calls /\ IsFiniteSet(Calls)
ASSUME BoundAssumption   == MaxChunks \in Nat /\ MaxDisconnects \in Nat
ASSUME NoneAssumption    == None \notin Nat

\* Every call starts at most one attempt of its own, a disconnect one more.
Sockets == 1..(Cardinality(Calls) + MaxDisconnects)

VARIABLES
  \* the transport
  mode,            \* "fetch": connectViaFetch, "standard": connectViaWebSocket
  state,           \* this.state
  ws,              \* this.ws
  connectPromise,  \* this.connectPromise: an attempt
  pending,         \* pending[r]: is r in pendingRequests, its timer running?
  attempt,         \* attempt[k]: the promise of the k-th doConnect
  sock,            \* sock[k]: the readyState of socket k
  listening,       \* listening[k]: are the close and message handlers on it?
  disconnects,
  \* the calls
  pc,              \* pc[r]: what call r waits for
  round,           \* round[r]: how often it still calls connect()
  at,              \* at[r]: the attempt it awaits, None when connect() returned
  via,             \* via[r]: the socket it was sent on
  got,             \* got[r]: chunks its stream was given
  \* the container
  srv,             \* srv[r]: the adapter's handling of r
  emitted,         \* emitted[r]: chunks it has sent
  inbox            \* inbox[k]: messages on their way to the client

connVars == << mode, state, ws, connectPromise, attempt, sock, listening >>
callVars == << pc, round, at, via, got >>
srvVars  == << srv, emitted >>
vars == << connVars, pending, disconnects, callVars, srvVars, inbox >>

PcStates == {"idle", "await", "waiting", "ok", "failed", "cancelled"}

Settled == {"ok", "failed", "cancelled"}

Messages ==
  [type : {"chunk"}, id : Streams, n : 1..MaxChunks]
    \cup [type : {"response"}, id : Calls, good : BOOLEAN]
    \cup [type : {"error"}, id : Calls]

TypeOK ==
  /\ mode \in {"fetch", "standard"}
  /\ state \in {"disconnected", "connecting", "connected", "error"}
  /\ ws \in Sockets \cup {None}
  /\ connectPromise \in Sockets \cup {None}
  /\ pending \in [Calls -> BOOLEAN]
  /\ attempt \in [Sockets -> {"none", "pending", "resolved", "rejected"}]
  /\ sock \in [Sockets -> {"none", "connecting", "open", "closing", "failed", "closed"}]
  /\ listening \in [Sockets -> BOOLEAN]
  /\ disconnects \in 0..MaxDisconnects
  /\ pc \in [Calls -> PcStates]
  /\ round \in [Calls -> 0..2]
  /\ at \in [Calls -> Sockets \cup {None}]
  /\ via \in [Calls -> Sockets \cup {None}]
  /\ got \in [Calls -> Seq(1..MaxChunks)]
  /\ srv \in [Calls -> {"none", "sent", "done"}]
  /\ emitted \in [Calls -> 0..MaxChunks]
  /\ inbox \in [Sockets -> Seq(Messages)]
  \* this.ws and the sockets with handlers exist
  /\ ws # None => sock[ws] # "none"
  /\ \A k \in Sockets : listening[k] => sock[k] # "none"

Init ==
  /\ mode \in {"fetch", "standard"}
  /\ state = "disconnected"
  /\ ws = None
  /\ connectPromise = None
  /\ pending = [r \in Calls |-> FALSE]
  /\ attempt = [k \in Sockets |-> "none"]
  /\ sock = [k \in Sockets |-> "none"]
  /\ listening = [k \in Sockets |-> FALSE]
  /\ disconnects = 0
  /\ pc = [r \in Calls |-> "idle"]
  /\ round = [r \in Calls |-> 0]
  /\ at = [r \in Calls |-> None]
  /\ via = [r \in Calls |-> None]
  /\ got = [r \in Calls |-> << >>]
  /\ srv = [r \in Calls |-> "none"]
  /\ emitted = [r \in Calls |-> 0]
  /\ inbox = [k \in Sockets |-> << >>]

-----------------------------------------------------------------------------
(* connect() *)

IsOpen(k) == k # None /\ sock[k] = "open"

isConnected == state = "connected" /\ IsOpen(ws)

\* Mutant of Joins: a caller does not look for an attempt in progress.
NeverJoins == FALSE

\* connect() awaits the attempt it finds.
Joins == connectPromise # None

\* Mutant of NewSocket: connectViaFetch sets this.ws before the upgrade.
NewSocketEarly(k) ==
  /\ ws' = k
  /\ UNCHANGED << sock, listening >>

\* connectViaWebSocket makes a socket at once, connectViaFetch when stub.fetch
\* has returned.
NewSocket(k) ==
  IF mode = "standard"
  THEN /\ ws' = k
       /\ sock' = [sock EXCEPT ![k] = "connecting"]
       /\ listening' = [listening EXCEPT ![k] = TRUE]
  ELSE UNCHANGED << ws, sock, listening >>

\* doConnect.
StartAttempt(k) ==
  /\ attempt[k] = "none"
  /\ \A j \in Sockets : j < k => attempt[j] # "none"
  /\ attempt' = [attempt EXCEPT ![k] = "pending"]
  /\ connectPromise' = k
  /\ state' = "connecting"
  /\ NewSocket(k)
  /\ UNCHANGED mode

\* Call r calls connect(): it returns, or awaits an attempt, maybe its own.
connect(r) ==
  /\ pc' = [pc EXCEPT ![r] = "await"]
  /\ \/ /\ isConnected
        /\ at' = [at EXCEPT ![r] = None]
        /\ UNCHANGED connVars
     \/ /\ ~ isConnected
        /\ Joins
        /\ at' = [at EXCEPT ![r] = connectPromise]
        /\ UNCHANGED connVars
     \/ /\ ~ isConnected
        /\ ~ Joins
        /\ \E k \in Sockets : StartAttempt(k) /\ at' = [at EXCEPT ![r] = k]
  /\ UNCHANGED << via, got >>

\* fetch and fetchStream.  doFetch connects, and so does request() after it.
Ask(r) ==
  /\ pc[r] = "idle"
  /\ connect(r)
  /\ round' = [round EXCEPT ![r] = IF r \in Streams THEN 0 ELSE 1]
  /\ UNCHANGED << pending, disconnects, srvVars, inbox >>

Connected(r) ==
  /\ pc[r] = "await"
  /\ at[r] # None => attempt[at[r]] = "resolved"

AskAgain(r) ==
  /\ Connected(r)
  /\ round[r] > 0
  /\ connect(r)
  /\ round' = [round EXCEPT ![r] = @ - 1]
  /\ UNCHANGED << pending, disconnects, srvVars, inbox >>

\* request() and requestStream(): the entry, the timer, and send(), which
\* throws when the socket is not open.
Send(r) ==
  /\ Connected(r)
  /\ round[r] = 0
  /\ IF IsOpen(ws)
     THEN /\ pc' = [pc EXCEPT ![r] = "waiting"]
          /\ pending' = [pending EXCEPT ![r] = TRUE]
          /\ via' = [via EXCEPT ![r] = ws]
          /\ srv' = [srv EXCEPT ![r] = "sent"]
     ELSE /\ pc' = [pc EXCEPT ![r] = "failed"]
          /\ UNCHANGED << pending, via, srv >>
  /\ at' = [at EXCEPT ![r] = None]
  /\ UNCHANGED << connVars, disconnects, round, got, emitted, inbox >>

\* The attempt it awaited has failed.
Refused(r) ==
  /\ pc[r] = "await"
  /\ at[r] # None /\ attempt[at[r]] = "rejected"
  /\ pc' = [pc EXCEPT ![r] = "failed"]
  /\ at' = [at EXCEPT ![r] = None]
  /\ round' = [round EXCEPT ![r] = 0]
  /\ UNCHANGED << connVars, pending, disconnects, via, got, srvVars, inbox >>

-----------------------------------------------------------------------------
(* The socket's events *)

\* No microtask is due.
Quiet ==
  \A r \in Calls : pc[r] = "await" => at[r] # None /\ attempt[at[r]] = "pending"

\* Mutant of Rejects: the promise is dropped and never rejected.
NeverRejects(k) ==
  /\ connectPromise' = IF attempt[k] = "pending" THEN None ELSE connectPromise
  /\ UNCHANGED attempt

\* The attempt is rejected, and the catch of connect() clears the promise,
\* whichever attempt that is by now.
Rejects(k) ==
  /\ attempt' = [attempt EXCEPT ![k] = IF @ = "pending" THEN "rejected" ELSE @]
  /\ connectPromise' = IF attempt[k] = "pending" THEN None ELSE connectPromise

\* connectViaFetch: the upgrade succeeds.
FetchConnects(k) ==
  /\ Quiet
  /\ mode = "fetch"
  /\ attempt[k] = "pending"
  /\ attempt' = [attempt EXCEPT ![k] = "resolved"]
  /\ ws' = k
  /\ state' = "connected"
  /\ sock' = [sock EXCEPT ![k] = "open"]
  /\ listening' = [listening EXCEPT ![k] = TRUE]
  /\ UNCHANGED << mode, connectPromise, pending, disconnects, callVars, srvVars, inbox >>

\* It is refused, or the timer aborts it.
FetchFails(k) ==
  /\ Quiet
  /\ mode = "fetch"
  /\ attempt[k] = "pending"
  /\ Rejects(k)
  /\ state' = "error"
  /\ UNCHANGED << mode, ws, sock, listening, pending, disconnects, callVars, srvVars, inbox >>

\* onOpen.
Opens(k) ==
  /\ Quiet
  /\ sock[k] = "connecting"
  /\ sock' = [sock EXCEPT ![k] = "open"]
  /\ attempt' = [attempt EXCEPT ![k] = "resolved"]
  /\ state' = "connected"
  /\ UNCHANGED << mode, ws, connectPromise, listening, pending, disconnects, callVars, srvVars, inbox >>

\* onConnectError: the server cannot be reached, or close() was called before
\* the socket was open.
ConnectError(k) ==
  /\ Quiet
  /\ sock[k] \in {"connecting", "closing"}
  /\ sock' = [sock EXCEPT ![k] = "failed"]
  /\ Rejects(k)
  /\ state' = "error"
  /\ UNCHANGED << mode, ws, listening, pending, disconnects, callVars, srvVars, inbox >>

\* handleClose: reject all pending requests.
FailsPending ==
  /\ pc' = [r \in Calls |-> IF pending[r] THEN "failed" ELSE pc[r]]
  /\ pending' = [r \in Calls |-> FALSE]

handleClose ==
  /\ state' = "disconnected"
  /\ ws' = None
  /\ FailsPending

\* The close event of a socket that failed to connect, or that the server or
\* the network has closed; what was on its way is lost.
CloseEvent(k) ==
  /\ Quiet
  /\ sock[k] \in {"failed", "open"}
  /\ sock' = [sock EXCEPT ![k] = "closed"]
  /\ inbox' = [inbox EXCEPT ![k] = << >>]
  /\ \/ listening[k] /\ handleClose
     \/ ~ listening[k] /\ UNCHANGED << state, ws, pc, pending >>
  /\ UNCHANGED << mode, connectPromise, attempt, listening, disconnects, round, at, via, got, srvVars >>

\* cleanup, but for the promise.  It clears the timers and the map; nobody is told.
cleanup ==
  /\ ws' = None
  /\ state' = "disconnected"
  /\ IF ws = None
     THEN UNCHANGED << sock, listening, inbox >>
     ELSE /\ sock' = [sock EXCEPT ![ws] = IF @ = "connecting" THEN "closing"
                                          ELSE IF @ = "open" THEN "closed" ELSE @]
          /\ listening' = [listening EXCEPT ![ws] = FALSE]
          /\ inbox' = [inbox EXCEPT ![ws] = << >>]
  /\ pending' = [r \in Calls |-> FALSE]

\* The timer of connectViaWebSocket, cleared by onOpen and onConnectError.
ConnectTimesOut(k) ==
  /\ Quiet
  /\ mode = "standard"
  /\ attempt[k] = "pending"
  /\ cleanup
  /\ attempt' = [attempt EXCEPT ![k] = "rejected"]
  /\ connectPromise' = None
  /\ UNCHANGED << mode, disconnects, callVars, srvVars >>

disconnect ==
  /\ disconnects < MaxDisconnects
  /\ disconnects' = disconnects + 1
  /\ cleanup
  /\ connectPromise' = None
  /\ UNCHANGED << mode, attempt, callVars, srvVars >>

-----------------------------------------------------------------------------
(* The adapter in the container *)

\* The adapter has routed the request and can reach its client.
Serving(r) == srv[r] = "sent" /\ IsOpen(via[r])

Push(k, msg) == inbox' = [inbox EXCEPT ![k] = Append(@, msg)]

\* handleStreamingResponse sends an event.
SendChunk(r) ==
  /\ r \in Streams /\ Serving(r)
  /\ emitted[r] < MaxChunks
  /\ emitted' = [emitted EXCEPT ![r] = @ + 1]
  /\ Push(via[r], [type |-> "chunk", id |-> r, n |-> emitted[r] + 1])
  /\ UNCHANGED << connVars, pending, disconnects, callVars, srv >>

\* The final response: of a plain request any status is an answer, of a stream
\* one from 400 on (or no stream at all) is an error.
SendResponse(r) ==
  /\ Serving(r)
  /\ srv' = [srv EXCEPT ![r] = "done"]
  /\ \E good \in BOOLEAN :
       /\ r \notin Streams => good
       /\ Push(via[r], [type |-> "response", id |-> r, good |-> good])
  /\ UNCHANGED << connVars, pending, disconnects, callVars, emitted >>

\* A handler or the stream it reads throws.
SendError(r) ==
  /\ Serving(r)
  /\ srv' = [srv EXCEPT ![r] = "done"]
  /\ Push(via[r], [type |-> "error", id |-> r])
  /\ UNCHANGED << connVars, pending, disconnects, callVars, emitted >>

\* Nobody reads what the adapter sends on a dead socket.
SendFails(r) ==
  /\ srv[r] = "sent"
  /\ ~ IsOpen(via[r])
  /\ srv' = [srv EXCEPT ![r] = "done"]
  /\ UNCHANGED << connVars, pending, disconnects, callVars, emitted, inbox >>

-----------------------------------------------------------------------------
(* Messages and timers of the client *)

Settle(r, result) ==
  /\ pc' = [pc EXCEPT ![r] = result]
  /\ pending' = [pending EXCEPT ![r] = FALSE]

\* Mutant of Awaited: a message is taken although its call has settled.
AwaitedAlways(msg) == TRUE

\* Does a pending request have the id of this message?
Awaited(msg) == pending[msg.id]

handleResponse(msg) ==
  /\ msg.type = "response" /\ Awaited(msg)
  /\ Settle(msg.id, IF msg.good THEN "ok" ELSE "failed")
  /\ UNCHANGED got

handleStreamChunk(msg) ==
  /\ msg.type = "chunk" /\ Awaited(msg)
  /\ got' = [got EXCEPT ![msg.id] = Append(@, msg.n)]
  /\ UNCHANGED << pc, pending >>

handleError(msg) ==
  /\ msg.type = "error" /\ Awaited(msg)
  /\ Settle(msg.id, "failed")
  /\ UNCHANGED got

\* A message for a call that has settled is logged.
Unknown(msg) ==
  /\ ~ Awaited(msg)
  /\ UNCHANGED << pc, pending, got >>

handleMessage(k) ==
  /\ Quiet
  /\ IsOpen(k) /\ listening[k] /\ inbox[k] # << >>
  /\ inbox' = [inbox EXCEPT ![k] = Tail(@)]
  /\ LET msg == Head(inbox[k])
     IN handleResponse(msg) \/ handleStreamChunk(msg) \/ handleError(msg) \/ Unknown(msg)
  /\ UNCHANGED << connVars, disconnects, round, at, via, srvVars >>

\* The timer of a request; that of a stream runs from its start to its end.
TimesOut(r) ==
  /\ Quiet
  /\ pending[r]
  /\ Settle(r, "failed")
  /\ UNCHANGED << connVars, disconnects, round, at, via, got, srvVars, inbox >>

\* The consumer cancels its stream; the container is not told.
Cancel(r) ==
  /\ r \in Streams /\ pc[r] = "waiting"
  /\ Settle(r, "cancelled")
  /\ UNCHANGED << connVars, disconnects, round, at, via, got, srvVars, inbox >>

-----------------------------------------------------------------------------

Next ==
  \/ \E r \in Calls :
       \/ Ask(r) \/ AskAgain(r) \/ Send(r) \/ Refused(r)
       \/ SendChunk(r) \/ SendResponse(r) \/ SendError(r) \/ SendFails(r)
       \/ TimesOut(r) \/ Cancel(r)
  \/ \E k \in Sockets :
       \/ FetchConnects(k) \/ FetchFails(k) \/ Opens(k) \/ ConnectError(k)
       \/ CloseEvent(k) \/ ConnectTimesOut(k) \/ handleMessage(k)
  \/ disconnect

Spec == Init /\ [][Next]_vars

\* Continuations run, attempts and requests are timed.
FairSpec ==
  /\ Spec
  /\ \A r \in Calls : WF_vars(AskAgain(r) \/ Send(r) \/ Refused(r)) /\ WF_vars(TimesOut(r))
  /\ \A k \in Sockets : WF_vars(FetchFails(k) \/ ConnectTimesOut(k))

-----------------------------------------------------------------------------
(* Properties *)

Orphaned(r) == pc[r] = "waiting" /\ ~ pending[r]

\* Callers share one attempt and one socket ("a single WebSocket connection",
\* ws-transport.ts:36, 74), unless disconnect() cuts an attempt short.  With
\* connectViaWebSocket the late close event of a failed socket may also drop its
\* successor.
OneConnection ==
  disconnects = 0 =>
    /\ Cardinality({k \in Sockets : attempt[k] = "pending"}) <= 1
    /\ \A k \in Sockets : mode = "fetch" /\ IsOpen(k) => ws = k

\* Every call comes to an end, by an answer, its timer or the socket's close,
\* or is forgotten by a disconnect() (ws-transport.ts:314, 371, 582): as a call is
\* made once, there is always a later moment at which none is open.
Answered ==
  []<>(\A r \in Calls : pc[r] \in {"idle"} \cup Settled \/ Orphaned(r))

outcomeOf(r) ==
  IF pc[r] \in {"await", "waiting"} THEN "open"
  ELSE IF pc[r] = "cancelled" THEN "failed" ELSE pc[r]

\* The transport implements RequestOnce: a call settles once, by its own
\* response, and a stream that closes has all its chunks in order, whatever
\* sockets come and go (ws-transport.ts:443-523, ws-adapter.ts:203).
Once == INSTANCE RequestOnce WITH
          outcome  <- [r \in Calls |-> outcomeOf(r)],
          seen     <- got,
          emitted  <- emitted,
          finished <- [r \in Calls |-> srv[r] = "done"]

OnceSpec == Once!Spec

\* A call that finds no connection makes an attempt or awaits one that is
\* being made.
\* Not kept by the code (README, "Where the code does not do what it says").
ConnectsWhenClosed ==
  [][\A r \in Calls :
       pc[r] = "idle" /\ pc'[r] = "await" /\ ~ isConnected =>
         attempt'[at'[r]] = "pending"]_vars

=============================================================================
