-------------------------- MODULE WsTransportProofs --------------------------
(***************************************************************************)
(* Proofs about WsTransport, for every set of calls and streams, in both   *)
(* modes of connecting and for any number of chunks and disconnects.       *)
(***************************************************************************)
EXTENDS WsTransport, FiniteSetTheorems, SequenceTheorems, TLAPS

-----------------------------------------------------------------------------
(***************************************************************************)
(* The inductive invariant                                                 *)
(***************************************************************************)

\* What is known of a call: before it is sent nothing is there of it, its
\* entry is there only while it waits, on a socket that is open, and its
\* stream was not given more chunks than there are.
CallInv ==
  \A r \in Calls :
    /\ pc[r] \in {"idle", "await"} =>
         via[r] = None /\ srv[r] = "none" /\ emitted[r] = 0 /\ got[r] = << >>
    /\ pending[r] => pc[r] = "waiting" /\ via[r] # None /\ sock[via[r]] = "open"
    /\ Len(got[r]) <= emitted[r]

\* A socket was made by an attempt, and one that may be used is listened to.
HeardInv ==
  \A k \in Sockets :
    /\ attempt[k] = "none" => sock[k] = "none"
    /\ sock[k] \in {"connecting", "open"} => listening[k]

\* A message comes on the socket its call was sent on, and a final one when the
\* adapter is done with the call.
InboxInv ==
  \A k \in Sockets : \A i \in 1..Len(inbox[k]) :
    /\ via[inbox[k][i].id] = k
    /\ inbox[k][i].type # "chunk" => srv[inbox[k][i].id] = "done"

\* Position i of the messages on the socket of call r is a chunk of r, its
\* final message.
ChunkAt(r, i) == inbox[via[r]][i].id = r /\ inbox[via[r]][i].type = "chunk"
FinalAt(r, i) == inbox[via[r]][i].id = r /\ inbox[via[r]][i].type # "chunk"
Places(r)     == 1..Len(inbox[via[r]])

\* The chunks the stream of r was not given yet are on their way, each of them
\* and in their order, and nothing follows its final message.
OrderOf(r) ==
  /\ \A i \in Places(r) : ChunkAt(r, i) =>
       inbox[via[r]][i].n \in (Len(got[r]) + 1)..emitted[r]
  /\ \A i, j \in Places(r) : ChunkAt(r, i) /\ ChunkAt(r, j) /\ i < j =>
       inbox[via[r]][i].n < inbox[via[r]][j].n
  /\ \A n \in (Len(got[r]) + 1)..emitted[r] :
       \E i \in Places(r) : ChunkAt(r, i) /\ inbox[via[r]][i].n = n
  /\ \A i, j \in Places(r) : FinalAt(r, i) /\ i < j => inbox[via[r]][j].id # r

\* That is so as long as the call is pending.
OrderInv == \A r \in Calls : pending[r] => OrderOf(r)

\* Without a disconnect an attempt that is pending is the one that is joined;
\* with connectViaFetch there is no open socket beside it, and one that is open
\* is the socket of a transport that is connected.
ConnInv ==
  /\ disconnects = 0 => \A k \in Sockets : attempt[k] = "pending" => connectPromise = k
  /\ mode = "fetch" => \A k \in Sockets : sock[k] \in {"none", "open", "closed"}
  /\ mode = "fetch" /\ disconnects = 0 => \A k \in Sockets : sock[k] = "open" =>
       /\ ws = k /\ state = "connected"
       /\ \A j \in Sockets : attempt[j] # "pending"

IInv == TypeOK /\ CallInv /\ HeardInv /\ InboxInv /\ OrderInv /\ ConnInv

-----------------------------------------------------------------------------
(***************************************************************************)
(* Types                                                                   *)
(***************************************************************************)

\* Sockets are numbers, and None is none of them.
LEMMA SocketFacts ==
  /\ Sockets \subseteq Nat
  /\ None \notin Sockets
<1>1. Cardinality(Calls) \in Nat
  BY StreamsAssumption, FS_CardinalityType
<1> QED
  BY <1>1, BoundAssumption, NoneAssumption DEF Sockets

\* What a message is, and which there are
LEMMA MessageFacts ==
  /\ \A m \in Messages : m.id \in Calls
  /\ \A m \in Messages : m.type = "chunk" => m.n \in 1..MaxChunks
  /\ \A m \in Messages : m.type \in {"chunk", "response", "error"}
  /\ \A r \in Streams : \A k \in 1..MaxChunks : [type |-> "chunk", id |-> r, n |-> k] \in Messages
  /\ \A r \in Calls : \A g \in BOOLEAN : [type |-> "response", id |-> r, good |-> g] \in Messages
  /\ \A r \in Calls : [type |-> "error", id |-> r] \in Messages
<1>1. /\ \A m \in [type : {"chunk"}, id : Streams, n : 1..MaxChunks] :
           m.type = "chunk" /\ m.id \in Calls /\ m.n \in 1..MaxChunks
      /\ \A m \in [type : {"response"}, id : Calls, good : BOOLEAN] : m.type = "response" /\ m.id \in Calls
      /\ \A m \in [type : {"error"}, id : Calls] : m.type = "error" /\ m.id \in Calls
  BY StreamsAssumption
<1>2. \A m \in Messages : \/ m \in [type : {"chunk"}, id : Streams, n : 1..MaxChunks]
                         \/ m \in [type : {"response"}, id : Calls, good : BOOLEAN]
                         \/ m \in [type : {"error"}, id : Calls]
  BY DEF Messages
<1>3. /\ \A r \in Streams : \A k \in 1..MaxChunks :
           [type |-> "chunk", id |-> r, n |-> k] \in [type : {"chunk"}, id : Streams, n : 1..MaxChunks]
      /\ \A r \in Calls : \A g \in BOOLEAN :
           [type |-> "response", id |-> r, good |-> g] \in [type : {"response"}, id : Calls, good : BOOLEAN]
      /\ \A r \in Calls : [type |-> "error", id |-> r] \in [type : {"error"}, id : Calls]
  OBVIOUS
<1>4. /\ \A m \in Messages : m.id \in Calls
      /\ \A m \in Messages : m.type = "chunk" => m.n \in 1..MaxChunks
      /\ \A m \in Messages : m.type \in {"chunk", "response", "error"}
  BY <1>1, <1>2
<1> QED
  BY <1>3, <1>4 DEF Messages

\* The types of the connection
ConnOK ==
  /\ mode \in {"fetch", "standard"}
  /\ state \in {"disconnected", "connecting", "connected", "error"}
  /\ ws \in Sockets \cup {None}
  /\ connectPromise \in Sockets \cup {None}
  /\ attempt \in [Sockets -> {"none", "pending", "resolved", "rejected"}]
  /\ sock \in [Sockets -> {"none", "connecting", "open", "closing", "failed", "closed"}]
  /\ listening \in [Sockets -> BOOLEAN]
  /\ ws # None => sock[ws] # "none"
  /\ \A k \in Sockets : listening[k] => sock[k] # "none"

\* connect() keeps them.
LEMMA ConnectTypes ==
  ASSUME ConnOK, NEW r \in Calls, connect(r), at \in [Calls -> Sockets \cup {None}]
  PROVE  ConnOK' /\ at' \in [Calls -> Sockets \cup {None}]
<1>1. CASE connVars' = connVars
  <2>1. ConnOK'
    BY <1>1 DEF ConnOK, connVars
  <2>2. PICK k \in Sockets \cup {None} : at' = [at EXCEPT ![r] = k]
    BY <1>1 DEF connect, ConnOK
  <2> QED
    BY <2>1, <2>2
<1>2. ASSUME NEW k \in Sockets, StartAttempt(k), at' = [at EXCEPT ![r] = k]
      PROVE  ConnOK' /\ at' \in [Calls -> Sockets \cup {None}]
  <2>1. /\ mode' = mode /\ state' = "connecting" /\ connectPromise' = k
        /\ attempt' \in [Sockets -> {"none", "pending", "resolved", "rejected"}]
    BY <1>2 DEF ConnOK, StartAttempt
  <2>2. CASE mode = "standard"
    <3>1. /\ ws' = k /\ sock' = [sock EXCEPT ![k] = "connecting"]
          /\ listening' = [listening EXCEPT ![k] = TRUE]
      BY <1>2, <2>2 DEF StartAttempt, NewSocket
    <3>2. /\ sock' \in [Sockets -> {"none", "connecting", "open", "closing", "failed", "closed"}]
          /\ \A j \in Sockets : j # k => sock'[j] = sock[j] /\ listening'[j] = listening[j]
          /\ sock'[k] = "connecting"
      BY <3>1 DEF ConnOK
    <3>3. listening' \in [Sockets -> BOOLEAN]
      BY <3>1 DEF ConnOK
    <3> QED
      BY <1>2, <2>1, <3>1, <3>2, <3>3 DEF ConnOK
  <2>3. CASE mode # "standard"
    BY <1>2, <2>1, <2>3 DEF StartAttempt, NewSocket, ConnOK
  <2> QED
    BY <2>2, <2>3
<1> QED
  BY <1>1, <1>2 DEF connect

\* The message that is sent is on its way.
LEMMA PushTypes ==
  ASSUME NEW k \in Sockets, NEW m \in Messages, Push(k, m), inbox \in [Sockets -> Seq(Messages)]
  PROVE  inbox' \in [Sockets -> Seq(Messages)]
<1>1. Append(inbox[k], m) \in Seq(Messages)
  OBVIOUS
<1> QED
  BY <1>1 DEF Push

\* What cleanup makes of a socket
Dropped(s) == IF s = "connecting" THEN "closing" ELSE IF s = "open" THEN "closed" ELSE s

\* cleanup keeps the types, and nothing is pending after it.
LEMMA CleanupTypes ==
  ASSUME IInv, cleanup
  PROVE  /\ ws' = None /\ state' = "disconnected"
         /\ pending' = [r \in Calls |-> FALSE]
         /\ sock' \in [Sockets -> {"none", "connecting", "open", "closing", "failed", "closed"}]
         /\ listening' \in [Sockets -> BOOLEAN]
         /\ inbox' \in [Sockets -> Seq(Messages)]
         /\ \A k \in Sockets : k # ws =>
              sock'[k] = sock[k] /\ listening'[k] = listening[k] /\ inbox'[k] = inbox[k]
         /\ ws # None => sock'[ws] = Dropped(sock[ws]) /\ ~ listening'[ws] /\ inbox'[ws] = << >>
<1>1. ws' = None /\ state' = "disconnected" /\ pending' = [r \in Calls |-> FALSE]
  BY DEF cleanup
<1>2. CASE ws = None
  BY <1>1, <1>2, SocketFacts DEF cleanup, IInv, TypeOK
<1>3. CASE ws # None
  <2>1. /\ ws \in Sockets
        /\ sock' = [sock EXCEPT ![ws] = Dropped(sock[ws])]
        /\ listening' = [listening EXCEPT ![ws] = FALSE]
        /\ inbox' = [inbox EXCEPT ![ws] = << >>]
    BY <1>3 DEF cleanup, IInv, TypeOK, Dropped
  <2>2. /\ sock' \in [Sockets -> {"none", "connecting", "open", "closing", "failed", "closed"}]
        /\ sock'[ws] = Dropped(sock[ws])
        /\ \A k \in Sockets : k # ws => sock'[k] = sock[k]
    BY <2>1 DEF IInv, TypeOK, Dropped
  <2>3. /\ listening' \in [Sockets -> BOOLEAN]
        /\ ~ listening'[ws]
        /\ \A k \in Sockets : k # ws => listening'[k] = listening[k]
    BY <2>1 DEF IInv, TypeOK
  <2>4. /\ inbox' \in [Sockets -> Seq(Messages)]
        /\ inbox'[ws] = << >>
        /\ \A k \in Sockets : k # ws => inbox'[k] = inbox[k]
    BY <2>1 DEF IInv, TypeOK
  <2> QED
    BY <1>1, <2>2, <2>3, <2>4
<1> QED
  BY <1>2, <1>3

\* Every step keeps the types.
LEMMA TypeStep ==
  ASSUME IInv, [Next]_vars
  PROVE  TypeOK'
<1> USE SocketFacts, BoundAssumption, StreamsAssumption DEF PcStates
<1>1. CASE UNCHANGED vars
  BY <1>1 DEF IInv, TypeOK, vars, connVars, callVars, srvVars
<1>2. ASSUME NEW c \in Calls, Ask(c)
      PROVE  TypeOK'
  <2>1. ConnOK /\ at \in [Calls -> Sockets \cup {None}]
    BY DEF IInv, TypeOK, ConnOK
  <2>2. ConnOK' /\ at' \in [Calls -> Sockets \cup {None}]
    BY <1>2, <2>1, ConnectTypes DEF Ask
  <2>3. pc' \in [Calls -> PcStates] /\ round' \in [Calls -> 0..2]
    BY <1>2 DEF IInv, TypeOK, Ask, connect
  <2>4. UNCHANGED << pending, disconnects, via, got, srv, emitted, inbox >>
    BY <1>2 DEF Ask, connect, srvVars
  <2> QED
    BY <2>2, <2>3, <2>4 DEF IInv, TypeOK, ConnOK
<1>3. ASSUME NEW c \in Calls, AskAgain(c)
      PROVE  TypeOK'
  <2>1. ConnOK /\ at \in [Calls -> Sockets \cup {None}]
    BY DEF IInv, TypeOK, ConnOK
  <2>2. ConnOK' /\ at' \in [Calls -> Sockets \cup {None}]
    BY <1>3, <2>1, ConnectTypes DEF AskAgain
  <2>3. pc' \in [Calls -> PcStates] /\ round' \in [Calls -> 0..2]
    BY <1>3 DEF IInv, TypeOK, AskAgain, connect
  <2>4. UNCHANGED << pending, disconnects, via, got, srv, emitted, inbox >>
    BY <1>3 DEF AskAgain, connect, srvVars
  <2> QED
    BY <2>2, <2>3, <2>4 DEF IInv, TypeOK, ConnOK
<1>4. ASSUME NEW c \in Calls, Send(c)
      PROVE  TypeOK'
  BY <1>4, ZenonT(60) DEF IInv, TypeOK, Send, Connected, IsOpen, vars, connVars, callVars, srvVars
<1>5. ASSUME NEW c \in Calls, Refused(c)
      PROVE  TypeOK'
  BY <1>5 DEF IInv, TypeOK, Refused, vars, connVars, callVars, srvVars
<1>6. ASSUME NEW c \in Calls, SendChunk(c)
      PROVE  TypeOK'
  <2>1. via[c] \in Sockets
    BY <1>6 DEF IInv, TypeOK, SendChunk, Serving, IsOpen
  <2>2. emitted[c] + 1 \in 1..MaxChunks /\ c \in Streams
    BY <1>6 DEF IInv, TypeOK, SendChunk
  <2>3. inbox' \in [Sockets -> Seq(Messages)]
    BY <1>6, <2>1, <2>2, MessageFacts, PushTypes DEF IInv, TypeOK, SendChunk
  <2> QED
    BY <1>6, <2>2, <2>3 DEF IInv, TypeOK, SendChunk, connVars, callVars
<1>7. ASSUME NEW c \in Calls, SendResponse(c)
      PROVE  TypeOK'
  <2>1. via[c] \in Sockets
    BY <1>7 DEF IInv, TypeOK, SendResponse, Serving, IsOpen
  <2>2. inbox' \in [Sockets -> Seq(Messages)]
    BY <1>7, <2>1, MessageFacts, PushTypes DEF IInv, TypeOK, SendResponse
  <2> QED
    BY <1>7, <2>2 DEF IInv, TypeOK, SendResponse, connVars, callVars
<1>8. ASSUME NEW c \in Calls, SendError(c)
      PROVE  TypeOK'
  <2>1. via[c] \in Sockets
    BY <1>8 DEF IInv, TypeOK, SendError, Serving, IsOpen
  <2>2. inbox' \in [Sockets -> Seq(Messages)]
    BY <1>8, <2>1, MessageFacts, PushTypes DEF IInv, TypeOK, SendError
  <2> QED
    BY <1>8, <2>2 DEF IInv, TypeOK, SendError, connVars, callVars
<1>9. ASSUME NEW c \in Calls, SendFails(c)
      PROVE  TypeOK'
  BY <1>9 DEF IInv, TypeOK, SendFails, IsOpen, vars, connVars, callVars, srvVars
<1>10. ASSUME NEW c \in Calls, TimesOut(c)
      PROVE  TypeOK'
  BY <1>10 DEF IInv, TypeOK, TimesOut, Settle, vars, connVars, callVars, srvVars
<1>11. ASSUME NEW c \in Calls, Cancel(c)
      PROVE  TypeOK'
  BY <1>11 DEF IInv, TypeOK, Cancel, Settle, vars, connVars, callVars, srvVars
<1>12. ASSUME NEW s \in Sockets, FetchConnects(s)
      PROVE  TypeOK'
  BY <1>12 DEF IInv, TypeOK, FetchConnects, vars, connVars, callVars, srvVars
<1>13. ASSUME NEW s \in Sockets, FetchFails(s)
      PROVE  TypeOK'
  BY <1>13 DEF IInv, TypeOK, FetchFails, Rejects, vars, connVars, callVars, srvVars
<1>14. ASSUME NEW s \in Sockets, Opens(s)
      PROVE  TypeOK'
  BY <1>14 DEF IInv, TypeOK, Opens, vars, connVars, callVars, srvVars
<1>15. ASSUME NEW s \in Sockets, ConnectError(s)
      PROVE  TypeOK'
  BY <1>15 DEF IInv, TypeOK, ConnectError, Rejects, vars, connVars, callVars, srvVars
<1>16. ASSUME NEW s \in Sockets, CloseEvent(s)
      PROVE  TypeOK'
  <2>1. pc' \in [Calls -> PcStates] /\ pending' \in [Calls -> BOOLEAN]
    <3>1. CASE handleClose
      BY <3>1 DEF IInv, TypeOK, handleClose, FailsPending
    <3>2. CASE UNCHANGED << state, ws, pc, pending >>
      BY <3>2 DEF IInv, TypeOK
    <3> QED
      BY <1>16, <3>1, <3>2 DEF CloseEvent
  <2>2. state' \in {"disconnected", "connecting", "connected", "error"} /\ ws' \in {ws, None}
    BY <1>16 DEF IInv, TypeOK, CloseEvent, handleClose
  <2>3. /\ sock' \in [Sockets -> {"none", "connecting", "open", "closing", "failed", "closed"}]
        /\ \A k \in Sockets : sock[k] # "none" => sock'[k] # "none"
    BY <1>16 DEF IInv, TypeOK, CloseEvent
  <2>4. inbox' \in [Sockets -> Seq(Messages)]
    BY <1>16 DEF IInv, TypeOK, CloseEvent
  <2>5. UNCHANGED << mode, connectPromise, attempt, listening, disconnects, round, at, via, got, srv, emitted >>
    BY <1>16 DEF CloseEvent, srvVars
  <2> QED
    BY <2>1, <2>2, <2>3, <2>4, <2>5 DEF IInv, TypeOK
<1>17. ASSUME NEW s \in Sockets, ConnectTimesOut(s)
      PROVE  TypeOK'
  <2>1. \A k \in Sockets : listening'[k] => sock'[k] # "none"
    BY <1>17, CleanupTypes DEF IInv, TypeOK, ConnectTimesOut, Dropped
  <2>2. attempt' \in [Sockets -> {"none", "pending", "resolved", "rejected"}] /\ connectPromise' = None
    BY <1>17 DEF IInv, TypeOK, ConnectTimesOut
  <2>3. /\ ws' = None /\ state' = "disconnected"
        /\ pending' \in [Calls -> BOOLEAN]
        /\ sock' \in [Sockets -> {"none", "connecting", "open", "closing", "failed", "closed"}]
        /\ listening' \in [Sockets -> BOOLEAN]
        /\ inbox' \in [Sockets -> Seq(Messages)]
    BY <1>17, CleanupTypes DEF ConnectTimesOut
  <2>4. UNCHANGED << mode, disconnects, pc, round, at, via, got, srv, emitted >>
    BY <1>17 DEF ConnectTimesOut, callVars, srvVars
  <2> QED
    BY <2>1, <2>2, <2>3, <2>4 DEF IInv, TypeOK
<1>18. ASSUME NEW s \in Sockets, handleMessage(s)
      PROVE  TypeOK'
  <2> DEFINE msg == Head(inbox[s])
  <2>1. inbox[s] \in Seq(Messages) /\ inbox[s] # << >> /\ msg \in Messages
    BY <1>18 DEF IInv, TypeOK, handleMessage
  <2>2. inbox' \in [Sockets -> Seq(Messages)]
    <3>1. Tail(inbox[s]) \in Seq(Messages)
      BY <2>1
    <3> QED
      BY <1>18, <3>1 DEF IInv, TypeOK, handleMessage
  <2>3. msg.id \in Calls /\ (msg.type = "chunk" => msg.n \in 1..MaxChunks)
    BY <2>1, MessageFacts
  <2>4. handleResponse(msg) \/ handleStreamChunk(msg) \/ handleError(msg) \/ Unknown(msg)
    BY <1>18 DEF handleMessage
  <2> HIDE DEF msg
  <2>5. pc' \in [Calls -> PcStates]
    BY <2>3, <2>4 DEF IInv, TypeOK, handleResponse, handleStreamChunk, handleError, Unknown, Settle
  <2>6. pending' \in [Calls -> BOOLEAN]
    BY <2>3, <2>4 DEF IInv, TypeOK, handleResponse, handleStreamChunk, handleError, Unknown, Settle
  <2>7. got' \in [Calls -> Seq(1..MaxChunks)]
    <3>1. CASE handleStreamChunk(msg)
      <4>1. Append(got[msg.id], msg.n) \in Seq(1..MaxChunks)
        BY <2>3, <3>1 DEF IInv, TypeOK, handleStreamChunk
      <4> QED
        BY <2>3, <3>1, <4>1 DEF IInv, TypeOK, handleStreamChunk
    <3>2. CASE got' = got
      BY <3>2 DEF IInv, TypeOK
    <3> QED
      BY <2>4, <3>1, <3>2 DEF handleResponse, handleError, Unknown
  <2>8. UNCHANGED << connVars, disconnects, round, at, via, srvVars >>
    BY <1>18 DEF handleMessage
  <2> QED
    BY <2>2, <2>5, <2>6, <2>7, <2>8 DEF IInv, TypeOK, connVars, srvVars
<1>19. CASE disconnect
  <2>1. \A k \in Sockets : listening'[k] => sock'[k] # "none"
    BY <1>19, CleanupTypes DEF IInv, TypeOK, disconnect, Dropped
  <2>2. disconnects' \in 0..MaxDisconnects /\ connectPromise' = None
    BY <1>19 DEF IInv, TypeOK, disconnect
  <2>3. /\ ws' = None /\ state' = "disconnected"
        /\ pending' \in [Calls -> BOOLEAN]
        /\ sock' \in [Sockets -> {"none", "connecting", "open", "closing", "failed", "closed"}]
        /\ listening' \in [Sockets -> BOOLEAN]
        /\ inbox' \in [Sockets -> Seq(Messages)]
    BY <1>19, CleanupTypes DEF disconnect
  <2>4. UNCHANGED << mode, attempt, pc, round, at, via, got, srv, emitted >>
    BY <1>19 DEF disconnect, callVars, srvVars
  <2> QED
    BY <2>1, <2>2, <2>3, <2>4 DEF IInv, TypeOK
<1> QED
  BY <1>1, <1>2, <1>3, <1>4, <1>5, <1>6, <1>7, <1>8, <1>9, <1>10, <1>11, <1>12, <1>13, <1>14, <1>15, <1>16, <1>17, <1>18, <1>19 DEF Next

-----------------------------------------------------------------------------
(***************************************************************************)
(* The connection                                                          *)
(***************************************************************************)

\* What connect() does to the connection: nothing, or it makes a new attempt.
LEMMA ConnectEffect ==
  ASSUME TypeOK, HeardInv, NEW r \in Calls, connect(r)
  PROVE  /\ mode' = mode
         /\ \/ UNCHANGED << state, ws, connectPromise, attempt, sock, listening >>
            \/ \E k \in Sockets :
                 /\ ~ isConnected /\ connectPromise = None
                 /\ attempt[k] = "none" /\ sock[k] = "none"
                 /\ attempt'[k] = "pending" /\ connectPromise' = k
                 /\ \A j \in Sockets : j # k =>
                      attempt'[j] = attempt[j] /\ sock'[j] = sock[j] /\ (listening'[j] <=> listening[j])
                 /\ sock'[k] \in {"none", "connecting"}
                 /\ mode = "fetch" => sock'[k] = "none"
                 /\ sock'[k] = "connecting" => listening'[k]
<1>1. CASE UNCHANGED connVars
  BY <1>1 DEF connVars
<1>2. ASSUME ~ isConnected, ~ Joins, NEW k \in Sockets, StartAttempt(k)
      PROVE  /\ mode' = mode
             /\ ~ isConnected /\ connectPromise = None
             /\ attempt[k] = "none" /\ sock[k] = "none"
             /\ attempt'[k] = "pending" /\ connectPromise' = k
             /\ \A j \in Sockets : j # k =>
                  attempt'[j] = attempt[j] /\ sock'[j] = sock[j] /\ (listening'[j] <=> listening[j])
             /\ sock'[k] \in {"none", "connecting"}
             /\ mode = "fetch" => sock'[k] = "none"
             /\ sock'[k] = "connecting" => listening'[k]
  <2>1. /\ mode' = mode /\ connectPromise = None /\ connectPromise' = k
        /\ attempt[k] = "none" /\ attempt'[k] = "pending"
        /\ \A j \in Sockets : j # k => attempt'[j] = attempt[j]
    BY <1>2 DEF StartAttempt, Joins, TypeOK
  <2>2. sock[k] = "none"
    BY <2>1 DEF HeardInv
  <2>3. CASE mode = "standard"
    <3>1. /\ sock' = [sock EXCEPT ![k] = "connecting"]
          /\ listening' = [listening EXCEPT ![k] = TRUE]
      BY <1>2, <2>3 DEF StartAttempt, NewSocket
    <3>2. sock'[k] = "connecting" /\ \A j \in Sockets : j # k => sock'[j] = sock[j]
      BY <3>1 DEF TypeOK
    <3>3. listening'[k] /\ \A j \in Sockets : j # k => (listening'[j] <=> listening[j])
      BY <3>1 DEF TypeOK
    <3> QED
      BY <1>2, <2>1, <2>2, <2>3, <3>2, <3>3
  <2>4. CASE mode # "standard"
    <3>1. UNCHANGED << sock, listening >>
      BY <1>2, <2>4 DEF StartAttempt, NewSocket
    <3> QED
      BY <1>2, <2>1, <2>2, <3>1
  <2> QED
    BY <2>3, <2>4
<1> QED
  BY <1>1, <1>2 DEF connect

\* Every step keeps the sockets that may be used listened to.
LEMMA HeardStep ==
  ASSUME IInv, [Next]_vars
  PROVE  HeardInv'
<1> USE SocketFacts
<1>1. CASE UNCHANGED vars
  BY <1>1 DEF IInv, TypeOK, HeardInv, vars, connVars, callVars, srvVars
<1>2. ASSUME NEW c \in Calls, Ask(c)
      PROVE  HeardInv'
  <2>1. HeardInv /\ TypeOK /\ connect(c)
    BY <1>2 DEF IInv, Ask
  <2> QED
    BY <2>1, ConnectEffect DEF HeardInv
<1>3. ASSUME NEW c \in Calls, AskAgain(c)
      PROVE  HeardInv'
  <2>1. HeardInv /\ TypeOK /\ connect(c)
    BY <1>3 DEF IInv, AskAgain
  <2> QED
    BY <2>1, ConnectEffect DEF HeardInv
<1>4. ASSUME NEW c \in Calls, Send(c)
      PROVE  HeardInv'
  BY <1>4 DEF IInv, TypeOK, HeardInv, Send, Connected, IsOpen, vars, connVars, callVars, srvVars
<1>5. ASSUME NEW c \in Calls, Refused(c)
      PROVE  HeardInv'
  BY <1>5 DEF IInv, TypeOK, HeardInv, Refused, vars, connVars, callVars, srvVars
<1>6. ASSUME NEW c \in Calls, SendChunk(c)
      PROVE  HeardInv'
  BY <1>6 DEF IInv, TypeOK, HeardInv, SendChunk, Serving, Push, IsOpen, vars, connVars, callVars, srvVars
<1>7. ASSUME NEW c \in Calls, SendResponse(c)
      PROVE  HeardInv'
  BY <1>7 DEF IInv, TypeOK, HeardInv, SendResponse, Serving, Push, IsOpen, vars, connVars, callVars, srvVars
<1>8. ASSUME NEW c \in Calls, SendError(c)
      PROVE  HeardInv'
  BY <1>8 DEF IInv, TypeOK, HeardInv, SendError, Serving, Push, IsOpen, vars, connVars, callVars, srvVars
<1>9. ASSUME NEW c \in Calls, SendFails(c)
      PROVE  HeardInv'
  BY <1>9 DEF IInv, TypeOK, HeardInv, SendFails, IsOpen, vars, connVars, callVars, srvVars
<1>10. ASSUME NEW c \in Calls, TimesOut(c)
      PROVE  HeardInv'
  BY <1>10 DEF IInv, TypeOK, HeardInv, TimesOut, Settle, vars, connVars, callVars, srvVars
<1>11. ASSUME NEW c \in Calls, Cancel(c)
      PROVE  HeardInv'
  BY <1>11 DEF IInv, TypeOK, HeardInv, Cancel, Settle, vars, connVars, callVars, srvVars
<1>12. ASSUME NEW s \in Sockets, FetchConnects(s)
      PROVE  HeardInv'
  BY <1>12 DEF IInv, TypeOK, HeardInv, FetchConnects, vars, connVars, callVars, srvVars
<1>13. ASSUME NEW s \in Sockets, FetchFails(s)
      PROVE  HeardInv'
  BY <1>13 DEF IInv, TypeOK, HeardInv, FetchFails, Rejects, vars, connVars, callVars, srvVars
<1>14. ASSUME NEW s \in Sockets, Opens(s)
      PROVE  HeardInv'
  BY <1>14 DEF IInv, TypeOK, HeardInv, Opens, vars, connVars, callVars, srvVars
<1>15. ASSUME NEW s \in Sockets, ConnectError(s)
      PROVE  HeardInv'
  BY <1>15 DEF IInv, TypeOK, HeardInv, ConnectError, Rejects, vars, connVars, callVars, srvVars
<1>16. ASSUME NEW s \in Sockets, CloseEvent(s)
      PROVE  HeardInv'
  BY <1>16 DEF IInv, TypeOK, HeardInv, CloseEvent, handleClose, FailsPending, vars, connVars, callVars, srvVars
<1>17. ASSUME NEW s \in Sockets, ConnectTimesOut(s)
      PROVE  HeardInv'
  BY <1>17 DEF IInv, TypeOK, HeardInv, ConnectTimesOut, cleanup, vars, connVars, callVars, srvVars
<1>18. ASSUME NEW s \in Sockets, handleMessage(s)
      PROVE  HeardInv'
  BY <1>18 DEF IInv, TypeOK, HeardInv, handleMessage, IsOpen, handleResponse, handleStreamChunk, handleError, Unknown, Settle, Awaited, vars, connVars, callVars, srvVars
<1>19. CASE disconnect
  BY <1>19 DEF IInv, TypeOK, HeardInv, disconnect, cleanup, vars, connVars, callVars, srvVars
<1> QED
  BY <1>1, <1>2, <1>3, <1>4, <1>5, <1>6, <1>7, <1>8, <1>9, <1>10, <1>11, <1>12, <1>13, <1>14, <1>15, <1>16, <1>17, <1>18, <1>19 DEF Next

\* Every step keeps what is said of attempts and open sockets.
LEMMA ConnStep ==
  ASSUME IInv, [Next]_vars
  PROVE  ConnInv'
<1> USE SocketFacts
<1>1. CASE UNCHANGED vars
  BY <1>1 DEF IInv, TypeOK, HeardInv, ConnInv, vars, connVars, callVars, srvVars
<1>2. ASSUME NEW c \in Calls, Ask(c)
      PROVE  ConnInv'
  <2>1. HeardInv /\ TypeOK /\ ConnInv /\ connect(c) /\ disconnects' = disconnects
    BY <1>2 DEF IInv, Ask
  <2>2. CASE UNCHANGED << state, ws, connectPromise, attempt, sock, listening >>
    BY <2>1, <2>2, ConnectEffect DEF ConnInv
  <2>3. ASSUME NEW k \in Sockets, ~ isConnected, connectPromise = None, mode' = mode,
               attempt'[k] = "pending", connectPromise' = k,
               \A j \in Sockets : j # k => attempt'[j] = attempt[j] /\ sock'[j] = sock[j],
               sock'[k] \in {"none", "connecting"}, mode = "fetch" => sock'[k] = "none"
        PROVE  ConnInv'
    <3>1. disconnects = 0 => \A j \in Sockets : attempt[j] # "pending"
      BY <2>1, <2>3, SocketFacts DEF ConnInv
    <3>2. disconnects = 0 => \A j \in Sockets : attempt'[j] = "pending" => connectPromise' = j
      BY <2>3, <3>1
    <3>3. mode = "fetch" /\ disconnects = 0 => \A j \in Sockets : sock[j] # "open"
      BY <2>1, <2>3, SocketFacts DEF ConnInv, isConnected, IsOpen
    <3>4. mode = "fetch" /\ disconnects = 0 => \A j \in Sockets : sock'[j] # "open"
      BY <2>3, <3>3
    <3>5. mode = "fetch" => \A j \in Sockets : sock'[j] \in {"none", "open", "closed"}
      BY <2>1, <2>3 DEF ConnInv
    <3> QED
      BY <2>1, <2>3, <3>2, <3>4, <3>5 DEF ConnInv
  <2> QED
    BY <2>1, <2>2, <2>3, ConnectEffect
<1>3. ASSUME NEW c \in Calls, AskAgain(c)
      PROVE  ConnInv'
  <2>1. HeardInv /\ TypeOK /\ ConnInv /\ connect(c) /\ disconnects' = disconnects
    BY <1>3 DEF IInv, AskAgain
  <2>2. CASE UNCHANGED << state, ws, connectPromise, attempt, sock, listening >>
    BY <2>1, <2>2, ConnectEffect DEF ConnInv
  <2>3. ASSUME NEW k \in Sockets, ~ isConnected, connectPromise = None, mode' = mode,
               attempt'[k] = "pending", connectPromise' = k,
               \A j \in Sockets : j # k => attempt'[j] = attempt[j] /\ sock'[j] = sock[j],
               sock'[k] \in {"none", "connecting"}, mode = "fetch" => sock'[k] = "none"
        PROVE  ConnInv'
    <3>1. disconnects = 0 => \A j \in Sockets : attempt[j] # "pending"
      BY <2>1, <2>3, SocketFacts DEF ConnInv
    <3>2. disconnects = 0 => \A j \in Sockets : attempt'[j] = "pending" => connectPromise' = j
      BY <2>3, <3>1
    <3>3. mode = "fetch" /\ disconnects = 0 => \A j \in Sockets : sock[j] # "open"
      BY <2>1, <2>3, SocketFacts DEF ConnInv, isConnected, IsOpen
    <3>4. mode = "fetch" /\ disconnects = 0 => \A j \in Sockets : sock'[j] # "open"
      BY <2>3, <3>3
    <3>5. mode = "fetch" => \A j \in Sockets : sock'[j] \in {"none", "open", "closed"}
      BY <2>1, <2>3 DEF ConnInv
    <3> QED
      BY <2>1, <2>3, <3>2, <3>4, <3>5 DEF ConnInv
  <2> QED
    BY <2>1, <2>2, <2>3, ConnectEffect
<1>4. ASSUME NEW c \in Calls, Send(c)
      PROVE  ConnInv'
  BY <1>4 DEF IInv, TypeOK, HeardInv, ConnInv, Send, Connected, IsOpen, vars, connVars, callVars, srvVars
<1>5. ASSUME NEW c \in Calls, Refused(c)
      PROVE  ConnInv'
  BY <1>5 DEF IInv, TypeOK, HeardInv, ConnInv, Refused, vars, connVars, callVars, srvVars
<1>6. ASSUME NEW c \in Calls, SendChunk(c)
      PROVE  ConnInv'
  BY <1>6 DEF IInv, TypeOK, HeardInv, ConnInv, SendChunk, Serving, Push, IsOpen, vars, connVars, callVars, srvVars
<1>7. ASSUME NEW c \in Calls, SendResponse(c)
      PROVE  ConnInv'
  BY <1>7 DEF IInv, TypeOK, HeardInv, ConnInv, SendResponse, Serving, Push, IsOpen, vars, connVars, callVars, srvVars
<1>8. ASSUME NEW c \in Calls, SendError(c)
      PROVE  ConnInv'
  BY <1>8 DEF IInv, TypeOK, HeardInv, ConnInv, SendError, Serving, Push, IsOpen, vars, connVars, callVars, srvVars
<1>9. ASSUME NEW c \in Calls, SendFails(c)
      PROVE  ConnInv'
  BY <1>9 DEF IInv, TypeOK, HeardInv, ConnInv, SendFails, IsOpen, vars, connVars, callVars, srvVars
<1>10. ASSUME NEW c \in Calls, TimesOut(c)
      PROVE  ConnInv'
  BY <1>10 DEF IInv, TypeOK, HeardInv, ConnInv, TimesOut, Settle, vars, connVars, callVars, srvVars
<1>11. ASSUME NEW c \in Calls, Cancel(c)
      PROVE  ConnInv'
  BY <1>11 DEF IInv, TypeOK, HeardInv, ConnInv, Cancel, Settle, vars, connVars, callVars, srvVars
<1>12. ASSUME NEW s \in Sockets, FetchConnects(s)
      PROVE  ConnInv'
  BY <1>12 DEF IInv, TypeOK, HeardInv, ConnInv, FetchConnects, vars, connVars, callVars, srvVars
<1>13. ASSUME NEW s \in Sockets, FetchFails(s)
      PROVE  ConnInv'
  BY <1>13 DEF IInv, TypeOK, HeardInv, ConnInv, FetchFails, Rejects, vars, connVars, callVars, srvVars
<1>14. ASSUME NEW s \in Sockets, Opens(s)
      PROVE  ConnInv'
  BY <1>14 DEF IInv, TypeOK, HeardInv, ConnInv, Opens, vars, connVars, callVars, srvVars
<1>15. ASSUME NEW s \in Sockets, ConnectError(s)
      PROVE  ConnInv'
  BY <1>15 DEF IInv, TypeOK, HeardInv, ConnInv, ConnectError, Rejects, vars, connVars, callVars, srvVars
<1>16. ASSUME NEW s \in Sockets, CloseEvent(s)
      PROVE  ConnInv'
  BY <1>16 DEF IInv, TypeOK, HeardInv, ConnInv, CloseEvent, handleClose, FailsPending, vars, connVars, callVars, srvVars
<1>17. ASSUME NEW s \in Sockets, ConnectTimesOut(s)
      PROVE  ConnInv'
  BY <1>17 DEF IInv, TypeOK, HeardInv, ConnInv, ConnectTimesOut, cleanup, vars, connVars, callVars, srvVars
<1>18. ASSUME NEW s \in Sockets, handleMessage(s)
      PROVE  ConnInv'
  BY <1>18 DEF IInv, TypeOK, HeardInv, ConnInv, handleMessage, IsOpen, handleResponse, handleStreamChunk, handleError, Unknown, Settle, Awaited, vars, connVars, callVars, srvVars
<1>19. CASE disconnect
  BY <1>19 DEF IInv, TypeOK, HeardInv, ConnInv, disconnect, cleanup, vars, connVars, callVars, srvVars
<1> QED
  BY <1>1, <1>2, <1>3, <1>4, <1>5, <1>6, <1>7, <1>8, <1>9, <1>10, <1>11, <1>12, <1>13, <1>14, <1>15, <1>16, <1>17, <1>18, <1>19 DEF Next

\* Every step keeps what is said of the calls.
LEMMA CallsStep ==
  ASSUME IInv, [Next]_vars
  PROVE  CallInv'
<1> USE SocketFacts
<1>1. CASE UNCHANGED vars
  BY <1>1 DEF IInv, TypeOK, HeardInv, CallInv, vars, connVars, callVars, srvVars
<1>2. ASSUME NEW c \in Calls, Ask(c)
      PROVE  CallInv'
  <2>1. HeardInv /\ TypeOK /\ CallInv /\ connect(c) /\ UNCHANGED << pending, via, got, srv, emitted >>
    BY <1>2 DEF IInv, Ask, connect, srvVars
  <2>2. \A k \in Sockets : sock[k] = "open" => sock'[k] = "open"
    BY <2>1, ConnectEffect
  <2>3. pc[c] \in {"idle", "await"} /\ pc' = [pc EXCEPT ![c] = "await"]
    BY <1>2 DEF Ask, connect, Connected
  <2>4. \A r \in Calls : pending[r] => via[r] \in Sockets
    BY <2>1 DEF TypeOK, CallInv
  <2> QED
    BY <2>1, <2>2, <2>3, <2>4 DEF TypeOK, CallInv
<1>3. ASSUME NEW c \in Calls, AskAgain(c)
      PROVE  CallInv'
  <2>1. HeardInv /\ TypeOK /\ CallInv /\ connect(c) /\ UNCHANGED << pending, via, got, srv, emitted >>
    BY <1>3 DEF IInv, AskAgain, connect, srvVars
  <2>2. \A k \in Sockets : sock[k] = "open" => sock'[k] = "open"
    BY <2>1, ConnectEffect
  <2>3. pc[c] \in {"idle", "await"} /\ pc' = [pc EXCEPT ![c] = "await"]
    BY <1>3 DEF AskAgain, connect, Connected
  <2>4. \A r \in Calls : pending[r] => via[r] \in Sockets
    BY <2>1 DEF TypeOK, CallInv
  <2> QED
    BY <2>1, <2>2, <2>3, <2>4 DEF TypeOK, CallInv
<1>4. ASSUME NEW c \in Calls, Send(c)
      PROVE  CallInv'
  <2>1. UNCHANGED << got, emitted, sock >> /\ pc[c] = "await"
    BY <1>4 DEF Send, connVars, Connected
  <2>2. CASE IsOpen(ws)
    <3>1. ws # None /\ ws \in Sockets /\ sock[ws] = "open"
      BY <2>2 DEF IInv, TypeOK, IsOpen
    <3>2. /\ pc' = [pc EXCEPT ![c] = "waiting"]
          /\ pending' = [pending EXCEPT ![c] = TRUE]
          /\ via' = [via EXCEPT ![c] = ws]
          /\ srv' = [srv EXCEPT ![c] = "sent"]
      BY <1>4, <2>2 DEF Send
    <3>3. \A r \in Calls : r # c =>
            pc'[r] = pc[r] /\ (pending'[r] <=> pending[r]) /\ via'[r] = via[r] /\ srv'[r] = srv[r]
      BY <3>2 DEF IInv, TypeOK
    <3>4. pc'[c] = "waiting" /\ via'[c] = ws
      BY <3>2 DEF IInv, TypeOK
    <3> QED
      BY <2>1, <3>1, <3>3, <3>4 DEF IInv, CallInv
  <2>3. CASE ~ IsOpen(ws)
    <3>1. pc' = [pc EXCEPT ![c] = "failed"] /\ UNCHANGED << pending, via, srv >>
      BY <1>4, <2>3 DEF Send
    <3> QED
      BY <2>1, <3>1 DEF IInv, TypeOK, CallInv
  <2> QED
    BY <2>2, <2>3
<1>5. ASSUME NEW c \in Calls, Refused(c)
      PROVE  CallInv'
  BY <1>5 DEF IInv, TypeOK, HeardInv, CallInv, Refused, vars, connVars, callVars, srvVars
<1>6. ASSUME NEW c \in Calls, SendChunk(c)
      PROVE  CallInv'
  BY <1>6 DEF IInv, TypeOK, HeardInv, CallInv, SendChunk, Serving, Push, IsOpen, vars, connVars, callVars, srvVars
<1>7. ASSUME NEW c \in Calls, SendResponse(c)
      PROVE  CallInv'
  BY <1>7 DEF IInv, TypeOK, HeardInv, CallInv, SendResponse, Serving, Push, IsOpen, vars, connVars, callVars, srvVars
<1>8. ASSUME NEW c \in Calls, SendError(c)
      PROVE  CallInv'
  BY <1>8 DEF IInv, TypeOK, HeardInv, CallInv, SendError, Serving, Push, IsOpen, vars, connVars, callVars, srvVars
<1>9. ASSUME NEW c \in Calls, SendFails(c)
      PROVE  CallInv'
  BY <1>9 DEF IInv, TypeOK, HeardInv, CallInv, SendFails, IsOpen, vars, connVars, callVars, srvVars
<1>10. ASSUME NEW c \in Calls, TimesOut(c)
      PROVE  CallInv'
  BY <1>10 DEF IInv, TypeOK, HeardInv, CallInv, TimesOut, Settle, vars, connVars, callVars, srvVars
<1>11. ASSUME NEW c \in Calls, Cancel(c)
      PROVE  CallInv'
  BY <1>11 DEF IInv, TypeOK, HeardInv, CallInv, Cancel, Settle, vars, connVars, callVars, srvVars
<1>12. ASSUME NEW s \in Sockets, FetchConnects(s)
      PROVE  CallInv'
  BY <1>12 DEF IInv, TypeOK, HeardInv, CallInv, FetchConnects, vars, connVars, callVars, srvVars
<1>13. ASSUME NEW s \in Sockets, FetchFails(s)
      PROVE  CallInv'
  BY <1>13 DEF IInv, TypeOK, HeardInv, CallInv, FetchFails, Rejects, vars, connVars, callVars, srvVars
<1>14. ASSUME NEW s \in Sockets, Opens(s)
      PROVE  CallInv'
  BY <1>14 DEF IInv, TypeOK, HeardInv, CallInv, Opens, vars, connVars, callVars, srvVars
<1>15. ASSUME NEW s \in Sockets, ConnectError(s)
      PROVE  CallInv'
  BY <1>15 DEF IInv, TypeOK, HeardInv, CallInv, ConnectError, Rejects, vars, connVars, callVars, srvVars
<1>16. ASSUME NEW s \in Sockets, CloseEvent(s)
      PROVE  CallInv'
  BY <1>16 DEF IInv, TypeOK, HeardInv, CallInv, CloseEvent, handleClose, FailsPending, vars, connVars, callVars, srvVars
<1>17. ASSUME NEW s \in Sockets, ConnectTimesOut(s)
      PROVE  CallInv'
  BY <1>17 DEF IInv, TypeOK, HeardInv, CallInv, ConnectTimesOut, cleanup, vars, connVars, callVars, srvVars
<1>18. ASSUME NEW s \in Sockets, handleMessage(s)
      PROVE  CallInv'
  <2> DEFINE msg == Head(inbox[s])
  <2>1. /\ inbox[s] \in Seq(Messages) /\ inbox[s] # << >>
        /\ msg \in Messages /\ msg.id \in Calls /\ 1 \in 1..Len(inbox[s]) /\ msg = inbox[s][1]
    BY <1>18, MessageFacts DEF IInv, TypeOK, handleMessage
  <2>2. via[msg.id] = s
    BY <2>1 DEF IInv, InboxInv
  <2>3. msg.type = "chunk" /\ pending[msg.id] => Len(got[msg.id]) + 1 <= emitted[msg.id]
    <3>1. msg.type = "chunk" => ChunkAt(msg.id, 1) /\ 1 \in Places(msg.id)
      BY <2>1, <2>2 DEF ChunkAt, Places
    <3>2. Len(got[msg.id]) \in Nat /\ emitted[msg.id] \in Nat
      BY <2>1 DEF IInv, TypeOK
    <3>3. msg.type = "chunk" /\ pending[msg.id] => msg.n \in (Len(got[msg.id]) + 1)..emitted[msg.id]
      BY <2>1, <2>2, <3>1 DEF IInv, OrderInv, OrderOf
    <3> QED
      BY <3>2, <3>3
  <2>4. handleResponse(msg) \/ handleStreamChunk(msg) \/ handleError(msg) \/ Unknown(msg)
    BY <1>18 DEF handleMessage
  <2>5. UNCHANGED << sock, via, srv, emitted >>
    BY <1>18 DEF handleMessage, connVars, srvVars
  <2> HIDE DEF msg
  <2>6. CASE handleStreamChunk(msg)
    <3>1. /\ pending[msg.id] /\ msg.type = "chunk" /\ UNCHANGED << pc, pending >>
          /\ got' = [got EXCEPT ![msg.id] = Append(got[msg.id], msg.n)]
      BY <2>6 DEF handleStreamChunk, Awaited
    <3>2. pc[msg.id] = "waiting"
      BY <2>1, <3>1 DEF IInv, CallInv
    <3>3. \A r \in Calls : r # msg.id => got'[r] = got[r]
      BY <2>1, <3>1 DEF IInv, TypeOK
    <3>4. Len(got'[msg.id]) = Len(got[msg.id]) + 1
      BY <2>1, <3>1 DEF IInv, TypeOK
    <3> QED
      BY <2>1, <2>3, <2>5, <3>1, <3>2, <3>3, <3>4 DEF IInv, CallInv
  <2>7. CASE got' = got
    <3>1. \A r \in Calls : pending'[r] => pending[r] /\ pc'[r] = pc[r]
      BY <2>1, <2>4, <2>7 DEF IInv, TypeOK, handleResponse, handleStreamChunk, handleError, Unknown, Settle, Awaited
    <3>2. \A r \in Calls : pc'[r] \in {"idle", "await"} => pc[r] \in {"idle", "await"}
      BY <2>1, <2>4, <2>7 DEF IInv, TypeOK, handleResponse, handleStreamChunk, handleError, Unknown, Settle, Awaited
    <3> QED
      BY <2>5, <2>7, <3>1, <3>2 DEF IInv, CallInv
  <2> QED
    BY <2>4, <2>6, <2>7 DEF handleResponse, handleError, Unknown
<1>19. CASE disconnect
  BY <1>19 DEF IInv, TypeOK, HeardInv, CallInv, disconnect, cleanup, vars, connVars, callVars, srvVars
<1> QED
  BY <1>1, <1>2, <1>3, <1>4, <1>5, <1>6, <1>7, <1>8, <1>9, <1>10, <1>11, <1>12, <1>13, <1>14, <1>15, <1>16, <1>17, <1>18, <1>19 DEF Next

-----------------------------------------------------------------------------
(***************************************************************************)
(* The messages                                                            *)
(***************************************************************************)

\* Where the messages are after one was sent,
LEMMA PushPlaces ==
  ASSUME TypeOK, NEW k \in Sockets, NEW m \in Messages, Push(k, m)
  PROVE  /\ Len(inbox[k]) \in Nat
         /\ Len(inbox'[k]) = Len(inbox[k]) + 1
         /\ \A i \in 1..Len(inbox[k]) : inbox'[k][i] = inbox[k][i]
         /\ inbox'[k][Len(inbox[k]) + 1] = m
         /\ \A j \in Sockets : j # k => inbox'[j] = inbox[j]
<1>1. inbox[k] \in Seq(Messages) /\ inbox' = [inbox EXCEPT ![k] = Append(inbox[k], m)]
  BY DEF TypeOK, Push
<1>2. inbox'[k] = Append(inbox[k], m) /\ \A j \in Sockets : j # k => inbox'[j] = inbox[j]
  BY <1>1 DEF TypeOK
<1> QED
  BY <1>1, <1>2, AppendProperties

\* and after one was received.
LEMMA TakePlaces ==
  ASSUME TypeOK, NEW k \in Sockets, inbox[k] # << >>, inbox' = [inbox EXCEPT ![k] = Tail(@)]
  PROVE  /\ Len(inbox[k]) \in Nat \ {0}
         /\ Len(inbox'[k]) = Len(inbox[k]) - 1
         /\ \A i \in 1..Len(inbox'[k]) : inbox'[k][i] = inbox[k][i + 1]
         /\ Head(inbox[k]) = inbox[k][1]
         /\ \A j \in Sockets : j # k => inbox'[j] = inbox[j]
<1>1. inbox[k] \in Seq(Messages) /\ inbox'[k] = Tail(inbox[k])
      /\ \A j \in Sockets : j # k => inbox'[j] = inbox[j]
  BY DEF TypeOK
<1>2. \A q \in Seq(Messages) : q # << >> =>
        /\ Len(q) \in Nat \ {0} /\ Head(q) = q[1] /\ Len(Tail(q)) = Len(q) - 1
        /\ \A i \in 1..Len(Tail(q)) : Tail(q)[i] = q[i + 1]
  OBVIOUS
<1> QED
  BY <1>1, <1>2

\* A step that leaves the messages, but for some that are lost, and what was
\* sent on which socket.
LEMMA InboxKept ==
  ASSUME TypeOK, InboxInv, via' = via,
         \A k \in Sockets : inbox'[k] = inbox[k] \/ inbox'[k] = << >>,
         \A r \in Calls : srv[r] = "done" => srv'[r] = "done"
  PROVE  InboxInv'
<1>1. \A k \in Sockets : \A i \in 1..Len(inbox[k]) : inbox[k][i].id \in Calls
  BY MessageFacts DEF TypeOK
<1>2. Len(<< >>) = 0 /\ 1..0 = {}
  OBVIOUS
<1> SUFFICES ASSUME NEW k \in Sockets, NEW i \in 1..Len(inbox'[k])
             PROVE  /\ via'[inbox'[k][i].id] = k
                    /\ inbox'[k][i].type # "chunk" => srv'[inbox'[k][i].id] = "done"
  BY DEF InboxInv
<1>3. inbox'[k] = inbox[k]
  BY <1>2
<1> QED
  BY <1>1, <1>3 DEF InboxInv

\* A message of a call that is served keeps it.
LEMMA InboxPushed ==
  ASSUME TypeOK, InboxInv, NEW r \in Calls, via[r] \in Sockets, NEW m \in Messages,
         m.id = r, Push(via[r], m), via' = via,
         \A q \in Calls : srv[q] = "done" => srv'[q] = "done",
         m.type # "chunk" => srv'[r] = "done"
  PROVE  InboxInv'
<1>1. \A k \in Sockets : \A i \in 1..Len(inbox[k]) : inbox[k][i].id \in Calls
  BY MessageFacts DEF TypeOK
<1> SUFFICES ASSUME NEW k \in Sockets, NEW i \in 1..Len(inbox'[k])
             PROVE  /\ via'[inbox'[k][i].id] = k
                    /\ inbox'[k][i].type # "chunk" => srv'[inbox'[k][i].id] = "done"
  BY DEF InboxInv
<1>2. CASE k = via[r] /\ i = Len(inbox[k]) + 1
  BY <1>2, PushPlaces
<1>3. CASE ~ (k = via[r] /\ i = Len(inbox[k]) + 1)
  <2>1. i \in 1..Len(inbox[k]) /\ inbox'[k][i] = inbox[k][i]
    BY <1>3, PushPlaces
  <2> QED
    BY <1>1, <2>1 DEF InboxInv
<1> QED
  BY <1>2, <1>3

\* A step that leaves what a call was given and what is on its way to it
LEMMA OrderKept ==
  ASSUME NEW r \in Calls, OrderOf(r),
         via'[r] = via[r], got'[r] = got[r], emitted'[r] = emitted[r],
         inbox'[via[r]] = inbox[via[r]]
  PROVE  OrderOf(r)'
<1>1. /\ Places(r)' = Places(r)
      /\ \A i : (ChunkAt(r, i)' <=> ChunkAt(r, i)) /\ (FinalAt(r, i)' <=> FinalAt(r, i))
  BY DEF Places, ChunkAt, FinalAt
<1> QED
  BY <1>1 DEF OrderOf

\* A message is sent on the socket of call r: one of another call, or the next of
\* its own, no final one before it.
LEMMA OrderPushed ==
  ASSUME TypeOK, CallInv, NEW r \in Calls, via[r] \in Sockets, OrderOf(r),
         NEW m \in Messages, Push(via[r], m), via'[r] = via[r], got'[r] = got[r],
         m.id = r => \A i \in Places(r) : ~ FinalAt(r, i),
         m.id = r /\ m.type = "chunk" =>
           m.n = emitted[r] + 1 /\ emitted'[r] = emitted[r] + 1,
         ~ (m.id = r /\ m.type = "chunk") => emitted'[r] = emitted[r]
  PROVE  OrderOf(r)'
<1>0. PICK N \in Nat : N = Len(inbox[via[r]])
  BY PushPlaces
<1>1. /\ N \in Nat /\ Places(r) = 1..N /\ Places(r)' = 1..(N + 1)
      /\ \A i \in 1..N : inbox'[via'[r]][i] = inbox[via[r]][i]
      /\ inbox'[via'[r]][N + 1] = m
  BY <1>0, PushPlaces DEF Places
<1>2. \A i \in 1..N : (ChunkAt(r, i)' <=> ChunkAt(r, i)) /\ (FinalAt(r, i)' <=> FinalAt(r, i))
  BY <1>1 DEF ChunkAt, FinalAt
<1>3. (ChunkAt(r, N + 1)' <=> m.id = r /\ m.type = "chunk") /\ (FinalAt(r, N + 1)' => m.id = r)
  BY <1>1 DEF ChunkAt, FinalAt
<1>4. Len(got[r]) \in Nat /\ emitted[r] \in Nat /\ Len(got[r]) <= emitted[r]
  <2>1. Len(got[r]) \in Nat /\ emitted[r] \in Nat
    BY BoundAssumption DEF TypeOK
  <2> QED
    BY <2>1 DEF CallInv
<1>5. \A i \in Places(r)' : i \in 1..N \/ i = N + 1
  BY <1>1
<1>6. \A i \in Places(r)' : ChunkAt(r, i)' => inbox'[via'[r]][i].n \in (Len(got'[r]) + 1)..emitted'[r]
  <2> TAKE i \in Places(r)'
  <2>1. CASE i \in 1..N
    <3>1. ChunkAt(r, i) => inbox[via[r]][i].n \in (Len(got[r]) + 1)..emitted[r]
      BY <1>1, <2>1 DEF OrderOf
    <3>2. emitted'[r] = emitted[r] \/ emitted'[r] = emitted[r] + 1
      OBVIOUS
    <3> QED
      BY <1>1, <1>2, <1>4, <2>1, <3>1, <3>2
  <2>2. CASE i = N + 1
    BY <1>1, <1>3, <1>4, <2>2
  <2> QED
    BY <1>5, <2>1, <2>2
<1>7. \A i, j \in Places(r)' : ChunkAt(r, i)' /\ ChunkAt(r, j)' /\ i < j =>
        inbox'[via'[r]][i].n < inbox'[via'[r]][j].n
  <2> TAKE i, j \in Places(r)'
  <2>1. CASE j \in 1..N
    <3>1. i < j => i \in 1..N
      BY <1>1, <1>5, <2>1
    <3> QED
      BY <1>1, <1>2, <2>1, <3>1 DEF OrderOf
  <2>2. CASE j = N + 1
    <3>1. i < j => i \in 1..N
      BY <1>1, <1>5, <2>2
    <3>2. ASSUME i \in 1..N, ChunkAt(r, i)'
          PROVE  inbox'[via'[r]][i].n \in (Len(got[r]) + 1)..emitted[r]
      BY <1>1, <1>2, <3>2 DEF OrderOf
    <3> QED
      BY <1>1, <1>3, <1>4, <2>2, <3>1, <3>2
  <2> QED
    BY <1>5, <2>1, <2>2
<1>8. \A n \in (Len(got'[r]) + 1)..emitted'[r] :
        \E i \in Places(r)' : ChunkAt(r, i)' /\ inbox'[via'[r]][i].n = n
  <2> TAKE n \in (Len(got'[r]) + 1)..emitted'[r]
  <2>1. CASE n \in (Len(got[r]) + 1)..emitted[r]
    BY <1>1, <1>2, <2>1 DEF OrderOf
  <2>2. CASE n \notin (Len(got[r]) + 1)..emitted[r]
    <3>1. n = emitted[r] + 1 /\ m.id = r /\ m.type = "chunk" /\ m.n = n
      BY <1>4, <2>2
    <3>2. N + 1 \in Places(r)'
      BY <1>1
    <3> QED
      BY <1>1, <1>3, <3>1, <3>2
  <2> QED
    BY <2>1, <2>2
<1>9. \A i, j \in Places(r)' : FinalAt(r, i)' /\ i < j => inbox'[via'[r]][j].id # r
  BY <1>1, <1>2, <1>3, <1>5 DEF OrderOf
<1> QED
  BY <1>6, <1>7, <1>8, <1>9 DEF OrderOf

\* What comes first: the chunk the stream is given next, or a final message when
\* it was given all.
LEMMA FirstPlace ==
  ASSUME TypeOK, CallInv, NEW r \in Calls, OrderOf(r), 1 \in Places(r)
  PROVE  /\ ChunkAt(r, 1) => inbox[via[r]][1].n = Len(got[r]) + 1 /\ Len(got[r]) < emitted[r]
         /\ FinalAt(r, 1) => Len(got[r]) = emitted[r]
<1>1. Len(got[r]) \in Nat /\ emitted[r] \in Nat /\ Len(got[r]) <= emitted[r]
  BY BoundAssumption DEF TypeOK, CallInv
<1>2. \A i \in Places(r) : i = 1 \/ 1 < i
  BY DEF Places
<1>3. ASSUME ChunkAt(r, 1)
      PROVE  inbox[via[r]][1].n = Len(got[r]) + 1 /\ Len(got[r]) < emitted[r]
  <2>1. inbox[via[r]][1].n \in (Len(got[r]) + 1)..emitted[r]
    BY <1>3 DEF OrderOf
  <2>2. PICK i \in Places(r) : ChunkAt(r, i) /\ inbox[via[r]][i].n = Len(got[r]) + 1
    BY <1>1, <2>1 DEF OrderOf
  <2>3. 1 < i => inbox[via[r]][1].n < inbox[via[r]][i].n
    BY <1>3, <2>2 DEF OrderOf
  <2> QED
    BY <1>1, <1>2, <2>1, <2>2, <2>3
<1>4. ASSUME FinalAt(r, 1), Len(got[r]) # emitted[r]
      PROVE  FALSE
  <2>1. PICK i \in Places(r) : ChunkAt(r, i)
    BY <1>1, <1>4 DEF OrderOf
  <2>2. i # 1
    BY <1>4, <2>1 DEF ChunkAt, FinalAt
  <2> QED
    BY <1>2, <1>4, <2>1, <2>2 DEF OrderOf, ChunkAt
<1> QED
  BY <1>3, <1>4

\* The first message on the socket of call r is received.
LEMMA OrderTaken ==
  ASSUME TypeOK, CallInv, NEW r \in Calls, via[r] \in Sockets, OrderOf(r),
         inbox[via[r]] # << >>, inbox' = [inbox EXCEPT ![via[r]] = Tail(@)],
         via'[r] = via[r], emitted'[r] = emitted[r],
         Len(got'[r]) = IF ChunkAt(r, 1) THEN Len(got[r]) + 1 ELSE Len(got[r])
  PROVE  OrderOf(r)'
<1> DEFINE N == Len(inbox'[via[r]])
<1>1. /\ N \in Nat /\ Places(r) = 1..(N + 1) /\ Places(r)' = 1..N
      /\ \A i \in 1..N : inbox'[via'[r]][i] = inbox[via[r]][i + 1]
  <2>1. /\ Len(inbox[via[r]]) \in Nat \ {0} /\ N = Len(inbox[via[r]]) - 1
        /\ \A i \in 1..N : inbox'[via[r]][i] = inbox[via[r]][i + 1]
    BY TakePlaces
  <2>2. Places(r) = 1..Len(inbox[via[r]]) /\ Places(r)' = 1..N
    BY DEF Places
  <2> HIDE DEF N
  <2>3. N \in Nat /\ Len(inbox[via[r]]) = N + 1
    BY <2>1
  <2> QED
    BY <2>1, <2>2, <2>3
<1>2. \A i \in 1..N : (ChunkAt(r, i)' <=> ChunkAt(r, i + 1)) /\ (FinalAt(r, i)' <=> FinalAt(r, i + 1))
  BY <1>1 DEF ChunkAt, FinalAt
<1>3. Len(got[r]) \in Nat /\ emitted[r] \in Nat
  BY BoundAssumption DEF TypeOK
<1> HIDE DEF N
<1>4. \A i \in 1..N : i + 1 \in Places(r) /\ 1 < i + 1
  BY <1>1
<1>5. 1 \in Places(r)
  BY <1>1
<1>6. ChunkAt(r, 1) => inbox[via[r]][1].n = Len(got[r]) + 1
  BY <1>5, FirstPlace
<1>7. ASSUME NEW i \in 1..N, ChunkAt(r, i)'
      PROVE  inbox'[via'[r]][i].n \in (Len(got'[r]) + 1)..emitted'[r]
  <2>1. inbox'[via'[r]][i].n \in (Len(got[r]) + 1)..emitted[r]
    BY <1>1, <1>2, <1>4, <1>7 DEF OrderOf
  <2>2. ChunkAt(r, 1) => Len(got[r]) + 1 < inbox'[via'[r]][i].n
    BY <1>1, <1>2, <1>4, <1>5, <1>6, <1>7 DEF OrderOf
  <2>3. CASE ChunkAt(r, 1)
    <3>1. Len(got'[r]) = Len(got[r]) + 1 /\ emitted'[r] = emitted[r]
      BY <2>3
    <3>2. PICK n \in (Len(got[r]) + 1)..emitted[r] : n = inbox'[via'[r]][i].n
      BY <2>1
    <3>3. n \in ((Len(got[r]) + 1) + 1)..emitted[r]
      <4>1. Len(got[r]) + 1 < n
        BY <2>2, <2>3, <3>2
      <4> QED
        BY <1>3, <4>1
    <3> QED
      BY <3>1, <3>2, <3>3
  <2>4. CASE ~ ChunkAt(r, 1)
    BY <2>1, <2>4
  <2> QED
    BY <2>3, <2>4
<1>8. ASSUME NEW i \in 1..N, NEW j \in 1..N, ChunkAt(r, i)', ChunkAt(r, j)', i < j
      PROVE  inbox'[via'[r]][i].n < inbox'[via'[r]][j].n
  <2>1. i + 1 < j + 1
    BY <1>8, <1>1
  <2> QED
    BY <1>1, <1>2, <1>4, <1>8, <2>1 DEF OrderOf
<1>9. ASSUME NEW n \in (Len(got'[r]) + 1)..emitted'[r]
      PROVE  \E i \in 1..N : ChunkAt(r, i)' /\ inbox'[via'[r]][i].n = n
  <2>1. n \in (Len(got[r]) + 1)..emitted[r] /\ (ChunkAt(r, 1) => n # Len(got[r]) + 1)
    BY <1>3
  <2>2. PICK j \in Places(r) : ChunkAt(r, j) /\ inbox[via[r]][j].n = n
    BY <2>1 DEF OrderOf
  <2>3. j # 1
    BY <1>6, <2>1, <2>2
  <2>4. j - 1 \in 1..N /\ (j - 1) + 1 = j
    BY <1>1, <2>3
  <2> QED
    BY <1>1, <1>2, <2>2, <2>4
<1>10. ASSUME NEW i \in 1..N, NEW j \in 1..N, FinalAt(r, i)', i < j
       PROVE  inbox'[via'[r]][j].id # r
  <2>1. i + 1 < j + 1
    BY <1>10, <1>1
  <2> QED
    BY <1>1, <1>2, <1>4, <1>10, <2>1 DEF OrderOf
<1> QED
  BY <1>1, <1>7, <1>8, <1>9, <1>10 DEF OrderOf

\* Every step keeps the messages on the socket of their call.
LEMMA InboxStep ==
  ASSUME IInv, [Next]_vars
  PROVE  InboxInv'
<1>0. ASSUME via' = via,
             \A k \in Sockets : inbox'[k] = inbox[k] \/ inbox'[k] = << >>,
             \A r \in Calls : srv[r] = "done" => srv'[r] = "done"
      PROVE  InboxInv'
  BY <1>0, InboxKept DEF IInv
<1>1. CASE UNCHANGED vars
  BY <1>1 DEF IInv, TypeOK, InboxInv, vars, connVars, callVars, srvVars
<1>2. ASSUME NEW c \in Calls, Ask(c)
      PROVE  InboxInv'
  BY <1>0, <1>2 DEF Ask, callVars, srvVars, connect
<1>3. ASSUME NEW c \in Calls, AskAgain(c)
      PROVE  InboxInv'
  BY <1>0, <1>3 DEF AskAgain, callVars, srvVars, connect
<1>4. ASSUME NEW c \in Calls, Send(c)
      PROVE  InboxInv'
  <2>1. via[c] = None /\ srv[c] = "none" /\ inbox' = inbox
    BY <1>4 DEF IInv, CallInv, Send, Connected
  <2>2. \A k \in Sockets : \A i \in 1..Len(inbox[k]) : inbox[k][i].id \in Calls /\ inbox[k][i].id # c
    BY <2>1, SocketFacts, MessageFacts DEF IInv, TypeOK, InboxInv
  <2>3. \A r \in Calls : r # c => via'[r] = via[r] /\ srv'[r] = srv[r]
    BY <1>4 DEF IInv, TypeOK, Send
  <2> QED
    BY <2>1, <2>2, <2>3 DEF IInv, InboxInv
<1>5. ASSUME NEW c \in Calls, Refused(c)
      PROVE  InboxInv'
  BY <1>0, <1>5 DEF Refused, callVars, srvVars
<1>6. ASSUME NEW c \in Calls, SendChunk(c)
      PROVE  InboxInv'
  <2>1. via[c] \in Sockets
    BY <1>6 DEF IInv, TypeOK, SendChunk, Serving, IsOpen
  <2>2. via' = via
    BY <1>6 DEF SendChunk, callVars
  <2>3. \A r \in Calls : srv[r] = "done" => srv'[r] = "done"
    BY <1>6 DEF SendChunk
  <2>4. emitted[c] + 1 \in 1..MaxChunks /\ c \in Streams
    BY <1>6, BoundAssumption DEF IInv, TypeOK, SendChunk
  <2> DEFINE m == [type |-> "chunk", id |-> c, n |-> emitted[c] + 1]
  <2>5. m \in Messages /\ m.id = c /\ m.type = "chunk" /\ Push(via[c], m)
    BY <1>6, <2>4, MessageFacts DEF SendChunk
  <2> QED
    BY <2>1, <2>2, <2>3, <2>5, InboxPushed DEF IInv
<1>7. ASSUME NEW c \in Calls, SendResponse(c)
      PROVE  InboxInv'
  <2>1. via[c] \in Sockets
    BY <1>7 DEF IInv, TypeOK, SendResponse, Serving, IsOpen
  <2>2. via' = via
    BY <1>7 DEF SendResponse, callVars
  <2>3. \A r \in Calls : srv[r] = "done" => srv'[r] = "done"
    BY <1>7 DEF IInv, TypeOK, SendResponse
  <2>4. PICK g \in BOOLEAN : Push(via[c], [type |-> "response", id |-> c, good |-> g])
    BY <1>7 DEF SendResponse
  <2> DEFINE m == [type |-> "response", id |-> c, good |-> g]
  <2>5. m \in Messages /\ m.id = c /\ Push(via[c], m) /\ srv'[c] = "done"
    BY <1>7, <2>4, MessageFacts DEF SendResponse, IInv, TypeOK
  <2> QED
    BY <2>1, <2>2, <2>3, <2>5, InboxPushed DEF IInv
<1>8. ASSUME NEW c \in Calls, SendError(c)
      PROVE  InboxInv'
  <2>1. via[c] \in Sockets
    BY <1>8 DEF IInv, TypeOK, SendError, Serving, IsOpen
  <2>2. via' = via
    BY <1>8 DEF SendError, callVars
  <2>3. \A r \in Calls : srv[r] = "done" => srv'[r] = "done"
    BY <1>8 DEF IInv, TypeOK, SendError
  <2> DEFINE m == [type |-> "error", id |-> c]
  <2>5. m \in Messages /\ m.id = c /\ Push(via[c], m) /\ srv'[c] = "done"
    BY <1>8, MessageFacts DEF SendError, IInv, TypeOK
  <2> QED
    BY <2>1, <2>2, <2>3, <2>5, InboxPushed DEF IInv
<1>9. ASSUME NEW c \in Calls, SendFails(c)
      PROVE  InboxInv'
  BY <1>0, <1>9 DEF SendFails, callVars, srvVars, IInv, TypeOK
<1>10. ASSUME NEW c \in Calls, TimesOut(c)
      PROVE  InboxInv'
  BY <1>0, <1>10 DEF TimesOut, callVars, srvVars
<1>11. ASSUME NEW c \in Calls, Cancel(c)
      PROVE  InboxInv'
  BY <1>0, <1>11 DEF Cancel, callVars, srvVars
<1>12. ASSUME NEW s \in Sockets, FetchConnects(s)
      PROVE  InboxInv'
  BY <1>0, <1>12 DEF FetchConnects, callVars, srvVars
<1>13. ASSUME NEW s \in Sockets, FetchFails(s)
      PROVE  InboxInv'
  BY <1>0, <1>13 DEF FetchFails, callVars, srvVars
<1>14. ASSUME NEW s \in Sockets, Opens(s)
      PROVE  InboxInv'
  BY <1>0, <1>14 DEF Opens, callVars, srvVars
<1>15. ASSUME NEW s \in Sockets, ConnectError(s)
      PROVE  InboxInv'
  BY <1>0, <1>15 DEF ConnectError, callVars, srvVars
<1>16. ASSUME NEW s \in Sockets, CloseEvent(s)
      PROVE  InboxInv'
  BY <1>0, <1>16 DEF CloseEvent, callVars, srvVars, IInv, TypeOK
<1>17. ASSUME NEW s \in Sockets, ConnectTimesOut(s)
      PROVE  InboxInv'
  <2>1. \A k \in Sockets : inbox'[k] = inbox[k] \/ inbox'[k] = << >>
    BY <1>17, CleanupTypes, SocketFacts DEF ConnectTimesOut
  <2> QED
    BY <1>0, <1>17, <2>1 DEF ConnectTimesOut, callVars, srvVars
<1>18. ASSUME NEW s \in Sockets, handleMessage(s)
      PROVE  InboxInv'
  <2>1. inbox[s] # << >> /\ inbox' = [inbox EXCEPT ![s] = Tail(@)] /\ UNCHANGED << via, srv >>
    BY <1>18 DEF handleMessage, srvVars
  <2>2. \A k \in Sockets : \A i \in 1..Len(inbox'[k]) : \E j \in 1..Len(inbox[k]) : inbox'[k][i] = inbox[k][j]
    <3> TAKE k \in Sockets
    <3> TAKE i \in 1..Len(inbox'[k])
    <3>1. CASE k = s
      <4>1. /\ Len(inbox[s]) \in Nat \ {0} /\ Len(inbox'[s]) = Len(inbox[s]) - 1
            /\ \A j \in 1..Len(inbox'[s]) : inbox'[s][j] = inbox[s][j + 1]
        BY <2>1, TakePlaces DEF IInv
      <4>2. i + 1 \in 1..Len(inbox[s])
        BY <3>1, <4>1
      <4> QED
        BY <3>1, <4>1, <4>2
    <3>2. CASE k # s
      BY <2>1, <3>2, TakePlaces DEF IInv
    <3> QED
      BY <3>1, <3>2
  <2> QED
    BY <2>1, <2>2 DEF IInv, InboxInv
<1>19. CASE disconnect
  <2>1. \A k \in Sockets : inbox'[k] = inbox[k] \/ inbox'[k] = << >>
    BY <1>19, CleanupTypes, SocketFacts DEF disconnect
  <2> QED
    BY <1>0, <1>19, <2>1 DEF disconnect, callVars, srvVars
<1> QED
  BY <1>1, <1>2, <1>3, <1>4, <1>5, <1>6, <1>7, <1>8, <1>9, <1>10, <1>11, <1>12, <1>13, <1>14, <1>15, <1>16, <1>17, <1>18, <1>19 DEF Next

\* Every step keeps the order of what is on its way to a pending call.
LEMMA OrderStep ==
  ASSUME IInv, [Next]_vars
  PROVE  OrderInv'
<1>0. ASSUME \A r \in Calls : pending'[r] =>
               /\ pending[r] /\ via'[r] = via[r] /\ got'[r] = got[r] /\ emitted'[r] = emitted[r]
               /\ inbox'[via[r]] = inbox[via[r]]
      PROVE  OrderInv'
  BY <1>0, OrderKept DEF IInv, OrderInv
<1>1. CASE UNCHANGED vars
  BY <1>0, <1>1 DEF vars, callVars, srvVars
<1>2. ASSUME NEW c \in Calls, Ask(c)
      PROVE  OrderInv'
  BY <1>0, <1>2 DEF Ask, callVars, srvVars, connect
<1>3. ASSUME NEW c \in Calls, AskAgain(c)
      PROVE  OrderInv'
  BY <1>0, <1>3 DEF AskAgain, callVars, srvVars, connect
<1>4. ASSUME NEW c \in Calls, Send(c)
      PROVE  OrderInv'
  <2>1. UNCHANGED << got, emitted, inbox >> /\ pc[c] = "await"
    BY <1>4 DEF Send, Connected
  <2>2. via[c] = None /\ emitted[c] = 0 /\ got[c] = << >>
    BY <2>1 DEF IInv, CallInv
  <2>3. \A k \in Sockets : \A i \in 1..Len(inbox[k]) : inbox[k][i].id # c
    BY <2>2, SocketFacts DEF IInv, InboxInv
  <2>4. \A r \in Calls : r # c => via'[r] = via[r] /\ (pending'[r] <=> pending[r])
    BY <1>4 DEF IInv, TypeOK, Send
  <2>5. \A r \in Calls : r # c /\ pending'[r] => OrderOf(r)'
    BY <2>1, <2>4, OrderKept DEF IInv, OrderInv
  <2>6. ASSUME pending'[c]
        PROVE  OrderOf(c)'
    <3>1. via'[c] \in Sockets
      <4>1. CASE IsOpen(ws)
        <5>1. via' = [via EXCEPT ![c] = ws] /\ ws \in Sockets
          BY <1>4, <4>1 DEF Send, IInv, TypeOK, IsOpen
        <5> QED
          BY <5>1 DEF IInv, TypeOK
      <4>2. CASE ~ IsOpen(ws)
        <5>1. pending[c]
          BY <1>4, <2>6, <4>2 DEF Send
        <5> QED
          BY <2>2, <5>1 DEF IInv, CallInv
      <4> QED
        BY <4>1, <4>2
    <3>2. \A i \in Places(c)' : ~ ChunkAt(c, i)' /\ ~ FinalAt(c, i)'
      BY <2>1, <2>3, <3>1 DEF Places, ChunkAt, FinalAt
    <3>3. (Len(got'[c]) + 1)..emitted'[c] = {}
      <4>1. Len(<< >>) = 0 /\ (0 + 1)..0 = {}
        OBVIOUS
      <4> QED
        BY <2>1, <2>2, <4>1
    <3> QED
      BY <3>2, <3>3 DEF OrderOf
  <2> QED
    BY <2>5, <2>6 DEF OrderInv
<1>5. ASSUME NEW c \in Calls, Refused(c)
      PROVE  OrderInv'
  BY <1>0, <1>5 DEF Refused, callVars, srvVars
<1>6. ASSUME NEW c \in Calls, SendChunk(c)
      PROVE  OrderInv'
  <2>1. /\ via[c] \in Sockets /\ srv[c] = "sent"
        /\ UNCHANGED << pending, via, got >>
    BY <1>6 DEF IInv, TypeOK, SendChunk, Serving, IsOpen, callVars
  <2> DEFINE m == [type |-> "chunk", id |-> c, n |-> emitted[c] + 1]
  <2>2. m \in Messages /\ m.id = c /\ m.type = "chunk" /\ m.n = emitted[c] + 1 /\ Push(via[c], m)
    <3>1. emitted[c] + 1 \in 1..MaxChunks /\ c \in Streams
      BY <1>6, BoundAssumption DEF IInv, TypeOK, SendChunk
    <3> QED
      BY <1>6, <3>1, MessageFacts DEF SendChunk
  <2>3. emitted'[c] = emitted[c] + 1 /\ \A r \in Calls : r # c => emitted'[r] = emitted[r]
    BY <1>6 DEF IInv, TypeOK, SendChunk
  <2> HIDE DEF m
  <2>4. \A i \in Places(c) : ~ FinalAt(c, i)
    BY <2>1 DEF IInv, InboxInv, Places, FinalAt
  <2>5. ASSUME NEW r \in Calls, pending[r]
        PROVE  OrderOf(r)'
    <3>1. OrderOf(r) /\ via[r] \in Sockets
      BY <2>5 DEF IInv, OrderInv, CallInv, TypeOK
    <3>2. CASE via[r] = via[c]
      <4>1. m.id = r => r = c
        BY <2>2
      <4> QED
        BY <2>1, <2>2, <2>3, <2>4, <3>1, <3>2, <4>1, OrderPushed DEF IInv
    <3>3. CASE via[r] # via[c]
      BY <2>1, <2>2, <2>3, <3>1, <3>3, OrderKept, PushPlaces DEF IInv
    <3> QED
      BY <3>2, <3>3
  <2> QED
    BY <2>1, <2>5 DEF OrderInv
<1>7. ASSUME NEW c \in Calls, SendResponse(c)
      PROVE  OrderInv'
  <2>1. /\ via[c] \in Sockets /\ srv[c] = "sent"
        /\ UNCHANGED << pending, via, got >>
    BY <1>7 DEF IInv, TypeOK, SendResponse, Serving, IsOpen, callVars
  <2>0. PICK g \in BOOLEAN : Push(via[c], [type |-> "response", id |-> c, good |-> g])
    BY <1>7 DEF SendResponse
  <2> DEFINE m == [type |-> "response", id |-> c, good |-> g]
  <2>2. m \in Messages /\ m.id = c /\ m.type # "chunk" /\ Push(via[c], m)
    BY <2>0, MessageFacts
  <2>3. emitted' = emitted
    BY <1>7 DEF SendResponse
  <2> HIDE DEF m
  <2>4. \A i \in Places(c) : ~ FinalAt(c, i)
    BY <2>1 DEF IInv, InboxInv, Places, FinalAt
  <2>5. ASSUME NEW r \in Calls, pending[r]
        PROVE  OrderOf(r)'
    <3>1. OrderOf(r) /\ via[r] \in Sockets
      BY <2>5 DEF IInv, OrderInv, CallInv, TypeOK
    <3>2. CASE via[r] = via[c]
      <4>1. m.id = r => r = c
        BY <2>2
      <4> QED
        BY <2>1, <2>2, <2>3, <2>4, <3>1, <3>2, <4>1, OrderPushed DEF IInv
    <3>3. CASE via[r] # via[c]
      BY <2>1, <2>2, <2>3, <3>1, <3>3, OrderKept, PushPlaces DEF IInv
    <3> QED
      BY <3>2, <3>3
  <2> QED
    BY <2>1, <2>5 DEF OrderInv
<1>8. ASSUME NEW c \in Calls, SendError(c)
      PROVE  OrderInv'
  <2>1. /\ via[c] \in Sockets /\ srv[c] = "sent"
        /\ UNCHANGED << pending, via, got >>
    BY <1>8 DEF IInv, TypeOK, SendError, Serving, IsOpen, callVars
  <2> DEFINE m == [type |-> "error", id |-> c]
  <2>2. m \in Messages /\ m.id = c /\ m.type # "chunk" /\ Push(via[c], m)
    BY <1>8, MessageFacts DEF SendError
  <2>3. emitted' = emitted
    BY <1>8 DEF SendError
  <2> HIDE DEF m
  <2>4. \A i \in Places(c) : ~ FinalAt(c, i)
    BY <2>1 DEF IInv, InboxInv, Places, FinalAt
  <2>5. ASSUME NEW r \in Calls, pending[r]
        PROVE  OrderOf(r)'
    <3>1. OrderOf(r) /\ via[r] \in Sockets
      BY <2>5 DEF IInv, OrderInv, CallInv, TypeOK
    <3>2. CASE via[r] = via[c]
      <4>1. m.id = r => r = c
        BY <2>2
      <4> QED
        BY <2>1, <2>2, <2>3, <2>4, <3>1, <3>2, <4>1, OrderPushed DEF IInv
    <3>3. CASE via[r] # via[c]
      BY <2>1, <2>2, <2>3, <3>1, <3>3, OrderKept, PushPlaces DEF IInv
    <3> QED
      BY <3>2, <3>3
  <2> QED
    BY <2>1, <2>5 DEF OrderInv
<1>9. ASSUME NEW c \in Calls, SendFails(c)
      PROVE  OrderInv'
  BY <1>0, <1>9 DEF SendFails, callVars
<1>10. ASSUME NEW c \in Calls, TimesOut(c)
      PROVE  OrderInv'
  BY <1>0, <1>10 DEF TimesOut, callVars, srvVars, Settle, IInv, TypeOK
<1>11. ASSUME NEW c \in Calls, Cancel(c)
      PROVE  OrderInv'
  BY <1>0, <1>11 DEF Cancel, callVars, srvVars, Settle, IInv, TypeOK
<1>12. ASSUME NEW s \in Sockets, FetchConnects(s)
      PROVE  OrderInv'
  BY <1>0, <1>12 DEF FetchConnects, callVars, srvVars
<1>13. ASSUME NEW s \in Sockets, FetchFails(s)
      PROVE  OrderInv'
  BY <1>0, <1>13 DEF FetchFails, callVars, srvVars
<1>14. ASSUME NEW s \in Sockets, Opens(s)
      PROVE  OrderInv'
  BY <1>0, <1>14 DEF Opens, callVars, srvVars
<1>15. ASSUME NEW s \in Sockets, ConnectError(s)
      PROVE  OrderInv'
  BY <1>0, <1>15 DEF ConnectError, callVars, srvVars
<1>16. ASSUME NEW s \in Sockets, CloseEvent(s)
      PROVE  OrderInv'
  <2>1. CASE handleClose
    BY <2>1 DEF handleClose, FailsPending, OrderInv
  <2>2. CASE ~ listening[s] /\ UNCHANGED << state, ws, pc, pending >>
    <3>1. \A r \in Calls : pending[r] => via[r] \in Sockets /\ via[r] # s
      BY <1>16, <2>2 DEF IInv, TypeOK, CallInv, HeardInv, CloseEvent
    <3>2. \A k \in Sockets : k # s => inbox'[k] = inbox[k]
      BY <1>16 DEF IInv, TypeOK, CloseEvent
    <3> QED
      BY <1>0, <1>16, <2>2, <3>1, <3>2 DEF CloseEvent, srvVars
  <2> QED
    BY <1>16, <2>1, <2>2 DEF CloseEvent
<1>17. ASSUME NEW s \in Sockets, ConnectTimesOut(s)
      PROVE  OrderInv'
  BY <1>17 DEF ConnectTimesOut, cleanup, OrderInv
<1>18. ASSUME NEW s \in Sockets, handleMessage(s)
      PROVE  OrderInv'
  <2> DEFINE msg == Head(inbox[s])
  <2>1. /\ inbox[s] # << >> /\ inbox' = [inbox EXCEPT ![s] = Tail(@)]
        /\ UNCHANGED << via, emitted >>
        /\ handleResponse(msg) \/ handleStreamChunk(msg) \/ handleError(msg) \/ Unknown(msg)
    BY <1>18 DEF handleMessage, srvVars
  <2>2. /\ msg \in Messages /\ msg.id \in Calls /\ via[msg.id] = s /\ msg = inbox[s][1]
        /\ 1 \in 1..Len(inbox[s])
    <3>1. inbox[s] \in Seq(Messages) /\ Len(inbox[s]) \in Nat \ {0} /\ msg = inbox[s][1]
      BY <2>1, TakePlaces DEF IInv, TypeOK
    <3>2. 1 \in 1..Len(inbox[s])
      BY <3>1
    <3> QED
      BY <3>1, <3>2, MessageFacts DEF IInv, InboxInv
  <2> HIDE DEF msg
  <2>3. ASSUME NEW r \in Calls, pending'[r]
        PROVE  OrderOf(r)'
    <3>1. pending[r] /\ (r = msg.id => msg.type = "chunk" /\ handleStreamChunk(msg))
      BY <2>1, <2>2, <2>3 DEF IInv, TypeOK, handleResponse, handleStreamChunk, handleError, Unknown, Settle, Awaited
    <3>2. OrderOf(r) /\ via[r] \in Sockets
      BY <3>1 DEF IInv, OrderInv, CallInv, TypeOK
    <3>3. Len(got'[r]) = IF r = msg.id THEN Len(got[r]) + 1 ELSE Len(got[r])
      <4>1. CASE r = msg.id
        BY <3>1, <4>1 DEF IInv, TypeOK, handleStreamChunk
      <4>2. CASE r # msg.id
        BY <2>1, <2>2, <4>2 DEF IInv, TypeOK, handleResponse, handleStreamChunk, handleError, Unknown
      <4> QED
        BY <4>1, <4>2
    <3>4. CASE via[r] = s
      <4>1. ChunkAt(r, 1) <=> r = msg.id
        BY <2>2, <3>1, <3>4 DEF ChunkAt
      <4> QED
        BY <2>1, <3>2, <3>3, <3>4, <4>1, OrderTaken DEF IInv
    <3>5. CASE via[r] # s
      <4>1. got'[r] = got[r]
        BY <2>1, <2>2, <3>5 DEF IInv, TypeOK, handleResponse, handleStreamChunk, handleError, Unknown
      <4>2. inbox'[via[r]] = inbox[via[r]]
        BY <2>1, <3>2, <3>5 DEF IInv, TypeOK
      <4> QED
        BY <2>1, <3>2, <4>1, <4>2, OrderKept
    <3> QED
      BY <3>4, <3>5
  <2> QED
    BY <2>3 DEF OrderInv
<1>19. CASE disconnect
  BY <1>19 DEF disconnect, cleanup, OrderInv
<1> QED
  BY <1>1, <1>2, <1>3, <1>4, <1>5, <1>6, <1>7, <1>8, <1>9, <1>10, <1>11, <1>12, <1>13, <1>14, <1>15, <1>16, <1>17, <1>18, <1>19 DEF Next

-----------------------------------------------------------------------------
(***************************************************************************)
(* The theorems                                                            *)
(***************************************************************************)

\* It holds before the first call,
LEMMA InitIInv == Init => IInv
<1> SUFFICES ASSUME Init
             PROVE  IInv
  OBVIOUS
<1>1. /\ \A k \in Sockets : inbox[k] = << >> /\ sock[k] = "none" /\ attempt[k] = "none" /\ ~ listening[k]
      /\ \A r \in Calls : got[r] = << >> /\ emitted[r] = 0 /\ ~ pending[r] /\ pc[r] = "idle"
                          /\ via[r] = None /\ srv[r] = "none"
  BY DEF Init
<1>2. Len(<< >>) = 0 /\ 1..0 = {}
  OBVIOUS
<1>3. TypeOK
  BY BoundAssumption DEF Init, TypeOK, PcStates
<1>4. CallInv /\ HeardInv
  BY <1>1, <1>2 DEF CallInv, HeardInv
<1>5. InboxInv
  BY <1>1, <1>2 DEF InboxInv
<1>6. OrderInv
  BY <1>1 DEF OrderInv
<1>7. ConnInv
  BY <1>1 DEF ConnInv
<1> QED
  BY <1>3, <1>4, <1>5, <1>6, <1>7 DEF IInv

\* and every step keeps it.
LEMMA NextIInv == IInv /\ [Next]_vars => IInv'
  BY TypeStep, CallsStep, HeardStep, InboxStep, OrderStep, ConnStep DEF IInv

\* The invariant of the transport: what was sent for a pending call and not
\* received is on its way on the call's own socket, whole and in order.
THEOREM TransportInvariant == Spec => []IInv
  BY InitIInv, NextIInv, PTL DEF Spec

\* The transport stays well-typed: this.ws is a socket that exists, and only such
\* sockets are listened to (ws-transport.ts:55-66).
THEOREM TypeCorrect == Spec => []TypeOK
<1>1. IInv => TypeOK
  BY DEF IInv
<1> QED
  BY <1>1, TransportInvariant, PTL

\* All callers share one attempt to connect and one socket, as long as nobody
\* disconnects (ws-transport.ts:36, 74).
THEOREM ConnectsOnce == Spec => []OneConnection
<1>1. IInv => OneConnection
  <2> SUFFICES ASSUME IInv, disconnects = 0
               PROVE  /\ Cardinality({k \in Sockets : attempt[k] = "pending"}) <= 1
                      /\ \A k \in Sockets : mode = "fetch" /\ IsOpen(k) => ws = k
    BY DEF OneConnection
  <2>1. {k \in Sockets : attempt[k] = "pending"} \subseteq {connectPromise}
    BY DEF IInv, ConnInv
  <2>2. /\ IsFiniteSet({connectPromise}) /\ Cardinality({connectPromise}) = 1
    BY FS_Singleton
  <2>3. Cardinality({k \in Sockets : attempt[k] = "pending"}) <= 1
    BY <2>1, <2>2, FS_Subset
  <2>4. \A k \in Sockets : mode = "fetch" /\ IsOpen(k) => ws = k
    BY DEF IInv, ConnInv, IsOpen
  <2> QED
    BY <2>3, <2>4
<1> QED
  BY <1>1, TransportInvariant, PTL

-----------------------------------------------------------------------------
(***************************************************************************)
(* RequestOnce                                                             *)
(***************************************************************************)

\* What the outcome of a call is
LEMMA Outcomes ==
  ASSUME TypeOK, NEW r \in Calls
  PROVE  /\ outcomeOf(r) = "idle" <=> pc[r] = "idle"
         /\ outcomeOf(r) = "open" <=> pc[r] \in {"await", "waiting"}
         /\ outcomeOf(r) = "ok" <=> pc[r] = "ok"
         /\ outcomeOf(r) = "failed" <=> pc[r] \in {"failed", "cancelled"}
  BY DEF TypeOK, PcStates, outcomeOf

\* A step at which open calls fail, or none does
LEMMA FailStep ==
  ASSUME \A r \in Calls : \/ outcomeOf(r)' = outcomeOf(r)
                          \/ outcomeOf(r) = "open" /\ outcomeOf(r)' = "failed",
         got' = got, emitted' = emitted,
         \A r \in Calls : srv'[r] = "done" <=> srv[r] = "done"
  PROVE  Once!Next
<1> DEFINE lost == {r \in Calls : outcomeOf(r)' # outcomeOf(r)}
<1>1. lost \in SUBSET {r \in Calls : [q \in Calls |-> outcomeOf(q)][r] = "open"}
  OBVIOUS
<1>2. [r \in Calls |-> outcomeOf(r)]'
        = [r \in Calls |-> IF r \in lost THEN "failed" ELSE [q \in Calls |-> outcomeOf(q)][r]]
  OBVIOUS
<1>3. [r \in Calls |-> srv[r] = "done"]' = [r \in Calls |-> srv[r] = "done"]
  OBVIOUS
<1> HIDE DEF lost
<1>4. Once!Fail
  BY <1>1, <1>2, <1>3 DEF Once!Fail
<1> QED
  BY <1>4 DEF Once!Next

\* A step that leaves the calls
LEMMA CallsKept ==
  ASSUME pc' = pc, got' = got, emitted' = emitted,
         \A r \in Calls : srv'[r] = "done" <=> srv[r] = "done"
  PROVE  Once!Next
<1>1. \A r \in Calls : outcomeOf(r)' = outcomeOf(r)
  BY DEF outcomeOf
<1> QED
  BY <1>1, FailStep

\* The container finishes a call that was sent.
LEMMA FinishStep ==
  ASSUME IInv, NEW c \in Calls, srv[c] = "sent", srv' = [srv EXCEPT ![c] = "done"],
         pc' = pc, got' = got, emitted' = emitted
  PROVE  Once!Next
<1>1. outcomeOf(c) # "idle"
  BY Outcomes DEF IInv, CallInv
<1>2. [r \in Calls |-> outcomeOf(r)]' = [r \in Calls |-> outcomeOf(r)]
  BY DEF outcomeOf
<1>3. [r \in Calls |-> srv[r] = "done"]' = [[r \in Calls |-> srv[r] = "done"] EXCEPT ![c] = TRUE]
  BY DEF IInv, TypeOK
<1>4. Once!Finish(c)
  BY <1>1, <1>2, <1>3 DEF Once!Finish
<1> QED
  BY <1>4 DEF Once!Next

\* The container emits a chunk.
LEMMA EmitStep ==
  ASSUME IInv, NEW c \in Calls, SendChunk(c)
  PROVE  Once!Next
<1>1. srv[c] = "sent" /\ UNCHANGED << pc, got, srv >> /\ emitted' = [emitted EXCEPT ![c] = @ + 1]
  BY DEF SendChunk, Serving, callVars
<1>2. outcomeOf(c) # "idle"
  BY <1>1, Outcomes DEF IInv, CallInv
<1>3. /\ [r \in Calls |-> outcomeOf(r)]' = [r \in Calls |-> outcomeOf(r)]
      /\ [r \in Calls |-> srv[r] = "done"]' = [r \in Calls |-> srv[r] = "done"]
  BY <1>1 DEF outcomeOf
<1>4. Once!Emit(c)
  BY <1>1, <1>2, <1>3 DEF Once!Emit
<1> QED
  BY <1>4 DEF Once!Next

\* A call is made.
LEMMA AskStep ==
  ASSUME IInv, NEW c \in Calls, Ask(c)
  PROVE  Once!Next
<1>1. pc[c] = "idle" /\ pc' = [pc EXCEPT ![c] = "await"] /\ UNCHANGED << got, srv, emitted >>
  BY DEF Ask, connect, srvVars
<1>2. outcomeOf(c) = "idle" /\ outcomeOf(c)' = "open" /\ \A r \in Calls : r # c => outcomeOf(r)' = outcomeOf(r)
  BY <1>1 DEF IInv, TypeOK, outcomeOf
<1>3. [r \in Calls |-> outcomeOf(r)]' = [[r \in Calls |-> outcomeOf(r)] EXCEPT ![c] = "open"]
  BY <1>2
<1>4. [r \in Calls |-> srv[r] = "done"]' = [r \in Calls |-> srv[r] = "done"]
  BY <1>1
<1>5. Once!Ask(c)
  BY <1>1, <1>2, <1>3, <1>4 DEF Once!Ask
<1> QED
  BY <1>5 DEF Once!Next

\* A stream is given the chunk it has to be given next, a good response ends a
\* call of which nothing is left, and everything else fails a call or none.
LEMMA MessageStep ==
  ASSUME IInv, NEW s \in Sockets, handleMessage(s)
  PROVE  Once!Next
<1> DEFINE msg == Head(inbox[s])
<1>1. /\ inbox[s] # << >> /\ inbox' = [inbox EXCEPT ![s] = Tail(@)]
      /\ UNCHANGED << srv, emitted >>
      /\ handleResponse(msg) \/ handleStreamChunk(msg) \/ handleError(msg) \/ Unknown(msg)
  BY DEF handleMessage, srvVars
<1>2. /\ msg \in Messages /\ msg.id \in Calls /\ via[msg.id] = s /\ msg = inbox[s][1]
      /\ 1 \in 1..Len(inbox[s])
      /\ msg.type # "chunk" => srv[msg.id] = "done"
  <2>1. inbox[s] \in Seq(Messages) /\ Len(inbox[s]) \in Nat \ {0} /\ msg = inbox[s][1]
    BY <1>1, TakePlaces DEF IInv, TypeOK
  <2>2. 1 \in 1..Len(inbox[s])
    BY <2>1
  <2> QED
    BY <2>1, <2>2, MessageFacts DEF IInv, InboxInv
<1> HIDE DEF msg
<1>0. PICK q \in Calls : q = msg.id
  BY <1>2
<1>3. [r \in Calls |-> srv[r] = "done"]' = [r \in Calls |-> srv[r] = "done"]
  BY <1>1
<1>4. ASSUME Awaited(msg)
      PROVE  /\ outcomeOf(q) = "open" /\ pc[q] = "waiting"
             /\ msg.type = "chunk" => msg.n = Len(got[q]) + 1 /\ Len(got[q]) < emitted[q]
             /\ msg.type # "chunk" => Len(got[q]) = emitted[q]
  <2>1. pending[q] /\ OrderOf(q) /\ pc[q] = "waiting"
    BY <1>0, <1>2, <1>4 DEF Awaited, IInv, OrderInv, CallInv
  <2>2. /\ 1 \in Places(q)
        /\ msg.type = "chunk" => ChunkAt(q, 1)
        /\ msg.type # "chunk" => FinalAt(q, 1)
    BY <1>0, <1>2 DEF Places, ChunkAt, FinalAt
  <2> QED
    BY <1>0, <1>2, <2>1, <2>2, FirstPlace, Outcomes DEF IInv
<1>5. CASE handleStreamChunk(msg)
  <2>1. /\ Awaited(msg) /\ msg.type = "chunk" /\ pc' = pc
        /\ got' = [got EXCEPT ![q] = Append(@, Len(@) + 1)]
    BY <1>0, <1>4, <1>5 DEF handleStreamChunk
  <2>2. [r \in Calls |-> outcomeOf(r)]' = [r \in Calls |-> outcomeOf(r)]
    BY <2>1 DEF outcomeOf
  <2>3. Once!See(q)
    BY <1>1, <1>2, <1>3, <1>4, <2>1, <2>2 DEF Once!See
  <2> QED
    BY <1>2, <2>3 DEF Once!Next
<1>6. CASE handleResponse(msg) /\ msg.good
  <2>1. Awaited(msg) /\ msg.type # "chunk" /\ got' = got /\ pc' = [pc EXCEPT ![q] = "ok"]
    BY <1>0, <1>6 DEF handleResponse, Settle
  <2>2. outcomeOf(q)' = "ok" /\ \A r \in Calls : r # q => outcomeOf(r)' = outcomeOf(r)
    BY <1>2, <2>1 DEF IInv, TypeOK, outcomeOf
  <2>3. [r \in Calls |-> outcomeOf(r)]' = [[r \in Calls |-> outcomeOf(r)] EXCEPT ![q] = "ok"]
    BY <1>2, <2>2
  <2>4. Once!Succeed(q)
    BY <1>0, <1>1, <1>2, <1>3, <1>4, <2>1, <2>3 DEF Once!Succeed
  <2> QED
    BY <1>2, <2>4 DEF Once!Next
<1>7. CASE handleError(msg) \/ (handleResponse(msg) /\ ~ msg.good)
  <2>1. Awaited(msg) /\ got' = got /\ pc' = [pc EXCEPT ![q] = "failed"]
    BY <1>0, <1>7 DEF handleError, handleResponse, Settle
  <2>2. outcomeOf(q)' = "failed" /\ \A r \in Calls : r # q => outcomeOf(r)' = outcomeOf(r)
    BY <1>2, <2>1 DEF IInv, TypeOK, outcomeOf
  <2> QED
    BY <1>1, <1>4, <2>1, <2>2, FailStep
<1>8. CASE Unknown(msg)
  BY <1>1, <1>8, CallsKept DEF Unknown
<1> QED
  BY <1>1, <1>5, <1>6, <1>7, <1>8

\* Every step is one of RequestOnce, or none.
LEMMA OnceStep ==
  ASSUME IInv, [Next]_vars
  PROVE  [Once!Next]_Once!vars
<1>1. CASE UNCHANGED vars
  BY <1>1, CallsKept DEF vars, callVars, srvVars
<1>2. ASSUME NEW c \in Calls,
             Ask(c) \/ AskAgain(c) \/ Send(c) \/ Refused(c) \/ TimesOut(c) \/ Cancel(c)
      PROVE  Once!Next
  <2>1. CASE Ask(c)
    BY <2>1, AskStep
  <2>2. CASE ~ Ask(c)
    <3>1. got' = got /\ emitted' = emitted
      BY <1>2, <2>2 DEF AskAgain, Send, Refused, TimesOut, Cancel, connect, callVars, srvVars
    <3>2. \A r \in Calls : srv'[r] = "done" <=> srv[r] = "done"
      BY <1>2, <2>2 DEF IInv, TypeOK, CallInv, AskAgain, Send, Connected, Refused, TimesOut, Cancel, srvVars
    <3>3. pc[c] \in {"await", "waiting"}
      BY <1>2, <2>2 DEF IInv, CallInv, AskAgain, Send, Connected, Refused, TimesOut, Cancel
    <3>4. PICK p \in {"await", "waiting", "failed", "cancelled"} : pc' = [pc EXCEPT ![c] = p]
      BY <1>2, <2>2 DEF AskAgain, Send, Refused, TimesOut, Cancel, Settle, connect
    <3>5. \A r \in Calls : r # c => outcomeOf(r)' = outcomeOf(r)
      BY <3>4 DEF IInv, TypeOK, outcomeOf
    <3>6. outcomeOf(c) = "open" /\ outcomeOf(c)' \in {"open", "failed"}
      BY <3>3, <3>4 DEF IInv, TypeOK, outcomeOf
    <3> QED
      BY <3>1, <3>2, <3>5, <3>6, FailStep
  <2> QED
    BY <2>1, <2>2
<1>3. ASSUME NEW c \in Calls, SendChunk(c)
      PROVE  Once!Next
  BY <1>3, EmitStep
<1>4. ASSUME NEW c \in Calls, SendResponse(c) \/ SendError(c) \/ SendFails(c)
      PROVE  Once!Next
  BY <1>4, FinishStep DEF SendResponse, SendError, SendFails, Serving, callVars
<1>5. ASSUME NEW s \in Sockets,
             \/ FetchConnects(s) \/ FetchFails(s) \/ Opens(s) \/ ConnectError(s)
             \/ ConnectTimesOut(s)
      PROVE  Once!Next
  BY <1>5, CallsKept DEF FetchConnects, FetchFails, Opens, ConnectError, ConnectTimesOut, callVars, srvVars
<1>6. ASSUME NEW s \in Sockets, CloseEvent(s)
      PROVE  Once!Next
  <2>1. UNCHANGED << got, srv, emitted >>
    BY <1>6 DEF CloseEvent, srvVars
  <2>2. CASE handleClose
    <3>1. \A r \in Calls : pc'[r] = IF pending[r] THEN "failed" ELSE pc[r]
      BY <2>2 DEF handleClose, FailsPending
    <3>2. \A r \in Calls : pending[r] => outcomeOf(r) = "open"
      BY DEF IInv, CallInv, outcomeOf
    <3>3. \A r \in Calls : outcomeOf(r)' = IF pending[r] THEN "failed" ELSE outcomeOf(r)
      BY <3>1 DEF outcomeOf
    <3> QED
      BY <2>1, <3>2, <3>3, FailStep
  <2>3. CASE UNCHANGED << state, ws, pc, pending >>
    BY <2>1, <2>3, CallsKept
  <2> QED
    BY <1>6, <2>2, <2>3 DEF CloseEvent
<1>7. ASSUME NEW s \in Sockets, handleMessage(s)
      PROVE  Once!Next
  BY <1>7, MessageStep
<1>8. CASE disconnect
  BY <1>8, CallsKept DEF disconnect, callVars, srvVars
<1> QED
  BY <1>1, <1>2, <1>3, <1>4, <1>5, <1>6, <1>7, <1>8 DEF Next

\* The transport implements RequestOnce: a call settles once and is not settled
\* by another's message, and a stream that closes well was given each chunk the
\* container sent, once and in order (ws-transport.ts:443-523, ws-adapter.ts:203).
THEOREM SettlesOnce == Spec => OnceSpec
<1>1. Init => Once!Init
  <2> SUFFICES ASSUME Init
               PROVE  Once!Init
    OBVIOUS
  <2>1. \A r \in Calls : outcomeOf(r) = "idle" /\ srv[r] = "none"
    BY DEF Init, outcomeOf
  <2>2. /\ [r \in Calls |-> outcomeOf(r)] = [r \in Calls |-> "idle"]
        /\ [r \in Calls |-> srv[r] = "done"] = [r \in Calls |-> FALSE]
    BY <2>1
  <2> QED
    BY <2>2 DEF Once!Init, Init
<1>2. IInv /\ [Next]_vars => [Once!Next]_Once!vars
  BY OnceStep
<1> QED
  BY <1>1, <1>2, TransportInvariant, PTL DEF Spec, OnceSpec, Once!Spec

=============================================================================
