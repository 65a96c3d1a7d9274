--------------------------- MODULE SandboxDOProofs ---------------------------
(***************************************************************************)
(* Theorems about the two modules of the Durable Object: SandboxDO, for    *)
(* every set of calls, ports, tokens and paths, and however often the      *)
(* container stops; and ProcessWaits, for every set of calls and           *)
(* processes, any output, and streams that break, kills, timeouts and      *)
(* ends in any order.                                                      *)
(***************************************************************************)
EXTENDS SandboxDO, ProcessWaits, TLAPS

-----------------------------------------------------------------------------
(* Preview URLs *)

\* Lower case keeps the number of words.
LEMMA LowercaseType ==
  ASSUME NEW id \in Seq(Words)
  PROVE  /\ Lowercase(id) \in Seq(Words)
         /\ Len(Lowercase(id)) = Len(id)
         /\ Lowercase(Lowercase(id)) = Lowercase(id)
<1>1. Lowercase(id) = [i \in 1..Len(id) |-> lower[id[i]]]
  BY DEF Lowercase
<1>2. \A i \in 1..Len(id) : id[i] \in Words /\ lower[id[i]] \in Words
  <2>1. \A w \in Words : lower[w] \in Words
    BY LowerAssumption
  <2>2. \A i \in 1..Len(id) : id[i] \in Words
    OBVIOUS
  <2> QED
    BY <2>1, <2>2
<1>3. Lowercase(id) \in Seq(Words) /\ Len(Lowercase(id)) = Len(id)
  BY <1>1, <1>2
<1>4. \A i \in 1..Len(id) : lower[lower[id[i]]] = lower[id[i]]
  BY <1>2, LowerAssumption
<1>5. DOMAIN Lowercase(id) = 1..Len(id)
  BY <1>1
<1>6. Lowercase(Lowercase(id)) = [i \in 1..Len(id) |-> lower[lower[id[i]]]]
  BY <1>1, <1>5 DEF Lowercase
<1>7. Lowercase(Lowercase(id)) = Lowercase(id)
  BY <1>1, <1>4, <1>6
<1> QED
  BY <1>3, <1>7

\* What is between the first and the last element of a label.
LEMMA Middle ==
  ASSUME NEW S, NEW id \in Seq(S), NEW a \in S, NEW z \in S
  PROVE  LET url == << a >> \o id \o << z >>
         IN /\ url \in Seq(S)
            /\ Len(url) = Len(id) + 2
            /\ url[1] = a
            /\ url[Len(url)] = z
            /\ SubSeq(url, 2, Len(url) - 1) = id
<1> DEFINE url == << a >> \o id \o << z >>
<1>1. url \in Seq(S) /\ Len(url) = Len(id) + 2 /\ url[1] = a /\ url[Len(url)] = z
  OBVIOUS
<1>2. \A i \in 1..Len(id) : url[i + 1] = id[i]
  OBVIOUS
<1>3. SubSeq(url, 2, Len(url) - 1) = [i \in 1..Len(id) |-> url[i + 1]]
  BY <1>1
<1>4. id = [i \in 1..Len(id) |-> id[i]]
  OBVIOUS
<1>5. SubSeq(url, 2, Len(url) - 1) = id
  BY <1>2, <1>3, <1>4
<1> QED
  BY <1>1, <1>5

\* The Worker finds in the URL of a name in lower case what it was made of.
LEMMA RouteOfUrl ==
  ASSUME NEW name \in Seq(Words), Sanitary(name), Lowercase(name) = name,
         NEW p \in Ports, NEW t \in Tokens
  PROVE  /\ IsRoute(UrlOf(p, name, t))
         /\ RouteOf(UrlOf(p, name, t)).port = p
         /\ RouteOf(UrlOf(p, name, t)).id = name
         /\ RouteOf(UrlOf(p, name, t)).token = t
<1> DEFINE S   == Ports \cup Words \cup Tokens
           url == << p >> \o name \o << t >>
<1>1. UrlOf(p, name, t) = url
  BY DEF UrlOf
<1>2. name \in Seq(S)
  OBVIOUS
<1>3. /\ Len(url) = Len(name) + 2
      /\ url[1] = p
      /\ url[Len(url)] = t
      /\ SubSeq(url, 2, Len(url) - 1) = name
  BY <1>2, Middle
<1>4. Len(url) > 2
  <2>1. Len(name) > 0
    BY DEF Sanitary
  <2>2. Len(name) \in Nat
    OBVIOUS
  <2> QED
    BY <1>3, <2>1, <2>2
<1> HIDE DEF url
<1>5. IsRoute(url)
  BY <1>3, <1>4 DEF IsRoute
<1>6. RouteOf(url) = [port |-> p, id |-> name, token |-> t]
  BY <1>3 DEF RouteOf
<1> QED
  BY <1>1, <1>5, <1>6

\* It keeps a name one that a host label may have.
LEMMA LowercaseSanitary ==
  ASSUME NEW id \in Seq(Words), Sanitary(id)
  PROVE  Sanitary(Lowercase(id))
<1>1. /\ Len(Lowercase(id)) = Len(id) /\ Len(id) \in Nat
      /\ Lowercase(Lowercase(id)) = Lowercase(id)
  BY LowercaseType
<1>2. id[1] # "" /\ id[Len(id)] # "" /\ Len(id) > 0 /\ Lowercase(id) \notin Reserved
  BY DEF Sanitary
<1>3. 1 \in 1..Len(id) /\ Len(id) \in 1..Len(id)
  <2>1. Len(id) \in Nat
    OBVIOUS
  <2>2. Len(id) > 0
    BY DEF Sanitary
  <2> QED
    BY <2>1, <2>2
<1>4. id[1] \in Words /\ id[Len(id)] \in Words
  BY <1>3
<1>5. /\ Lowercase(id)[1] = lower[id[1]]
      /\ Lowercase(id)[Len(Lowercase(id))] = lower[id[Len(id)]]
  BY <1>1, <1>3 DEF Lowercase
<1>6. Lowercase(id)[1] # "" /\ Lowercase(id)[Len(Lowercase(id))] # ""
  BY <1>2, <1>4, <1>5, LowerAssumption
<1> QED
  BY <1>1, <1>2, <1>6 DEF Sanitary

\* A preview URL leads back to the port, the token and the sandbox it was made
\* for, whatever hyphens and capitals its name has, if that has URLs at all
\* (constructPreviewUrl, extractSandboxRoute, getSandbox).
THEOREM UrlsLeadBack ==
  ASSUME NEW id \in Seq(Words), NEW normalizeId \in BOOLEAN, NEW p \in Ports, NEW t \in Tokens,
         NEW name, name = ObjectOf(id, normalizeId),
         Sanitary(id), HasUrls(name, normalizeId)
  PROVE  /\ IsRoute(UrlOf(p, name, t))
         /\ RouteOf(UrlOf(p, name, t)).port = p
         /\ RouteOf(UrlOf(p, name, t)).token = t
         /\ ObjectOf(RouteOf(UrlOf(p, name, t)).id, TRUE) = name
<1>1. name \in Seq(Words) /\ Sanitary(name) /\ Lowercase(name) = name
  BY LowercaseType, LowercaseSanitary DEF ObjectOf, HasUrls
<1>2. /\ IsRoute(UrlOf(p, name, t))
      /\ RouteOf(UrlOf(p, name, t)).port = p
      /\ RouteOf(UrlOf(p, name, t)).id = name
      /\ RouteOf(UrlOf(p, name, t)).token = t
  BY <1>1, RouteOfUrl
<1> QED
  BY <1>1, <1>2 DEF ObjectOf

-----------------------------------------------------------------------------
(* Types *)

\* What asking for something leaves of the state of the calls.
LEMMA AskType ==
  ASSUME TypeOK, NEW c \in Calls, NEW request \in AllRequests, Ask(c, request)
  PROVE  /\ pc' \in [Calls -> PcStates]
         /\ todo' \in [Calls -> AllRequests \cup {None}]
         /\ reply' \in [Calls -> Replies]
         /\ pc'[c] \in {"session", "request"}
         /\ todo'[c] = request
         /\ \A d \in Calls \ {c} : pc'[d] = pc[d] /\ todo'[d] = todo[d]
  BY DEF TypeOK, Ask, PcStates, Replies

\* A call that ends has nothing left to do.
LEMMA EndType ==
  ASSUME TypeOK, NEW c \in Calls, End(c)
  PROVE  /\ pc' \in [Calls -> PcStates]
         /\ todo' \in [Calls -> AllRequests \cup {None}]
         /\ reply' \in [Calls -> Replies]
         /\ pc'[c] = "done"
         /\ \A d \in Calls \ {c} : pc'[d] = pc[d]
         /\ todo' = todo
  BY DEF TypeOK, End, PcStates, Replies

\* The types hold before the first call,
LEMMA InitType == Init => TypeOK
<1>1. NoTokens \in TokenMaps
  BY DEF NoTokens, TokenMaps
<1> SUFFICES ASSUME Init PROVE TypeOK
  OBVIOUS
<1>2. stops \in 0..MaxStops /\ restarts \in 0..MaxRestarts
  BY BoundAssumption DEF Init
<1>3. tokens \in [Calls -> TokenMaps] /\ portTokens \in TokenMaps
  BY <1>1 DEF Init
<1>4. \A c \in Calls : pc[c] = "idle"
  BY DEF Init
<1> QED
  BY <1>2, <1>3, <1>4 DEF Init, TypeOK, PcStates, Replies

\* A visit comes with the port and the token its URL was made of.
LEMMA VisitRoute ==
  ASSUME NEW c \in Calls, CallVisit(c)
  PROVE  \E p \in Ports, t \in Tokens :
           /\ op' = [op EXCEPT ![c] = "visit"]
           /\ arg' = [arg EXCEPT ![c] = p]
           /\ token' = [token EXCEPT ![c] = t]
           /\ Ask(c, "list")
<1>1. \A p \in Ports, t \in Tokens :
        RouteOf(UrlOf(p, Name, t)).port = p /\ RouteOf(UrlOf(p, Name, t)).token = t
  BY RouteOfUrl, NameAssumption
<1>2. PICK p \in Ports, t \in Tokens :
        /\ op' = [op EXCEPT ![c] = "visit"]
        /\ arg' = [arg EXCEPT ![c] = RouteOf(UrlOf(p, Name, t)).port]
        /\ token' = [token EXCEPT ![c] = RouteOf(UrlOf(p, Name, t)).token]
        /\ Ask(c, "list")
  BY DEF CallVisit
<1> QED
  BY <1>1, <1>2

\* The calls that are made.
LEMMA NewCallType ==
  ASSUME TypeOK, NEW c \in Calls, NewCall(c)
  PROVE  TypeOK'
<1>1. CASE "expose" \in Ops /\ CallExpose(c)
  <2>1. PICK p \in Ports, t \in Tokens :
          /\ op' = [op EXCEPT ![c] = "expose"]
          /\ arg' = [arg EXCEPT ![c] = p]
          /\ token' = [token EXCEPT ![c] = t]
          /\ tokens' = [tokens EXCEPT ![c] = portTokens]
          /\ Ask(c, "expose") \/ End(c)
    BY <1>1 DEF CallExpose
  <2>2. "expose" \in AllRequests
    BY DEF AllRequests
  <2>3. CASE Ask(c, "expose")
    BY <1>1, <2>1, <2>2, <2>3, AskType
    DEF TypeOK, CallExpose, doVars, boxVars, Requests, Replies
  <2>4. CASE End(c)
    BY <1>1, <2>1, <2>4, EndType
    DEF TypeOK, CallExpose, doVars, boxVars, Requests, Replies
  <2> QED
    BY <2>1, <2>3, <2>4
<1>2. CASE "unexpose" \in Ops /\ CallUnexpose(c)
  <2>1. "unexpose" \in AllRequests
    BY DEF AllRequests
  <2> QED
    BY <1>2, <2>1, AskType
    DEF TypeOK, CallUnexpose, doVars, boxVars, Requests, Replies
<1>3. CASE "mount" \in Ops /\ CallMount(c)
  <2>1. PICK p \in Paths :
          /\ op' = [op EXCEPT ![c] = "mount"]
          /\ arg' = [arg EXCEPT ![c] = p]
          /\ \/ SetMount(p, "reserved") /\ Ask(c, "prepare")
             \/ End(c) /\ UNCHANGED activeMounts
    BY <1>3 DEF CallMount
  <2>2. "prepare" \in AllRequests
    BY DEF AllRequests
  <2>3. CASE SetMount(p, "reserved") /\ Ask(c, "prepare")
    BY <1>3, <2>1, <2>2, <2>3, AskType
    DEF TypeOK, CallMount, SetMount, boxVars, Requests, Replies
  <2>4. CASE End(c) /\ UNCHANGED activeMounts
    BY <1>3, <2>1, <2>4, EndType
    DEF TypeOK, CallMount, boxVars, Requests, Replies
  <2> QED
    BY <2>1, <2>3, <2>4
<1>4. CASE "unmount" \in Ops /\ CallUnmount(c)
  <2>1. PICK p \in Paths :
          /\ op' = [op EXCEPT ![c] = "unmount"]
          /\ arg' = [arg EXCEPT ![c] = p]
          /\ Ask(c, "fusermount") \/ End(c)
    BY <1>4 DEF CallUnmount
  <2>2. "fusermount" \in AllRequests
    BY DEF AllRequests
  <2>3. CASE Ask(c, "fusermount")
    BY <1>4, <2>1, <2>2, <2>3, AskType
    DEF TypeOK, CallUnmount, doVars, boxVars, Requests, Replies
  <2>4. CASE End(c)
    BY <1>4, <2>1, <2>4, EndType
    DEF TypeOK, CallUnmount, doVars, boxVars, Requests, Replies
  <2> QED
    BY <2>1, <2>3, <2>4
<1>5. CASE "visit" \in Ops /\ CallVisit(c)
  <2>1. "list" \in AllRequests
    BY DEF AllRequests
  <2>2. PICK p \in Ports, t \in Tokens :
          /\ op' = [op EXCEPT ![c] = "visit"]
          /\ arg' = [arg EXCEPT ![c] = p]
          /\ token' = [token EXCEPT ![c] = t]
          /\ Ask(c, "list")
    BY <1>5, VisitRoute
  <2> QED
    BY <1>5, <2>1, <2>2, AskType
    DEF TypeOK, CallVisit, doVars, boxVars, Requests, Replies
<1> QED
  BY <1>1, <1>2, <1>3, <1>4, <1>5 DEF NewCall

\* The container and the network.
LEMMA ReplyType ==
  ASSUME TypeOK, NEW c \in Calls, Handle(c) \/ Fail(c)
  PROVE  TypeOK'
<1>1. CASE Handle(c)
  <2>1. reply' \in [Calls -> Replies]
    BY <1>1 DEF TypeOK, Handle, Serve, boxVars, Replies
  <2>2. exposedPorts' \subseteq Ports
    <3>1. CASE todo[c] \in {"expose", "unexpose"} /\ pc[c] \in {"request", "orphaned"}
      BY <1>1, <3>1 DEF TypeOK, Handle, Serve, boxVars, Requests
    <3>2. CASE ~ (todo[c] \in {"expose", "unexpose"} /\ pc[c] \in {"request", "orphaned"})
      BY <1>1, <3>2 DEF TypeOK, Handle, Serve, boxVars
    <3> QED
      BY <3>1, <3>2
  <2>3. s3fs' \subseteq Paths
    <3>1. CASE todo[c] \in {"s3fs", "fusermount"} /\ pc[c] \in {"request", "orphaned"}
      BY <1>1, <3>1 DEF TypeOK, Handle, Serve, boxVars, Requests
    <3>2. CASE ~ (todo[c] \in {"s3fs", "fusermount"} /\ pc[c] \in {"request", "orphaned"})
      BY <1>1, <3>2 DEF TypeOK, Handle, Serve, boxVars
    <3> QED
      BY <3>1, <3>2
  <2> QED
    BY <1>1, <2>1, <2>2, <2>3 DEF TypeOK, Handle, doVars, Replies
<1>2. CASE Fail(c)
  BY <1>2 DEF TypeOK, Fail, doVars, boxVars, Replies
<1> QED
  BY <1>1, <1>2

\* What a call does when a request has returned or thrown.
LEMMA ContinueType ==
  ASSUME TypeOK, NEW c \in Calls, Continue(c)
  PROVE  TypeOK'
<1>1. CASE SessionReady(c)
  BY <1>1 DEF TypeOK, SessionReady, boxVars, PcStates, Replies
<1>2. CASE Exposed(c)
  <2>1. arg[c] \in Ports /\ token[c] \in Tokens
    BY <1>2 DEF TypeOK, Exposed, Returned, Requests
  <2>2. portTokens' \in TokenMaps
    BY <1>2, <2>1 DEF TypeOK, Exposed, TokenMaps
  <2> QED
    BY <1>2, <2>2, EndType DEF TypeOK, Exposed, boxVars, Replies
<1>3. CASE Unexposed(c)
  <2>1. portTokens' \in TokenMaps
    BY <1>3 DEF TypeOK, Unexposed, TokenMaps
  <2> QED
    BY <1>3, <2>1, EndType DEF TypeOK, Unexposed, boxVars, Replies
<1>4. CASE PortCallThrows(c)
  BY <1>4, EndType DEF TypeOK, PortCallThrows, doVars, boxVars, Replies
<1>5. CASE Prepared(c)
  <2>1. "s3fs" \in AllRequests /\ op[c] = "mount"
    BY <1>5 DEF TypeOK, Prepared, Returned, Requests, AllRequests
  <2> QED
    BY <1>5, <2>1, AskType
    DEF TypeOK, Prepared, Returned, doVars, boxVars, Requests, Replies
<1>6. CASE Mounted(c)
  BY <1>6, EndType DEF TypeOK, Mounted, SetMount, boxVars, Replies
<1>7. CASE MountFails(c)
  <2>1. "rm" \in AllRequests /\ op[c] = "mount" /\ Waiting(c)
    BY <1>7 DEF TypeOK, MountFails, Returned, Threw, Waiting, Requests, AllRequests
  <2> QED
    BY <1>7, <2>1, AskType
    DEF TypeOK, MountFails, Waiting, doVars, boxVars, Requests, Replies
<1>8. CASE MountGivenUp(c)
  BY <1>8, EndType DEF TypeOK, MountGivenUp, SetMount, boxVars, Replies
<1>9. CASE Unmounted(c)
  <2>1. "rm" \in AllRequests /\ op[c] = "unmount"
    BY <1>9 DEF TypeOK, Unmounted, Returned, Requests, AllRequests
  <2> QED
    BY <1>9, <2>1, AskType
    DEF TypeOK, Unmounted, Returned, SetMount, boxVars, Requests, Replies
<1>10. CASE UnmountThrows(c)
  <2>1. "rm" \in AllRequests /\ op[c] = "unmount" /\ Waiting(c)
    BY <1>10 DEF TypeOK, UnmountThrows, Threw, Waiting, Requests, AllRequests
  <2> QED
    BY <1>10, <2>1, AskType
    DEF TypeOK, UnmountThrows, Waiting, doVars, boxVars, Requests, Replies
<1>11. CASE UnmountEnds(c)
  BY <1>11, EndType DEF TypeOK, UnmountEnds, doVars, boxVars, Replies
<1>12. CASE Admitted(c)
  <2>1. op[c] = "visit" /\ "proxy" \in AllRequests
    BY <1>12 DEF TypeOK, Admitted, Returned, Requests, AllRequests
  <2> QED
    BY <1>12, <2>1
    DEF TypeOK, Admitted, Returned, doVars, boxVars, Requests, Replies
<1>13. CASE Denied(c) \/ Proxied(c)
  BY <1>13, EndType DEF TypeOK, Denied, Proxied, doVars, boxVars, Replies
<1> QED
  BY <1>1, <1>2, <1>3, <1>4, <1>5, <1>6, <1>7, <1>8, <1>9, <1>10, <1>11, <1>12, <1>13
  DEF Continue

\* and after every step.
LEMMA NextType == TypeOK /\ [Next]_vars => TypeOK'
<1> SUFFICES ASSUME TypeOK, [Next]_vars PROVE TypeOK'
  OBVIOUS
<1>1. CASE Stop
  <2>1. NoTokens \in TokenMaps
    BY DEF NoTokens, TokenMaps
  <2>2. stops' \in 0..MaxStops
    BY <1>1, BoundAssumption DEF TypeOK, Stop
  <2> QED
    BY <1>1, <2>1, <2>2 DEF TypeOK, Stop, callVars
<1>2. CASE Restart
  BY <1>2, BoundAssumption DEF TypeOK, Restart, boxVars, PcStates
<1>3. CASE UNCHANGED vars
  BY <1>3 DEF TypeOK, vars, callVars, doVars, boxVars
<1> QED
  BY <1>1, <1>2, <1>3, NewCallType, ReplyType, ContinueType DEF Next

\* Every variable keeps its type, and a call waits only for a request that its
\* operation makes: the awaits of sandbox.ts follow each other as modelled.
THEOREM TypeCorrect == Spec => []TypeOK
  BY InitType, NextType, PTL DEF Spec

-----------------------------------------------------------------------------
(* Tokens *)

\* TokensUnique is not inductive: exposePort writes a map it read some requests
\* ago.  That map is free of duplicates even with the new token, because it was
\* checked when it was read and nobody else can change it.
TokenInv ==
  /\ TokensUnique
  /\ \A c \in Calls : op[c] = "expose" /\ Waiting(c) =>
        /\ UniqueIn(tokens[c])
        /\ Free(tokens[c], arg[c], token[c])

\* A token that no other port has may be given to a port.
LEMMA GiveToken ==
  ASSUME NEW map \in TokenMaps, NEW p \in Ports, NEW t \in Tokens,
         UniqueIn(map), Free(map, p, t)
  PROVE  UniqueIn([map EXCEPT ![p] = t])
  BY DEF UniqueIn, Free, TokenMaps

\* Without one of its tokens a map is still without duplicates.
LEMMA TakeToken ==
  ASSUME NEW map \in TokenMaps, NEW p \in Ports, UniqueIn(map)
  PROVE  UniqueIn([map EXCEPT ![p] = None])
  BY DEF UniqueIn, Free, TokenMaps

\* A step that starts no exposePort and keeps the stored tokens.
LEMMA TokensKept ==
  ASSUME TokenInv,
         UNCHANGED << tokens, portTokens >>,
         \A c \in Calls : op'[c] = "expose" /\ Waiting(c)' =>
            /\ op[c] = "expose" /\ Waiting(c)
            /\ arg'[c] = arg[c] /\ token'[c] = token[c]
  PROVE  TokenInv'
  BY DEF TokenInv, TokensUnique, UniqueIn, Free

\* No token is there at first.
LEMMA InitTokens == Init => TokenInv
  BY DEF Init, TokenInv, TokensUnique, UniqueIn, Free, Waiting, NoTokens

\* A call that begins stores no token.
LEMMA NewCallTokens ==
  ASSUME TypeOK, TokenInv, NEW c \in Calls, NewCall(c)
  PROVE  TokenInv'
<1>1. CASE CallExpose(c)
  <2>1. PICK p \in Ports, t \in Tokens :
          /\ op' = [op EXCEPT ![c] = "expose"]
          /\ arg' = [arg EXCEPT ![c] = p]
          /\ token' = [token EXCEPT ![c] = t]
          /\ tokens' = [tokens EXCEPT ![c] = portTokens]
          /\ \/ Free(portTokens, p, t) /\ Ask(c, "expose")
             \/ ~ Free(portTokens, p, t) /\ End(c)
    BY <1>1 DEF CallExpose
  <2>2. portTokens' = portTokens
    BY <1>1 DEF CallExpose, doVars
  <2>3. ASSUME NEW d \in Calls, op'[d] = "expose", Waiting(d)'
        PROVE  UniqueIn(tokens'[d]) /\ Free(tokens'[d], arg'[d], token'[d])
    <3>1. CASE d = c
      <4>1. Free(portTokens, p, t)
        BY <2>1, <2>3, <3>1 DEF TypeOK, End, Waiting
      <4> QED
        BY <2>1, <3>1, <4>1 DEF TypeOK, TokenInv, TokensUnique
    <3>2. CASE d # c
      BY <2>1, <2>3, <3>2 DEF TypeOK, TokenInv, Waiting, Ask, End
    <3> QED
      BY <3>1, <3>2
  <2> QED
    BY <2>2, <2>3 DEF TokenInv, TokensUnique, UniqueIn, Free
<1>2. CASE CallUnexpose(c)
  BY <1>2, TokensKept DEF CallUnexpose, doVars, TypeOK, Waiting, Ask
<1>3. CASE CallMount(c)
  BY <1>3, TokensKept DEF CallMount, TypeOK, Waiting, Ask, End
<1>4. CASE CallUnmount(c)
  BY <1>4, TokensKept DEF CallUnmount, doVars, TypeOK, Waiting, Ask, End
<1>5. CASE CallVisit(c)
  <2>1. PICK p \in Ports, t \in Tokens :
          /\ op' = [op EXCEPT ![c] = "visit"]
          /\ arg' = [arg EXCEPT ![c] = p]
          /\ token' = [token EXCEPT ![c] = t]
          /\ Ask(c, "list")
    BY <1>5, VisitRoute
  <2> QED
    BY <1>5, <2>1, TokensKept DEF CallVisit, doVars, TypeOK, Waiting, Ask
<1> QED
  BY <1>1, <1>2, <1>3, <1>4, <1>5 DEF NewCall

\* A call that goes on stores at most the token it has checked.
LEMMA ContinueTokens ==
  ASSUME TypeOK, TokenInv, NEW c \in Calls, Continue(c)
  PROVE  TokenInv'
<1>1. CASE Exposed(c)
  <2>1. /\ op[c] = "expose" /\ Waiting(c)
        /\ arg[c] \in Ports /\ token[c] \in Tokens /\ tokens[c] \in TokenMaps
    BY <1>1 DEF TypeOK, Exposed, Returned, Requests, Waiting
  <2>2. UniqueIn(tokens[c]) /\ Free(tokens[c], arg[c], token[c])
    BY <2>1 DEF TokenInv
  <2>3. UniqueIn(portTokens')
    BY <1>1, <2>1, <2>2, GiveToken DEF Exposed
  <2>4. \A d \in Calls : op'[d] = "expose" /\ Waiting(d)' => Waiting(d)
    BY <1>1 DEF TypeOK, Exposed, End, Waiting
  <2> QED
    BY <1>1, <2>3, <2>4 DEF Exposed, TokenInv, TokensUnique, UniqueIn, Free
<1>2. CASE Unexposed(c)
  <2>1. arg[c] \in Ports
    BY <1>2 DEF TypeOK, Unexposed, Returned, Requests
  <2>2. UniqueIn(portTokens')
    BY <1>2, <2>1, TakeToken DEF TypeOK, TokenInv, TokensUnique, Unexposed
  <2>3. \A d \in Calls : op'[d] = "expose" /\ Waiting(d)' => Waiting(d)
    BY <1>2 DEF TypeOK, Unexposed, End, Waiting
  <2> QED
    BY <1>2, <2>2, <2>3 DEF Unexposed, TokenInv, TokensUnique, UniqueIn, Free
<1>3. CASE SessionReady(c)
  BY <1>3, TokensKept DEF SessionReady, TypeOK, Waiting
<1>4. CASE \/ PortCallThrows(c) \/ Mounted(c) \/ MountGivenUp(c) \/ UnmountEnds(c)
           \/ Denied(c) \/ Proxied(c)
  <2>1. End(c) /\ UNCHANGED << op, arg, token, tokens, portTokens >>
    BY <1>4 DEF PortCallThrows, Mounted, MountGivenUp, UnmountEnds, Denied, Proxied, doVars
  <2> QED
    BY <2>1, TokensKept DEF TypeOK, End, Waiting
<1>5. CASE Prepared(c) \/ MountFails(c) \/ Unmounted(c) \/ UnmountThrows(c)
  <2>1. /\ Waiting(c)
        /\ UNCHANGED << op, arg, token, tokens, portTokens >>
        /\ Ask(c, "s3fs") \/ Ask(c, "rm")
    BY <1>5 DEF Prepared, MountFails, Unmounted, UnmountThrows, Returned, Threw,
                Waiting, doVars
  <2> QED
    BY <2>1, TokensKept DEF TypeOK, Ask, Waiting
<1>6. CASE Admitted(c)
  BY <1>6, TokensKept DEF Admitted, doVars, Waiting
<1> QED
  BY <1>1, <1>2, <1>3, <1>4, <1>5, <1>6 DEF Continue

\* Every step keeps TokenInv.
LEMMA NextTokens == TypeOK /\ TokenInv /\ [Next]_vars => TokenInv'
<1> SUFFICES ASSUME TypeOK, TokenInv, [Next]_vars PROVE TokenInv'
  OBVIOUS
<1>1. ASSUME NEW c \in Calls, Handle(c) \/ Fail(c) PROVE TokenInv'
  BY <1>1, TokensKept DEF Handle, Fail, doVars, Waiting
<1>2. CASE Stop
  BY <1>2 DEF Stop, callVars, TokenInv, TokensUnique, UniqueIn, Free, Waiting,
              NoTokens
<1>3. CASE Restart
  BY <1>3, TokensKept DEF Restart, Waiting
<1>4. CASE UNCHANGED vars
  BY <1>4, TokensKept DEF vars, callVars, doVars, Waiting
<1> QED
  BY <1>1, <1>2, <1>3, <1>4, NewCallTokens, ContinueTokens DEF Next

\* Whatever exposePort and unexposePort calls overlap, and whatever fails, no
\* two ports ever have the same token.
THEOREM TokensStayUnique == Spec => []TokensUnique
<1>1. Spec => []TypeOK
  BY TypeCorrect
<1>2. Init => TokenInv
  BY InitTokens
<1>3. TypeOK /\ TokenInv /\ [Next]_vars => TokenInv'
  BY NextTokens
<1>4. TokenInv => TokensUnique
  BY DEF TokenInv
<1> QED
  BY <1>1, <1>2, <1>3, <1>4, PTL DEF Spec

-----------------------------------------------------------------------------
(* Visits *)

\* VisitsIssued needs to know where stored tokens come from, and those of the
\* copies which exposePort calls are going to write back.
IssuedIn(map) == \A p \in Ports : map[p] # None => Issued(p, map[p])

IssuedInv ==
  /\ VisitsIssued
  /\ IssuedIn(portTokens)
  /\ \A c \in Calls : IssuedIn(tokens[c])

\* Exposing a port is never taken back by the call that did it.
LEMMA IssuedForever ==
  ASSUME TypeOK, [Next]_vars, NEW p, NEW t, Issued(p, t)
  PROVE  Issued(p, t)'
<1>1. PICK d \in Calls :
        op[d] = "expose" /\ arg[d] = p /\ token[d] = t /\ pc[d] = "done" /\ reply[d] = "ok"
  BY DEF Issued
<1> SUFFICES op'[d] = op[d] /\ arg'[d] = arg[d] /\ token'[d] = token[d] /\ pc'[d] = pc[d]
             /\ reply'[d] = reply[d]
  BY <1>1 DEF Issued
<1>2. ASSUME NEW c \in Calls, NewCall(c)
      PROVE  /\ c # d
             /\ op'[d] = op[d] /\ arg'[d] = arg[d] /\ token'[d] = token[d]
             /\ pc'[d] = pc[d] /\ reply'[d] = reply[d]
  <2>1. c # d
    BY <1>1, <1>2 DEF NewCall
  <2> QED
    BY <1>2, <2>1 DEF NewCall, CallExpose, CallUnexpose, CallVisit, CallMount, CallUnmount,
                      Ask, End, TypeOK
<1>3. ASSUME NEW c \in Calls, Handle(c) \/ Fail(c)
      PROVE  /\ op'[d] = op[d] /\ arg'[d] = arg[d] /\ token'[d] = token[d]
             /\ pc'[d] = pc[d] /\ reply'[d] = reply[d]
  <2>1. c # d
    BY <1>1, <1>3 DEF Handle, Fail, Waiting
  <2> QED
    BY <1>3, <2>1 DEF Handle, Serve, Fail, TypeOK
<1>4. ASSUME NEW c \in Calls, Continue(c)
      PROVE  /\ op'[d] = op[d] /\ arg'[d] = arg[d] /\ token'[d] = token[d]
             /\ pc'[d] = pc[d] /\ reply'[d] = reply[d]
  <2>1. c # d
    BY <1>1, <1>4 DEF Continue, SessionReady, Exposed, Unexposed, PortCallThrows, Admitted,
         Denied, Proxied, Prepared, Mounted, MountFails, MountGivenUp, Unmounted,
         UnmountThrows, UnmountEnds, Returned, Threw, Waiting
  <2>2. UNCHANGED << op, arg, token >>
    BY <1>4 DEF Continue, SessionReady, Exposed, Unexposed, PortCallThrows, Admitted,
         Denied, Proxied, Prepared, Mounted, MountFails, MountGivenUp, Unmounted,
         UnmountThrows, UnmountEnds
  <2>3. pc'[d] = pc[d] /\ reply'[d] = reply[d]
    BY <1>4, <2>1 DEF Continue, SessionReady, Exposed, Unexposed, PortCallThrows, Admitted,
         Denied, Proxied, Prepared, Mounted, MountFails, MountGivenUp, Unmounted,
         UnmountThrows, UnmountEnds, Ask, End, TypeOK
  <2> QED
    BY <2>2, <2>3
<1>5. CASE Stop
  BY <1>5 DEF Stop, callVars
<1>6. CASE Restart
  BY <1>1, <1>6 DEF Restart
<1>7. CASE UNCHANGED vars
  BY <1>7 DEF vars, callVars
<1> QED
  BY <1>2, <1>3, <1>4, <1>5, <1>6, <1>7 DEF Next

\* A step that stores and copies no token but old ones, and forwards nothing.
LEMMA IssuedKept ==
  ASSUME TypeOK, IssuedInv, [Next]_vars,
         \A p \in Ports : portTokens'[p] \in {portTokens[p], None},
         \A c \in Calls : tokens'[c] \in {tokens[c], portTokens},
         \A c \in Calls : op'[c] = "visit" /\ todo'[c] = "proxy" =>
            /\ op[c] = "visit" /\ todo[c] = "proxy"
            /\ arg'[c] = arg[c] /\ token'[c] = token[c]
  PROVE  IssuedInv'
<1>1. VisitsIssued'
  BY IssuedForever DEF IssuedInv, VisitsIssued
<1>2. IssuedIn(portTokens)'
  BY IssuedForever DEF IssuedInv, IssuedIn
<1>3. ASSUME NEW c \in Calls PROVE IssuedIn(tokens[c])'
  BY IssuedForever DEF IssuedInv, IssuedIn
<1> QED
  BY <1>1, <1>2, <1>3 DEF IssuedInv

\* No token is there at first, and none was granted.
LEMMA InitIssued == Init => IssuedInv
  BY DEF Init, IssuedInv, VisitsIssued, IssuedIn, NoTokens

\* A call that begins stores no token, and a visit that begins has shown none.
LEMMA NewCallIssued ==
  ASSUME TypeOK, IssuedInv, NEW c \in Calls, NewCall(c)
  PROVE  IssuedInv'
<1>1. [Next]_vars
  BY DEF Next
<1>2. portTokens' = portTokens
  BY DEF NewCall, CallExpose, CallUnexpose, CallVisit, CallMount, CallUnmount, doVars
<1>3. \A d \in Calls : tokens'[d] \in {tokens[d], portTokens}
  BY DEF NewCall, CallExpose, CallUnexpose, CallVisit, CallMount, CallUnmount, TypeOK
<1>4. \A d \in Calls \ {c} : /\ op'[d] = op[d] /\ arg'[d] = arg[d] /\ token'[d] = token[d]
                              /\ todo'[d] = todo[d]
  BY DEF NewCall, CallExpose, CallUnexpose, CallVisit, CallMount, CallUnmount, Ask, End, TypeOK
<1>5. ~ (op'[c] = "visit" /\ todo'[c] = "proxy")
  <2>1. CASE CallVisit(c)
    BY <2>1 DEF CallVisit, Ask, TypeOK
  <2>2. CASE CallExpose(c) \/ CallUnexpose(c) \/ CallMount(c) \/ CallUnmount(c)
    BY <2>2 DEF CallExpose, CallUnexpose, CallMount, CallUnmount, TypeOK
  <2> QED
    BY <2>1, <2>2 DEF NewCall
<1> QED
  BY <1>1, <1>2, <1>3, <1>4, <1>5, IssuedKept

\* A call that goes on stores a token it was granted, a visit passes with a
\* stored one.
LEMMA ContinueIssued ==
  ASSUME TypeOK, IssuedInv, NEW c \in Calls, Continue(c)
  PROVE  IssuedInv'
<1>1. [Next]_vars
  BY DEF Next
<1>2. CASE Exposed(c)
  <2>1. /\ op[c] = "expose" /\ reply[c] = "ok" /\ pc'[c] = "done"
        /\ portTokens' = [tokens[c] EXCEPT ![arg[c]] = token[c]]
        /\ arg[c] \in Ports
        /\ UNCHANGED << op, arg, token, tokens, todo, reply >>
    BY <1>2 DEF TypeOK, Exposed, Returned, Requests, End
  <2>2. Issued(arg[c], token[c])'
    BY <2>1 DEF Issued
  <2>3. IssuedIn(portTokens)'
    BY <1>1, <2>1, <2>2, IssuedForever DEF IssuedInv, IssuedIn, TypeOK, TokenMaps
  <2>4. VisitsIssued'
    BY <1>1, <2>1, IssuedForever DEF IssuedInv, VisitsIssued
  <2>5. ASSUME NEW d \in Calls PROVE IssuedIn(tokens[d])'
    BY <1>1, <2>1, IssuedForever DEF IssuedInv, IssuedIn
  <2> QED
    BY <2>3, <2>4, <2>5 DEF IssuedInv
<1>3. CASE Admitted(c)
  <2>1. /\ arg[c] \in Ports /\ token[c] = portTokens[arg[c]] /\ token[c] \in Tokens
        /\ UNCHANGED << op, arg, token, tokens, portTokens >>
        /\ \A d \in Calls \ {c} : todo'[d] = todo[d]
    BY <1>3 DEF TypeOK, Admitted, Returned, Requests, doVars
  <2>2. Issued(arg[c], token[c])
    BY <2>1, NoneAssumption DEF IssuedInv, IssuedIn
  <2>3. VisitsIssued'
    BY <1>1, <2>1, <2>2, IssuedForever DEF IssuedInv, VisitsIssued
  <2>4. IssuedIn(portTokens)'
    BY <1>1, <2>1, IssuedForever DEF IssuedInv, IssuedIn
  <2>5. ASSUME NEW d \in Calls PROVE IssuedIn(tokens[d])'
    BY <1>1, <2>1, IssuedForever DEF IssuedInv, IssuedIn
  <2> QED
    BY <2>3, <2>4, <2>5 DEF IssuedInv
<1>4. CASE Unexposed(c)
  <2>1. \A p \in Ports : portTokens'[p] \in {portTokens[p], None}
    BY <1>4 DEF Unexposed, TypeOK, TokenMaps
  <2> QED
    BY <1>1, <1>4, <2>1, IssuedKept DEF Unexposed, End
<1>5. CASE \/ SessionReady(c) \/ PortCallThrows(c) \/ Denied(c) \/ Proxied(c)
           \/ Mounted(c) \/ MountGivenUp(c) \/ UnmountEnds(c)
  <2>1. UNCHANGED << op, arg, token, tokens, portTokens, todo >>
    BY <1>5 DEF SessionReady, PortCallThrows, Denied, Proxied, Mounted, MountGivenUp,
                UnmountEnds, End, doVars
  <2> QED
    BY <1>1, <2>1, IssuedKept
<1>6. CASE Prepared(c) \/ MountFails(c) \/ Unmounted(c) \/ UnmountThrows(c)
  <2>1. UNCHANGED << op, arg, token, tokens, portTokens >>
    BY <1>6 DEF Prepared, MountFails, Unmounted, UnmountThrows, doVars
  <2>2. \A d \in Calls : todo'[d] \in {todo[d], "s3fs", "rm"}
    BY <1>6 DEF Prepared, MountFails, Unmounted, UnmountThrows, Ask, TypeOK
  <2> QED
    BY <1>1, <2>1, <2>2, IssuedKept
<1> QED
  BY <1>2, <1>3, <1>4, <1>5, <1>6 DEF Continue

\* Every step keeps IssuedInv.
LEMMA NextIssued == TypeOK /\ IssuedInv /\ [Next]_vars => IssuedInv'
<1> SUFFICES ASSUME TypeOK, IssuedInv, [Next]_vars PROVE IssuedInv'
  OBVIOUS
<1>1. ASSUME NEW c \in Calls, Handle(c) \/ Fail(c) PROVE IssuedInv'
  BY <1>1, IssuedKept DEF Handle, Fail, doVars
<1>2. CASE Stop
  <2>1. \A p \in Ports : portTokens'[p] = None
    BY <1>2 DEF Stop, NoTokens
  <2> QED
    BY <1>2, <2>1, IssuedKept DEF Stop, callVars
<1>3. CASE Restart
  BY <1>3, IssuedKept DEF Restart
<1>4. CASE UNCHANGED vars
  BY <1>4, IssuedKept DEF vars, callVars, doVars
<1> QED
  BY <1>1, <1>2, <1>3, <1>4, NewCallIssued, ContinueIssued DEF Next

\* A visit reaches a port only with a token that an exposePort of that port has
\* chosen and has been granted, whatever calls overlap, fail or are cut short.
THEOREM VisitsStayIssued == Spec => []VisitsIssued
<1>1. Spec => []TypeOK
  BY TypeCorrect
<1>2. Init => IssuedInv
  BY InitIssued
<1>3. TypeOK /\ IssuedInv /\ [Next]_vars => IssuedInv'
  BY NextIssued
<1>4. IssuedInv => VisitsIssued
  BY DEF IssuedInv
<1> QED
  BY <1>1, <1>2, <1>3, <1>4, PTL DEF Spec

-----------------------------------------------------------------------------
(* Mounts *)

\* No path is reserved at first.
LEMMA InitReservations == Init => NoOrphanReservation
  BY DEF Init, NoOrphanReservation

\* A step that reserves nothing, and lets every mountBucket go on that was at
\* work on a path which stays reserved.
LEMMA ReservationsKept ==
  ASSUME NoOrphanReservation,
         \A p \in Paths : activeMounts'[p] = "reserved" =>
            /\ activeMounts[p] = "reserved"
            /\ \A c \in Calls : op[c] = "mount" /\ arg[c] = p /\ Waiting(c) =>
                  op'[c] = "mount" /\ arg'[c] = p /\ Waiting(c)'
  PROVE  NoOrphanReservation'
  BY DEF NoOrphanReservation

\* A mountBucket that begins is at work for the path it reserves.
LEMMA NewCallReservations ==
  ASSUME TypeOK, NoOrphanReservation, NEW c \in Calls, NewCall(c)
  PROVE  NoOrphanReservation'
<1>1. ~ Waiting(c)
  BY DEF NewCall, Waiting
<1>2. CASE CallMount(c)
  <2>1. PICK p \in Paths :
          /\ op' = [op EXCEPT ![c] = "mount"]
          /\ arg' = [arg EXCEPT ![c] = p]
          /\ \/ SetMount(p, "reserved") /\ Ask(c, "prepare")
             \/ End(c) /\ UNCHANGED activeMounts
    BY <1>2 DEF CallMount
  <2>2. ASSUME NEW q \in Paths, activeMounts'[q] = "reserved"
        PROVE  \E d \in Calls : op'[d] = "mount" /\ arg'[d] = q /\ Waiting(d)'
    <3>1. CASE activeMounts[q] = "reserved"
      <4>1. PICK d \in Calls : op[d] = "mount" /\ arg[d] = q /\ Waiting(d)
        BY <3>1 DEF NoOrphanReservation
      <4>2. op'[d] = "mount" /\ arg'[d] = q /\ Waiting(d)'
        BY <1>1, <2>1, <4>1 DEF TypeOK, Waiting, Ask, End
      <4> QED
        BY <4>2
    <3>2. CASE activeMounts[q] # "reserved"
      <4>1. q = p /\ Ask(c, "prepare")
        BY <2>1, <2>2, <3>2 DEF TypeOK, SetMount
      <4>2. op'[c] = "mount" /\ arg'[c] = q /\ Waiting(c)'
        BY <2>1, <4>1 DEF TypeOK, Ask, Waiting
      <4> QED
        BY <4>2
    <3> QED
      BY <3>1, <3>2
  <2> QED
    BY <2>2 DEF NoOrphanReservation
<1>3. CASE CallExpose(c)
  BY <1>1, <1>3, ReservationsKept DEF CallExpose, doVars, TypeOK, Waiting, Ask, End
<1>4. CASE CallUnexpose(c)
  BY <1>1, <1>4, ReservationsKept DEF CallUnexpose, doVars, TypeOK, Waiting, Ask
<1>5. CASE CallUnmount(c)
  BY <1>1, <1>5, ReservationsKept DEF CallUnmount, doVars, TypeOK, Waiting, Ask, End
<1>6. CASE CallVisit(c)
  <2>1. PICK p \in Ports, t \in Tokens :
          /\ op' = [op EXCEPT ![c] = "visit"]
          /\ arg' = [arg EXCEPT ![c] = p]
          /\ Ask(c, "list")
    BY <1>6, VisitRoute
  <2> QED
    BY <1>1, <1>6, <2>1, ReservationsKept DEF CallVisit, doVars, TypeOK, Waiting, Ask
<1> QED
  BY <1>2, <1>3, <1>4, <1>5, <1>6 DEF NewCall

\* One that ends leaves its path mounted or free.
LEMMA ContinueReservations ==
  ASSUME TypeOK, NoOrphanReservation, NEW c \in Calls, Continue(c)
  PROVE  NoOrphanReservation'
<1>1. CASE Mounted(c) \/ MountGivenUp(c)
  <2>1. PICK entry \in {"mounted", "none"} :
          /\ SetMount(arg[c], entry)
          /\ End(c)
          /\ UNCHANGED << op, arg >>
    BY <1>1 DEF Mounted, MountGivenUp
  <2> QED
    BY <2>1, ReservationsKept DEF TypeOK, SetMount, End, Waiting
<1>2. CASE \/ Exposed(c) \/ Unexposed(c) \/ PortCallThrows(c) \/ Denied(c) \/ Proxied(c)
           \/ UnmountEnds(c)
  <2>1. op[c] # "mount"
    <3>1. CASE UnmountEnds(c)
      BY <3>1 DEF UnmountEnds
    <3>2. CASE Exposed(c) \/ Unexposed(c) \/ PortCallThrows(c) \/ Denied(c) \/ Proxied(c)
      <4>1. /\ pc[c] \in {"session", "request"}
            /\ todo[c] \in {"expose", "unexpose", "list", "proxy"}
        BY <3>2 DEF Exposed, Unexposed, PortCallThrows, Denied, Proxied, Returned, Threw,
                    Waiting
      <4> QED
        BY <4>1 DEF TypeOK, Requests
    <3> QED
      BY <1>2, <3>1, <3>2
  <2>2. End(c) /\ UNCHANGED << op, arg, activeMounts >>
    BY <1>2 DEF Exposed, Unexposed, PortCallThrows, Denied, Proxied, UnmountEnds, doVars
  <2> QED
    BY <2>1, <2>2, ReservationsKept DEF TypeOK, End, Waiting
<1>3. CASE SessionReady(c)
  BY <1>3, ReservationsKept DEF SessionReady, TypeOK, Waiting
<1>4. CASE Prepared(c) \/ MountFails(c) \/ UnmountThrows(c)
  <2>1. /\ UNCHANGED << op, arg, activeMounts >>
        /\ Ask(c, "s3fs") \/ Ask(c, "rm")
    BY <1>4 DEF Prepared, MountFails, UnmountThrows, doVars
  <2> QED
    BY <2>1, ReservationsKept DEF TypeOK, Ask, Waiting
<1>5. CASE Unmounted(c)
  <2>1. UNCHANGED << op, arg >> /\ SetMount(arg[c], "none") /\ Ask(c, "rm")
    BY <1>5 DEF Unmounted
  <2> QED
    BY <2>1, ReservationsKept DEF TypeOK, SetMount, Ask, Waiting
<1>6. CASE Admitted(c)
  BY <1>6, ReservationsKept DEF Admitted, doVars, Waiting
<1> QED
  BY <1>1, <1>2, <1>3, <1>4, <1>5, <1>6 DEF Continue

\* Every step keeps NoOrphanReservation.
LEMMA NextReservations ==
  TypeOK /\ NoOrphanReservation /\ [Next]_vars => NoOrphanReservation'
<1> SUFFICES ASSUME TypeOK, NoOrphanReservation, [Next]_vars
             PROVE  NoOrphanReservation'
  OBVIOUS
<1>1. ASSUME NEW c \in Calls, Handle(c) \/ Fail(c) PROVE NoOrphanReservation'
  BY <1>1, ReservationsKept DEF Handle, Fail, doVars, Waiting
<1>2. CASE Stop \/ Restart
  BY <1>2 DEF Stop, Restart, NoOrphanReservation
<1>3. CASE UNCHANGED vars
  BY <1>3, ReservationsKept DEF vars, callVars, doVars, Waiting
<1> QED
  BY <1>1, <1>2, <1>3, NewCallReservations, ContinueReservations DEF Next

\* No mount path stays reserved once nobody works on it, whatever mountBucket
\* and unmountBucket calls overlap and however often the container stops.
THEOREM ReservationsEnd == Spec => []NoOrphanReservation
  BY TypeCorrect, InitReservations, NextReservations, PTL DEF Spec

-----------------------------------------------------------------------------
(* Waits for processes: the calls of ProcessWaits *)

\* The operations that read a log stream.
StreamOps == {"waitLog", "waitExit", "exec", "start"}

\* What is known of a call.
Known == [op : Asks \cup {"none"}, of : Procs \cup {NoProc}, timed : BOOLEAN,
          pc : Awaiting \cup {"idle", "hung", "done"},
          fresh : BOOLEAN, matched : BOOLEAN, pending : BOOLEAN, result : Results]

\* Where a call can be, by its operation.
CallOk(c) ==
  /\ call[c].pc = "idle" => call[c] = Idle
  /\ call[c].pc \in {"logs", "open", "read", "stderr"} => call[c].of \in Procs
  /\ call[c].op \in StreamOps \cup {"waitPort"} => call[c].of \in Procs
  /\ call[c].of \in Procs => status[call[c].of] # "none"
  /\ call[c].pc = "open" => call[c].op \in StreamOps
  /\ call[c].pc \in {"list", "serve", "stderr", "relist"} => call[c].op = "opencode"
  /\ call[c].pc = "logs" => call[c].op = "waitLog"
  /\ call[c].pc \in {"idle", "logs", "open"} => got[c] = Silent
  /\ chan[c] # << >> => call[c].pc = "read"
  /\ call[c].pc \in {"idle", "logs", "open"} => ~ call[c].matched
  /\ call[c].pc \in {"idle", "logs", "open", "list", "serve", "read"} => ~ gone[c]
  /\ watch[c] \in Polling \cup {"stuck"} => call[c].of \in Procs
  /\ watch[c] # "off" => call[c].op \in {"waitPort", "opencode"}

CallsInv == \A c \in Waiters : CallOk(c)


\* What the end of a call does to it.
LEMMA SettleEffect ==
  ASSUME call \in [Waiters -> Known], NEW c \in Waiters, NEW r \in Results, Settle(c, r)
  PROVE  /\ call' \in [Waiters -> Known]
         /\ \A d \in Waiters \ {c} : call'[d] = call[d]
         /\ call'[c].op = call[c].op /\ call'[c].of = call[c].of
         /\ call'[c].timed = call[c].timed /\ call'[c].pc = "done"
         /\ call'[c].result = IF call[c].result = "none" THEN r ELSE call[c].result
<1> DEFINE k == call[c]
           q == IF k.result = "none" THEN r ELSE k.result
           n == [k EXCEPT !.pc = "done", !.result = q, !.fresh = TRUE,
                          !.matched = FALSE, !.pending = FALSE]
<1>1. call' = [call EXCEPT ![c] = n]
  BY DEF Settle
<1>2. k \in Known
  OBVIOUS
<1>3. q \in Results
  BY <1>2 DEF Known
<1> HIDE DEF q
<1>4. n \in Known /\ n.op = k.op /\ n.of = k.of /\ n.timed = k.timed /\ n.pc = "done" /\ n.result = q
  BY <1>2, <1>3 DEF Known
<1> HIDE DEF n
<1>5. call'[c] = n /\ call' \in [Waiters -> Known] /\ \A d \in Waiters \ {c} : call'[d] = call[d]
  BY <1>1, <1>4
<1> QED
  BY <1>4, <1>5 DEF q

\* What the beginning of a call does to it.
LEMMA WaitEffect ==
  ASSUME call \in [Waiters -> Known], NEW c \in Waiters, NEW o \in Asks, NEW p \in Procs,
         NEW t \in BOOLEAN, NEW x \in Awaiting,
         call' = [call EXCEPT ![c].op = o, ![c].of = p, ![c].timed = t, ![c].pc = x]
  PROVE  /\ call' \in [Waiters -> Known]
         /\ \A d \in Waiters \ {c} : call'[d] = call[d]
         /\ call'[c] = [call[c] EXCEPT !.op = o, !.of = p, !.timed = t, !.pc = x]
<1> DEFINE n == [call[c] EXCEPT !.op = o, !.of = p, !.timed = t, !.pc = x]
<1>1. call' = [call EXCEPT ![c] = n]
  OBVIOUS
<1>2. n \in Known
  BY DEF Known
<1> HIDE DEF n
<1> QED
  BY <1>1, <1>2

-----------------------------------------------------------------------------
(* What processes print *)

\* Output is a sequence of lines, of bounded length.
LEMMA BoundedLines ==
  /\ \A o : o \in UNION {[1..n -> Lines] : n \in 0..MaxLines} <=> o \in Seq(Lines) /\ Len(o) <= MaxLines
  /\ \A o : o \in UNION {[1..n -> Lines] : n \in 1..MaxLines}
              <=> o \in Seq(Lines) /\ Len(o) <= MaxLines /\ o # << >>
<1>1. \A o : o \in Seq(Lines) => Len(o) \in Nat /\ o \in [1..Len(o) -> Lines]
  OBVIOUS
<1>2. \A n \in Nat : \A o \in [1..n -> Lines] : o \in Seq(Lines) /\ Len(o) = n
  OBVIOUS
<1>3. 0..MaxLines \subseteq Nat /\ 1..MaxLines \subseteq Nat
  BY LinesAssumption
<1>4. \A o : o \in UNION {[1..n -> Lines] : n \in 0..MaxLines} <=> o \in Seq(Lines) /\ Len(o) <= MaxLines
  <2> TAKE o
  <2>1. ASSUME o \in UNION {[1..n -> Lines] : n \in 0..MaxLines}
        PROVE  o \in Seq(Lines) /\ Len(o) <= MaxLines
    <3>1. PICK n \in 0..MaxLines : o \in [1..n -> Lines]
      BY <2>1
    <3> QED
      BY <1>2, <1>3, <3>1, LinesAssumption
  <2>2. ASSUME o \in Seq(Lines), Len(o) <= MaxLines
        PROVE  o \in UNION {[1..n -> Lines] : n \in 0..MaxLines}
    <3>1. Len(o) \in 0..MaxLines /\ o \in [1..Len(o) -> Lines]
      BY <1>1, <2>2, LinesAssumption
    <3> QED
      BY <3>1
  <2> QED
    BY <2>1, <2>2
<1>5. \A o : o \in UNION {[1..n -> Lines] : n \in 1..MaxLines}
              <=> o \in Seq(Lines) /\ Len(o) <= MaxLines /\ o # << >>
  <2> TAKE o
  <2>1. ASSUME o \in UNION {[1..n -> Lines] : n \in 1..MaxLines}
        PROVE  o \in Seq(Lines) /\ Len(o) <= MaxLines /\ o # << >>
    <3>1. PICK n \in 1..MaxLines : o \in [1..n -> Lines]
      BY <2>1
    <3>2. o \in Seq(Lines) /\ Len(o) = n
      BY <1>2, <1>3, <3>1
    <3> QED
      BY <3>2, LinesAssumption
  <2>2. ASSUME o \in Seq(Lines), Len(o) <= MaxLines, o # << >>
        PROVE  o \in UNION {[1..n -> Lines] : n \in 1..MaxLines}
    <3>1. Len(o) \in 1..MaxLines /\ o \in [1..Len(o) -> Lines]
      BY <1>1, <2>2, LinesAssumption
    <3> QED
      BY <3>1
  <2> QED
    BY <2>1, <2>2
<1> QED
  BY <1>4, <1>5

\* What the handlers send are events.
LEMMA EventTypes ==
  /\ Signalled("exit") \in Events /\ Signalled("ready") \in Events
  /\ Signalled("exit").type = "exit" /\ Signalled("ready").type = "ready"
  /\ Signalled("exit").lines = << >> /\ Signalled("ready").lines = << >>
  /\ \A s \in Pipes : \A o \in Seq(Lines) :
       o # << >> /\ Len(o) <= MaxLines => [type |-> s, lines |-> o] \in Events
  /\ \A e \in Events :
       /\ e.type \in Pipes \cup {"exit", "ready"}
       /\ e.lines \in Seq(Lines)
       /\ e.type \notin Pipes => e.lines = << >>
<1>1. \A e \in Events :
       /\ e.type \in Pipes \cup {"exit", "ready"}
       /\ e.lines \in Seq(Lines)
       /\ e.type \notin Pipes => e.lines = << >>
  <2> SUFFICES ASSUME NEW e \in Events
               PROVE  /\ e.type \in Pipes \cup {"exit", "ready"}
                      /\ e.lines \in Seq(Lines)
                      /\ e.type \notin Pipes => e.lines = << >>
    OBVIOUS
  <2> DEFINE B == UNION {[1..n -> Lines] : n \in 1..MaxLines}
  <2>1. \A o \in B : o \in Seq(Lines)
    BY BoundedLines
  <2> HIDE DEF B
  <2>2. e \in [type : Pipes, lines : B] \cup [type : {"exit", "ready"}, lines : {<< >>}]
    BY DEF Events, B
  <2>3. CASE e \in [type : Pipes, lines : B]
    BY <2>1, <2>3
  <2>4. CASE e \in [type : {"exit", "ready"}, lines : {<< >>}]
    <3>1. e.type \in {"exit", "ready"} /\ e.lines = << >>
      BY <2>4
    <3> QED
      BY <3>1
  <2> QED
    BY <2>2, <2>3, <2>4
<1>2. \A s \in Pipes : \A o \in Seq(Lines) :
       o # << >> /\ Len(o) <= MaxLines => [type |-> s, lines |-> o] \in Events
  <2> DEFINE B == UNION {[1..n -> Lines] : n \in 1..MaxLines}
  <2>1. \A o \in Seq(Lines) : o # << >> /\ Len(o) <= MaxLines => o \in B
    BY BoundedLines
  <2> HIDE DEF B
  <2>2. [type : Pipes, lines : B] \subseteq Events
    BY DEF Events, B
  <2> QED
    BY <2>1, <2>2
<1>3. /\ Signalled("exit") \in Events /\ Signalled("ready") \in Events
      /\ Signalled("exit").type = "exit" /\ Signalled("ready").type = "ready"
      /\ Signalled("exit").lines = << >> /\ Signalled("ready").lines = << >>
  BY DEF Signalled, Events
<1> QED
  BY <1>1, <1>2, <1>3

-----------------------------------------------------------------------------
(* The types of ProcessWaits *)

\* The variables of the processes, and those of the calls, have their types.
ProcTypes ==
  /\ life \in [Procs -> {"none", "up", "over"}]
  /\ status \in [Procs -> {"none", "running"} \cup Over]
  /\ saved \in [Procs -> BOOLEAN]
  /\ aborted \in [Procs -> BOOLEAN]
  /\ out \in [Procs -> Outputs]
  /\ listeners \in [Procs -> Seq(Waiters)]
  /\ port \in Procs \cup {NoProc}

CallTypes ==
  /\ call \in [Waiters -> Known]
  /\ got \in [Waiters -> [Pipes -> Seq(Lines)]]
  /\ chan \in [Waiters -> Seq(Events)]
  /\ gone \in [Waiters -> BOOLEAN]
  /\ watch \in [Waiters -> Polling \cup {"off", "stuck", "done"}]

Types == ProcTypes /\ CallTypes

\* Of the processes, a call can only start one.
OnlyStarts ==
  \A p \in Procs : status'[p] = status[p] \/ (status[p] = "none" /\ status'[p] = "running")

\* A step of the call c, seen from the others.
OnlyOf(c) ==
  /\ \A d \in Waiters \ {c} : /\ call'[d] = call[d] /\ got'[d] = got[d] /\ chan'[d] = chan[d]
                              /\ gone'[d] = gone[d] /\ watch'[d] = watch[d]
  /\ OnlyStarts
  /\ out' = out /\ aborted' = aborted
  /\ \/ listeners' = listeners
     \/ /\ call[c].pc = "open"
        /\ listeners' = [listeners EXCEPT ![call[c].of] = Append(@, c)]

StepOk(c) == Types' /\ CallOk(c)' /\ OnlyOf(c)

\* The variables of the processes are left alone ...
LEMMA ProcsAlone ==
  ASSUME ProcTypes, UNCHANGED << procVars, listeners >>
  PROVE  /\ ProcTypes'
         /\ OnlyStarts
         /\ out' = out /\ aborted' = aborted /\ listeners' = listeners /\ status' = status
BY DEF ProcTypes, procVars, OnlyStarts

\* ... but for a process that is started.
LEMMA ProcsLaunch ==
  ASSUME ProcTypes, NEW p \in Procs, Launch(p),
         UNCHANGED << saved, aborted, out, listeners, port >>
  PROVE  /\ ProcTypes'
         /\ OnlyStarts
         /\ status'[p] = "running"
         /\ out' = out /\ aborted' = aborted /\ listeners' = listeners
<1>1. status' \in [Procs -> {"none", "running"} \cup Over]
  BY DEF ProcTypes, Launch
<1>2. life' \in [Procs -> {"none", "up", "over"}]
  BY DEF ProcTypes, Launch
<1>3. OnlyStarts
  BY DEF ProcTypes, Launch, OnlyStarts
<1>4. status'[p] = "running"
  BY DEF ProcTypes, Launch
<1> QED
  BY <1>1, <1>2, <1>3, <1>4 DEF ProcTypes

\* The others stay where they are.
LEMMA OthersStay ==
  ASSUME Types, CallsInv, NEW c \in Waiters, StepOk(c)
  PROVE  CallsInv'
<1> SUFFICES ASSUME NEW d \in Waiters
             PROVE  CallOk(d)'
  BY DEF CallsInv
<1>1. CASE d = c
  BY <1>1 DEF StepOk
<1>2. CASE d # c
  <2>1. /\ call'[d] = call[d] /\ got'[d] = got[d] /\ chan'[d] = chan[d]
        /\ gone'[d] = gone[d] /\ watch'[d] = watch[d]
    BY <1>2 DEF StepOk, OnlyOf
  <2>2. OnlyStarts
    BY DEF StepOk, OnlyOf
  <2>3. CallOk(d)
    BY DEF CallsInv
  <2> QED
    BY <2>1, <2>2, <2>3 DEF CallOk, OnlyStarts
<1> QED
  BY <1>1, <1>2

\* What is known of a call before it is made.
LEMMA IdleCall ==
  ASSUME NEW c, CallOk(c), Makes(c)
  PROVE  call[c] = Idle /\ got[c] = Silent /\ ~ gone[c] /\ watch[c] = "off" /\ chan[c] = << >>
<1>1. call[c].pc = "idle"
  BY DEF Makes
<1>2. call[c] = Idle /\ got[c] = Silent /\ ~ gone[c] /\ chan[c] = << >>
  BY <1>1 DEF CallOk
<1>3. call[c].op = "none"
  BY <1>2 DEF Idle
<1>4. watch[c] = "off"
  BY <1>3 DEF CallOk
<1> QED
  BY <1>2, <1>4

\* waitForLog, waitForExit and waitForPort begin.
LEMMA WaitStep ==
  ASSUME Types, NEW c \in Waiters, CallOk(c), Wait(c)
  PROVE  StepOk(c)
<1>1. /\ ProcTypes' 
      /\ OnlyStarts
      /\ out' = out /\ aborted' = aborted /\ listeners' = listeners /\ status' = status
  BY ProcsAlone DEF Wait, Types
<1>2. got' = got /\ chan' = chan /\ gone' = gone
  BY DEF Wait
<1>3. call[c] = Idle /\ got[c] = Silent /\ ~ gone[c] /\ watch[c] = "off" /\ chan[c] = << >>
  BY IdleCall DEF Wait
<1>4. PICK o \in Asks \cap WaitOps, p \in Procs, timed \in BOOLEAN :
       /\ status[p] # "none"
       /\ call' = [call EXCEPT ![c].op = o, ![c].of = p, ![c].timed = timed,
                               ![c].pc = CASE o = "waitLog"  -> "logs"
                                           [] o = "waitExit" -> "open"
                                           [] o = "waitPort" -> "read"]
       /\ watch' = [watch EXCEPT ![c] = IF o = "waitPort" THEN "status" ELSE @]
  BY Zenon DEF Wait
<1> DEFINE x == CASE o = "waitLog" -> "logs" [] o = "waitExit" -> "open" [] o = "waitPort" -> "read"
<1>5. \/ o = "waitLog" /\ x = "logs"
      \/ o = "waitExit" /\ x = "open"
      \/ o = "waitPort" /\ x = "read"
  BY DEF WaitOps
<1>6. call' = [call EXCEPT ![c].op = o, ![c].of = p, ![c].timed = timed, ![c].pc = x]
  BY <1>4
<1> HIDE DEF x
<1>7. x \in Awaiting
  BY <1>5 DEF Awaiting
<1>8. /\ call' \in [Waiters -> Known]
      /\ \A d \in Waiters \ {c} : call'[d] = call[d]
      /\ call'[c] = [call[c] EXCEPT !.op = o, !.of = p, !.timed = timed, !.pc = x]
  BY <1>6, <1>7, WaitEffect DEF Types, CallTypes
<1>9. call'[c].op = o /\ call'[c].of = p /\ call'[c].pc = x /\ ~ call'[c].matched
  BY <1>3, <1>8 DEF Idle
<1>10. /\ watch' \in [Waiters -> Polling \cup {"off", "stuck", "done"}]
       /\ watch'[c] = IF o = "waitPort" THEN "status" ELSE "off"
       /\ \A d \in Waiters \ {c} : watch'[d] = watch[d]
  BY <1>3, <1>4 DEF Types, CallTypes, Polling
<1>11. Types'
  BY <1>1, <1>2, <1>8, <1>10 DEF Types, CallTypes
<1>12. OnlyOf(c)
  BY <1>1, <1>2, <1>8, <1>10 DEF OnlyOf
<1>13. CallOk(c)'
  BY <1>1, <1>2, <1>3, <1>4, <1>5, <1>9, <1>10 DEF CallOk, StreamOps, Polling
<1> QED
  BY <1>11, <1>12, <1>13 DEF StepOk

\* Only where the call waits changes.
LEMMA PcEffect ==
  ASSUME call \in [Waiters -> Known], NEW c \in Waiters,
         NEW x \in Awaiting \cup {"idle", "hung", "done"},
         call' = [call EXCEPT ![c].pc = x]
  PROVE  /\ call' \in [Waiters -> Known]
         /\ \A d \in Waiters \ {c} : call'[d] = call[d]
         /\ call'[c] = [call[c] EXCEPT !.pc = x]
         /\ call'[c].op = call[c].op /\ call'[c].of = call[c].of
         /\ call'[c].timed = call[c].timed /\ call'[c].pc = x
         /\ call'[c].result = call[c].result /\ call'[c].matched = call[c].matched
<1> DEFINE n == [call[c] EXCEPT !.pc = x]
<1>1. call' = [call EXCEPT ![c] = n]
  OBVIOUS
<1>2. /\ n \in Known /\ n.op = call[c].op /\ n.of = call[c].of /\ n.timed = call[c].timed
      /\ n.pc = x /\ n.result = call[c].result /\ n.matched = call[c].matched
  BY DEF Known
<1> HIDE DEF n
<1>3. call'[c] = n /\ call' \in [Waiters -> Known] /\ \A d \in Waiters \ {c} : call'[d] = call[d]
  BY <1>1, <1>2
<1> QED
  BY <1>2, <1>3 DEF n

\* What a failure does to a call.
LEMMA FailedEffect ==
  ASSUME call \in [Waiters -> Known], NEW c \in Waiters, Failed(c)
  PROVE  /\ call' \in [Waiters -> Known]
         /\ \A d \in Waiters \ {c} : call'[d] = call[d]
         /\ call'[c].op = call[c].op /\ call'[c].of = call[c].of
         /\ call'[c].timed = call[c].timed
         /\ \/ /\ call[c].pc = "logs"
               /\ call'[c].pc = "open" /\ call'[c].result = call[c].result
               /\ call'[c].matched = call[c].matched
            \/ /\ call[c].op = "opencode" /\ call[c].pc = "read"
               /\ call'[c].pc = "stderr" /\ call'[c].result = call[c].result
            \/ /\ call[c].op = "opencode" /\ call[c].pc \in {"serve", "stderr"}
               /\ call'[c].pc = "relist" /\ call'[c].result = call[c].result
            \/ /\ call[c].pc # "logs"
               /\ ~ (call[c].op = "opencode" /\ call[c].pc \in {"read", "serve", "stderr"})
               /\ call'[c].pc = "done"
               /\ call'[c].result = IF call[c].result = "none" THEN "lost" ELSE call[c].result
<1>1. CASE call[c].pc = "logs"
  <2>1. call' = [call EXCEPT ![c].pc = "open"]
    BY <1>1 DEF Failed
  <2> QED
    BY <1>1, <2>1, PcEffect DEF Awaiting
<1>2. CASE call[c].op = "opencode" /\ call[c].pc = "read"
  <2>1. call' = [call EXCEPT ![c].pc = "stderr"]
    BY <1>2 DEF Failed
  <2> QED
    BY <1>2, <2>1, PcEffect DEF Awaiting
<1>3. CASE call[c].op = "opencode" /\ call[c].pc \in {"serve", "stderr"}
  <2>1. call' = [call EXCEPT ![c].pc = "relist"]
    BY <1>3 DEF Failed
  <2> QED
    BY <1>3, <2>1, PcEffect DEF Awaiting
<1>4. CASE call[c].pc # "logs" /\ ~ (call[c].op = "opencode" /\ call[c].pc \in {"read", "serve", "stderr"})
  <2>1. Settle(c, "lost")
    BY <1>4 DEF Failed
  <2> QED
    BY <1>4, <2>1, SettleEffect DEF Results
<1> QED
  BY <1>1, <1>2, <1>3, <1>4

\* What leaving a stream does.
LEMMA LeaveEffect ==
  ASSUME CallTypes, NEW c \in Waiters, NEW r \in Results, Leave(c, r)
  PROVE  /\ call' \in [Waiters -> Known] /\ chan' \in [Waiters -> Seq(Events)]
         /\ gone' \in [Waiters -> BOOLEAN]
         /\ \A d \in Waiters \ {c} : call'[d] = call[d] /\ chan'[d] = chan[d] /\ gone'[d] = gone[d]
         /\ call'[c].op = call[c].op /\ call'[c].of = call[c].of
         /\ call'[c].timed = call[c].timed /\ call'[c].pc = "done"
         /\ call'[c].result = IF call[c].result = "none" THEN r ELSE call[c].result
         /\ chan'[c] = << >>
<1>1. ViaHttp \in BOOLEAN
  BY SwitchAssumption
<1>2. /\ gone' \in [Waiters -> BOOLEAN] /\ \A d \in Waiters \ {c} : gone'[d] = gone[d]
  BY <1>1 DEF Leave, CallTypes
<1>3. /\ chan' \in [Waiters -> Seq(Events)] /\ chan'[c] = << >>
      /\ \A d \in Waiters \ {c} : chan'[d] = chan[d]
  BY DEF Leave, CallTypes
<1> QED
  BY <1>2, <1>3, SettleEffect DEF Leave, CallTypes

\* A call that has ended needs nothing more.
LEMMA DoneOk ==
  ASSUME NEW c, CallOk(c), call[c].pc # "idle", call'[c].pc \in {"done", "hung"},
         call'[c].op = call[c].op, call'[c].of = call[c].of, OnlyStarts, chan'[c] = << >>,
         watch'[c] = watch[c]
  PROVE  CallOk(c)'
BY DEF CallOk, OnlyStarts

\* exec and startProcess begin.
LEMMA StartStep ==
  ASSUME Types, NEW c \in Waiters, CallOk(c), Start(c)
  PROVE  StepOk(c)
<1>1. PICK o \in Asks \cap {"exec", "start"}, p \in Procs :
         /\ Launch(p)
         /\ call' = [call EXCEPT ![c].op = o, ![c].of = p, ![c].pc = "open"]
  BY Zenon DEF Start
<1>2. /\ ProcTypes' /\ OnlyStarts /\ status'[p] = "running"
      /\ out' = out /\ aborted' = aborted /\ listeners' = listeners
  BY <1>1, ProcsLaunch DEF Start, Types
<1>3. got' = got /\ chan' = chan /\ gone' = gone /\ watch' = watch
  BY DEF Start
<1>4. call[c] = Idle /\ got[c] = Silent /\ ~ gone[c] /\ watch[c] = "off" /\ chan[c] = << >>
  BY IdleCall DEF Start
<1>5. call[c].timed = FALSE /\ call \in [Waiters -> Known]
  BY <1>4 DEF Idle, Types, CallTypes
<1>6. call' = [call EXCEPT ![c].op = o, ![c].of = p, ![c].timed = FALSE, ![c].pc = "open"]
  <2> DEFINE n == [call[c] EXCEPT !.op = o, !.of = p, !.pc = "open"]
             m == [call[c] EXCEPT !.op = o, !.of = p, !.timed = FALSE, !.pc = "open"]
  <2>1. n = m
    BY <1>5 DEF Known
  <2>2. call' = [call EXCEPT ![c] = n]
    BY <1>1
  <2> HIDE DEF n
  <2>3. call' = [call EXCEPT ![c] = m]
    BY <2>1, <2>2
  <2> QED
    BY <2>3
<1>7. /\ call' \in [Waiters -> Known]
      /\ \A d \in Waiters \ {c} : call'[d] = call[d]
      /\ call'[c] = [call[c] EXCEPT !.op = o, !.of = p, !.timed = FALSE, !.pc = "open"]
  BY <1>5, <1>6, WaitEffect DEF Awaiting
<1>8. call'[c].op = o /\ call'[c].of = p /\ call'[c].pc = "open" /\ ~ call'[c].matched
  BY <1>4, <1>7 DEF Idle
<1>9. Types'
  BY <1>2, <1>3, <1>7 DEF Types, CallTypes
<1>10. OnlyOf(c)
  BY <1>2, <1>3, <1>7 DEF OnlyOf
<1>11. CallOk(c)'
  BY <1>2, <1>3, <1>4, <1>8 DEF CallOk, StreamOps, Polling
<1> QED
  BY <1>9, <1>10, <1>11 DEF StepOk

\* createOpencodeServer begins.
LEMMA OpencodeStep ==
  ASSUME Types, NEW c \in Waiters, CallOk(c), opencode(c)
  PROVE  StepOk(c)
<1>1. /\ ProcTypes' /\ OnlyStarts
      /\ out' = out /\ aborted' = aborted /\ listeners' = listeners /\ status' = status
  BY ProcsAlone DEF opencode, Types
<1>2. got' = got /\ chan' = chan /\ gone' = gone /\ watch' = watch
  BY DEF opencode
<1>3. call[c] = Idle /\ got[c] = Silent /\ ~ gone[c] /\ watch[c] = "off" /\ chan[c] = << >>
  BY IdleCall DEF opencode
<1> DEFINE n == [call[c] EXCEPT !.op = "opencode", !.pc = "list", !.timed = TRUE]
<1>4. call' = [call EXCEPT ![c] = n]
  BY DEF opencode
<1>5. n \in Known /\ n.op = "opencode" /\ n.pc = "list" /\ n.of = NoProc
  <2>1. call[c] \in Known /\ "opencode" \in Asks
    BY DEF Types, CallTypes, opencode
  <2>2. call[c].of = NoProc
    BY <1>3 DEF Idle
  <2> QED
    BY <2>1, <2>2 DEF Known, Awaiting
<1> HIDE DEF n
<1>6. call' \in [Waiters -> Known] /\ call'[c] = n /\ \A d \in Waiters \ {c} : call'[d] = call[d]
  BY <1>4, <1>5 DEF Types, CallTypes
<1>7. Types'
  BY <1>1, <1>2, <1>6 DEF Types, CallTypes
<1>8. OnlyOf(c)
  BY <1>1, <1>2, <1>6 DEF OnlyOf
<1>9. CallOk(c)'
  BY <1>1, <1>2, <1>3, <1>5, <1>6, NoProcAssumption DEF CallOk, StreamOps, Polling
<1> QED
  BY <1>7, <1>8, <1>9 DEF StepOk

\* A request is answered, or fails, and nothing but the call changes.
LEMMA RequestSteps ==
  ASSUME Types, NEW c \in Waiters, CallOk(c),
         Logs(c) \/ Find(c) \/ Stderr(c) \/ RequestFails(c) \/ Hangs(c)
  PROVE  StepOk(c)
<1>1. /\ ProcTypes' /\ OnlyStarts
      /\ out' = out /\ aborted' = aborted /\ listeners' = listeners /\ status' = status
      /\ got' = got /\ chan' = chan /\ gone' = gone /\ watch' = watch
  <2>1. UNCHANGED << procVars, listeners, got, chan, gone, watch >>
    BY DEF Logs, Find, Stderr, RequestFails, Hangs
  <2> QED
    BY <2>1, ProcsAlone DEF Types
<1>2. call \in [Waiters -> Known]
  BY DEF Types, CallTypes
<1>3. ASSUME call' \in [Waiters -> Known], \A d \in Waiters \ {c} : call'[d] = call[d]
      PROVE  Types' /\ OnlyOf(c)
  BY <1>1, <1>3 DEF Types, CallTypes, OnlyOf
<1>4. ASSUME call[c].pc \in Awaiting \ {"read"}
      PROVE  chan[c] = << >>
  BY <1>4 DEF CallOk
<1>5. CASE Logs(c)
  <2>1. call[c].pc = "logs"
    BY <1>5 DEF Logs
  <2>2. CASE Settle(c, "found")
    <3>1. /\ call' \in [Waiters -> Known] /\ \A d \in Waiters \ {c} : call'[d] = call[d]
          /\ call'[c].op = call[c].op /\ call'[c].of = call[c].of /\ call'[c].pc = "done"
      BY <1>2, <2>2, SettleEffect DEF Results
    <3>2. CallOk(c)'
      BY <1>1, <1>4, <2>1, <3>1, DoneOk DEF Awaiting
    <3> QED
      BY <1>3, <3>1, <3>2 DEF StepOk
  <2>3. CASE call' = [call EXCEPT ![c].pc = "open"]
    <3>1. /\ call' \in [Waiters -> Known] /\ \A d \in Waiters \ {c} : call'[d] = call[d]
          /\ call'[c].op = call[c].op /\ call'[c].of = call[c].of /\ call'[c].pc = "open"
          /\ call'[c].matched = call[c].matched
      BY <1>2, <2>3, PcEffect DEF Awaiting
    <3>2. CallOk(c)'
      BY <1>1, <2>1, <3>1 DEF CallOk, StreamOps
    <3> QED
      BY <1>3, <3>1, <3>2 DEF StepOk
  <2> QED
    BY <1>5, <2>2, <2>3 DEF Logs
<1>6. CASE Find(c)
  <2>1. call[c].pc \in {"list", "relist"} /\ call[c].op = "opencode"
    BY <1>6 DEF Find, CallOk
  <2>2. ASSUME NEW p \in Live,
               call' = [call EXCEPT ![c].pc = "done", ![c].of = p, ![c].result = "found"]
        PROVE  StepOk(c)
    <3> DEFINE n == [call[c] EXCEPT !.pc = "done", !.of = p, !.result = "found"]
    <3>1. call' = [call EXCEPT ![c] = n]
      BY <2>2
    <3>2. p \in Procs /\ status[p] = "running"
      BY DEF Live
    <3>3. n \in Known /\ n.pc = "done" /\ n.of = p /\ n.op = call[c].op
      BY <1>2, <3>2 DEF Known, Results
    <3> HIDE DEF n
    <3>4. call'[c] = n /\ call' \in [Waiters -> Known] /\ \A d \in Waiters \ {c} : call'[d] = call[d]
      BY <1>2, <3>1, <3>3
    <3>5. CallOk(c)'
      BY <1>1, <1>4, <2>1, <3>2, <3>3, <3>4 DEF CallOk, Awaiting
    <3> QED
      BY <1>3, <3>4, <3>5 DEF StepOk
  <2>3. CASE call[c].pc = "list" /\ call' = [call EXCEPT ![c].pc = "serve"]
    <3>1. /\ call' \in [Waiters -> Known] /\ \A d \in Waiters \ {c} : call'[d] = call[d]
          /\ call'[c].op = call[c].op /\ call'[c].of = call[c].of /\ call'[c].pc = "serve"
      BY <1>2, <2>3, PcEffect DEF Awaiting
    <3>2. CallOk(c)'
      BY <1>1, <2>1, <2>3, <3>1 DEF CallOk
    <3> QED
      BY <1>3, <3>1, <3>2 DEF StepOk
  <2>4. CASE Settle(c, "given up")
    <3>1. /\ call' \in [Waiters -> Known] /\ \A d \in Waiters \ {c} : call'[d] = call[d]
          /\ call'[c].op = call[c].op /\ call'[c].of = call[c].of /\ call'[c].pc = "done"
      BY <1>2, <2>4, SettleEffect DEF Results
    <3>2. CallOk(c)'
      BY <1>1, <1>4, <2>1, <3>1, DoneOk DEF Awaiting
    <3> QED
      BY <1>3, <3>1, <3>2 DEF StepOk
  <2> QED
    BY <1>6, <2>2, <2>3, <2>4 DEF Find
<1>7. CASE Stderr(c)
  <2>1. call[c].pc = "stderr" /\ call' = [call EXCEPT ![c].pc = "relist"]
    BY <1>7 DEF Stderr
  <2>2. /\ call' \in [Waiters -> Known] /\ \A d \in Waiters \ {c} : call'[d] = call[d]
        /\ call'[c].op = call[c].op /\ call'[c].of = call[c].of /\ call'[c].pc = "relist"
    BY <1>2, <2>1, PcEffect DEF Awaiting
  <2>3. CallOk(c)'
    BY <1>1, <2>1, <2>2 DEF CallOk
  <2> QED
    BY <1>3, <2>2, <2>3 DEF StepOk
<1>8. CASE RequestFails(c)
  <2>1. call[c].pc \in {"logs", "open", "list", "serve", "stderr", "relist"} /\ Failed(c)
    BY <1>8 DEF RequestFails
  <2>2. /\ call' \in [Waiters -> Known] /\ \A d \in Waiters \ {c} : call'[d] = call[d]
        /\ call'[c].op = call[c].op /\ call'[c].of = call[c].of
        /\ \/ call[c].pc = "logs" /\ call'[c].pc = "open" /\ call'[c].matched = call[c].matched
           \/ call[c].op = "opencode" /\ call'[c].pc = "relist"
           \/ call'[c].pc = "done"
    BY <1>2, <2>1, FailedEffect
  <2>3. CASE call'[c].pc = "done"
    BY <1>1, <1>3, <1>4, <2>1, <2>2, <2>3, DoneOk DEF Awaiting, StepOk
  <2>4. CASE call[c].pc = "logs" /\ call'[c].pc = "open" /\ call'[c].matched = call[c].matched
    <3>1. CallOk(c)'
      BY <1>1, <2>2, <2>4 DEF CallOk, StreamOps
    <3> QED
      BY <1>3, <2>2, <3>1 DEF StepOk
  <2>5. CASE call[c].op = "opencode" /\ call'[c].pc = "relist"
    <3>1. CallOk(c)'
      BY <1>1, <1>4, <2>1, <2>2, <2>5 DEF CallOk, Awaiting
    <3> QED
      BY <1>3, <2>2, <3>1 DEF StepOk
  <2> QED
    BY <2>2, <2>3, <2>4, <2>5
<1>9. CASE Hangs(c)
  <2>1. call[c].pc \in {"logs", "open", "stderr"} /\ call' = [call EXCEPT ![c].pc = "hung"]
    BY <1>9 DEF Hangs
  <2>2. /\ call' \in [Waiters -> Known] /\ \A d \in Waiters \ {c} : call'[d] = call[d]
        /\ call'[c].op = call[c].op /\ call'[c].of = call[c].of /\ call'[c].pc = "hung"
    BY <1>2, <2>1, PcEffect
  <2> QED
    BY <1>1, <1>3, <1>4, <2>1, <2>2, DoneOk DEF Awaiting, StepOk
<1> QED
  BY <1>5, <1>6, <1>7, <1>8, <1>9

\* A server is started, and its port watched.
LEMMA ServeStep ==
  ASSUME Types, NEW c \in Waiters, CallOk(c), startOpencodeServer(c)
  PROVE  StepOk(c)
<1>1. PICK p \in Procs : Launch(p) /\ call' = [call EXCEPT ![c].of = p, ![c].pc = "read"]
  BY DEF startOpencodeServer
<1>2. /\ ProcTypes' /\ OnlyStarts /\ status'[p] = "running"
      /\ out' = out /\ aborted' = aborted /\ listeners' = listeners
  BY <1>1, ProcsLaunch DEF startOpencodeServer, Types
<1>3. got' = got /\ chan' = chan /\ gone' = gone /\ call[c].pc = "serve"
  BY DEF startOpencodeServer
<1> DEFINE n == [call[c] EXCEPT !.of = p, !.pc = "read"]
<1>4. call' = [call EXCEPT ![c] = n]
  BY <1>1
<1>5. call[c] \in Known
  BY DEF Types, CallTypes
<1>6. n \in Known /\ n.op = call[c].op /\ n.pc = "read" /\ n.of = p
  BY <1>5 DEF Known, Awaiting
<1> HIDE DEF n
<1>7. call' \in [Waiters -> Known] /\ call'[c] = n /\ \A d \in Waiters \ {c} : call'[d] = call[d]
  BY <1>4, <1>6 DEF Types, CallTypes
<1>8. /\ watch' \in [Waiters -> Polling \cup {"off", "stuck", "done"}]
      /\ watch'[c] = "status" /\ \A d \in Waiters \ {c} : watch'[d] = watch[d]
  BY DEF startOpencodeServer, Types, CallTypes, Polling
<1>9. Types'
  BY <1>2, <1>3, <1>7, <1>8 DEF Types, CallTypes
<1>10. OnlyOf(c)
  BY <1>2, <1>3, <1>7, <1>8 DEF OnlyOf
<1>11. CallOk(c)'
  BY <1>1, <1>2, <1>3, <1>6, <1>7, <1>8 DEF CallOk
<1> QED
  BY <1>9, <1>10, <1>11 DEF StepOk

\* A stream starts with events.
LEMMA ExistingType ==
  ASSUME ProcTypes, NEW p \in Procs
  PROVE  Existing(p) \in Seq(Events) /\ Append(Existing(p), Signalled("exit")) \in Seq(Events)
<1>1. \A s \in Pipes : out[p][s] \in Seq(Lines) /\ Len(out[p][s]) <= MaxLines
  <2> TAKE s \in Pipes
  <2>1. out[p] \in Outputs
    BY DEF ProcTypes
  <2>2. out[p][s] \in UNION {[1..n -> Lines] : n \in 0..MaxLines}
    BY <2>1 DEF Outputs
  <2> QED
    BY <2>2, BoundedLines
<1>2. \A s \in Pipes : Printed(p, s) \in Seq(Events)
  <2> TAKE s \in Pipes
  <2>1. out[p][s] # << >> => [type |-> s, lines |-> out[p][s]] \in Events
    BY <1>1, EventTypes
  <2> QED
    BY <2>1 DEF Printed
<1>3. Printed(p, "stdout") \in Seq(Events) /\ Printed(p, "stderr") \in Seq(Events)
  BY <1>2 DEF Pipes
<1>4. Existing(p) \in Seq(Events)
  BY <1>3 DEF Existing
<1> QED
  BY <1>4, EventTypes

\* Both ways to open a stream make the call listen, if the process is not over.
LEMMA ListensMore ==
  ASSUME Types, NEW c \in Waiters, call[c].of \in Procs, call[c].pc = "open",
         UNCHANGED procVars,
         listeners' = IF status[call[c].of] \in Over THEN listeners
                      ELSE [listeners EXCEPT ![call[c].of] = Append(@, c)]
  PROVE  /\ ProcTypes' /\ OnlyStarts
         /\ out' = out /\ aborted' = aborted /\ status' = status
         /\ \/ listeners' = listeners
            \/ /\ call[c].pc = "open"
               /\ listeners' = [listeners EXCEPT ![call[c].of] = Append(@, c)]
<1>1. listeners' \in [Procs -> Seq(Waiters)]
  <2>1. listeners \in [Procs -> Seq(Waiters)]
    BY DEF Types, ProcTypes
  <2>2. Append(listeners[call[c].of], c) \in Seq(Waiters)
    BY <2>1
  <2> QED
    BY <2>1, <2>2
<1> QED
  BY <1>1 DEF Types, ProcTypes, procVars, OnlyStarts

\* A stream is opened.
LEMMA OpenStep ==
  ASSUME Types, NEW c \in Waiters, CallOk(c), Open(c)
  PROVE  StepOk(c)
<1> DEFINE p == call[c].of
<1>1. call[c].pc = "open" /\ p \in Procs /\ call[c].op \in StreamOps
  BY DEF Open, CallOk
<1>2. /\ ProcTypes' /\ OnlyStarts
      /\ out' = out /\ aborted' = aborted /\ status' = status
      /\ \/ listeners' = listeners
         \/ /\ call[c].pc = "open"
            /\ listeners' = [listeners EXCEPT ![call[c].of] = Append(@, c)]
  BY <1>1, ListensMore DEF Open
<1>3. got' = got /\ gone' = gone /\ watch' = watch
  BY DEF Open
<1>4. /\ call' \in [Waiters -> Known] /\ \A d \in Waiters \ {c} : call'[d] = call[d]
      /\ call'[c].op = call[c].op /\ call'[c].of = p /\ call'[c].pc = "read"
  <2>1. call' = [call EXCEPT ![c].pc = "read"] /\ call \in [Waiters -> Known]
    BY DEF Open, Types, CallTypes
  <2> QED
    BY <2>1, PcEffect DEF Awaiting
<1>5. chan' \in [Waiters -> Seq(Events)] /\ \A d \in Waiters \ {c} : chan'[d] = chan[d]
  <2>1. PICK q \in Seq(Events) : chan' = [chan EXCEPT ![c] = q]
    <3> DEFINE q == IF status[p] \in Over THEN Append(Existing(p), Signalled("exit")) ELSE Existing(p)
    <3>1. q \in Seq(Events)
      BY <1>1, ExistingType DEF Types
    <3>2. chan' = [chan EXCEPT ![c] = q]
      BY DEF Open
    <3> QED
      BY <3>1, <3>2
  <2> QED
    BY <2>1 DEF Types, CallTypes
<1>6. Types'
  BY <1>2, <1>3, <1>4, <1>5 DEF Types, CallTypes
<1>7. OnlyOf(c)
  BY <1>2, <1>3, <1>4, <1>5 DEF OnlyOf
<1>8. CallOk(c)'
  BY <1>1, <1>2, <1>3, <1>4 DEF CallOk
<1> QED
  BY <1>6, <1>7, <1>8 DEF StepOk

\* A stream comes too late to be read.
LEMMA OpenLateStep ==
  ASSUME Types, NEW c \in Waiters, CallOk(c), OpenLate(c)
  PROVE  StepOk(c)
<1>1. call[c].pc = "open" /\ call[c].of \in Procs /\ chan[c] = << >>
  BY DEF OpenLate, CallOk
<1>2. /\ ProcTypes' /\ OnlyStarts
      /\ out' = out /\ aborted' = aborted /\ status' = status
      /\ \/ listeners' = listeners
         \/ /\ call[c].pc = "open"
            /\ listeners' = [listeners EXCEPT ![call[c].of] = Append(@, c)]
  BY <1>1, ListensMore DEF OpenLate
<1>3. got' = got /\ gone' = gone /\ watch' = watch /\ chan' = chan
  BY DEF OpenLate
<1>4. /\ call' \in [Waiters -> Known] /\ \A d \in Waiters \ {c} : call'[d] = call[d]
      /\ call'[c].op = call[c].op /\ call'[c].of = call[c].of /\ call'[c].pc = "done"
  BY SettleEffect DEF OpenLate, Types, CallTypes, Results
<1>5. Types'
  BY <1>2, <1>3, <1>4 DEF Types, CallTypes
<1>6. OnlyOf(c)
  BY <1>2, <1>3, <1>4 DEF OnlyOf
<1>7. CallOk(c)'
  BY <1>1, <1>2, <1>3, <1>4, DoneOk
<1> QED
  BY <1>5, <1>6, <1>7 DEF StepOk

\* A call leaves its stream.
LEMMA LeaveSteps ==
  ASSUME Types, NEW c \in Waiters, CallOk(c), call[c].pc = "read", NEW r \in Results,
         Leave(c, r), UNCHANGED << procVars, listeners, got, watch >>
  PROVE  StepOk(c)
<1>1. /\ ProcTypes' /\ OnlyStarts
      /\ out' = out /\ aborted' = aborted /\ listeners' = listeners /\ status' = status
      /\ got' = got /\ watch' = watch
  BY ProcsAlone DEF Types
<1>2. /\ call' \in [Waiters -> Known] /\ chan' \in [Waiters -> Seq(Events)]
      /\ gone' \in [Waiters -> BOOLEAN]
      /\ \A d \in Waiters \ {c} : call'[d] = call[d] /\ chan'[d] = chan[d] /\ gone'[d] = gone[d]
      /\ call'[c].op = call[c].op /\ call'[c].of = call[c].of
      /\ call'[c].pc = "done" /\ chan'[c] = << >>
  BY LeaveEffect DEF Types
<1>3. Types'
  BY <1>1, <1>2 DEF Types, CallTypes
<1>4. OnlyOf(c)
  BY <1>1, <1>2 DEF OnlyOf
<1>5. CallOk(c)'
  BY <1>1, <1>2, DoneOk
<1> QED
  BY <1>3, <1>4, <1>5 DEF StepOk

\* A call goes on reading.
LEMMA ReadOn ==
  ASSUME Types, NEW c \in Waiters, CallOk(c), call[c].pc = "read", chan[c] # << >>,
         UNCHANGED << procVars, listeners, watch, gone >>,
         call' \in [Waiters -> Known], \A d \in Waiters \ {c} : call'[d] = call[d],
         call'[c].op = call[c].op, call'[c].of = call[c].of, call'[c].pc = "read",
         got' \in [Waiters -> [Pipes -> Seq(Lines)]], \A d \in Waiters \ {c} : got'[d] = got[d],
         chan' = [chan EXCEPT ![c] = Tail(@)]
  PROVE  StepOk(c)
<1>1. /\ ProcTypes' /\ OnlyStarts
      /\ out' = out /\ aborted' = aborted /\ listeners' = listeners /\ status' = status
  BY ProcsAlone DEF Types
<1>2. chan' \in [Waiters -> Seq(Events)] /\ \A d \in Waiters \ {c} : chan'[d] = chan[d]
  <2>1. chan \in [Waiters -> Seq(Events)]
    BY DEF Types, CallTypes
  <2>2. Tail(chan[c]) \in Seq(Events)
    BY <2>1
  <2> QED
    BY <2>1, <2>2
<1>3. Types'
  BY <1>1, <1>2 DEF Types, CallTypes
<1>4. OnlyOf(c)
  BY <1>1, <1>2 DEF OnlyOf
<1>5. CallOk(c)'
  BY <1>1 DEF CallOk
<1> QED
  BY <1>3, <1>4, <1>5 DEF StepOk

\* waitForLog leaves with the line, or has put its check off.
LEMMA LogOutputEffect ==
  ASSUME CallTypes, NEW c \in Waiters, LogOutput(c)
  PROVE  \/ Leave(c, "found") /\ (call[c].matched \/ Contains(Head(chan[c]).lines, "ready"))
         \/ /\ call' \in [Waiters -> Known] /\ \A d \in Waiters \ {c} : call'[d] = call[d]
            /\ call'[c].op = call[c].op /\ call'[c].of = call[c].of
            /\ call'[c].timed = call[c].timed /\ call'[c].result = call[c].result
            /\ call'[c].pc = call[c].pc
            /\ call'[c].matched <=> call[c].matched \/ Contains(Head(chan[c]).lines, "ready")
            /\ call'[c].matched => call'[c].pending
            /\ chan' = [chan EXCEPT ![c] = Tail(@)] /\ gone' = gone
<1> DEFINE m == call[c].matched \/ Contains(Head(chan[c]).lines, "ready")
<1>1. PICK checked \in IF call[c].fresh THEN {TRUE} ELSE BOOLEAN :
          IF checked /\ m
          THEN Leave(c, "found")
          ELSE /\ call' = [call EXCEPT ![c].fresh = FALSE, ![c].matched = m,
                                       ![c].pending = Debounced(c, checked)]
               /\ chan' = [chan EXCEPT ![c] = Tail(@)]
               /\ UNCHANGED gone
  BY Zenon DEF LogOutput
<1>2. checked \in BOOLEAN
  OBVIOUS
<1>3. m \in BOOLEAN
  OBVIOUS
<1>4. CASE checked /\ m
  BY <1>1, <1>4
<1>5. CASE ~ (checked /\ m)
  <2> DEFINE w == Debounced(c, checked)
             n == [call[c] EXCEPT !.fresh = FALSE, !.matched = m, !.pending = w]
  <2>1. call' = [call EXCEPT ![c] = n] /\ chan' = [chan EXCEPT ![c] = Tail(@)] /\ gone' = gone
    BY <1>1, <1>5
  <2>2. w \in BOOLEAN /\ (m => w)
    BY <1>2, <1>5 DEF Debounced
  <2> HIDE DEF w, m
  <2>3. call[c] \in Known
    BY DEF CallTypes
  <2>4. /\ n \in Known /\ n.op = call[c].op /\ n.of = call[c].of /\ n.timed = call[c].timed
        /\ n.result = call[c].result /\ n.pc = call[c].pc /\ n.matched = m /\ n.pending = w
    BY <1>3, <2>2, <2>3 DEF Known
  <2> HIDE DEF n
  <2>5. call'[c] = n /\ call' \in [Waiters -> Known] /\ \A d \in Waiters \ {c} : call'[d] = call[d]
    BY <2>1, <2>4 DEF CallTypes
  <2>6. (call'[c].matched <=> m) /\ (call'[c].matched => call'[c].pending)
    BY <2>2, <2>4, <2>5
  <2> QED
    BY <2>1, <2>4, <2>5, <2>6 DEF m
<1> QED
  BY <1>4, <1>5

\* The steps of a call that reads its stream.
LEMMA ReadSteps ==
  ASSUME Types, NEW c \in Waiters, CallOk(c),
         LogOutput(c) \/ LogExit(c) \/ StreamEvent(c) \/ ExecAborts(c)
  PROVE  StepOk(c)
<1>1. call[c].pc = "read" /\ chan[c] # << >>
  BY DEF LogOutput, LogExit, StreamEvent, ExecAborts, Reads
<1>2. UNCHANGED << procVars, listeners, watch >>
  BY DEF LogOutput, LogExit, StreamEvent, ExecAborts
<1>3. {"found", "exited", "aborted"} \subseteq Results
  BY DEF Results
<1>4. CASE LogOutput(c)
  <2>1. UNCHANGED got
    BY <1>4 DEF LogOutput
  <2>2. CASE Leave(c, "found")
    BY <1>1, <1>2, <1>3, <2>1, <2>2, LeaveSteps
  <2>3. CASE ~ Leave(c, "found")
    <3>1. /\ call' \in [Waiters -> Known] /\ \A d \in Waiters \ {c} : call'[d] = call[d]
          /\ call'[c].op = call[c].op /\ call'[c].of = call[c].of /\ call'[c].pc = "read"
          /\ chan' = [chan EXCEPT ![c] = Tail(@)] /\ gone' = gone
      BY <1>1, <1>4, <2>3, LogOutputEffect DEF Types
    <3>2. got' \in [Waiters -> [Pipes -> Seq(Lines)]] /\ \A d \in Waiters \ {c} : got'[d] = got[d]
      BY <2>1 DEF Types, CallTypes
    <3> QED
      BY <1>1, <1>2, <3>1, <3>2, ReadOn
  <2> QED
    BY <2>2, <2>3
<1>5. CASE LogExit(c)
  <2>1. UNCHANGED got /\ (Leave(c, "found") \/ Leave(c, "exited"))
    BY <1>5 DEF LogExit
  <2> QED
    BY <1>1, <1>2, <1>3, <2>1, LeaveSteps
<1>6. CASE StreamEvent(c)
  <2> DEFINE e == Head(chan[c])
  <2>1. CASE e.type \in Pipes
    <3>1. /\ got' = IF call[c].op = "waitExit" THEN got
                    ELSE [got EXCEPT ![c][e.type] = @ \o e.lines]
          /\ chan' = [chan EXCEPT ![c] = Tail(@)] /\ call' = call /\ gone' = gone
      BY <1>6, <2>1 DEF StreamEvent
    <3>2. e \in Events
      BY <1>1 DEF Types, CallTypes
    <3>3. e.lines \in Seq(Lines)
      BY <3>2, EventTypes
    <3>4. got' \in [Waiters -> [Pipes -> Seq(Lines)]] /\ \A d \in Waiters \ {c} : got'[d] = got[d]
      <4>1. got \in [Waiters -> [Pipes -> Seq(Lines)]]
        BY DEF Types, CallTypes
      <4> HIDE DEF e
      <4>2. [got[c] EXCEPT ![e.type] = @ \o e.lines] \in [Pipes -> Seq(Lines)]
        BY <2>1, <3>3, <4>1
      <4> QED
        BY <3>1, <4>1, <4>2
    <3> QED
      BY <1>1, <1>2, <3>1, <3>4, ReadOn DEF Types, CallTypes
  <2>2. CASE e.type \notin Pipes
    <3>1. Leave(c, "exited") /\ UNCHANGED got
      BY <1>6, <2>2 DEF StreamEvent
    <3> QED
      BY <1>1, <1>2, <1>3, <3>1, LeaveSteps
  <2> QED
    BY <2>1, <2>2
<1>7. CASE ExecAborts(c)
  <2>1. Leave(c, "aborted") /\ UNCHANGED got
    BY <1>7 DEF ExecAborts
  <2> QED
    BY <1>1, <1>2, <1>3, <2>1, LeaveSteps
<1> QED
  BY <1>4, <1>5, <1>6, <1>7

\* The events of a stream are given up, or the timer wins.
LEMMA EndOfReading ==
  ASSUME Types, NEW c \in Waiters, CallOk(c),
         PortEvent(c) \/ StreamBreaks(c) \/ StreamEnds(c) \/ Timeout(c)
  PROVE  StepOk(c)
<1>1. call[c].pc = "read" /\ call \in [Waiters -> Known] /\ call[c].of \in Procs
  BY DEF PortEvent, StreamBreaks, StreamEnds, Timeout, Reads, Types, CallTypes, CallOk
<1>2. /\ ProcTypes' /\ OnlyStarts
      /\ out' = out /\ aborted' = aborted /\ listeners' = listeners /\ status' = status
      /\ got' = got /\ watch' = watch
  <2>1. UNCHANGED << procVars, listeners, got, watch >>
    BY DEF PortEvent, StreamBreaks, StreamEnds, Timeout
  <2> QED
    BY <2>1, ProcsAlone DEF Types
<1>3. ViaHttp \in BOOLEAN
  BY SwitchAssumption
<1>4. gone' \in [Waiters -> BOOLEAN] /\ \A d \in Waiters \ {c} : gone'[d] = gone[d]
  BY <1>3 DEF PortEvent, StreamBreaks, StreamEnds, Timeout, Types, CallTypes
<1>5. chan' \in [Waiters -> Seq(Events)] /\ \A d \in Waiters \ {c} : chan'[d] = chan[d]
  <2>1. chan' = chan \/ chan' = [chan EXCEPT ![c] = << >>]
    BY DEF PortEvent, StreamBreaks, StreamEnds, Timeout
  <2>2. chan \in [Waiters -> Seq(Events)]
    BY DEF Types, CallTypes
  <2>3. CASE chan' = chan
    BY <2>2, <2>3
  <2>4. CASE chan' = [chan EXCEPT ![c] = << >>]
    <3>1. << >> \in Seq(Events)
      OBVIOUS
    <3> QED
      BY <2>2, <2>4, <3>1
  <2> QED
    BY <2>1, <2>3, <2>4
<1>6. ASSUME call' \in [Waiters -> Known], \A d \in Waiters \ {c} : call'[d] = call[d]
      PROVE  Types' /\ OnlyOf(c)
  BY <1>2, <1>4, <1>5, <1>6 DEF Types, CallTypes, OnlyOf
<1>7. CASE chan'[c] = << >> /\ (Failed(c) \/ \E r \in Results : Settle(c, r))
  <2>1. /\ call' \in [Waiters -> Known] /\ \A d \in Waiters \ {c} : call'[d] = call[d]
        /\ call'[c].op = call[c].op /\ call'[c].of = call[c].of
        /\ call'[c].pc = "done" \/ (call'[c].pc = "stderr" /\ call[c].op = "opencode")
    <3>1. CASE Failed(c)
      BY <1>1, <3>1, FailedEffect
    <3>2. CASE \E r \in Results : Settle(c, r)
      BY <1>1, <3>2, SettleEffect
    <3> QED
      BY <1>7, <3>1, <3>2
  <2>2. CallOk(c)'
    BY <1>1, <1>2, <1>7, <2>1 DEF CallOk
  <2> QED
    BY <1>6, <2>1, <2>2 DEF StepOk
<1>8. CASE call' = [call EXCEPT ![c].pc = "stderr"] /\ chan'[c] = << >> /\ call[c].op = "opencode"
  <2>1. /\ call' \in [Waiters -> Known] /\ \A d \in Waiters \ {c} : call'[d] = call[d]
        /\ call'[c].op = call[c].op /\ call'[c].of = call[c].of /\ call'[c].pc = "stderr"
    BY <1>1, <1>8, PcEffect DEF Awaiting
  <2>2. CallOk(c)'
    BY <1>1, <1>2, <1>8, <2>1 DEF CallOk
  <2> QED
    BY <1>6, <2>1, <2>2 DEF StepOk
<1>9. CASE call' = [call EXCEPT ![c].result = "timeout"] /\ chan' = chan /\ gone' = gone
  <2> DEFINE n == [call[c] EXCEPT !.result = "timeout"]
  <2>1. call' = [call EXCEPT ![c] = n]
    BY <1>9
  <2>2. n \in Known /\ n.op = call[c].op /\ n.of = call[c].of /\ n.pc = "read"
    BY <1>1 DEF Known, Results
  <2> HIDE DEF n
  <2>3. call'[c] = n /\ call' \in [Waiters -> Known] /\ \A d \in Waiters \ {c} : call'[d] = call[d]
    BY <1>1, <2>1, <2>2
  <2>4. CallOk(c)'
    BY <1>1, <1>2, <1>9, <2>2, <2>3 DEF CallOk
  <2> QED
    BY <1>6, <2>3, <2>4 DEF StepOk
<1>10. CASE PortEvent(c)
  <2>1. chan'[c] = << >> /\ (Failed(c) \/ Settle(c, "found") \/ Settle(c, "exited"))
    BY <1>10 DEF PortEvent, Types, CallTypes
  <2>2. {"found", "exited"} \subseteq Results
    BY DEF Results
  <2> QED
    BY <1>7, <2>1, <2>2
<1>11. CASE StreamBreaks(c)
  <2>1. chan'[c] = << >> /\ Failed(c)
    BY <1>11 DEF StreamBreaks, Types, CallTypes
  <2> QED
    BY <1>7, <2>1
<1>12. CASE StreamEnds(c)
  <2>1. chan'[c] = << >>
    BY <1>12 DEF StreamEnds, Types, CallTypes
  <2>2. Failed(c) \/ Settle(c, "found") \/ Settle(c, "presumed") \/ Settle(c, "silent")
    BY <1>12, Zenon DEF StreamEnds
  <2>3. {"found", "presumed", "silent"} \subseteq Results
    BY DEF Results
  <2> QED
    BY <1>7, <2>1, <2>2, <2>3
<1>13. CASE Timeout(c)
  <2>1. gone' = gone
    BY <1>13 DEF Timeout
  <2>2. \/ call' = [call EXCEPT ![c].result = "timeout"] /\ chan' = chan
        \/ Settle(c, "timeout") /\ chan' = [chan EXCEPT ![c] = << >>]
        \/ /\ call[c].op = "opencode"
           /\ call' = [call EXCEPT ![c].pc = "stderr"]
           /\ chan' = [chan EXCEPT ![c] = << >>]
    BY <1>13, Zenon DEF Timeout
  <2>3. chan' = [chan EXCEPT ![c] = << >>] => chan'[c] = << >>
    BY DEF Types, CallTypes
  <2>4. "timeout" \in Results
    BY DEF Results
  <2> QED
    BY <1>7, <1>8, <1>9, <2>1, <2>2, <2>3, <2>4
<1> QED
  BY <1>10, <1>11, <1>12, <1>13

\* What the watch of a port sends.
LEMMA EmitEffect ==
  ASSUME chan \in [Waiters -> Seq(Events)], NEW c \in Waiters, NEW e \in Events, Emit(c, e)
  PROVE  /\ chan' \in [Waiters -> Seq(Events)]
         /\ \A d \in Waiters \ {c} : chan'[d] = chan[d]
         /\ \/ chan'[c] = chan[c]
            \/ call[c].pc = "read" /\ chan'[c] = Append(chan[c], e)
<1>1. Append(chan[c], e) \in Seq(Events)
  OBVIOUS
<1> QED
  BY <1>1 DEF Emit

\* The steps of the watch of a port.
LEMMA WatchSteps ==
  ASSUME Types, NEW c \in Waiters, CallOk(c), Watch(c) \/ WatchStuck(c)
  PROVE  StepOk(c)
<1>1. /\ ProcTypes' /\ OnlyStarts
      /\ out' = out /\ aborted' = aborted /\ listeners' = listeners /\ status' = status
      /\ got' = got /\ call' = call /\ gone' = gone
  <2>1. UNCHANGED << procVars, listeners, call, got, gone >>
    BY DEF Watch, WatchStatus, WatchCheck, WatchWakes, WatchStuck
  <2> QED
    BY <2>1, ProcsAlone DEF Types
<1>2. watch[c] \in Polling
  BY DEF Watch, WatchStatus, WatchCheck, WatchWakes, WatchStuck, Polling
<1>3. /\ watch' \in [Waiters -> Polling \cup {"off", "stuck", "done"}]
      /\ \A d \in Waiters \ {c} : watch'[d] = watch[d]
  BY DEF Watch, WatchStatus, WatchCheck, WatchWakes, WatchStuck, Polling, Awake, Types, CallTypes
<1>4. chan' = chan \/ Emit(c, Signalled("exit")) \/ Emit(c, Signalled("ready"))
  BY DEF Watch, WatchStatus, WatchCheck, WatchWakes, WatchStuck
<1>5. /\ chan' \in [Waiters -> Seq(Events)]
      /\ \A d \in Waiters \ {c} : chan'[d] = chan[d]
      /\ chan'[c] = chan[c] \/ call[c].pc = "read"
  BY <1>4, EmitEffect, EventTypes DEF Types, CallTypes
<1>6. Types'
  BY <1>1, <1>3, <1>5 DEF Types, CallTypes
<1>7. OnlyOf(c)
  BY <1>1, <1>3, <1>5 DEF OnlyOf
<1>8. CallOk(c)'
  BY <1>1, <1>2, <1>5 DEF CallOk, Polling
<1> QED
  BY <1>6, <1>7, <1>8 DEF StepOk

\* All steps of a call.
CallNext(c) ==
  \/ Wait(c) \/ Start(c) \/ opencode(c)
  \/ Proceeds(c) \/ OpenLate(c) \/ ExecAborts(c) \/ Timeout(c)
  \/ StreamBreaks(c) \/ StreamEnds(c) \/ RequestFails(c) \/ Hangs(c)
  \/ Watch(c) \/ WatchStuck(c)

\* Each keeps the types, and the other calls where they are.
LEMMA CallSteps ==
  ASSUME Types, CallsInv, NEW c \in Waiters, CallNext(c)
  PROVE  StepOk(c)
<1>1. CallOk(c)
  BY DEF CallsInv
<1> QED
  BY <1>1, WaitStep, StartStep, OpencodeStep, RequestSteps, ServeStep, OpenStep, OpenLateStep,
     ReadSteps, EndOfReading, WatchSteps, Zenon DEF CallNext, Proceeds

\* All steps of a process.
ProcNext(p) ==
  \/ startProcess(p) \/ Output(p) \/ Exits(p) \/ Completes(p)
  \/ Kill(p) \/ KillStored(p) \/ Listens(p)

\* Listeners hear an event, unless one before them throws.
LEMMA DeliveredEffect ==
  ASSUME chan \in [Waiters -> Seq(Events)], listeners \in [Procs -> Seq(Waiters)],
         NEW p \in Procs, NEW e \in Events, chan' = Delivered(p, e)
  PROVE  /\ chan' \in [Waiters -> Seq(Events)]
         /\ \A c \in Waiters :
              \/ chan'[c] = chan[c]
              \/ /\ call[c].pc = "read" /\ \E i \in DOMAIN listeners[p] : listeners[p][i] = c
                 /\ chan'[c] = Append(chan[c], e)
         /\ ~ Throws(p) =>
              \A c \in Waiters :
                call[c].pc = "read" /\ (\E i \in DOMAIN listeners[p] : listeners[p][i] = c) =>
                  chan'[c] = Append(chan[c], e)
<1>1. \A c \in Waiters :
        chan'[c] = IF /\ call[c].pc = "read"
                      /\ \E i \in DOMAIN listeners[p] :
                           listeners[p][i] = c /\ \A j \in 1..i : ~ gone[listeners[p][j]]
                   THEN Append(chan[c], e) ELSE chan[c]
  BY DEF Delivered
<1>2. \A c \in Waiters : Append(chan[c], e) \in Seq(Events)
  OBVIOUS
<1>3. chan' \in [Waiters -> Seq(Events)]
  BY <1>2 DEF Delivered
<1>4. ASSUME ~ Throws(p), NEW c \in Waiters, call[c].pc = "read",
             NEW i \in DOMAIN listeners[p], listeners[p][i] = c
      PROVE  chan'[c] = Append(chan[c], e)
  <2>1. \A j \in 1..i : j \in DOMAIN listeners[p]
    OBVIOUS
  <2>2. \A j \in 1..i : ~ gone[listeners[p][j]]
    BY <1>4, <2>1 DEF Throws
  <2> QED
    BY <1>1, <1>4, <2>2
<1> QED
  BY <1>1, <1>3, <1>4

\* The events of a process leave the calls where they are.
LEMMA ProcTypeSteps ==
  ASSUME Types, NEW p \in Procs, ProcNext(p)
  PROVE  /\ Types'
         /\ \A q \in Procs : status[q] # "none" => status'[q] # "none"
         /\ call' = call /\ got' = got /\ gone' = gone /\ watch' = watch
         /\ \A c \in Waiters : chan'[c] = chan[c] \/ call[c].pc = "read"
<1>1. call' = call /\ got' = got /\ gone' = gone /\ watch' = watch
  BY DEF ProcNext, startProcess, Output, Exits, Completes, Kill, KillStored, Listens
<1>2. \A q \in Procs : status[q] # "none" => status'[q] # "none"
  BY DEF ProcNext, startProcess, Output, Exits, Completes, Kill, KillStored, Listens,
         Launch, Types, ProcTypes
<1>3. CASE startProcess(p)
  BY <1>1, <1>2, <1>3, ProcsLaunch DEF startProcess, Types, CallTypes
<1>4. CASE Exits(p) \/ Listens(p)
  BY <1>1, <1>2, <1>4 DEF Exits, Listens, Types, ProcTypes, CallTypes
<1>5. CASE Kill(p) \/ KillStored(p)
  BY <1>1, <1>2, <1>5 DEF Kill, KillStored, Types, ProcTypes, CallTypes, Over
<1>6. CASE Completes(p)
  <2>1. chan' = Delivered(p, Signalled("exit"))
    BY <1>6 DEF Completes
  <2>2. /\ chan' \in [Waiters -> Seq(Events)]
        /\ \A c \in Waiters : chan'[c] = chan[c] \/ call[c].pc = "read"
    BY <2>1, DeliveredEffect, EventTypes DEF Types, ProcTypes, CallTypes
  <2>3. /\ status' \in [Procs -> {"none", "running"} \cup Over]
        /\ listeners' \in [Procs -> Seq(Waiters)]
        /\ aborted' \in [Procs -> BOOLEAN]
    BY <1>6 DEF Completes, Types, ProcTypes, Over, Throws
  <2>4. life' = life /\ saved' = saved /\ out' = out /\ port' = port
    BY <1>6 DEF Completes
  <2> QED
    BY <1>1, <1>2, <2>2, <2>3, <2>4 DEF Types, ProcTypes, CallTypes
<1>7. CASE Output(p)
  <2>1. PICK pipe \in Pipes, line \in Lines :
          /\ Len(out[p][pipe]) < MaxLines
          /\ out' = [out EXCEPT ![p][pipe] = Append(@, line)]
          /\ chan' = Delivered(p, [type |-> pipe, lines |-> << line >>])
    BY <1>7 DEF Output
  <2>2. out[p] \in Outputs
    BY DEF Types, ProcTypes
  <2>3. out[p][pipe] \in Seq(Lines)
    <3>1. out[p][pipe] \in UNION {[1..n -> Lines] : n \in 0..MaxLines}
      BY <2>2 DEF Outputs
    <3> QED
      BY <3>1, BoundedLines
  <2>4. << line >> \in Seq(Lines) /\ Len(<< line >>) <= MaxLines /\ << line >> # << >>
    BY <2>1, <2>3, LinesAssumption
  <2>5. [type |-> pipe, lines |-> << line >>] \in Events
    BY <2>4, EventTypes
  <2>6. /\ chan' \in [Waiters -> Seq(Events)]
        /\ \A c \in Waiters : chan'[c] = chan[c] \/ call[c].pc = "read"
    BY <2>1, <2>5, DeliveredEffect DEF Types, ProcTypes, CallTypes
  <2>7. out' \in [Procs -> Outputs]
    <3> DEFINE B == UNION {[1..n -> Lines] : n \in 0..MaxLines}
    <3>1. Append(out[p][pipe], line) \in B
      <4>1. Append(out[p][pipe], line) \in Seq(Lines) /\ Len(Append(out[p][pipe], line)) <= MaxLines
        BY <2>1, <2>3, LinesAssumption
      <4> QED
        BY <4>1, BoundedLines
    <3>2. out \in [Procs -> [Pipes -> B]]
      BY DEF Types, ProcTypes, Outputs
    <3> HIDE DEF B
    <3>3. out' \in [Procs -> [Pipes -> B]]
      BY <2>1, <3>1, <3>2
    <3> QED
      BY <3>3 DEF Outputs, B
  <2>8. aborted' \in [Procs -> BOOLEAN]
    BY <1>7 DEF Output, Types, ProcTypes, Throws
  <2>9. life' = life /\ status' = status /\ saved' = saved /\ listeners' = listeners /\ port' = port
    BY <1>7 DEF Output
  <2> QED
    BY <1>1, <1>2, <2>6, <2>7, <2>8, <2>9 DEF Types, ProcTypes, CallTypes
<1> QED
  BY <1>3, <1>4, <1>5, <1>6, <1>7 DEF ProcNext

\* The types hold at first ...
LEMMA InitWaits == WaitsInit => Types /\ CallsInv
<1> SUFFICES ASSUME WaitsInit
             PROVE  Types /\ CallsInv
  OBVIOUS
<1>1. Silent \in [Pipes -> Seq(Lines)] /\ Silent \in Outputs
  <2>1. << >> \in Seq(Lines) /\ Len(<< >>) <= MaxLines
    BY LinesAssumption
  <2>2. << >> \in UNION {[1..n -> Lines] : n \in 0..MaxLines}
    BY <2>1, BoundedLines
  <2> QED
    BY <2>1, <2>2 DEF Silent, Outputs
<1>2. Idle \in Known
  BY DEF Idle, Known, Results
<1>3. \A p \in Procs : listeners[p] = << >>
  BY DEF WaitsInit
<1>4. ProcTypes
  BY <1>1 DEF WaitsInit, ProcTypes
<1>5. CallTypes
  BY <1>1, <1>2 DEF WaitsInit, CallTypes
<1>6. CallsInv
  <2> SUFFICES ASSUME NEW c \in Waiters
               PROVE  CallOk(c)
    BY DEF CallsInv
  <2>1. call[c] = Idle /\ got[c] = Silent /\ chan[c] = << >> /\ ~ gone[c] /\ watch[c] = "off"
    BY DEF WaitsInit
  <2>2. call[c].op = "none" /\ call[c].of = NoProc /\ call[c].pc = "idle" /\ ~ call[c].matched
    BY <2>1 DEF Idle
  <2> QED
    BY <2>1, <2>2, NoProcAssumption DEF CallOk, StreamOps, Polling
<1> QED
  BY <1>4, <1>5, <1>6 DEF Types

\* ... every step keeps them ...
LEMMA NextWaits == Types /\ CallsInv /\ [WaitsNext]_waitsVars => Types' /\ CallsInv'
<1> SUFFICES ASSUME Types, CallsInv, [WaitsNext]_waitsVars
             PROVE  Types' /\ CallsInv'
  OBVIOUS
<1>1. CASE \E p \in Procs : ProcNext(p)
  <2>1. PICK p \in Procs : ProcNext(p)
    BY <1>1
  <2>2. /\ Types'
        /\ \A q \in Procs : status[q] # "none" => status'[q] # "none"
        /\ call' = call /\ got' = got /\ gone' = gone /\ watch' = watch
        /\ \A c \in Waiters : chan'[c] = chan[c] \/ call[c].pc = "read"
    BY <2>1, ProcTypeSteps
  <2>3. ASSUME NEW c \in Waiters
        PROVE  CallOk(c)'
    <3>1. CallOk(c)
      BY DEF CallsInv
    <3> QED
      BY <2>2, <3>1 DEF CallOk
  <2> QED
    BY <2>2, <2>3 DEF CallsInv
<1>2. CASE \E c \in Waiters : CallNext(c)
  BY <1>2, CallSteps, OthersStay DEF StepOk
<1>3. CASE UNCHANGED waitsVars
  BY <1>3 DEF waitsVars, procVars, Types, ProcTypes, CallTypes, CallsInv, CallOk
<1> QED
  BY <1>1, <1>2, <1>3, Zenon DEF WaitsNext, ProcNext, CallNext

\* ... and they are those of the model.
LEMMA WaitsTypes == Types /\ CallsInv => WaitsTypeOK
<1> SUFFICES ASSUME Types, CallsInv
             PROVE  WaitsTypeOK
  OBVIOUS
<1>1. \A c \in Waiters :
        /\ call[c].pc \in {"logs", "open", "read"} => status[call[c].of] # "none"
        /\ chan[c] # << >> => call[c].pc = "read"
  BY DEF CallsInv, CallOk
<1>2. call \in [Waiters -> [op : Asks \cup {"none"}, of : Procs \cup {NoProc}, timed : BOOLEAN,
                            pc : Awaiting \cup {"idle", "hung", "done"},
                            fresh : BOOLEAN, matched : BOOLEAN, pending : BOOLEAN,
                            result : Results]]
  BY DEF Types, CallTypes, Known
<1>3. WaitsTypeOK <=> /\ ProcTypes
                      /\ call \in [Waiters -> [op : Asks \cup {"none"}, of : Procs \cup {NoProc}, timed : BOOLEAN,
                            pc : Awaiting \cup {"idle", "hung", "done"},
                            fresh : BOOLEAN, matched : BOOLEAN, pending : BOOLEAN,
                            result : Results]]
                      /\ got \in [Waiters -> [Pipes -> Seq(Lines)]]
                      /\ chan \in [Waiters -> Seq(Events)]
                      /\ gone \in [Waiters -> BOOLEAN]
                      /\ watch \in [Waiters -> Polling \cup {"off", "stuck", "done"}]
                      /\ \A c \in Waiters :
                           /\ call[c].pc \in {"logs", "open", "read"} => status[call[c].of] # "none"
                           /\ chan[c] # << >> => call[c].pc = "read"
  BY Zenon DEF WaitsTypeOK, ProcTypes
<1> QED
  BY <1>1, <1>2, <1>3, Zenon DEF Types, CallTypes

\* The variables of the processes, of the calls and of their streams keep their types;
\* a stream is of a process that was started, and only who reads has events.
THEOREM WaitsTypeCorrect == WaitsSpec => []WaitsTypeOK
<1>1. WaitsInit => Types /\ CallsInv
  BY InitWaits
<1>2. Types /\ CallsInv /\ [WaitsNext]_waitsVars => Types' /\ CallsInv'
  BY NextWaits
<1>3. Types /\ CallsInv => WaitsTypeOK
  BY WaitsTypes
<1> QED
  BY <1>1, <1>2, <1>3, PTL DEF WaitsSpec

-----------------------------------------------------------------------------
(* Streams: the inductive invariant behind what calls answer *)

\* The reader c gets the kinds of events its stream has; the end is the last of a log
\* stream, and true.
Kinds(c) ==
  \A i \in DOMAIN chan[c] :
    /\ chan[c][i].type = "ready" => call[c].op \notin StreamOps
    /\ chan[c][i].type \in Pipes => call[c].op \in StreamOps
    /\ chan[c][i].type = "exit" =>
         /\ status[call[c].of] \in Over
         /\ call[c].op \in StreamOps => i = Len(chan[c])

Ends(ch) == \E i \in DOMAIN ch : ch[i].type = "exit"

\* It listens as long as there is something to hear.
Fed(c) ==
  call[c].op \in StreamOps /\ status[call[c].of] = "running" /\ ~ aborted[call[c].of] =>
    \E i \in DOMAIN listeners[call[c].of] : listeners[call[c].of][i] = c

\* The events ch lead from the output g of a pipe to o: t is what is known after each.
Leads(g, ch, o, pipe) ==
  \E t \in [0..Len(ch) -> Seq(Lines)] :
    /\ t[0] = g /\ t[Len(ch)] = o
    /\ \A i \in 1..Len(ch) :
         t[i] = IF ch[i].type = pipe THEN t[i - 1] \o ch[i].lines ELSE t[i - 1]

\* Nothing is lost between the process and the call, unless a listener threw.
Unbroken(c) == aborted[call[c].of] => Ends(chan[c])

Whole(c) ==
  call[c].op \in {"exec", "start"} /\ Unbroken(c) =>
    \A pipe \in Pipes : Leads(got[c][pipe], chan[c], out[call[c].of][pipe], pipe)

HasReady(ch) == \E i \in DOMAIN ch : Contains(ch[i].lines, "ready")

\* A line that was seen was printed, one that was printed is seen or on its way,
\* and one that was seen will be looked at.
Looked(c) ==
  call[c].op = "waitLog" =>
    /\ call[c].matched => call[c].pending /\ Matches(out[call[c].of])
    /\ HasReady(chan[c]) => Matches(out[call[c].of])
    /\ Unbroken(c) /\ Matches(out[call[c].of]) => call[c].matched \/ HasReady(chan[c])

ReadOk(c) == call[c].pc = "read" => Kinds(c) /\ Fed(c) /\ Whole(c) /\ Looked(c)

\* The answer of the call c is true.
AnswerOk(c) ==
  LET r == call[c].result
      o == call[c].op
      p == call[c].of
  IN /\ r = "exited" => status[p] \in Over
     /\ o = "waitLog" /\ r = "found" => Matches(out[p])
     /\ o = "waitLog" /\ r = "exited" => ~ Matches(out[p])
     /\ o \in {"exec", "start"} /\ r = "exited" => got[c] = out[p]
     /\ r = "timeout" => call[c].timed
     /\ o = "opencode" /\ r = "given up" /\ p # NoProc => status[p] \in Over

ResultOk(c) ==
  /\ call[c].pc # "done" => call[c].result \in {"none", "timeout"}
  /\ call[c].result = "exited" => call[c].op \in StreamOps \cup {"waitPort"}
  /\ AnswerOk(c)

\* Who listens at the record of a process waits for that process, or has done so.
ListenInv ==
  \A p \in Procs : \A i \in DOMAIN listeners[p] :
    /\ call[listeners[p][i]].of = p
    /\ call[listeners[p][i]].op \in StreamOps
    /\ call[listeners[p][i]].pc \in {"read", "done"}

StreamsInv == ListenInv /\ \A c \in Waiters : ReadOk(c) /\ ResultOk(c)

-----------------------------------------------------------------------------
(* Events that lead from one output to another *)

\* Nothing was sent.
LEMMA LeadsNone ==
  ASSUME NEW g \in Seq(Lines), NEW pipe
  PROVE  Leads(g, << >>, g, pipe)
<1> DEFINE t == [i \in 0..0 |-> g]
<1>1. t \in [0..Len(<< >>) -> Seq(Lines)] /\ t[0] = g /\ t[Len(<< >>)] = g
  OBVIOUS
<1>2. 1..Len(<< >>) = {}
  OBVIOUS
<1> HIDE DEF t
<1> QED
  BY <1>1, <1>2 DEF Leads

\* One more event is on its way.
LEMMA LeadsMore ==
  ASSUME NEW g, NEW ch \in Seq(Events), NEW e \in Events, NEW o \in Seq(Lines), NEW pipe,
         Leads(g, ch, o, pipe)
  PROVE  Leads(g, Append(ch, e), IF e.type = pipe THEN o \o e.lines ELSE o, pipe)
<1>1. PICK t \in [0..Len(ch) -> Seq(Lines)] :
        /\ t[0] = g /\ t[Len(ch)] = o
        /\ \A i \in 1..Len(ch) :
             t[i] = IF ch[i].type = pipe THEN t[i - 1] \o ch[i].lines ELSE t[i - 1]
  BY DEF Leads
<1> DEFINE n == Len(ch)
           more == Append(ch, e)
           last == IF e.type = pipe THEN o \o e.lines ELSE o
           u == [i \in 0..n + 1 |-> IF i = n + 1 THEN last ELSE t[i]]
<1>2. n \in Nat /\ Len(more) = n + 1 /\ more[n + 1] = e /\ \A i \in 1..n : more[i] = ch[i]
  OBVIOUS
<1>3. e.lines \in Seq(Lines)
  BY EventTypes
<1>4. last \in Seq(Lines)
  BY <1>3
<1> HIDE DEF last
<1>5. u \in [0..Len(more) -> Seq(Lines)]
  BY <1>2, <1>4
<1>6. u[0] = g /\ u[n + 1] = last /\ \A i \in 0..n : u[i] = t[i]
  BY <1>1, <1>2
<1> HIDE DEF u, more
<1>7. \A i \in 1..Len(more) :
        u[i] = IF more[i].type = pipe THEN u[i - 1] \o more[i].lines ELSE u[i - 1]
  <2> SUFFICES ASSUME NEW i \in 1..Len(more)
               PROVE  u[i] = IF more[i].type = pipe THEN u[i - 1] \o more[i].lines ELSE u[i - 1]
    OBVIOUS
  <2>1. CASE i = n + 1
    <3>1. u[i - 1] = o /\ more[i] = e /\ u[i] = last
      BY <1>1, <1>2, <1>6, <2>1
    <3> QED
      BY <3>1 DEF last
  <2>2. CASE i # n + 1
    <3>1. i \in 1..n /\ i \in 0..n /\ i - 1 \in 0..n
      BY <1>2, <2>2
    <3>2. u[i] = t[i] /\ u[i - 1] = t[i - 1] /\ more[i] = ch[i]
      BY <1>2, <1>6, <3>1
    <3> QED
      BY <1>1, <3>1, <3>2
  <2> QED
    BY <2>1, <2>2
<1>8. u[Len(more)] = last
  BY <1>2, <1>6
<1>9. Leads(g, more, last, pipe)
  BY <1>5, <1>6, <1>7, <1>8 DEF Leads
<1> QED
  BY <1>9 DEF more, last

\* One event has arrived.
LEMMA LeadsLess ==
  ASSUME NEW g, NEW ch \in Seq(Events), ch # << >>, NEW o, NEW pipe, Leads(g, ch, o, pipe)
  PROVE  Leads(IF Head(ch).type = pipe THEN g \o Head(ch).lines ELSE g, Tail(ch), o, pipe)
<1>1. PICK t \in [0..Len(ch) -> Seq(Lines)] :
        /\ t[0] = g /\ t[Len(ch)] = o
        /\ \A i \in 1..Len(ch) :
             t[i] = IF ch[i].type = pipe THEN t[i - 1] \o ch[i].lines ELSE t[i - 1]
  BY DEF Leads
<1> DEFINE n == Len(ch)
           less == Tail(ch)
           first == IF Head(ch).type = pipe THEN g \o Head(ch).lines ELSE g
           u == [i \in 0..n - 1 |-> t[i + 1]]
<1>2. n \in Nat \ {0} /\ Len(less) = n - 1 /\ \A i \in 1..n - 1 : less[i] = ch[i + 1]
  OBVIOUS
<1>3. t[1] = first
  <2>1. 1 \in 1..Len(ch) /\ Head(ch) = ch[1]
    OBVIOUS
  <2>2. t[1] = IF ch[1].type = pipe THEN t[1 - 1] \o ch[1].lines ELSE t[1 - 1]
    BY <1>1, <2>1
  <2>3. 1 - 1 = 0
    OBVIOUS
  <2> QED
    BY <1>1, <2>1, <2>2, <2>3
<1> HIDE DEF first
<1>4. u \in [0..Len(less) -> Seq(Lines)]
  BY <1>2
<1>5. u[0] = first /\ u[Len(less)] = o /\ \A i \in 0..n - 1 : u[i] = t[i + 1]
  BY <1>1, <1>2, <1>3
<1> HIDE DEF u, less
<1>6. \A i \in 1..Len(less) :
        u[i] = IF less[i].type = pipe THEN u[i - 1] \o less[i].lines ELSE u[i - 1]
  <2> SUFFICES ASSUME NEW i \in 1..Len(less)
               PROVE  u[i] = IF less[i].type = pipe THEN u[i - 1] \o less[i].lines ELSE u[i - 1]
    OBVIOUS
  <2>1. i \in 1..n - 1 /\ i \in 0..n - 1 /\ i - 1 \in 0..n - 1 /\ i + 1 \in 1..n /\ (i - 1) + 1 = i
    BY <1>2
  <2>2. u[i] = t[i + 1] /\ less[i] = ch[i + 1]
    BY <1>2, <1>5, <2>1
  <2>3. u[i - 1] = t[(i - 1) + 1]
    BY <1>5, <2>1
  <2>4. t[i + 1] = IF ch[i + 1].type = pipe THEN t[(i + 1) - 1] \o ch[i + 1].lines
                                            ELSE t[(i + 1) - 1]
    BY <1>1, <2>1
  <2>5. (i + 1) - 1 = i
    BY <2>1
  <2> QED
    BY <2>1, <2>2, <2>3, <2>4, <2>5
<1>7. Leads(first, less, o, pipe)
  BY <1>4, <1>5, <1>6 DEF Leads
<1> QED
  BY <1>7 DEF first, less

\* Only the end of the stream is left.
LEMMA LeadsLast ==
  ASSUME NEW g, NEW ch \in Seq(Events), Len(ch) = 1, NEW o, NEW pipe, Head(ch).type # pipe,
         Leads(g, ch, o, pipe)
  PROVE  g = o
<1>1. PICK t \in [0..Len(ch) -> Seq(Lines)] :
        /\ t[0] = g /\ t[Len(ch)] = o
        /\ \A i \in 1..Len(ch) :
             t[i] = IF ch[i].type = pipe THEN t[i - 1] \o ch[i].lines ELSE t[i - 1]
  BY DEF Leads
<1>2. Head(ch) = ch[1] /\ 1 \in 1..Len(ch)
  OBVIOUS
<1>3. t[1] = t[1 - 1]
  BY <1>1, <1>2
<1> QED
  BY <1>1, <1>3

\* What HasReady and Ends say of one event more, or less.
LEMMA OneMore ==
  ASSUME NEW ch \in Seq(Events), NEW e \in Events
  PROVE  /\ HasReady(Append(ch, e)) <=> HasReady(ch) \/ Contains(e.lines, "ready")
         /\ Ends(Append(ch, e)) <=> Ends(ch) \/ e.type = "exit"
<1> DEFINE more == Append(ch, e)
<1>1. /\ Len(more) = Len(ch) + 1 /\ more[Len(ch) + 1] = e /\ \A i \in 1..Len(ch) : more[i] = ch[i]
      /\ DOMAIN more = 1..Len(ch) + 1 /\ DOMAIN ch = 1..Len(ch) /\ Len(ch) \in Nat
  OBVIOUS
<1> HIDE DEF more
<1>2. HasReady(more) <=> HasReady(ch) \/ Contains(e.lines, "ready")
  BY <1>1 DEF HasReady
<1>3. Ends(more) <=> Ends(ch) \/ e.type = "exit"
  BY <1>1 DEF Ends
<1> QED
  BY <1>2, <1>3 DEF more

\* The first event is read.
LEMMA OneLess ==
  ASSUME NEW ch \in Seq(Events), ch # << >>
  PROVE  /\ HasReady(ch) <=> HasReady(Tail(ch)) \/ Contains(Head(ch).lines, "ready")
         /\ Ends(ch) <=> Ends(Tail(ch)) \/ Head(ch).type = "exit"
<1> DEFINE less == Tail(ch)
<1>1. /\ Len(ch) \in Nat \ {0} /\ Head(ch) = ch[1]
      /\ DOMAIN ch = 1..Len(ch) /\ DOMAIN less = 1..Len(ch) - 1
      /\ \A i \in 1..Len(ch) - 1 : less[i] = ch[i + 1]
  OBVIOUS
<1> HIDE DEF less
<1>2. \A i \in 1..Len(ch) : i = 1 \/ (i - 1 \in 1..Len(ch) - 1 /\ (i - 1) + 1 = i)
  BY <1>1
<1>3. \A i \in 1..Len(ch) - 1 : i + 1 \in 1..Len(ch)
  BY <1>1
<1>4. \A i \in 1..Len(ch) : ch[i] = Head(ch) \/ ch[i] = less[i - 1]
  BY <1>1, <1>2
<1>5. HasReady(ch) <=> HasReady(less) \/ Contains(Head(ch).lines, "ready")
  <2>1. HasReady(ch) => HasReady(less) \/ Contains(Head(ch).lines, "ready")
    <3> SUFFICES ASSUME NEW i \in 1..Len(ch), Contains(ch[i].lines, "ready")
                 PROVE  HasReady(less) \/ Contains(Head(ch).lines, "ready")
      BY <1>1 DEF HasReady
    <3>1. CASE i = 1
      BY <1>1, <3>1
    <3>2. CASE i # 1
      BY <1>1, <1>2, <3>2 DEF HasReady
    <3> QED
      BY <3>1, <3>2
  <2>2. HasReady(less) => HasReady(ch)
    BY <1>1, <1>3 DEF HasReady
  <2>3. Contains(Head(ch).lines, "ready") => HasReady(ch)
    BY <1>1 DEF HasReady
  <2> QED
    BY <2>1, <2>2, <2>3
<1>6. Ends(ch) <=> Ends(less) \/ Head(ch).type = "exit"
  <2>1. Ends(ch) => Ends(less) \/ Head(ch).type = "exit"
    <3> SUFFICES ASSUME NEW i \in 1..Len(ch), ch[i].type = "exit"
                 PROVE  Ends(less) \/ Head(ch).type = "exit"
      BY <1>1 DEF Ends
    <3>1. CASE i = 1
      BY <1>1, <3>1
    <3>2. CASE i # 1
      <4>1. i - 1 \in DOMAIN less /\ less[i - 1] = ch[i]
        BY <1>1, <1>2, <3>2
      <4>2. less[i - 1].type = "exit"
        BY <4>1
      <4> QED
        BY <4>1, <4>2 DEF Ends
    <3> QED
      BY <3>1, <3>2
  <2>2. Ends(less) => Ends(ch)
    BY <1>1, <1>3 DEF Ends
  <2>3. Head(ch).type = "exit" => Ends(ch)
    BY <1>1 DEF Ends
  <2> QED
    BY <2>1, <2>2, <2>3
<1> QED
  BY <1>5, <1>6 DEF less

\* What a stream starts with is all that was printed.
LEMMA ExistingIsAll ==
  ASSUME ProcTypes, NEW p \in Procs
  PROVE  /\ \A pipe \in Pipes : Leads(<< >>, Existing(p), out[p][pipe], pipe)
         /\ HasReady(Existing(p)) <=> Matches(out[p])
         /\ \A i \in DOMAIN Existing(p) : Existing(p)[i].type \in Pipes
<1> DEFINE o == out[p]["stdout"]
           r == out[p]["stderr"]
           a == [type |-> "stdout", lines |-> o]
           b == [type |-> "stderr", lines |-> r]
<1>1. o \in Seq(Lines) /\ Len(o) <= MaxLines /\ r \in Seq(Lines) /\ Len(r) <= MaxLines
  <2>1. out[p] \in Outputs
    BY DEF ProcTypes
  <2>2. /\ o \in UNION {[1..n -> Lines] : n \in 0..MaxLines}
        /\ r \in UNION {[1..n -> Lines] : n \in 0..MaxLines}
    BY <2>1 DEF Outputs, Pipes
  <2> QED
    BY <2>2, BoundedLines
<1>2. Printed(p, "stdout") = IF o = << >> THEN << >> ELSE << a >>
  BY DEF Printed
<1>3. Printed(p, "stderr") = IF r = << >> THEN << >> ELSE << b >>
  BY DEF Printed
<1>4. (o # << >> => a \in Events) /\ (r # << >> => b \in Events)
  BY <1>1, EventTypes DEF Pipes
<1>5. a.type = "stdout" /\ a.lines = o /\ b.type = "stderr" /\ b.lines = r
  OBVIOUS
<1>6. Matches(out[p]) <=> Contains(o, "ready") \/ Contains(r, "ready")
  BY DEF Matches, Pipes
<1>7. << >> \in Seq(Events) /\ << >> \in Seq(Lines)
  OBVIOUS
<1>8. ~ HasReady(<< >>) /\ ~ Contains(<< >>, "ready")
  BY DEF HasReady, Contains
<1> HIDE DEF a, b, o, r
\* stdout first ...
<1> DEFINE first == Printed(p, "stdout")
<1>9. /\ first \in Seq(Events)
      /\ Leads(<< >>, first, o, "stdout") /\ Leads(<< >>, first, << >>, "stderr")
      /\ HasReady(first) <=> Contains(o, "ready")
      /\ \A i \in DOMAIN first : first[i].type \in Pipes
  <2>1. CASE o = << >>
    <3>1. first = << >> /\ DOMAIN << >> = {}
      BY <1>2, <2>1
    <3>2. Leads(<< >>, << >>, << >>, "stdout") /\ Leads(<< >>, << >>, << >>, "stderr")
      BY <1>7, LeadsNone
    <3> QED
      BY <1>7, <1>8, <2>1, <3>1, <3>2
  <2>2. CASE o # << >>
    <3>1. first = Append(<< >>, a) /\ a \in Events /\ << >> \o a.lines = o
      BY <1>1, <1>2, <1>4, <1>5, <2>2
    <3>2. Leads(<< >>, << >>, << >>, "stdout") /\ Leads(<< >>, << >>, << >>, "stderr")
      BY <1>7, LeadsNone
    <3>3. Leads(<< >>, Append(<< >>, a), IF a.type = "stdout" THEN << >> \o a.lines ELSE << >>, "stdout")
      BY <1>7, <3>1, <3>2, LeadsMore
    <3>4. Leads(<< >>, Append(<< >>, a), IF a.type = "stderr" THEN << >> \o a.lines ELSE << >>, "stderr")
      BY <1>7, <3>1, <3>2, LeadsMore
    <3>5. HasReady(Append(<< >>, a)) <=> HasReady(<< >>) \/ Contains(a.lines, "ready")
      BY <1>7, <3>1, OneMore
    <3>6. \A i \in DOMAIN first : first[i].type \in Pipes
      BY <1>2, <1>5, <2>2 DEF Pipes
    <3>7. first \in Seq(Events)
      <4>1. first = << a >>
        BY <1>2, <2>2
      <4>2. << a >> \in Seq(Events)
        BY <3>1
      <4> QED
        BY <4>1, <4>2
    <3> QED
      BY <1>5, <1>8, <3>1, <3>3, <3>4, <3>5, <3>6, <3>7
  <2> QED
    BY <2>1, <2>2
\* ... then stderr.
<1>10. Existing(p) = IF r = << >> THEN first ELSE Append(first, b)
  <2>1. first \o << >> = first /\ first \o << b >> = Append(first, b)
    BY <1>9
  <2>2. Existing(p) = first \o Printed(p, "stderr")
    BY DEF Existing
  <2> QED
    BY <1>3, <2>1, <2>2
<1> HIDE DEF first
<1>11. /\ Leads(<< >>, Existing(p), o, "stdout") /\ Leads(<< >>, Existing(p), r, "stderr")
       /\ HasReady(Existing(p)) <=> Contains(o, "ready") \/ Contains(r, "ready")
       /\ \A i \in DOMAIN Existing(p) : Existing(p)[i].type \in Pipes
  <2>1. CASE r = << >>
    BY <1>8, <1>9, <1>10, <2>1
  <2>2. CASE r # << >>
    <3>1. Existing(p) = Append(first, b) /\ b \in Events /\ << >> \o b.lines = r
      BY <1>1, <1>4, <1>5, <1>10, <2>2
    <3>2. Leads(<< >>, Append(first, b), IF b.type = "stdout" THEN o \o b.lines ELSE o, "stdout")
      BY <1>1, <1>9, <3>1, LeadsMore
    <3>3. Leads(<< >>, Append(first, b), IF b.type = "stderr" THEN << >> \o b.lines ELSE << >>, "stderr")
      BY <1>7, <1>9, <3>1, LeadsMore
    <3>4. HasReady(Append(first, b)) <=> HasReady(first) \/ Contains(b.lines, "ready")
      BY <1>9, <3>1, OneMore
    <3>5. \A i \in DOMAIN Append(first, b) : Append(first, b)[i] = b \/ (i \in DOMAIN first /\ Append(first, b)[i] = first[i])
      BY <1>9
    <3>6. \A i \in DOMAIN Append(first, b) : Append(first, b)[i].type \in Pipes
      BY <1>5, <1>9, <3>5 DEF Pipes
    <3> QED
      BY <1>5, <1>9, <3>1, <3>2, <3>3, <3>4, <3>6
  <2> QED
    BY <2>1, <2>2
<1>12. \A pipe \in Pipes : Leads(<< >>, Existing(p), out[p][pipe], pipe)
  BY <1>11 DEF Pipes, o, r
<1> QED
  BY <1>6, <1>11, <1>12 DEF o, r

-----------------------------------------------------------------------------
(* A step of a call, seen from its own stream *)

\* A call that listens goes on doing so, or is done; only opening a stream makes a
\* listener.
ListensOn(c) ==
  /\ call[c].op \in StreamOps /\ call[c].pc \in {"read", "done"} =>
       call'[c].op = call[c].op /\ call'[c].of = call[c].of /\ call'[c].pc \in {"read", "done"}
  /\ listeners' # listeners =>
       /\ call[c].pc = "open" /\ call[c].op \in StreamOps
       /\ call'[c].op = call[c].op /\ call'[c].of = call[c].of /\ call'[c].pc \in {"read", "done"}

StreamOk(c) == ReadOk(c)' /\ ResultOk(c)' /\ ListensOn(c)

\* Once over, a process stays so.
LEMMA OverStays ==
  ASSUME OnlyStarts, NEW p \in Procs
  PROVE  /\ status[p] \in Over => status'[p] \in Over
         /\ status[p] # "none" => status'[p] = status[p]
BY DEF OnlyStarts, Over

\* A call that has no answer yet gets a true one.
LEMMA GivenResult ==
  ASSUME Types, NEW c \in Waiters, CallOk(c), ResultOk(c), call[c].pc # "done", OnlyStarts,
         out' = out, got'[c] = got[c], NEW r \in Results,
         call'[c].op = call[c].op, call'[c].of = call[c].of, call'[c].timed = call[c].timed,
         call'[c].pc = "done",
         call'[c].result = IF call[c].result = "none" THEN r ELSE call[c].result,
         r = "exited" => /\ call[c].op \in StreamOps \cup {"waitPort"}
                         /\ status[call[c].of] \in Over
                         /\ call[c].op = "waitLog" => ~ Matches(out[call[c].of])
                         /\ call[c].op \in {"exec", "start"} => got[c] = out[call[c].of],
         r = "found" /\ call[c].op = "waitLog" => Matches(out[call[c].of]),
         r = "timeout" => call[c].timed,
         r = "given up" /\ call[c].op = "opencode" /\ call[c].of # NoProc => status[call[c].of] \in Over
  PROVE  ResultOk(c)'
<1>1. call[c].result \in {"none", "timeout"}
  BY DEF ResultOk
<1>2. CASE call[c].result = "timeout"
  <2>1. call[c].timed /\ call'[c].result = "timeout"
    BY <1>2 DEF ResultOk, AnswerOk
  <2> QED
    BY <2>1 DEF ResultOk, AnswerOk
<1>3. CASE call[c].result = "none"
  <2>1. call'[c].result = r
    BY <1>3
  <2>2. call[c].of \in Procs \cup {NoProc}
    <3>1. call[c] \in Known
      BY DEF Types, CallTypes
    <3> QED
      BY <3>1 DEF Known
  <2>3. call[c].op \in StreamOps \cup {"waitPort"} => call[c].of \in Procs
    BY DEF CallOk
  <2>4. \A p \in Procs : status[p] \in Over => status'[p] \in Over
    BY OverStays
  <2>5. CASE r = "exited"
    BY <2>1, <2>3, <2>4, <2>5 DEF ResultOk, AnswerOk
  <2>6. CASE r # "exited"
    BY <2>1, <2>2, <2>4, <2>6 DEF ResultOk, AnswerOk
  <2> QED
    BY <2>5, <2>6
<1> QED
  BY <1>1, <1>2, <1>3

\* The answer of a call that goes on stays what it is.
LEMMA SameResult ==
  ASSUME Types, NEW c \in Waiters, CallOk(c), ResultOk(c), OnlyStarts, out' = out,
         got'[c] = got[c] \/ call[c].pc # "done",
         call'[c].op = call[c].op, call'[c].of = call[c].of, call'[c].timed = call[c].timed,
         call'[c].result = call[c].result,
         call'[c].pc = call[c].pc \/ call[c].pc # "done"
  PROVE  ResultOk(c)'
<1>1. call[c].op \in StreamOps \cup {"waitPort"} => call[c].of \in Procs
  BY DEF CallOk
<1>2. \A p \in Procs : status[p] \in Over => status'[p] \in Over
  BY OverStays
<1>3. call[c].of \in Procs \cup {NoProc}
  <2>1. call[c] \in Known
    BY DEF Types, CallTypes
  <2> QED
    BY <2>1 DEF Known
<1>4. CASE call[c].pc = "done"
  BY <1>1, <1>2, <1>3, <1>4 DEF ResultOk, AnswerOk
<1>5. CASE call[c].pc # "done"
  <2>1. call[c].result \in {"none", "timeout"}
    BY <1>5 DEF ResultOk
  <2> QED
    BY <2>1 DEF ResultOk, AnswerOk
<1> QED
  BY <1>4, <1>5

\* Who does not listen and has no events has nothing to lose.
LEMMA NoStream ==
  ASSUME NEW c, call[c].op \notin StreamOps, chan[c] = << >>
  PROVE  ReadOk(c)
BY DEF ReadOk, Kinds, Fed, Whole, Looked, StreamOps

\* A call begins: it has no answer yet, and listens to nothing.
LEMMA BeginStream ==
  ASSUME Types, NEW c \in Waiters, CallOk(c), ResultOk(c),
         Wait(c) \/ Start(c) \/ opencode(c) \/ startOpencodeServer(c)
  PROVE  StreamOk(c)
<1>1. CASE Wait(c)
  <2>1. call[c] = Idle /\ chan[c] = << >>
    BY <1>1, IdleCall DEF Wait
  <2>2. chan' = chan /\ listeners' = listeners
    BY <1>1 DEF Wait
  <2>3. PICK o \in Asks \cap WaitOps, p \in Procs, timed \in BOOLEAN :
          /\ status[p] # "none"
          /\ call' = [call EXCEPT ![c].op = o, ![c].of = p, ![c].timed = timed,
                                  ![c].pc = CASE o = "waitLog"  -> "logs"
                                              [] o = "waitExit" -> "open"
                                              [] o = "waitPort" -> "read"]
          /\ watch' = [watch EXCEPT ![c] = IF o = "waitPort" THEN "status" ELSE @]
    BY <1>1, Zenon DEF Wait
  <2> DEFINE x == CASE o = "waitLog" -> "logs" [] o = "waitExit" -> "open" [] o = "waitPort" -> "read"
  <2>4. call' = [call EXCEPT ![c].op = o, ![c].of = p, ![c].timed = timed, ![c].pc = x]
    BY <2>3
  <2>5. /\ x \in {"logs", "open", "read"}
        /\ x = "read" => o = "waitPort"
    BY DEF WaitOps
  <2> HIDE DEF x
  <2> DEFINE n == [call[c] EXCEPT !.op = o, !.of = p, !.timed = timed, !.pc = x]
  <2>6. call' = [call EXCEPT ![c] = n]
    BY <2>4
  <2>7. n.op = o /\ n.pc = x /\ n.result = "none" /\ n.of = p
    BY <2>1 DEF Idle
  <2> HIDE DEF n
  <2>8. call'[c] = n
    BY <2>6 DEF Types, CallTypes
  <2>9. ResultOk(c)'
    BY <2>5, <2>7, <2>8 DEF ResultOk, AnswerOk
  <2>10. ReadOk(c)'
    <3>1. CASE x = "read"
      <4>1. (call[c].op \notin StreamOps /\ chan[c] = << >>)'
        BY <2>1, <2>2, <2>5, <2>7, <2>8, <3>1 DEF StreamOps
      <4> QED
        BY <4>1 DEF ReadOk, Kinds, Fed, Whole, Looked, StreamOps
    <3>2. CASE x # "read"
      BY <2>7, <2>8, <3>2 DEF ReadOk
    <3> QED
      BY <3>1, <3>2
  <2>11. ListensOn(c)
    BY <2>1, <2>2 DEF ListensOn, Idle
  <2> QED
    BY <2>9, <2>10, <2>11 DEF StreamOk
<1>2. CASE Start(c)
  <2>1. call[c] = Idle
    BY <1>2, IdleCall DEF Start
  <2>2. listeners' = listeners
    BY <1>2 DEF Start
  <2>3. PICK o \in Asks \cap {"exec", "start"}, p \in Procs :
          call' = [call EXCEPT ![c].op = o, ![c].of = p, ![c].pc = "open"]
    BY <1>2, Zenon DEF Start
  <2> DEFINE n == [call[c] EXCEPT !.op = o, !.of = p, !.pc = "open"]
  <2>4. call' = [call EXCEPT ![c] = n]
    BY <2>3
  <2>5. n.pc = "open" /\ n.result = "none"
    BY <2>1 DEF Idle
  <2> HIDE DEF n
  <2>6. call'[c] = n
    BY <2>4 DEF Types, CallTypes
  <2>7. ResultOk(c)'
    BY <2>5, <2>6 DEF ResultOk, AnswerOk
  <2>8. ReadOk(c)' /\ ListensOn(c)
    BY <2>1, <2>2, <2>5, <2>6 DEF ReadOk, ListensOn, Idle
  <2> QED
    BY <2>7, <2>8 DEF StreamOk
<1>3. CASE opencode(c)
  <2>1. call[c] = Idle
    BY <1>3, IdleCall DEF opencode
  <2>2. listeners' = listeners
    BY <1>3 DEF opencode
  <2> DEFINE n == [call[c] EXCEPT !.op = "opencode", !.pc = "list", !.timed = TRUE]
  <2>3. call' = [call EXCEPT ![c] = n]
    BY <1>3 DEF opencode
  <2>4. n.pc = "list" /\ n.result = "none"
    BY <2>1 DEF Idle
  <2> HIDE DEF n
  <2>5. call'[c] = n
    BY <2>3 DEF Types, CallTypes
  <2>6. ResultOk(c)'
    BY <2>4, <2>5 DEF ResultOk, AnswerOk
  <2>7. ReadOk(c)' /\ ListensOn(c)
    BY <2>1, <2>2, <2>4, <2>5 DEF ReadOk, ListensOn, Idle
  <2> QED
    BY <2>6, <2>7 DEF StreamOk
<1>4. CASE startOpencodeServer(c)
  <2>1. call[c].pc = "serve" /\ call[c].op = "opencode" /\ chan[c] = << >>
    BY <1>4 DEF startOpencodeServer, CallOk
  <2>2. listeners' = listeners /\ chan' = chan
    BY <1>4 DEF startOpencodeServer
  <2>3. PICK p \in Procs : call' = [call EXCEPT ![c].of = p, ![c].pc = "read"]
    BY <1>4 DEF startOpencodeServer
  <2> DEFINE n == [call[c] EXCEPT !.of = p, !.pc = "read"]
  <2>4. call' = [call EXCEPT ![c] = n]
    BY <2>3
  <2>5. call[c] \in Known
    BY DEF Types, CallTypes
  <2>6. n.pc = "read" /\ n.op = "opencode" /\ n.result = call[c].result /\ n.timed = call[c].timed
    BY <2>1, <2>5 DEF Known
  <2> HIDE DEF n
  <2>7. call'[c] = n
    BY <2>4 DEF Types, CallTypes
  <2>8. call[c].result \in {"none", "timeout"}
    BY <2>1 DEF ResultOk
  <2>9. ResultOk(c)'
    BY <2>6, <2>7, <2>8 DEF ResultOk, AnswerOk
  <2>10. (call[c].op \notin StreamOps /\ chan[c] = << >>)'
    BY <2>1, <2>2, <2>6, <2>7 DEF StreamOps
  <2>11. ReadOk(c)'
    BY <2>10 DEF ReadOk, Kinds, Fed, Whole, Looked, StreamOps
  <2>12. ListensOn(c)
    BY <2>1, <2>2 DEF ListensOn
  <2> QED
    BY <2>9, <2>11, <2>12 DEF StreamOk
<1> QED
  BY <1>1, <1>2, <1>3, <1>4

\* A call that does not read has no duties as a reader.
LEMMA NotReading ==
  ASSUME NEW c, call'[c].pc # "read"
  PROVE  ReadOk(c)'
BY DEF ReadOk

\* A request is answered or fails.
LEMMA RequestStream ==
  ASSUME Types, NEW c \in Waiters, CallOk(c), ResultOk(c),
         Logs(c) \/ Find(c) \/ Stderr(c) \/ RequestFails(c) \/ Hangs(c)
  PROVE  StreamOk(c)
<1>1. /\ OnlyStarts /\ out' = out /\ listeners' = listeners /\ got' = got
  <2>1. UNCHANGED << procVars, listeners, got >>
    BY DEF Logs, Find, Stderr, RequestFails, Hangs
  <2> QED
    BY <2>1 DEF procVars, OnlyStarts
<1>2. call \in [Waiters -> Known] /\ call[c] \in Known
  BY DEF Types, CallTypes
<1>3. call[c].pc \in {"logs", "open", "list", "serve", "stderr", "relist"}
  BY DEF Logs, Find, Stderr, RequestFails, Hangs
<1>4. ListensOn(c)
  BY <1>1, <1>3 DEF ListensOn
<1>5. ASSUME ResultOk(c)', call'[c].pc # "read"
      PROVE  StreamOk(c)
  BY <1>4, <1>5, NotReading DEF StreamOk
<1>6. ASSUME NEW x \in {"open", "serve", "relist", "hung"}, call' = [call EXCEPT ![c].pc = x]
      PROVE  StreamOk(c)
  <2>1. /\ call'[c].op = call[c].op /\ call'[c].of = call[c].of /\ call'[c].timed = call[c].timed
        /\ call'[c].result = call[c].result /\ call'[c].pc = x
    BY <1>2, <1>6, PcEffect DEF Awaiting
  <2>2. ResultOk(c)'
    BY <1>1, <1>3, <2>1, SameResult
  <2> QED
    BY <1>5, <2>1, <2>2
<1>7. CASE Logs(c)
  <2>1. /\ call[c].pc = "logs" /\ call[c].op = "waitLog"
        /\ \/ Matches(out[call[c].of]) /\ Settle(c, "found")
           \/ call' = [call EXCEPT ![c].pc = "open"]
    BY <1>7 DEF Logs, CallOk
  <2>2. CASE Matches(out[call[c].of]) /\ Settle(c, "found")
    <3>1. /\ call'[c].op = call[c].op /\ call'[c].of = call[c].of
          /\ call'[c].timed = call[c].timed /\ call'[c].pc = "done"
          /\ call'[c].result = IF call[c].result = "none" THEN "found" ELSE call[c].result
          /\ "found" \in Results
      BY <1>2, <2>2, SettleEffect DEF Results
    <3>2. ResultOk(c)'
      BY <1>1, <2>1, <2>2, <3>1, GivenResult
    <3> QED
      BY <1>5, <3>1, <3>2
  <2> QED
    BY <1>6, <2>1, <2>2
<1>8. CASE Find(c)
  <2>1. call[c].pc \in {"list", "relist"} /\ call[c].op = "opencode"
    BY <1>8 DEF Find, CallOk
  <2>2. ASSUME NEW p \in Live,
               call' = [call EXCEPT ![c].pc = "done", ![c].of = p, ![c].result = "found"]
        PROVE  StreamOk(c)
    <3> DEFINE n == [call[c] EXCEPT !.pc = "done", !.of = p, !.result = "found"]
    <3>1. call' = [call EXCEPT ![c] = n]
      BY <2>2
    <3>2. n.pc = "done" /\ n.op = "opencode" /\ n.result = "found"
      BY <1>2, <2>1 DEF Known
    <3> HIDE DEF n
    <3>3. call'[c] = n
      BY <1>2, <3>1
    <3>4. ResultOk(c)'
      BY <3>2, <3>3 DEF ResultOk, AnswerOk
    <3> QED
      BY <1>5, <3>2, <3>3, <3>4
  <2>3. CASE call' = [call EXCEPT ![c].pc = "serve"]
    BY <1>6, <2>3
  <2>4. CASE Live = {} /\ Settle(c, "given up")
    <3>1. /\ call'[c].op = call[c].op /\ call'[c].of = call[c].of
          /\ call'[c].timed = call[c].timed /\ call'[c].pc = "done"
          /\ call'[c].result = IF call[c].result = "none" THEN "given up" ELSE call[c].result
          /\ "given up" \in Results
      BY <1>2, <2>4, SettleEffect DEF Results
    <3>2. call[c].of # NoProc => status[call[c].of] \in Over
      <4>1. call[c].of # NoProc => call[c].of \in Procs
        BY <1>2 DEF Known
      <4>2. call[c].of \in Procs => status[call[c].of] # "none" /\ status[call[c].of] # "running"
        BY <2>4 DEF Live, CallOk
      <4>3. call[c].of \in Procs => status[call[c].of] \in {"none", "running"} \cup Over
        BY DEF Types, ProcTypes
      <4> QED
        BY <4>1, <4>2, <4>3
    <3>3. ResultOk(c)'
      BY <1>1, <2>1, <3>1, <3>2, GivenResult
    <3> QED
      BY <1>5, <3>1, <3>3
  <2> QED
    BY <1>8, <2>2, <2>3, <2>4 DEF Find
<1>9. CASE Stderr(c)
  BY <1>6, <1>9 DEF Stderr
<1>10. CASE RequestFails(c)
  <2>1. call[c].pc \in {"logs", "open", "list", "serve", "stderr", "relist"} /\ Failed(c)
    BY <1>10 DEF RequestFails
  <2>2. /\ call'[c].op = call[c].op /\ call'[c].of = call[c].of
        /\ call'[c].timed = call[c].timed
        /\ \/ call'[c].pc \in {"open", "stderr", "relist"} /\ call'[c].result = call[c].result
           \/ /\ call'[c].pc = "done"
              /\ call'[c].result = IF call[c].result = "none" THEN "lost" ELSE call[c].result
    BY <1>2, <2>1, FailedEffect
  <2>3. CASE call'[c].pc \in {"open", "stderr", "relist"} /\ call'[c].result = call[c].result
    <3>1. ResultOk(c)'
      BY <1>1, <1>3, <2>2, <2>3, SameResult
    <3> QED
      BY <1>5, <2>3, <3>1
  <2>4. CASE /\ call'[c].pc = "done"
             /\ call'[c].result = IF call[c].result = "none" THEN "lost" ELSE call[c].result
    <3>1. "lost" \in Results
      BY DEF Results
    <3>2. ResultOk(c)'
      BY <1>1, <1>3, <2>2, <2>4, <3>1, GivenResult
    <3> QED
      BY <1>5, <2>4, <3>2
  <2> QED
    BY <2>2, <2>3, <2>4
<1>11. CASE Hangs(c)
  BY <1>6, <1>11 DEF Hangs
<1> QED
  BY <1>7, <1>8, <1>9, <1>10, <1>11

\* The stream of a call that does not wait any longer makes it a listener all the same.
LEMMA OpenLateStream ==
  ASSUME Types, NEW c \in Waiters, CallOk(c), ResultOk(c), OpenLate(c)
  PROVE  StreamOk(c)
<1>1. OnlyStarts /\ out' = out /\ got' = got
  BY DEF OpenLate, procVars, OnlyStarts
<1>2. call[c].pc = "open" /\ call[c].op = "waitLog" /\ call[c].timed
  BY DEF OpenLate
<1>3. /\ call'[c].op = call[c].op /\ call'[c].of = call[c].of
      /\ call'[c].timed = call[c].timed /\ call'[c].pc = "done"
      /\ call'[c].result = IF call[c].result = "none" THEN "timeout" ELSE call[c].result
      /\ "timeout" \in Results
  BY SettleEffect DEF OpenLate, Types, CallTypes, Results
<1>4. ResultOk(c)'
  BY <1>1, <1>2, <1>3, GivenResult
<1>5. ReadOk(c)'
  BY <1>3, NotReading
<1>6. ListensOn(c)
  BY <1>2, <1>3 DEF ListensOn, StreamOps
<1> QED
  BY <1>4, <1>5, <1>6 DEF StreamOk

\* A stream that is opened holds what was printed, and then its end, or goes on.
LEMMA OpenStream ==
  ASSUME Types, NEW c \in Waiters, CallOk(c), ResultOk(c), Open(c)
  PROVE  StreamOk(c)
<1> DEFINE p == call[c].of
<1>1. OnlyStarts /\ out' = out /\ got' = got /\ status' = status /\ aborted' = aborted
  BY DEF Open, procVars, OnlyStarts
<1>2. call[c].pc = "open" /\ p \in Procs /\ call[c].op \in StreamOps /\ status[p] # "none"
  BY DEF Open, CallOk
<1>3. call' = [call EXCEPT ![c].pc = "read"] /\ call \in [Waiters -> Known] /\ call[c] \in Known
  BY DEF Open, Types, CallTypes
<1>4. /\ call'[c] = [call[c] EXCEPT !.pc = "read"]
      /\ call'[c].op = call[c].op /\ call'[c].of = p /\ call'[c].pc = "read"
      /\ call'[c].timed = call[c].timed /\ call'[c].result = call[c].result
  BY <1>3, PcEffect DEF Awaiting
<1>5. ResultOk(c)'
  BY <1>1, <1>2, <1>4, SameResult
<1>6. ListensOn(c)
  BY <1>2, <1>4 DEF ListensOn
<1>7. chan'[c] = IF status[p] \in Over THEN Append(Existing(p), Signalled("exit")) ELSE Existing(p)
  BY DEF Open, Types, CallTypes
<1>8. ProcTypes /\ Existing(p) \in Seq(Events)
  BY <1>2, ExistingType DEF Types
<1>9. /\ \A pipe \in Pipes : Leads(<< >>, Existing(p), out[p][pipe], pipe)
      /\ HasReady(Existing(p)) <=> Matches(out[p])
      /\ \A i \in DOMAIN Existing(p) : Existing(p)[i].type \in Pipes
  BY <1>2, <1>8, ExistingIsAll
<1>10. ~ Contains(<< >>, "ready")
  BY DEF Contains
<1>11. \A pipe \in Pipes : pipe # "exit" /\ pipe # "ready"
  BY DEF Pipes
<1>12. /\ \A pipe \in Pipes : Leads(<< >>, chan'[c], out[p][pipe], pipe)
       /\ HasReady(chan'[c]) <=> Matches(out[p])
       /\ \A i \in DOMAIN chan'[c] :
            \/ chan'[c][i].type \in Pipes
            \/ /\ chan'[c][i].type = "exit" /\ status[p] \in Over /\ i = Len(chan'[c])
  <2> DEFINE ex == Existing(p)
             e == Signalled("exit")
  <2>1. e \in Events /\ e.type = "exit" /\ e.lines = << >>
    BY EventTypes
  <2> HIDE DEF ex, e
  <2>2. CASE status[p] \notin Over
    <3>1. chan'[c] = ex
      BY <1>7, <2>2 DEF ex
    <3> QED
      BY <1>9, <3>1 DEF ex
  <2>3. CASE status[p] \in Over
    <3>1. chan'[c] = Append(ex, e) /\ ex \in Seq(Events)
      BY <1>7, <1>8, <2>3 DEF ex, e
    <3>2. HasReady(Append(ex, e)) <=> Matches(out[p])
      BY <1>9, <1>10, <2>1, <3>1, OneMore DEF ex
    <3>3. ASSUME NEW pipe \in Pipes
          PROVE  Leads(<< >>, Append(ex, e), out[p][pipe], pipe)
      <4>1. out[p][pipe] \in Seq(Lines)
        <5>1. out[p] \in Outputs
          BY <1>2, <1>8 DEF ProcTypes
        <5>2. out[p][pipe] \in UNION {[1..n -> Lines] : n \in 0..MaxLines}
          BY <5>1 DEF Outputs
        <5> QED
          BY <5>2, BoundedLines
      <4>2. Leads(<< >>, ex, out[p][pipe], pipe) /\ e.type # pipe
        BY <1>9, <1>11, <2>1 DEF ex
      <4>3. Leads(<< >>, Append(ex, e), IF e.type = pipe THEN out[p][pipe] \o e.lines ELSE out[p][pipe], pipe)
        BY <2>1, <3>1, <4>1, <4>2, LeadsMore
      <4> QED
        BY <4>2, <4>3
    <3>4. \A i \in DOMAIN Append(ex, e) :
            \/ i \in DOMAIN ex /\ Append(ex, e)[i] = ex[i]
            \/ i = Len(Append(ex, e)) /\ Append(ex, e)[i] = e
      BY <3>1
    <3> QED
      BY <1>9, <2>1, <2>3, <3>1, <3>2, <3>3, <3>4 DEF ex
  <2> QED
    BY <2>2, <2>3
<1>13. Kinds(c)'
  BY <1>1, <1>2, <1>4, <1>11, <1>12 DEF Kinds
<1>14. Fed(c)'
  <2> SUFFICES ASSUME status[p] = "running"
               PROVE  \E i \in DOMAIN listeners'[p] : listeners'[p][i] = c
    BY <1>1, <1>4 DEF Fed
  <2>1. listeners' = [listeners EXCEPT ![p] = Append(@, c)]
    BY DEF Open, Over
  <2>2. listeners[p] \in Seq(Waiters) /\ listeners'[p] = Append(listeners[p], c)
    BY <1>2, <2>1 DEF Types, ProcTypes
  <2> QED
    BY <2>2
<1>15. Whole(c)'
  <2> SUFFICES ASSUME call[c].op \in {"exec", "start"}, NEW pipe \in Pipes
               PROVE  Leads(got'[c][pipe], chan'[c], out'[p][pipe], pipe)
    BY <1>4 DEF Whole
  <2>1. got'[c] = Silent
    BY <1>1, <1>2 DEF CallOk
  <2>2. got'[c][pipe] = << >>
    BY <2>1 DEF Silent
  <2> QED
    BY <1>1, <1>12, <2>2
<1>16. Looked(c)'
  <2>1. call[c].op = "waitLog" => ~ call[c].matched
    BY <1>2 DEF CallOk
  <2>2. call'[c].matched = call[c].matched
    BY <1>3, <1>4 DEF Known
  <2> QED
    BY <1>1, <1>4, <1>12, <2>1, <2>2 DEF Looked
<1>17. ReadOk(c)'
  BY <1>13, <1>14, <1>15, <1>16 DEF ReadOk
<1> QED
  BY <1>5, <1>6, <1>17 DEF StreamOk

\* Reading an event leaves the rest in order.
LEMMA KindsOfRest ==
  ASSUME NEW c, chan[c] \in Seq(Events), chan[c] # << >>, Kinds(c), chan'[c] = Tail(chan[c]),
         call'[c].op = call[c].op, call'[c].of = call[c].of, status' = status
  PROVE  Kinds(c)'
<1> DEFINE ch == chan[c]
<1>1. /\ Len(ch) \in Nat \ {0} /\ DOMAIN ch = 1..Len(ch)
      /\ DOMAIN Tail(ch) = 1..Len(ch) - 1 /\ Len(Tail(ch)) = Len(ch) - 1
      /\ \A i \in 1..Len(ch) - 1 : Tail(ch)[i] = ch[i + 1]
  OBVIOUS
<1>2. SUFFICES ASSUME NEW i \in 1..Len(ch) - 1
               PROVE  /\ ch[i + 1].type = "ready" => call[c].op \notin StreamOps
                      /\ ch[i + 1].type \in Pipes => call[c].op \in StreamOps
                      /\ ch[i + 1].type = "exit" =>
                           /\ status[call[c].of] \in Over
                           /\ call[c].op \in StreamOps => i = Len(ch) - 1
  BY <1>1 DEF Kinds
<1>3. i + 1 \in 1..Len(ch) /\ (i + 1 = Len(ch) => i = Len(ch) - 1)
  BY <1>1
<1> HIDE DEF ch
<1>4. i + 1 \in DOMAIN ch
  BY <1>1, <1>3
<1> QED
  BY <1>3, <1>4 DEF Kinds, ch

\* The end of a log stream comes when there is nothing else left.
LEMMA AtTheEnd ==
  ASSUME NEW c, chan[c] \in Seq(Events), chan[c] # << >>, Kinds(c), Head(chan[c]).type = "exit",
         call[c].op \in StreamOps
  PROVE  status[call[c].of] \in Over /\ Len(chan[c]) = 1 /\ Unbroken(c) /\ ~ HasReady(chan[c])
<1> DEFINE ch == chan[c]
<1>1. Len(ch) \in Nat /\ 1 \in DOMAIN ch /\ Head(ch) = ch[1] /\ DOMAIN ch = 1..Len(ch)
  OBVIOUS
<1>2. status[call[c].of] \in Over /\ 1 = Len(ch)
  BY <1>1 DEF Kinds
<1>3. Unbroken(c)
  BY <1>1 DEF Unbroken, Ends
<1>4. Head(ch) \in Events
  BY <1>1
<1>5. Head(ch).lines = << >>
  BY <1>4, EventTypes DEF Pipes
<1>6. ~ Contains(<< >>, "ready")
  BY DEF Contains
<1>7. \A i \in DOMAIN ch : ch[i] = Head(ch)
  BY <1>1, <1>2
<1>8. ~ HasReady(ch)
  BY <1>5, <1>6, <1>7 DEF HasReady
<1> QED
  BY <1>2, <1>3, <1>8

\* A listener listens on.
LEMMA FedOn ==
  ASSUME NEW c, Fed(c), call'[c].op = call[c].op, call'[c].of = call[c].of,
         status' = status, aborted' = aborted, listeners' = listeners
  PROVE  Fed(c)'
BY DEF Fed

\* waitForLog reads output.
LEMMA LogOutputStream ==
  ASSUME Types, NEW c \in Waiters, CallOk(c), ReadOk(c), ResultOk(c), LogOutput(c)
  PROVE  StreamOk(c)
<1> DEFINE e == Head(chan[c])
           p == call[c].of
<1>1. /\ OnlyStarts /\ out' = out /\ got' = got /\ status' = status /\ aborted' = aborted
      /\ listeners' = listeners
  BY DEF LogOutput, procVars, OnlyStarts
<1>2. /\ call[c].pc = "read" /\ call[c].op = "waitLog" /\ chan[c] # << >> /\ e.type \in Pipes
      /\ Kinds(c) /\ Fed(c) /\ Looked(c)
  BY DEF LogOutput, Reads, ReadOk
<1>3. CallTypes /\ chan[c] \in Seq(Events) /\ chan \in [Waiters -> Seq(Events)]
  BY DEF Types, CallTypes
<1>4. /\ HasReady(chan[c]) <=> HasReady(Tail(chan[c])) \/ Contains(e.lines, "ready")
      /\ Ends(chan[c]) <=> Ends(Tail(chan[c])) \/ e.type = "exit"
  BY <1>2, <1>3, OneLess
<1>5. call[c].matched \/ Contains(e.lines, "ready") => Matches(out[p])
  BY <1>2, <1>4 DEF Looked
<1>6. CASE Leave(c, "found") /\ (call[c].matched \/ Contains(e.lines, "ready"))
  <2>1. /\ call'[c].op = call[c].op /\ call'[c].of = call[c].of
        /\ call'[c].timed = call[c].timed /\ call'[c].pc = "done"
        /\ call'[c].result = IF call[c].result = "none" THEN "found" ELSE call[c].result
        /\ "found" \in Results
    BY <1>3, <1>6, LeaveEffect DEF Results
  <2>2. ResultOk(c)'
    BY <1>1, <1>2, <1>5, <1>6, <2>1, GivenResult
  <2>3. ReadOk(c)' /\ ListensOn(c)
    BY <1>1, <2>1, NotReading DEF ListensOn
  <2> QED
    BY <2>2, <2>3 DEF StreamOk
<1>7. CASE ~ (Leave(c, "found") /\ (call[c].matched \/ Contains(e.lines, "ready")))
  <2>1. /\ call'[c].op = call[c].op /\ call'[c].of = call[c].of
        /\ call'[c].timed = call[c].timed /\ call'[c].result = call[c].result
        /\ call'[c].pc = call[c].pc
        /\ call'[c].matched <=> call[c].matched \/ Contains(e.lines, "ready")
        /\ call'[c].matched => call'[c].pending
        /\ chan' = [chan EXCEPT ![c] = Tail(@)]
    BY <1>3, <1>7, LogOutputEffect
  <2>2. ResultOk(c)'
    BY <1>1, <2>1, SameResult
  <2>3. chan'[c] = Tail(chan[c])
    BY <1>3, <2>1
  <2>4. Kinds(c)'
    BY <1>1, <1>2, <1>3, <2>1, <2>3, KindsOfRest
  <2>5. Fed(c)'
    BY <1>1, <1>2, <2>1, FedOn
  <2>6. Whole(c)'
    BY <1>2, <2>1 DEF Whole
  <2> HIDE DEF e
  <2>7. Unbroken(c)' => Unbroken(c)
    BY <1>1, <1>4, <2>1, <2>3 DEF Unbroken
  <2>8. Looked(c)'
    <3>1. call'[c].matched => call'[c].pending /\ Matches(out'[p])
      BY <1>1, <1>5, <2>1
    <3>2. HasReady(chan'[c]) => Matches(out'[p])
      BY <1>1, <1>2, <1>4, <2>3 DEF Looked
    <3>3. Unbroken(c)' /\ Matches(out'[p]) => call'[c].matched \/ HasReady(chan'[c])
      BY <1>1, <1>2, <1>4, <2>1, <2>3, <2>7 DEF Looked
    <3> QED
      BY <2>1, <3>1, <3>2, <3>3 DEF Looked
  <2>9. ListensOn(c)
    BY <1>1, <1>2, <2>1 DEF ListensOn
  <2> QED
    BY <2>2, <2>4, <2>5, <2>6, <2>8, <2>9 DEF StreamOk, ReadOk
<1> QED
  BY <1>6, <1>7

\* waitForLog sees the end of its stream: it has found the line if there was one.
LEMMA LogExitStream ==
  ASSUME Types, NEW c \in Waiters, CallOk(c), ReadOk(c), ResultOk(c), LogExit(c)
  PROVE  StreamOk(c)
<1>1. OnlyStarts /\ out' = out /\ got' = got /\ listeners' = listeners
  BY DEF LogExit, procVars, OnlyStarts
<1>2. /\ call[c].pc = "read" /\ call[c].op = "waitLog" /\ chan[c] # << >>
      /\ Head(chan[c]).type = "exit" /\ Kinds(c) /\ Looked(c)
  BY DEF LogExit, Reads, ReadOk
<1>3. CallTypes /\ chan[c] \in Seq(Events)
  BY DEF Types, CallTypes
<1>4. status[call[c].of] \in Over /\ Unbroken(c) /\ ~ HasReady(chan[c])
  BY <1>2, <1>3, AtTheEnd DEF StreamOps
<1>5. call[c].matched => call[c].pending /\ Matches(out[call[c].of])
  BY <1>2 DEF Looked
<1>6. Matches(out[call[c].of]) => call[c].matched
  BY <1>2, <1>4 DEF Looked
<1>7. PICK r \in {"found", "exited"} :
        /\ Leave(c, r)
        /\ r = "found" => Matches(out[call[c].of])
        /\ r = "exited" => ~ Matches(out[call[c].of])
  <2>1. CASE call[c].pending /\ call[c].matched
    BY <1>5, <2>1 DEF LogExit
  <2>2. CASE ~ (call[c].pending /\ call[c].matched)
    BY <1>5, <1>6, <2>2 DEF LogExit
  <2> QED
    BY <2>1, <2>2
<1>8. r \in Results
  BY DEF Results
<1>9. /\ call'[c].op = call[c].op /\ call'[c].of = call[c].of
      /\ call'[c].timed = call[c].timed /\ call'[c].pc = "done"
      /\ call'[c].result = IF call[c].result = "none" THEN r ELSE call[c].result
  BY <1>3, <1>7, <1>8, LeaveEffect
<1>10. ResultOk(c)'
  BY <1>1, <1>2, <1>4, <1>7, <1>8, <1>9, GivenResult DEF StreamOps
<1>11. ReadOk(c)' /\ ListensOn(c)
  BY <1>1, <1>9, NotReading DEF ListensOn
<1> QED
  BY <1>10, <1>11 DEF StreamOk

\* waitForExit, exec and the callbacks read output, or the end.
LEMMA StreamEventStream ==
  ASSUME Types, NEW c \in Waiters, CallOk(c), ReadOk(c), ResultOk(c), StreamEvent(c)
  PROVE  StreamOk(c)
<1> DEFINE e == Head(chan[c])
           p == call[c].of
<1>1. /\ OnlyStarts /\ out' = out /\ status' = status /\ aborted' = aborted
      /\ listeners' = listeners
  BY DEF StreamEvent, procVars, OnlyStarts
<1>2. /\ call[c].pc = "read" /\ call[c].op \in {"waitExit", "exec", "start"}
      /\ chan[c] # << >> /\ Kinds(c) /\ Fed(c) /\ Whole(c)
  BY DEF StreamEvent, Reads, ReadOk
<1>3. /\ CallTypes /\ chan[c] \in Seq(Events) /\ chan \in [Waiters -> Seq(Events)]
      /\ got \in [Waiters -> [Pipes -> Seq(Lines)]]
  BY DEF Types, CallTypes
<1>4. e \in Events /\ e = chan[c][1] /\ 1 \in DOMAIN chan[c]
  BY <1>2, <1>3
<1>5. e.type \in Pipes \/ e.type = "exit"
  <2>1. e.type \in Pipes \cup {"exit", "ready"}
    BY <1>4, EventTypes
  <2>2. e.type # "ready"
    BY <1>2, <1>4 DEF Kinds, StreamOps
  <2> QED
    BY <2>1, <2>2
<1>6. CASE e.type \in Pipes
  <2>1. /\ call' = call /\ chan' = [chan EXCEPT ![c] = Tail(@)]
        /\ got' = IF call[c].op = "waitExit" THEN got ELSE [got EXCEPT ![c][e.type] = @ \o e.lines]
    BY <1>6 DEF StreamEvent
  <2>2. chan'[c] = Tail(chan[c])
    BY <1>3, <2>1
  <2>3. ResultOk(c)'
    BY <1>1, <1>2, <2>1, SameResult
  <2>4. Kinds(c)'
    BY <1>1, <1>2, <1>3, <2>1, <2>2, KindsOfRest
  <2>5. Fed(c)'
    BY <1>1, <1>2, <2>1, FedOn
  <2>6. Whole(c)'
    <3> SUFFICES ASSUME call[c].op \in {"exec", "start"}, Unbroken(c)', NEW pipe \in Pipes
                 PROVE  Leads(got'[c][pipe], chan'[c], out[p][pipe], pipe)
      BY <1>1, <2>1 DEF Whole
    <3>1. Ends(chan[c]) <=> Ends(Tail(chan[c])) \/ e.type = "exit"
      BY <1>2, <1>3, OneLess
    <3>2. Unbroken(c)
      BY <1>1, <2>1, <2>2, <3>1 DEF Unbroken
    <3>3. Leads(got[c][pipe], chan[c], out[p][pipe], pipe)
      BY <1>2, <3>2 DEF Whole
    <3>4. Leads(IF e.type = pipe THEN got[c][pipe] \o e.lines ELSE got[c][pipe],
                Tail(chan[c]), out[p][pipe], pipe)
      BY <1>2, <1>3, <3>3, LeadsLess
    <3>5. got' = [got EXCEPT ![c][e.type] = @ \o e.lines]
      BY <2>1
    <3> HIDE DEF e
    <3>6. got'[c][pipe] = IF e.type = pipe THEN got[c][pipe] \o e.lines ELSE got[c][pipe]
      BY <1>3, <1>6, <3>5
    <3> QED
      BY <2>2, <3>4, <3>6
  <2>7. Looked(c)'
    BY <1>2, <2>1 DEF Looked
  <2>8. ListensOn(c)
    BY <1>1, <1>2, <2>1 DEF ListensOn
  <2> QED
    BY <2>3, <2>4, <2>5, <2>6, <2>7, <2>8 DEF StreamOk, ReadOk
<1>7. CASE e.type = "exit"
  <2>1. Leave(c, "exited") /\ got' = got /\ "exited" \in Results
    BY <1>7 DEF StreamEvent, Pipes, Results
  <2>2. status[p] \in Over /\ Len(chan[c]) = 1 /\ Unbroken(c)
    BY <1>2, <1>3, <1>7, AtTheEnd DEF StreamOps
  <2>3. /\ call'[c].op = call[c].op /\ call'[c].of = call[c].of
        /\ call'[c].timed = call[c].timed /\ call'[c].pc = "done"
        /\ call'[c].result = IF call[c].result = "none" THEN "exited" ELSE call[c].result
    BY <1>3, <2>1, LeaveEffect
  <2>4. call[c].op \in {"exec", "start"} => got[c] = out[p]
    <3> SUFFICES ASSUME call[c].op \in {"exec", "start"}
                 PROVE  got[c] = out[p]
      OBVIOUS
    <3>1. ASSUME NEW pipe \in Pipes
          PROVE  got[c][pipe] = out[p][pipe]
      <4>1. Leads(got[c][pipe], chan[c], out[p][pipe], pipe)
        BY <1>2, <2>2 DEF Whole
      <4>2. e.type # pipe
        BY <1>7 DEF Pipes
      <4> QED
        BY <1>3, <2>2, <4>1, <4>2, LeadsLast
    <3>2. p \in Procs
      BY <1>2 DEF CallOk
    <3>3. out[p] \in Outputs
      BY <3>2 DEF Types, ProcTypes
    <3>4. out[p] = [pipe \in Pipes |-> out[p][pipe]]
      BY <3>3 DEF Outputs
    <3>5. got[c] = [pipe \in Pipes |-> got[c][pipe]]
      BY <1>3
    <3> QED
      BY <3>1, <3>4, <3>5
  <2>5. ResultOk(c)'
    BY <1>1, <1>2, <2>1, <2>2, <2>3, <2>4, GivenResult DEF StreamOps
  <2>6. ReadOk(c)' /\ ListensOn(c)
    BY <1>1, <2>3, NotReading DEF ListensOn
  <2> QED
    BY <2>5, <2>6 DEF StreamOk
<1> QED
  BY <1>5, <1>6, <1>7

\* exec is aborted.
LEMMA ExecAbortsStream ==
  ASSUME Types, NEW c \in Waiters, CallOk(c), ResultOk(c), ExecAborts(c)
  PROVE  StreamOk(c)
<1>1. OnlyStarts /\ out' = out /\ got' = got /\ listeners' = listeners
  BY DEF ExecAborts, procVars, OnlyStarts
<1>2. call[c].pc = "read" /\ call[c].op = "exec" /\ Leave(c, "aborted") /\ "aborted" \in Results
  BY DEF ExecAborts, Reads, Results
<1>3. /\ call'[c].op = call[c].op /\ call'[c].of = call[c].of
      /\ call'[c].timed = call[c].timed /\ call'[c].pc = "done"
      /\ call'[c].result = IF call[c].result = "none" THEN "aborted" ELSE call[c].result
  BY <1>2, LeaveEffect DEF Types
<1>4. ResultOk(c)'
  BY <1>1, <1>2, <1>3, GivenResult
<1>5. ReadOk(c)' /\ ListensOn(c)
  BY <1>1, <1>3, NotReading DEF ListensOn
<1> QED
  BY <1>4, <1>5 DEF StreamOk

\* The port watch has answered.
LEMMA PortEventStream ==
  ASSUME Types, NEW c \in Waiters, CallOk(c), ReadOk(c), ResultOk(c), PortEvent(c)
  PROVE  StreamOk(c)
<1> DEFINE e == Head(chan[c])
<1>1. OnlyStarts /\ out' = out /\ got' = got /\ listeners' = listeners
  BY DEF PortEvent, procVars, OnlyStarts
<1>2. /\ call[c].pc = "read" /\ call[c].op \in {"waitPort", "opencode"}
      /\ chan[c] # << >> /\ Kinds(c)
  BY DEF PortEvent, Reads, ReadOk
<1>3. chan[c] \in Seq(Events) /\ call \in [Waiters -> Known]
  BY DEF Types, CallTypes
<1>4. e \in Events /\ e = chan[c][1] /\ 1 \in DOMAIN chan[c]
  BY <1>2, <1>3
<1>5. e.type # "ready" => status[call[c].of] \in Over
  <2>1. e.type \in Pipes \cup {"exit", "ready"}
    BY <1>4, EventTypes
  <2>2. e.type \notin Pipes
    BY <1>2, <1>4 DEF Kinds, StreamOps
  <2> QED
    BY <1>2, <1>4, <2>1, <2>2 DEF Kinds
<1>6. ListensOn(c)
  BY <1>1, <1>2 DEF ListensOn, StreamOps
<1>7. CASE call[c].op = "opencode" /\ Failed(c)
  <2>1. /\ call'[c].op = call[c].op /\ call'[c].of = call[c].of
        /\ call'[c].timed = call[c].timed
        /\ call'[c].pc = "stderr" /\ call'[c].result = call[c].result
    BY <1>2, <1>3, <1>7, FailedEffect
  <2>2. ResultOk(c)'
    BY <1>1, <1>2, <2>1, SameResult
  <2> QED
    BY <1>6, <2>1, <2>2, NotReading DEF StreamOk
<1>8. ASSUME NEW r \in {"found", "exited"}, Settle(c, r),
             r = "exited" => status[call[c].of] \in Over /\ call[c].op = "waitPort"
      PROVE  StreamOk(c)
  <2>1. r \in Results
    BY DEF Results
  <2>2. /\ call'[c].op = call[c].op /\ call'[c].of = call[c].of
        /\ call'[c].timed = call[c].timed /\ call'[c].pc = "done"
        /\ call'[c].result = IF call[c].result = "none" THEN r ELSE call[c].result
    BY <1>3, <1>8, <2>1, SettleEffect
  <2>3. ResultOk(c)'
    BY <1>1, <1>2, <1>8, <2>1, <2>2, GivenResult
  <2> QED
    BY <1>6, <2>2, <2>3, NotReading DEF StreamOk
<1>9. \/ Settle(c, "found")
      \/ e.type # "ready" /\ call[c].op = "opencode" /\ Failed(c)
      \/ e.type # "ready" /\ call[c].op # "opencode" /\ Settle(c, "exited")
  BY DEF PortEvent
<1> QED
  BY <1>2, <1>5, <1>7, <1>8, <1>9

\* A stream breaks.
LEMMA StreamBreaksStream ==
  ASSUME Types, NEW c \in Waiters, CallOk(c), ResultOk(c), StreamBreaks(c)
  PROVE  StreamOk(c)
<1>1. OnlyStarts /\ out' = out /\ got' = got /\ listeners' = listeners
  BY DEF StreamBreaks, procVars, OnlyStarts
<1>2. call[c].pc = "read" /\ Failed(c) /\ call \in [Waiters -> Known] /\ "lost" \in Results
  BY DEF StreamBreaks, Types, CallTypes, Results
<1>3. /\ call'[c].op = call[c].op /\ call'[c].of = call[c].of
      /\ call'[c].timed = call[c].timed
      /\ \/ call[c].op = "opencode" /\ call'[c].pc = "stderr" /\ call'[c].result = call[c].result
         \/ /\ call[c].op # "opencode" /\ call'[c].pc = "done"
            /\ call'[c].result = IF call[c].result = "none" THEN "lost" ELSE call[c].result
  BY <1>2, FailedEffect
<1>4. ListensOn(c)
  BY <1>1, <1>3 DEF ListensOn, StreamOps
<1>5. ReadOk(c)'
  BY <1>3, NotReading
<1>6. ResultOk(c)'
  <2>1. CASE call'[c].pc = "stderr"
    BY <1>1, <1>2, <1>3, <2>1, SameResult
  <2>2. CASE call'[c].pc = "done"
    BY <1>1, <1>2, <1>3, <2>2, GivenResult
  <2> QED
    BY <1>3, <2>1, <2>2
<1> QED
  BY <1>4, <1>5, <1>6 DEF StreamOk

\* A stream just ends: waitForLog presumes an exit, unless it has found its line.
LEMMA StreamEndsStream ==
  ASSUME Types, NEW c \in Waiters, CallOk(c), ReadOk(c), ResultOk(c), StreamEnds(c)
  PROVE  StreamOk(c)
<1>1. OnlyStarts /\ out' = out /\ got' = got /\ listeners' = listeners
  BY DEF StreamEnds, procVars, OnlyStarts
<1>2. call[c].pc = "read" /\ call \in [Waiters -> Known] /\ Looked(c)
  BY DEF StreamEnds, Types, CallTypes, ReadOk
<1>3. ASSUME NEW r \in {"found", "presumed", "silent"}, Settle(c, r),
             r = "found" /\ call[c].op = "waitLog" => Matches(out[call[c].of])
      PROVE  StreamOk(c)
  <2>1. r \in Results
    BY DEF Results
  <2>2. /\ call'[c].op = call[c].op /\ call'[c].of = call[c].of
        /\ call'[c].timed = call[c].timed /\ call'[c].pc = "done"
        /\ call'[c].result = IF call[c].result = "none" THEN r ELSE call[c].result
    BY <1>2, <1>3, <2>1, SettleEffect
  <2>3. ResultOk(c)'
    BY <1>1, <1>2, <1>3, <2>1, <2>2, GivenResult
  <2>4. ReadOk(c)' /\ ListensOn(c)
    BY <1>1, <2>2, NotReading DEF ListensOn
  <2> QED
    BY <2>3, <2>4 DEF StreamOk
<1>4. CASE Failed(c) /\ call[c].op \notin {"waitLog", "start"}
  <2>1. /\ call'[c].op = call[c].op /\ call'[c].of = call[c].of
        /\ call'[c].timed = call[c].timed
        /\ \/ call[c].op = "opencode" /\ call'[c].pc = "stderr" /\ call'[c].result = call[c].result
           \/ /\ call[c].op # "opencode" /\ call'[c].pc = "done"
              /\ call'[c].result = IF call[c].result = "none" THEN "lost" ELSE call[c].result
    BY <1>2, <1>4, FailedEffect
  <2>2. ReadOk(c)' /\ ListensOn(c)
    BY <1>1, <2>1, NotReading DEF ListensOn, StreamOps
  <2>3. CASE call'[c].pc = "stderr"
    <3>1. ResultOk(c)'
      BY <1>1, <1>2, <2>1, <2>3, SameResult
    <3> QED
      BY <2>2, <3>1 DEF StreamOk
  <2>4. CASE call'[c].pc = "done"
    <3>1. "lost" \in Results
      BY DEF Results
    <3>2. ResultOk(c)'
      BY <1>1, <1>2, <2>1, <2>4, <3>1, GivenResult
    <3> QED
      BY <2>2, <3>2 DEF StreamOk
  <2> QED
    BY <2>1, <2>3, <2>4
<1>5. \/ call[c].matched /\ Settle(c, "found")
      \/ Settle(c, "presumed")
      \/ call[c].op = "start" /\ Settle(c, "silent")
      \/ Failed(c) /\ call[c].op \notin {"waitLog", "start"}
  BY DEF StreamEnds
<1>6. call[c].op = "waitLog" /\ call[c].matched => Matches(out[call[c].of])
  BY <1>2 DEF Looked
<1> QED
  BY <1>3, <1>4, <1>5, <1>6

\* The timer wins; a log reader goes on behind it.
LEMMA TimeoutStream ==
  ASSUME Types, NEW c \in Waiters, CallOk(c), ReadOk(c), ResultOk(c), Timeout(c)
  PROVE  StreamOk(c)
<1>1. /\ OnlyStarts /\ out' = out /\ got' = got /\ status' = status /\ aborted' = aborted
      /\ listeners' = listeners
  BY DEF Timeout, procVars, OnlyStarts
<1>2. /\ call[c].pc = "read" /\ call[c].timed /\ call[c].result = "none"
      /\ call \in [Waiters -> Known] /\ call[c] \in Known
  BY DEF Timeout, Types, CallTypes
<1>3. CASE call' = [call EXCEPT ![c].result = "timeout"] /\ chan' = chan
  <2> DEFINE n == [call[c] EXCEPT !.result = "timeout"]
  <2>1. call' = [call EXCEPT ![c] = n]
    BY <1>3
  <2>2. /\ n.op = call[c].op /\ n.of = call[c].of /\ n.timed = call[c].timed
        /\ n.pc = call[c].pc /\ n.result = "timeout"
        /\ n.matched = call[c].matched /\ n.pending = call[c].pending
    BY <1>2 DEF Known
  <2> HIDE DEF n
  <2>3. call'[c] = n
    BY <1>2, <2>1
  <2>4. ResultOk(c)'
    BY <1>2, <2>2, <2>3 DEF ResultOk, AnswerOk
  <2>5. Kinds(c) /\ Fed(c) /\ Whole(c) /\ Looked(c)
    BY <1>2 DEF ReadOk
  <2>6. Kinds(c)'
    BY <1>1, <1>3, <2>2, <2>3, <2>5 DEF Kinds
  <2>7. Fed(c)'
    BY <1>1, <2>2, <2>3, <2>5 DEF Fed
  <2>8. Whole(c)'
    BY <1>1, <1>3, <2>2, <2>3, <2>5 DEF Whole, Unbroken
  <2>9. Looked(c)'
    BY <1>1, <1>3, <2>2, <2>3, <2>5 DEF Looked, Unbroken
  <2>10. ListensOn(c)
    BY <1>1, <1>2, <2>2, <2>3 DEF ListensOn
  <2> QED
    BY <2>4, <2>6, <2>7, <2>8, <2>9, <2>10 DEF StreamOk, ReadOk
<1>4. CASE call[c].op = "waitPort" /\ Settle(c, "timeout")
  <2>1. /\ call'[c].op = call[c].op /\ call'[c].of = call[c].of
        /\ call'[c].timed = call[c].timed /\ call'[c].pc = "done"
        /\ call'[c].result = IF call[c].result = "none" THEN "timeout" ELSE call[c].result
        /\ "timeout" \in Results
    BY <1>2, <1>4, SettleEffect DEF Results
  <2>2. ResultOk(c)'
    BY <1>1, <1>2, <2>1, GivenResult
  <2>3. ReadOk(c)' /\ ListensOn(c)
    BY <1>1, <2>1, NotReading DEF ListensOn
  <2> QED
    BY <2>2, <2>3 DEF StreamOk
<1>5. CASE call[c].op = "opencode" /\ call' = [call EXCEPT ![c].pc = "stderr"]
  <2>1. /\ call'[c].op = call[c].op /\ call'[c].of = call[c].of
        /\ call'[c].timed = call[c].timed /\ call'[c].pc = "stderr"
        /\ call'[c].result = call[c].result
    BY <1>2, <1>5, PcEffect DEF Awaiting
  <2>2. ResultOk(c)'
    BY <1>1, <1>2, <2>1, SameResult
  <2>3. ReadOk(c)' /\ ListensOn(c)
    BY <1>1, <1>5, <2>1, NotReading DEF ListensOn, StreamOps
  <2> QED
    BY <2>2, <2>3 DEF StreamOk
<1>6. \/ call' = [call EXCEPT ![c].result = "timeout"] /\ chan' = chan
      \/ call[c].op = "waitPort" /\ Settle(c, "timeout")
      \/ call[c].op = "opencode" /\ call' = [call EXCEPT ![c].pc = "stderr"]
  BY Zenon DEF Timeout
<1> QED
  BY <1>3, <1>4, <1>5, <1>6

\* The watch of a port says that the process is over only when it is.
LEMMA WatchStream ==
  ASSUME Types, NEW c \in Waiters, CallOk(c), ReadOk(c), ResultOk(c), Watch(c) \/ WatchStuck(c)
  PROVE  StreamOk(c)
<1>1. /\ OnlyStarts /\ out' = out /\ got' = got /\ status' = status /\ aborted' = aborted
      /\ listeners' = listeners /\ call' = call
  BY DEF Watch, WatchStatus, WatchCheck, WatchWakes, WatchStuck, procVars, OnlyStarts
<1>2. call[c].op \in {"waitPort", "opencode"}
  BY DEF Watch, WatchStatus, WatchCheck, WatchWakes, WatchStuck, CallOk
<1>3. ResultOk(c)'
  BY <1>1, SameResult
<1>4. ListensOn(c)
  BY <1>1 DEF ListensOn
<1>5. PICK e \in Events :
        /\ chan' = chan \/ Emit(c, e)
        /\ e.type \notin Pipes
        /\ e.type = "exit" => status[call[c].of] \in Over
  <2>1. \/ chan' = chan
        \/ Emit(c, Signalled("exit")) /\ status[call[c].of] \in Over
        \/ Emit(c, Signalled("ready"))
    BY DEF Watch, WatchStatus, WatchCheck, WatchWakes, WatchStuck
  <2> DEFINE x == Signalled("exit")
             y == Signalled("ready")
  <2>2. x \in Events /\ y \in Events /\ x.type = "exit" /\ y.type = "ready"
    BY EventTypes
  <2> HIDE DEF x, y
  <2>3. x.type \notin Pipes /\ y.type \notin Pipes /\ y.type # "exit"
    BY <2>2 DEF Pipes
  <2>4. \/ chan' = chan
        \/ Emit(c, x) /\ status[call[c].of] \in Over
        \/ Emit(c, y)
    BY <2>1 DEF x, y
  <2> QED
    BY <2>2, <2>3, <2>4
<1>6. chan \in [Waiters -> Seq(Events)]
  BY DEF Types, CallTypes
<1>7. chan'[c] = chan[c] \/ chan'[c] = Append(chan[c], e)
  BY <1>5, <1>6, EmitEffect
<1>8. ReadOk(c)'
  <2> SUFFICES ASSUME call[c].pc = "read"
               PROVE  Kinds(c)' /\ Fed(c)' /\ Whole(c)' /\ Looked(c)'
    BY <1>1 DEF ReadOk
  <2>1. Kinds(c)
    BY DEF ReadOk
  <2>2. \A i \in DOMAIN Append(chan[c], e) :
          \/ i \in DOMAIN chan[c] /\ Append(chan[c], e)[i] = chan[c][i]
          \/ Append(chan[c], e)[i] = e
    BY <1>6
  <2>3. e.type \in {"exit", "ready"}
    BY <1>5, EventTypes
  <2>4. Kinds(c)'
    <3>1. CASE chan'[c] = chan[c]
      BY <1>1, <2>1, <3>1 DEF Kinds
    <3>2. CASE chan'[c] = Append(chan[c], e)
      BY <1>1, <1>2, <1>5, <2>1, <2>2, <2>3, <3>2 DEF Kinds, StreamOps
    <3> QED
      BY <1>7, <3>1, <3>2
  <2>5. call'[c].op \notin StreamOps
    BY <1>1, <1>2 DEF StreamOps
  <2>6. Fed(c)' /\ Whole(c)' /\ Looked(c)'
    BY <2>5 DEF Fed, Whole, Looked, StreamOps
  <2> QED
    BY <2>4, <2>6
<1> QED
  BY <1>3, <1>4, <1>8 DEF StreamOk

\* Every step of a call keeps its stream in order.
LEMMA CallStreams ==
  ASSUME Types, NEW c \in Waiters, CallOk(c), ReadOk(c), ResultOk(c), CallNext(c)
  PROVE  StreamOk(c)
BY BeginStream, RequestStream, OpenLateStream, OpenStream, LogOutputStream, LogExitStream,
   StreamEventStream, ExecAbortsStream, PortEventStream, StreamBreaksStream, StreamEndsStream,
   TimeoutStream, WatchStream, Zenon DEF CallNext, Proceeds

-----------------------------------------------------------------------------
(* A step of a call, seen from the others, and the steps of processes *)

\* A step of one call disturbs no other.
LEMMA OtherStreams ==
  ASSUME Types, CallsInv, StreamsInv, NEW c \in Waiters, StepOk(c), StreamOk(c)
  PROVE  StreamsInv'
<1>1. /\ OnlyStarts /\ out' = out /\ aborted' = aborted
      /\ \A d \in Waiters \ {c} : /\ call'[d] = call[d] /\ got'[d] = got[d] /\ chan'[d] = chan[d]
      /\ \/ listeners' = listeners
         \/ listeners' = [listeners EXCEPT ![call[c].of] = Append(@, c)]
  BY DEF StepOk, OnlyOf
<1>2. ListenInv /\ ListensOn(c)
  BY DEF StreamsInv, StreamOk
<1>3. listeners \in [Procs -> Seq(Waiters)]
  BY DEF Types, ProcTypes
<1>4. \A p \in Procs :
        \/ listeners'[p] = listeners[p]
        \/ listeners'[p] = Append(listeners[p], c) /\ p = call[c].of /\ listeners' # listeners
  BY <1>1, <1>3
<1>5. \A p \in Procs : \A i \in DOMAIN listeners[p] :
        i \in DOMAIN listeners'[p] /\ listeners'[p][i] = listeners[p][i]
  <2> TAKE p \in Procs
  <2> TAKE i \in DOMAIN listeners[p]
  <2>1. listeners[p] \in Seq(Waiters)
    BY <1>3
  <2>2. i \in DOMAIN Append(listeners[p], c) /\ Append(listeners[p], c)[i] = listeners[p][i]
    BY <2>1
  <2> QED
    BY <1>4, <2>2
<1>6. \A p \in Procs : \A i \in DOMAIN listeners'[p] :
        \/ i \in DOMAIN listeners[p] /\ listeners'[p][i] = listeners[p][i]
        \/ listeners'[p][i] = c /\ p = call[c].of /\ listeners' # listeners
  <2> TAKE p \in Procs
  <2> TAKE i \in DOMAIN listeners'[p]
  <2>1. listeners[p] \in Seq(Waiters)
    BY <1>3
  <2>2. \A j \in DOMAIN Append(listeners[p], c) :
          \/ j \in DOMAIN listeners[p] /\ Append(listeners[p], c)[j] = listeners[p][j]
          \/ Append(listeners[p], c)[j] = c
    BY <2>1
  <2> QED
    BY <1>4, <2>2
<1>7. ListenInv'
  <2> SUFFICES ASSUME NEW p \in Procs, NEW i \in DOMAIN listeners'[p]
               PROVE  LET d == listeners'[p][i]
                      IN call'[d].of = p /\ call'[d].op \in StreamOps /\ call'[d].pc \in {"read", "done"}
    BY DEF ListenInv
  <2> DEFINE d == listeners'[p][i]
  <2>1. CASE i \in DOMAIN listeners[p] /\ d = listeners[p][i]
    <3>1. call[d].of = p /\ call[d].op \in StreamOps /\ call[d].pc \in {"read", "done"}
      BY <1>2, <2>1 DEF ListenInv
    <3>2. d \in Waiters
      <4>1. listeners[p] \in Seq(Waiters)
        BY <1>3
      <4> QED
        BY <2>1, <4>1
    <3>3. CASE d = c
      BY <1>2, <3>1, <3>3 DEF ListensOn
    <3>4. CASE d # c
      BY <1>1, <3>1, <3>2, <3>4
    <3> QED
      BY <3>3, <3>4
  <2>2. CASE d = c /\ p = call[c].of /\ listeners' # listeners
    BY <1>2, <2>2 DEF ListensOn
  <2> QED
    BY <1>6, <2>1, <2>2
<1>8. ASSUME NEW d \in Waiters
      PROVE  ReadOk(d)' /\ ResultOk(d)'
  <2>1. CASE d = c
    BY <2>1 DEF StreamOk
  <2>2. CASE d # c
    <3>1. call'[d] = call[d] /\ got'[d] = got[d] /\ chan'[d] = chan[d]
      BY <1>1, <2>2
    <3>2. CallOk(d) /\ ReadOk(d) /\ ResultOk(d)
      BY DEF CallsInv, StreamsInv
    <3>3. ResultOk(d)'
      BY <1>1, <3>1, <3>2, SameResult
    <3>4. ReadOk(d)'
      <4> SUFFICES ASSUME call[d].pc = "read"
                   PROVE  Kinds(d)' /\ Fed(d)' /\ Whole(d)' /\ Looked(d)'
        BY <3>1 DEF ReadOk
      <4>1. Kinds(d) /\ Fed(d) /\ Whole(d) /\ Looked(d)
        BY <3>2 DEF ReadOk
      <4>2. call[d].of \in Procs /\ status[call[d].of] # "none"
        BY <3>2 DEF CallOk
      <4>3. status'[call[d].of] = status[call[d].of]
        BY <1>1, <4>2, OverStays
      <4>4. Kinds(d)'
        BY <3>1, <4>1, <4>3 DEF Kinds
      <4>5. Fed(d)'
        BY <1>1, <1>5, <3>1, <4>1, <4>2, <4>3 DEF Fed
      <4>6. Whole(d)'
        BY <1>1, <3>1, <4>1 DEF Whole, Unbroken
      <4>7. Looked(d)'
        BY <1>1, <3>1, <4>1 DEF Looked, Unbroken
      <4> QED
        BY <4>4, <4>5, <4>6, <4>7
    <3> QED
      BY <3>3, <3>4
  <2> QED
    BY <2>1, <2>2
<1> QED
  BY <1>7, <1>8 DEF StreamsInv

\* The reader c of a stream of the process p hears what p says.
LEMMA Hears ==
  ASSUME Types, ListenInv, NEW p \in Procs, NEW e \in Events, NEW c \in Waiters,
         chan' = Delivered(p, e), aborted' = [aborted EXCEPT ![p] = Throws(p)],
         call[c].pc = "read", Fed(c), status[p] = "running", ~ aborted[p]
  PROVE  /\ \/ chan'[c] = chan[c]
            \/ chan'[c] = Append(chan[c], e) /\ call[c].of = p /\ call[c].op \in StreamOps
         /\ call[c].of = p /\ call[c].op \in StreamOps /\ ~ aborted'[p] => chan'[c] = Append(chan[c], e)
<1>1. chan \in [Waiters -> Seq(Events)] /\ listeners \in [Procs -> Seq(Waiters)]
      /\ aborted \in [Procs -> BOOLEAN]
  BY DEF Types, ProcTypes, CallTypes
<1>2. \/ chan'[c] = chan[c]
      \/ (\E i \in DOMAIN listeners[p] : listeners[p][i] = c) /\ chan'[c] = Append(chan[c], e)
  BY <1>1, DeliveredEffect
<1>3. (\E i \in DOMAIN listeners[p] : listeners[p][i] = c) => call[c].of = p /\ call[c].op \in StreamOps
  BY DEF ListenInv
<1>4. ASSUME call[c].of = p, call[c].op \in StreamOps, ~ aborted'[p]
      PROVE  chan'[c] = Append(chan[c], e)
  <2>1. ~ Throws(p)
    BY <1>1, <1>4
  <2>2. \E i \in DOMAIN listeners[p] : listeners[p][i] = c
    BY <1>4 DEF Fed
  <2> QED
    BY <1>1, <2>1, <2>2, DeliveredEffect
<1> QED
  BY <1>2, <1>3, <1>4

\* A reader sees nothing of the steps of other processes.
LEMMA Elsewhere ==
  ASSUME NEW c, ReadOk(c), call' = call, got' = got, chan'[c] = chan[c],
         call[c].pc = "read" =>
           /\ status'[call[c].of] = status[call[c].of]
           /\ aborted'[call[c].of] = aborted[call[c].of]
           /\ out'[call[c].of] = out[call[c].of]
           /\ listeners'[call[c].of] = listeners[call[c].of]
  PROVE  ReadOk(c)'
<1> SUFFICES ASSUME call[c].pc = "read"
             PROVE  Kinds(c)' /\ Fed(c)' /\ Whole(c)' /\ Looked(c)'
  BY DEF ReadOk
<1>1. Kinds(c) /\ Fed(c) /\ Whole(c) /\ Looked(c)
  BY DEF ReadOk
<1>2. Kinds(c)'
  BY <1>1 DEF Kinds
<1>3. Fed(c)'
  BY <1>1 DEF Fed
<1>4. Whole(c)'
  BY <1>1 DEF Whole, Unbroken
<1>5. Looked(c)'
  BY <1>1 DEF Looked, Unbroken
<1> QED
  BY <1>2, <1>3, <1>4, <1>5

\* What was printed stays printed, and a process that is over prints nothing.
LEMMA AnswersStay ==
  ASSUME Types, NEW c \in Waiters, CallOk(c), ResultOk(c), call' = call, got' = got,
         \A q \in Procs : status[q] \in Over => status'[q] \in Over /\ out'[q] = out[q],
         \A q \in Procs : Matches(out[q]) => Matches(out'[q])
  PROVE  ResultOk(c)'
<1>1. call[c].op \in StreamOps \cup {"waitPort"} => call[c].of \in Procs
  BY DEF CallOk
<1>2. call[c].of \in Procs \cup {NoProc}
  <2>1. call[c] \in Known
    BY DEF Types, CallTypes
  <2> QED
    BY <2>1 DEF Known
<1>3. CASE call[c].result = "exited"
  <2>1. call[c].of \in Procs /\ status[call[c].of] \in Over
    BY <1>1, <1>3 DEF ResultOk, AnswerOk
  <2>2. status'[call[c].of] \in Over /\ out'[call[c].of] = out[call[c].of]
    BY <2>1
  <2> QED
    BY <1>3, <2>2 DEF ResultOk, AnswerOk
<1>4. CASE call[c].result # "exited"
  <2>1. call[c].op = "waitLog" /\ call[c].result = "found" => Matches(out'[call[c].of])
    BY <1>1 DEF ResultOk, AnswerOk, StreamOps
  <2>2. call[c].op = "opencode" /\ call[c].result = "given up" /\ call[c].of # NoProc
          => status'[call[c].of] \in Over
    BY <1>2 DEF ResultOk, AnswerOk
  <2> QED
    BY <1>4, <2>1, <2>2 DEF ResultOk, AnswerOk
<1> QED
  BY <1>3, <1>4

\* Steps of a process that nobody hears.
LEMMA QuietStreams ==
  ASSUME Types, CallsInv, StreamsInv, NEW p \in Procs,
         startProcess(p) \/ Exits(p) \/ Kill(p) \/ KillStored(p) \/ Listens(p)
  PROVE  StreamsInv'
<1>1. /\ call' = call /\ got' = got /\ chan' = chan /\ out' = out /\ aborted' = aborted
      /\ listeners' = listeners
  BY DEF startProcess, Exits, Kill, KillStored, Listens
<1>2. \A q \in Procs : status[q] # "none" =>
        status'[q] = status[q] \/ (status[q] = "running" /\ status'[q] \in Over)
  BY DEF startProcess, Exits, Kill, KillStored, Listens, Launch, Over, Types, ProcTypes
<1>3. \A q \in Procs : status[q] \in Over => status'[q] \in Over
  BY <1>2 DEF Over
<1>4. ListenInv'
  BY <1>1 DEF StreamsInv, ListenInv
<1>5. ASSUME NEW c \in Waiters
      PROVE  ReadOk(c)' /\ ResultOk(c)'
  <2>1. CallOk(c) /\ ReadOk(c) /\ ResultOk(c)
    BY DEF CallsInv, StreamsInv
  <2>2. ResultOk(c)'
    BY <1>1, <1>3, <2>1, AnswersStay
  <2>3. ReadOk(c)'
    <3> SUFFICES ASSUME call[c].pc = "read"
                 PROVE  Kinds(c)' /\ Fed(c)' /\ Whole(c)' /\ Looked(c)'
      BY <1>1 DEF ReadOk
    <3>1. Kinds(c) /\ Fed(c) /\ Whole(c) /\ Looked(c)
      BY <2>1 DEF ReadOk
    <3>2. call[c].of \in Procs /\ status[call[c].of] # "none"
      BY <2>1 DEF CallOk
    <3>3. \/ status'[call[c].of] = status[call[c].of]
          \/ status[call[c].of] = "running" /\ status'[call[c].of] \in Over
      BY <1>2, <3>2
    <3>4. Kinds(c)'
      BY <1>1, <1>3, <3>1, <3>2 DEF Kinds
    <3>5. Fed(c)'
      BY <1>1, <3>1, <3>3 DEF Fed, Over
    <3>6. Whole(c)'
      BY <1>1, <3>1 DEF Whole, Unbroken
    <3>7. Looked(c)'
      BY <1>1, <3>1 DEF Looked, Unbroken
    <3> QED
      BY <3>4, <3>5, <3>6, <3>7
  <2> QED
    BY <2>2, <2>3
<1> QED
  BY <1>4, <1>5 DEF StreamsInv

\* The output of a process is lines.
LEMMA OutType ==
  ASSUME Types, NEW p \in Procs
  PROVE  \A pipe \in Pipes : out[p][pipe] \in Seq(Lines)
<1> TAKE pipe \in Pipes
<1>1. out[p] \in Outputs
  BY DEF Types, ProcTypes
<1>2. out[p][pipe] \in UNION {[1..n -> Lines] : n \in 0..MaxLines}
  BY <1>1 DEF Outputs
<1> QED
  BY <1>2, BoundedLines

\* A process that runs has sent nobody its end.
LEMMA NoEndYet ==
  ASSUME NEW c, Kinds(c), status[call[c].of] = "running"
  PROVE  ~ Ends(chan[c])
BY DEF Kinds, Ends, Over

\* The end of a process: who listened gets it, and has got all that was printed.
LEMMA CompletesStreams ==
  ASSUME Types, CallsInv, StreamsInv, NEW p \in Procs, Completes(p)
  PROVE  StreamsInv'
<1> DEFINE e == Signalled("exit")
<1>1. /\ call' = call /\ got' = got /\ out' = out
      /\ status[p] = "running" /\ ~ aborted[p]
      /\ status' = [status EXCEPT ![p] = "ended"]
      /\ chan' = Delivered(p, e)
      /\ listeners' = [listeners EXCEPT ![p] = << >>]
      /\ aborted' = [aborted EXCEPT ![p] = Throws(p)]
  BY DEF Completes
<1>2. e \in Events /\ e.type = "exit" /\ e.lines = << >>
  BY EventTypes
<1> HIDE DEF e
<1>3. /\ status \in [Procs -> {"none", "running"} \cup Over]
      /\ listeners \in [Procs -> Seq(Waiters)] /\ aborted \in [Procs -> BOOLEAN]
      /\ chan \in [Waiters -> Seq(Events)]
  BY DEF Types, ProcTypes, CallTypes
<1>4. /\ status'[p] = "ended" /\ listeners'[p] = << >>
      /\ \A q \in Procs \ {p} : /\ status'[q] = status[q] /\ listeners'[q] = listeners[q]
                                /\ aborted'[q] = aborted[q]
  BY <1>1, <1>3
<1>5. \A q \in Procs : status[q] \in Over => status'[q] \in Over
  BY <1>4 DEF Over
<1>6. ListenInv /\ \A c \in Waiters : CallOk(c) /\ ReadOk(c) /\ ResultOk(c)
  BY DEF StreamsInv, CallsInv
<1>7. ListenInv'
  <2>1. DOMAIN << >> = {}
    OBVIOUS
  <2> SUFFICES ASSUME NEW q \in Procs, NEW i \in DOMAIN listeners'[q]
               PROVE  LET d == listeners'[q][i]
                      IN call'[d].of = q /\ call'[d].op \in StreamOps /\ call'[d].pc \in {"read", "done"}
    BY DEF ListenInv
  <2>2. q # p
    BY <1>4, <2>1
  <2> QED
    BY <1>1, <1>4, <1>6, <2>2 DEF ListenInv
<1>8. ASSUME NEW c \in Waiters
      PROVE  ReadOk(c)' /\ ResultOk(c)'
  <2>1. CallOk(c) /\ ReadOk(c) /\ ResultOk(c)
    BY <1>6
  <2>2. ResultOk(c)'
    BY <1>1, <1>5, <2>1, AnswersStay
  <2>3. ReadOk(c)'
    <3>1. CASE call[c].pc # "read"
      BY <1>1, <3>1 DEF ReadOk
    <3>2. CASE call[c].pc = "read"
      <4>1. Kinds(c) /\ Fed(c) /\ Whole(c) /\ Looked(c) /\ call[c].of \in Procs
        BY <2>1, <3>2 DEF ReadOk, CallOk
      <4>2. \/ chan'[c] = chan[c]
            \/ chan'[c] = Append(chan[c], e) /\ call[c].of = p /\ call[c].op \in StreamOps
        BY <1>1, <1>2, <1>6, <3>2, <4>1, Hears
      <4>3. CASE call[c].of # p
        BY <1>1, <1>4, <2>1, <4>1, <4>2, <4>3, Elsewhere
      <4>4. CASE call[c].of = p
        <5>1. ~ Ends(chan[c]) /\ Unbroken(c)
          BY <1>1, <4>1, <4>4, NoEndYet DEF Unbroken
        <5>2. Kinds(c)'
          <6>1. CASE chan'[c] = chan[c]
            BY <1>1, <4>1, <4>4, <5>1, <6>1 DEF Kinds, Ends
          <6>2. CASE chan'[c] = Append(chan[c], e) /\ call[c].op \in StreamOps
            <7>1. \A i \in DOMAIN Append(chan[c], e) :
                    \/ i \in DOMAIN chan[c] /\ Append(chan[c], e)[i] = chan[c][i]
                    \/ Append(chan[c], e)[i] = e /\ i = Len(Append(chan[c], e))
              BY <1>3
            <7>2. "exit" \notin Pipes
              BY DEF Pipes
            <7> QED
              BY <1>1, <1>2, <1>4, <4>1, <4>4, <5>1, <6>2, <7>1, <7>2 DEF Kinds, Ends, Over
          <6> QED
            BY <4>2, <6>1, <6>2
        <5>3. Fed(c)'
          BY <1>1, <1>4, <4>4 DEF Fed
        <5>4. Whole(c)'
          <6> SUFFICES ASSUME call[c].op \in {"exec", "start"}, NEW pipe \in Pipes
                       PROVE  Leads(got[c][pipe], chan'[c], out[p][pipe], pipe)
            BY <1>1, <4>4 DEF Whole
          <6>1. Leads(got[c][pipe], chan[c], out[p][pipe], pipe)
            BY <4>1, <4>4, <5>1 DEF Whole
          <6>2. e.type # pipe /\ out[p][pipe] \in Seq(Lines)
            BY <1>2, OutType DEF Pipes
          <6>3. Leads(got[c][pipe], Append(chan[c], e),
                      IF e.type = pipe THEN out[p][pipe] \o e.lines ELSE out[p][pipe], pipe)
            BY <1>2, <1>3, <6>1, <6>2, LeadsMore
          <6> QED
            BY <4>2, <6>1, <6>2, <6>3
        <5>5. Looked(c)'
          <6>1. ~ Contains(<< >>, "ready")
            BY DEF Contains
          <6>2. HasReady(chan'[c]) <=> HasReady(chan[c])
            <7>1. chan[c] \in Seq(Events)
              BY <1>3
            <7>2. HasReady(Append(chan[c], e)) <=> HasReady(chan[c]) \/ Contains(e.lines, "ready")
              BY <1>2, <7>1, OneMore
            <7>3. ~ Contains(e.lines, "ready")
              BY <1>2, <6>1
            <7> QED
              BY <4>2, <7>2, <7>3
          <6> QED
            BY <1>1, <4>1, <5>1, <6>2 DEF Looked
        <5> QED
          BY <5>2, <5>3, <5>4, <5>5 DEF ReadOk
      <4> QED
        BY <4>3, <4>4
    <3> QED
      BY <3>1, <3>2
  <2> QED
    BY <2>2, <2>3
<1> QED
  BY <1>7, <1>8 DEF StreamsInv

\* A line of output: who listens gets it, unless somebody before them throws, and then
\* nobody gets anything more.
LEMMA OutputStreams ==
  ASSUME Types, CallsInv, StreamsInv, NEW p \in Procs, Output(p)
  PROVE  StreamsInv'
<1>1. /\ call' = call /\ got' = got /\ status' = status /\ listeners' = listeners
      /\ status[p] = "running" /\ ~ aborted[p]
      /\ aborted' = [aborted EXCEPT ![p] = Throws(p)]
  BY DEF Output
<1>2. PICK s \in Pipes, line \in Lines :
        /\ Len(out[p][s]) < MaxLines
        /\ out' = [out EXCEPT ![p][s] = Append(@, line)]
        /\ chan' = Delivered(p, [type |-> s, lines |-> << line >>])
  BY DEF Output
<1> DEFINE e == [type |-> s, lines |-> << line >>]
<1>3. e \in Events /\ e.type = s /\ e.lines = << line >> /\ chan' = Delivered(p, e)
  <2>1. << line >> \in Seq(Lines) /\ Len(<< line >>) <= MaxLines /\ << line >> # << >>
    <3>1. out[p][s] \in Seq(Lines)
      BY OutType
    <3> QED
      BY <1>2, <3>1, LinesAssumption
  <2> QED
    BY <1>2, <2>1, EventTypes
<1>4. e.type \in Pipes /\ e.type # "exit" /\ e.type # "ready"
  BY <1>3 DEF Pipes
<1> HIDE DEF e
<1>5. /\ chan \in [Waiters -> Seq(Events)] /\ aborted \in [Procs -> BOOLEAN]
      /\ out \in [Procs -> Outputs]
  BY DEF Types, ProcTypes, CallTypes
<1>6. /\ out'[p][s] = Append(out[p][s], line)
      /\ \A pipe \in Pipes \ {s} : out'[p][pipe] = out[p][pipe]
      /\ \A q \in Procs \ {p} : out'[q] = out[q] /\ aborted'[q] = aborted[q]
  <2>1. out[p] \in [Pipes -> UNION {[1..n -> Lines] : n \in 0..MaxLines}]
    BY <1>5 DEF Outputs
  <2> QED
    BY <1>1, <1>2, <1>5, <2>1
<1>7. out[p][s] \in Seq(Lines) /\ out'[p][s] = out[p][s] \o e.lines
  <2>1. out[p][s] \in Seq(Lines)
    BY OutType
  <2> QED
    BY <1>3, <1>6, <2>1
<1>8. /\ Contains(out'[p][s], "ready") <=> Contains(out[p][s], "ready") \/ line = "ready"
      /\ Contains(e.lines, "ready") <=> line = "ready"
  <2>1. /\ Len(Append(out[p][s], line)) = Len(out[p][s]) + 1
        /\ Append(out[p][s], line)[Len(out[p][s]) + 1] = line
        /\ \A i \in 1..Len(out[p][s]) : Append(out[p][s], line)[i] = out[p][s][i]
        /\ Len(out[p][s]) \in Nat
    BY <1>7
  <2>2. Contains(out'[p][s], "ready") <=> Contains(out[p][s], "ready") \/ line = "ready"
    BY <1>6, <2>1 DEF Contains
  <2>3. Len(<< line >>) = 1 /\ << line >>[1] = line
    OBVIOUS
  <2>4. Contains(e.lines, "ready") <=> line = "ready"
    BY <1>3, <2>3 DEF Contains
  <2> QED
    BY <2>2, <2>4
<1>9. Matches(out'[p]) <=> Matches(out[p]) \/ Contains(e.lines, "ready")
  BY <1>6, <1>8 DEF Matches
<1>10. /\ \A q \in Procs : status[q] \in Over => status'[q] \in Over /\ out'[q] = out[q]
       /\ \A q \in Procs : Matches(out[q]) => Matches(out'[q])
  <2>1. "running" \notin Over
    BY DEF Over
  <2> QED
    BY <1>1, <1>6, <1>9, <2>1
<1>11. ListenInv /\ \A c \in Waiters : CallOk(c) /\ ReadOk(c) /\ ResultOk(c)
  BY DEF StreamsInv, CallsInv
<1>12. ListenInv'
  BY <1>1, <1>11 DEF ListenInv
<1>13. ASSUME NEW c \in Waiters
       PROVE  ReadOk(c)' /\ ResultOk(c)'
  <2>1. CallOk(c) /\ ReadOk(c) /\ ResultOk(c)
    BY <1>11
  <2>2. ResultOk(c)'
    BY <1>1, <1>10, <2>1, AnswersStay
  <2>3. ReadOk(c)'
    <3>1. CASE call[c].pc # "read"
      BY <1>1, <3>1 DEF ReadOk
    <3>2. CASE call[c].pc = "read"
      <4>1. Kinds(c) /\ Fed(c) /\ Whole(c) /\ Looked(c) /\ call[c].of \in Procs
        BY <2>1, <3>2 DEF ReadOk, CallOk
      <4>2. /\ \/ chan'[c] = chan[c]
               \/ chan'[c] = Append(chan[c], e) /\ call[c].of = p /\ call[c].op \in StreamOps
            /\ call[c].of = p /\ call[c].op \in StreamOps /\ ~ aborted'[p] =>
                 chan'[c] = Append(chan[c], e)
        BY <1>1, <1>3, <1>11, <3>2, <4>1, Hears
      <4>3. CASE call[c].of # p
        BY <1>1, <1>6, <2>1, <4>1, <4>2, <4>3, Elsewhere
      <4>4. CASE call[c].of = p
        <5>1. ~ Ends(chan[c]) /\ Unbroken(c) /\ chan[c] \in Seq(Events)
          BY <1>1, <1>5, <4>1, <4>4, NoEndYet DEF Unbroken
        <5>2. /\ HasReady(Append(chan[c], e)) <=> HasReady(chan[c]) \/ Contains(e.lines, "ready")
              /\ Ends(Append(chan[c], e)) <=> Ends(chan[c]) \/ e.type = "exit"
          BY <1>3, <5>1, OneMore
        <5>3. ~ Ends(chan'[c])
          BY <1>4, <4>2, <5>1, <5>2
        <5>4. Unbroken(c)' => ~ aborted'[p]
          BY <1>1, <4>4, <5>3 DEF Unbroken
        <5>5. Kinds(c)'
          <6>1. CASE chan'[c] = chan[c]
            BY <1>1, <4>1, <6>1 DEF Kinds
          <6>2. CASE chan'[c] = Append(chan[c], e) /\ call[c].op \in StreamOps
            <7>1. \A i \in DOMAIN Append(chan[c], e) :
                    \/ i \in DOMAIN chan[c] /\ Append(chan[c], e)[i] = chan[c][i]
                    \/ Append(chan[c], e)[i] = e
              BY <5>1
            <7> QED
              BY <1>1, <1>4, <4>1, <5>1, <6>2, <7>1 DEF Kinds, Ends
          <6> QED
            BY <4>2, <6>1, <6>2
        <5>6. Fed(c)'
          BY <1>1, <4>1, <4>4 DEF Fed
        <5>7. Whole(c)'
          <6> SUFFICES ASSUME call[c].op \in {"exec", "start"}, ~ aborted'[p], NEW pipe \in Pipes
                       PROVE  Leads(got[c][pipe], chan'[c], out'[p][pipe], pipe)
            BY <1>1, <4>4, <5>4 DEF Whole
          <6>1. chan'[c] = Append(chan[c], e)
            BY <4>2, <4>4 DEF StreamOps
          <6>2. Leads(got[c][pipe], chan[c], out[p][pipe], pipe) /\ out[p][pipe] \in Seq(Lines)
            BY <4>1, <4>4, <5>1, OutType DEF Whole
          <6>3. Leads(got[c][pipe], Append(chan[c], e),
                      IF e.type = pipe THEN out[p][pipe] \o e.lines ELSE out[p][pipe], pipe)
            BY <1>3, <5>1, <6>2, LeadsMore
          <6>4. out'[p][pipe] = IF e.type = pipe THEN out[p][pipe] \o e.lines ELSE out[p][pipe]
            BY <1>3, <1>6, <1>7
          <6> QED
            BY <6>1, <6>3, <6>4
        <5>8. Looked(c)'
          <6> SUFFICES ASSUME call[c].op = "waitLog"
                       PROVE  /\ call[c].matched => call[c].pending /\ Matches(out'[p])
                              /\ HasReady(chan'[c]) => Matches(out'[p])
                              /\ Unbroken(c)' /\ Matches(out'[p]) => call[c].matched \/ HasReady(chan'[c])
            BY <1>1, <4>4 DEF Looked
          <6>1. /\ call[c].matched => call[c].pending /\ Matches(out[p])
                /\ HasReady(chan[c]) => Matches(out[p])
                /\ Matches(out[p]) => call[c].matched \/ HasReady(chan[c])
            BY <4>1, <4>4, <5>1 DEF Looked
          <6>2. HasReady(chan'[c]) => HasReady(chan[c]) \/ Contains(e.lines, "ready")
            BY <4>2, <5>2
          <6>3. Unbroken(c)' => chan'[c] = Append(chan[c], e)
            BY <4>2, <4>4, <5>4 DEF StreamOps
          <6> QED
            BY <1>9, <5>2, <6>1, <6>2, <6>3
        <5> QED
          BY <5>5, <5>6, <5>7, <5>8 DEF ReadOk
      <4> QED
        BY <4>3, <4>4
    <3> QED
      BY <3>1, <3>2
  <2> QED
    BY <2>2, <2>3
<1> QED
  BY <1>12, <1>13 DEF StreamsInv

\* Streams are in order at first ...
LEMMA InitStreams == WaitsInit => StreamsInv
<1> SUFFICES ASSUME WaitsInit
             PROVE  StreamsInv
  OBVIOUS
<1>1. \A p \in Procs : listeners[p] = << >> /\ DOMAIN << >> = {}
  BY DEF WaitsInit
<1>2. \A c \in Waiters : call[c] = Idle
  BY DEF WaitsInit
<1>3. Idle.pc = "idle" /\ Idle.result = "none"
  BY DEF Idle
<1>4. ListenInv
  BY <1>1 DEF ListenInv
<1>5. \A c \in Waiters : ReadOk(c) /\ ResultOk(c)
  BY <1>2, <1>3 DEF ReadOk, ResultOk, AnswerOk
<1> QED
  BY <1>4, <1>5 DEF StreamsInv

\* ... and stay so.
LEMMA NextStreams == Types /\ CallsInv /\ StreamsInv /\ [WaitsNext]_waitsVars => StreamsInv'
<1> SUFFICES ASSUME Types, CallsInv, StreamsInv, [WaitsNext]_waitsVars
             PROVE  StreamsInv'
  OBVIOUS
<1>1. CASE \E p \in Procs : ProcNext(p)
  BY <1>1, QuietStreams, CompletesStreams, OutputStreams, Zenon DEF ProcNext
<1>2. CASE \E c \in Waiters : CallNext(c)
  <2>1. PICK c \in Waiters : CallNext(c)
    BY <1>2
  <2>2. CallOk(c) /\ ReadOk(c) /\ ResultOk(c)
    BY DEF CallsInv, StreamsInv
  <2>3. StepOk(c) /\ StreamOk(c)
    BY <2>1, <2>2, CallSteps, CallStreams
  <2> QED
    BY <2>3, OtherStreams
<1>3. CASE UNCHANGED waitsVars
  <2>1. /\ call' = call /\ got' = got /\ chan' = chan /\ out' = out /\ aborted' = aborted
        /\ listeners' = listeners /\ status' = status
    BY <1>3 DEF waitsVars, procVars
  <2>2. ListenInv'
    BY <2>1 DEF StreamsInv, ListenInv
  <2>3. ASSUME NEW c \in Waiters
        PROVE  ReadOk(c)' /\ ResultOk(c)'
    <3>1. CallOk(c) /\ ReadOk(c) /\ ResultOk(c)
      BY DEF CallsInv, StreamsInv
    <3>2. ReadOk(c)'
      BY <2>1, <3>1, Elsewhere
    <3>3. ResultOk(c)'
      BY <2>1, <3>1, AnswersStay
    <3> QED
      BY <3>2, <3>3
  <2> QED
    BY <2>2, <2>3 DEF StreamsInv
<1> QED
  BY <1>1, <1>2, <1>3, Zenon DEF WaitsNext, ProcNext, CallNext

\* What is known of a call, what is on its way to it and what its process has printed
\* keep agreeing.
THEOREM StreamsInvariant == WaitsSpec => [](Types /\ CallsInv /\ StreamsInv)
<1>1. WaitsInit => Types /\ CallsInv /\ StreamsInv
  BY InitWaits, InitStreams
<1>2. Types /\ CallsInv /\ StreamsInv /\ [WaitsNext]_waitsVars
        => Types' /\ CallsInv' /\ StreamsInv'
  BY NextWaits, NextStreams
<1> QED
  BY <1>1, <1>2, PTL DEF WaitsSpec

\* What a call answers is so: a line that is found was printed, "exited" means that the
\* process is over and printed no such line, what exec and the callbacks were given is
\* all there was, only a timeout times out, and opencode gives up only a server that has
\* ended.  An exit that is presumed and an error that is passed on promise nothing.
THEOREM WaitsAnswerTrue == WaitsSpec => []AnswersTrue
<1>1. StreamsInv => AnswersTrue
  BY Zenon DEF StreamsInv, ResultOk, AnswerOk, AnswersTrue
<1> QED
  BY <1>1, StreamsInvariant, PTL

=============================================================================
