---------------------------- MODULE FileService ----------------------------
(***************************************************************************)
(* The file and git operations of the container: file-service.ts and       *)
(* git-service.ts, called by file-handler.ts and git-handler.ts.           *)
(*                                                                         *)
(* Every operation is a sequence of shell commands.  read, delete and      *)
(* clone hold the lock of their session (withSession) from the first to    *)
(* the last, all others take a turn for each command (executeInSession).   *)
(* The files are changed by other operations, in the same and in other     *)
(* sessions, and by programs in the background, which take no turns.       *)
(*                                                                         *)
(* A path is absent, a directory, whose entries are left out, or a file:   *)
(* the first blocks of a content, a block being what one dd reads.         *)
(***************************************************************************)
EXTENDS Naturals, Sequences, FiniteSets

CONSTANTS
  Calls,       \* requests
  Paths, Sessions, Contents, None,
  Default,     \* the session 'default'
  Blocks,      \* Blocks[v]: the blocks of content v; how the text of each ends
               \* ("cut": inside a character, the rest of which is in the next)
  Binary,      \* contents whose MIME type is taken for binary
  Ops,         \* the operations that are requested
  Background,  \* what programs in the background may make of a path
  MaxBackground \* bound: how often they do

ASSUME DefaultAssumption == Default \in Sessions /\ None \notin Calls \cup Sessions
ASSUME BlocksAssumption ==
  /\ Blocks \in [Contents -> Seq({"plain", "ended", "newline", "cut"})]
  /\ \A v \in Contents : \A i \in DOMAIN Blocks[v] :
       Blocks[v][i] = "newline" => v \notin Binary /\ i = Len(Blocks[v])
  /\ \A v \in Contents : \A i \in DOMAIN Blocks[v] :
       Blocks[v][i] = "cut" =>
         v \notin Binary /\ i + 1 \in DOMAIN Blocks[v] /\ Blocks[v][i + 1] # "newline"
ASSUME BinaryAssumption == Binary \subseteq Contents
ASSUME BoundAssumption == MaxBackground \in Nat
ASSUME OpsAssumption ==
  Ops \subseteq {"read", "write", "delete", "move", "mkdir", "exists", "list", "stream", "clone"}

VARIABLES
  fs,        \* fs[p]: what is at the path
  holder,    \* holder[s]: the call that holds the lock of the session
  request,   \* request[c]: what c asks for
  pc,        \* pc[c]: the command the call runs next
  got,       \* got[c]: what the commands of the call have told so far
  chunks,    \* chunks[c]: the chunks a stream has sent
  answer,    \* answer[c]
  left,      \* streams the client of which has gone
  \* history
  was,       \* was[c]: what has been at the path of c since it began
  changers,  \* changers[c]: who else has changed the path of c since then
  broken,    \* calls a command of which has failed with its session
  interfered \* how often the background has changed a path

callVars    == << request, pc, got, chunks, answer, left >>
historyVars == << was, changers, broken, interfered >>
vars == << fs, holder, callVars, historyVars >>

Absent == [kind |-> "absent", of |-> None, len |-> 0]
Dir    == [kind |-> "dir", of |-> None, len |-> 0]
File(v, n) == [kind |-> "file", of |-> v, len |-> n]
Whole(v) == File(v, Len(Blocks[v]))
Nodes == {Absent, Dir} \cup UNION {{File(v, n) : n \in 0..Len(Blocks[v])} : v \in Contents}

ASSUME BackgroundAssumption == Background \subseteq Nodes

\* isBinaryMimeType of what `file` says: an empty file is text, and what is
\* no file is not.
IsBinary(n) == n.kind # "file" \/ (n.len > 0 /\ n.of \in Binary)

\* The block ends or begins inside a character.
CutAt(v, i) == Blocks[v][i] = "cut" \/ (i > 1 /\ Blocks[v][i - 1] = "cut")

\* What exec() returns of a block.  Text loses the line end it ends with; each
\* block is decoded by itself, and bytes that are not text become U+FFFD.
Output(n, binary, i) ==
  [of |-> n.of, at |-> i,
   whole |-> binary \/ Blocks[n.of][i] # "ended",
   torn |-> ~ binary /\ (n.of \in Binary \/ CutAt(n.of, i))]

Unknown == [size |-> 0, binary |-> FALSE, content |-> Absent, short |-> FALSE]
Answers == {"none", "ok", "true", "false", "empty", "listed", "invalid", "not found", "error",
            "is directory", "not directory", "complete", "gone"}
\* What a read asks for; any other name counts as none.
Encodings == {"none", "utf-8", "base64"}
Begun(c) == pc[c] \notin {"idle", "done"}

TypeOK ==
  /\ fs \in [Paths -> Nodes]
  /\ holder \in [Sessions -> Calls \cup {None}]
  /\ request \in [Calls -> [op : Ops \cup {None}, path : Paths \cup {None}, to : Paths \cup {None},
                            content : Contents \cup {None}, recursive : BOOLEAN,
                            encoding : Encodings, sess : Sessions]]
  /\ pc \in [Calls -> {"idle", "start", "size", "mime", "cat", "fill", "isdir", "rm", "mv",
                       "again", "stat", "find", "dd", "branch", "done"}]
  /\ \A c \in Calls :
       /\ got[c].size \in Nat /\ {got[c].binary, got[c].short} \subseteq BOOLEAN
       /\ got[c].content \in Nodes
       /\ Len(chunks[c]) > 0 => request[c].op = "stream"
       /\ was[c] \subseteq Nodes /\ changers[c] \subseteq Sessions \cup {None}
  /\ answer \in [Calls -> Answers]
  /\ left \cup broken \subseteq Calls
  /\ interfered \in 0..MaxBackground
  \* a lock is held by a call that is under way in its session
  /\ \A s \in Sessions : holder[s] # None => Begun(holder[s]) /\ request[holder[s]].sess = s
  /\ \A c \in Calls : answer[c] # "none" <=> pc[c] = "done"

Init ==
  /\ fs \in [Paths -> {Absent, Dir} \cup {Whole(v) : v \in Contents}]
  /\ holder = [s \in Sessions |-> None]
  /\ request = [c \in Calls |-> [op |-> None, path |-> None, to |-> None, content |-> None,
                                 recursive |-> FALSE, encoding |-> "none", sess |-> Default]]
  /\ pc = [c \in Calls |-> "idle"]
  /\ got = [c \in Calls |-> Unknown]
  /\ chunks = [c \in Calls |-> << >>]
  /\ answer = [c \in Calls |-> "none"]
  /\ left = {}
  /\ was = [c \in Calls |-> {}]
  /\ changers = [c \in Calls |-> {}]
  /\ broken = {}
  /\ interfered = 0

-----------------------------------------------------------------------------
(* What all operations share *)

Path(c) == request[c].path
Node(c) == fs[Path(c)]
Sess(c) == request[c].sess

At(c, op, where) == request[c].op = op /\ pc[c] = where

\* The files become f, by a turn of session s or by the background (None).
\* No change of its own counts for the call that makes it.
Change(f, s, mine) ==
  /\ fs' = f
  /\ interfered' = IF s = None THEN interfered + 1 ELSE interfered
  /\ was' = [c \in Calls |-> IF Begun(c) THEN was[c] \cup {f[Path(c)]} ELSE was[c]]
  /\ changers' = [c \in Calls |->
       IF Begun(c) /\ c # mine /\ f[Path(c)] # fs[Path(c)]
       THEN changers[c] \cup {s} ELSE changers[c]]

NoChange == UNCHANGED << fs, was, changers, interfered >>

\* The call may run a command: the lock is free or its own.
HasTurn(c) == holder[Sess(c)] \in {None, c}

Hold(c) == holder' = [holder EXCEPT ![Sess(c)] = c]

Release(c) == holder' = [s \in Sessions |-> IF holder[s] = c THEN None ELSE holder[s]]

Goto(c, where) ==
  /\ pc' = [pc EXCEPT ![c] = where]
  /\ UNCHANGED answer

\* Mutant of Answer: the lock is kept.
AnswerHolding(c, a) ==
  /\ pc' = [pc EXCEPT ![c] = "done"]
  /\ answer' = [answer EXCEPT ![c] = a]
  /\ UNCHANGED holder

Answer(c, a) ==
  /\ pc' = [pc EXCEPT ![c] = "done"]
  /\ answer' = [answer EXCEPT ![c] = a]
  /\ Release(c)

\* The handlers pass the session on for these operations only.
SessionOf(op, s) == IF op \in {"exists", "list", "stream", "clone"} THEN s ELSE Default

handle(c) ==
  /\ pc[c] = "idle"
  /\ \E op \in Ops, p \in Paths, s \in Sessions :
     \E q \in IF op = "move" THEN Paths ELSE {None}, v \in IF op = "write" THEN Contents ELSE {None},
        r \in IF op = "mkdir" THEN BOOLEAN ELSE {FALSE},
        e \in IF op = "read" THEN Encodings ELSE {"none"} :
       /\ request' = [request EXCEPT ![c] = [op |-> op, path |-> p, to |-> q, content |-> v,
                                             recursive |-> r, encoding |-> e,
                                             sess |-> SessionOf(op, s)]]
       /\ was' = [was EXCEPT ![c] = {fs[p]}]
  /\ pc' = [pc EXCEPT ![c] = "start"]
  /\ UNCHANGED << fs, holder, got, chunks, answer, left, changers, broken, interfered >>

\* The path, the URL or the base64 text is refused before any command.
Refuse(c) ==
  /\ pc[c] = "start" /\ holder[Sess(c)] # c
  /\ Answer(c, "invalid")
  /\ NoChange /\ UNCHANGED << request, got, chunks, left, broken >>

\* test -e
TestE(c) == Node(c) # Absent

-----------------------------------------------------------------------------
(* read and delete: the lock is held from the first command to the last *)

\* Mutant of ReadTest: read takes a turn for each of its commands.
ReadTestTurn(c) ==
  /\ At(c, "read", "start") /\ HasTurn(c)
  /\ \/ /\ ~ TestE(c) /\ Answer(c, "not found")
     \/ /\ TestE(c) /\ Goto(c, "size") /\ UNCHANGED holder
  /\ NoChange /\ UNCHANGED << request, got, chunks, left, broken >>

ReadTest(c) ==
  /\ At(c, "read", "start") /\ HasTurn(c)
  /\ \/ /\ ~ TestE(c) /\ Answer(c, "not found")
     \/ /\ TestE(c) /\ Goto(c, "size") /\ Hold(c)
  /\ NoChange /\ UNCHANGED << request, got, chunks, left, broken >>

\* stat -c %s: the size goes into the metadata.
ReadSize(c) ==
  /\ At(c, "read", "size") /\ HasTurn(c)
  /\ \/ /\ ~ TestE(c) /\ Answer(c, "error") /\ UNCHANGED got
     \/ /\ TestE(c) /\ Goto(c, "mime")
        /\ got' = [got EXCEPT ![c].size = Node(c).len]
        /\ UNCHANGED holder
  /\ NoChange /\ UNCHANGED << request, chunks, left, broken >>

\* The encoding of what is returned: the one asked for, or by the MIME type.
AsBinary(c, n) ==
  \/ request[c].encoding = "base64"
  \/ request[c].encoding = "none" /\ IsBinary(n)

\* file --mime-type, which succeeds for a path that is absent too.
ReadMime(c) ==
  /\ At(c, "read", "mime") /\ HasTurn(c)
  /\ got' = [got EXCEPT ![c].binary = AsBinary(c, Node(c))]
  /\ Goto(c, "cat")
  /\ NoChange /\ UNCHANGED << holder, request, chunks, left, broken >>

\* cat or base64
ReadCat(c) ==
  /\ At(c, "read", "cat") /\ HasTurn(c)
  /\ \/ /\ Node(c).kind # "file" /\ Answer(c, "error") /\ UNCHANGED got
     \/ /\ Node(c).kind = "file" /\ Answer(c, "ok")
        /\ got' = [got EXCEPT ![c].content = Node(c)]
  /\ NoChange /\ UNCHANGED << request, chunks, left, broken >>

DeleteTest(c) ==
  /\ At(c, "delete", "start") /\ HasTurn(c)
  /\ \/ /\ ~ TestE(c) /\ Answer(c, "not found")
     \/ /\ TestE(c) /\ Goto(c, "isdir") /\ Hold(c)
  /\ NoChange /\ UNCHANGED << request, got, chunks, left, broken >>

\* test -d
DeleteTestDir(c) ==
  /\ At(c, "delete", "isdir") /\ HasTurn(c)
  /\ \/ /\ Node(c) = Dir /\ Answer(c, "is directory")
     \/ /\ Node(c) # Dir /\ Goto(c, "rm") /\ UNCHANGED holder
  /\ NoChange /\ UNCHANGED << request, got, chunks, left, broken >>

Removed(p) == [fs EXCEPT ![p] = Absent]

DeleteRm(c) ==
  /\ At(c, "delete", "rm") /\ HasTurn(c)
  /\ \/ /\ Node(c).kind # "file" /\ Answer(c, "error") /\ NoChange
     \/ /\ Node(c).kind = "file" /\ Answer(c, "ok")
        /\ Change(Removed(Path(c)), Sess(c), c)
  /\ UNCHANGED << request, got, chunks, left, broken >>

-----------------------------------------------------------------------------
(* write, rename, move, mkdir *)

\* base64 -d > path: the shell empties the file before there is a byte for it.
WriteOpen(c) ==
  /\ At(c, "write", "start") /\ HasTurn(c)
  /\ \/ /\ Node(c) = Dir /\ Answer(c, "error") /\ NoChange
     \/ /\ Node(c) # Dir /\ Goto(c, "fill") /\ Hold(c)
        /\ Change([fs EXCEPT ![Path(c)] = File(request[c].content, 0)], Sess(c), c)
  /\ UNCHANGED << request, got, chunks, left, broken >>

\* The first n blocks of the content have been written, to the file that was
\* opened: it may have been replaced.
Filled(c, n) ==
  IF Node(c) = File(request[c].content, 0)
  THEN [fs EXCEPT ![Path(c)] = File(request[c].content, n)] ELSE fs

\* The command succeeds, or the disk is full.
WriteFill(c) ==
  /\ At(c, "write", "fill") /\ HasTurn(c)
  /\ LET whole == Len(Blocks[request[c].content])
     IN  \/ /\ Answer(c, "ok")
            /\ Change(Filled(c, whole), Sess(c), c)
         \/ /\ Answer(c, "error")
            /\ \E n \in 0..whole : Change(Filled(c, n), Sess(c), c)
  /\ UNCHANGED << request, got, chunks, left, broken >>

\* rename and move
MoveTest(c) ==
  /\ At(c, "move", "start") /\ HasTurn(c)
  /\ \/ /\ ~ TestE(c) /\ Answer(c, "not found")
     \/ /\ TestE(c) /\ Goto(c, "mv") /\ UNCHANGED holder
  /\ NoChange /\ UNCHANGED << request, got, chunks, left, broken >>

\* mv puts what it moves into its destination when that is a directory.
CanMove(p, q) == p # q /\ fs[p] # Absent /\ (fs[p] = Dir => fs[q].kind # "file")
Moved(p, q) == [fs EXCEPT ![p] = Absent, ![q] = IF @ = Dir THEN Dir ELSE fs[p]]

MoveMv(c) ==
  /\ At(c, "move", "mv") /\ HasTurn(c)
  /\ LET q == request[c].to
     IN  \/ /\ ~ CanMove(Path(c), q) /\ Answer(c, "error") /\ NoChange
         \/ /\ CanMove(Path(c), q) /\ Answer(c, "ok")
            /\ Change(Moved(Path(c), q), Sess(c), c)
  /\ UNCHANGED << request, got, chunks, left, broken >>

CanMake(c) == Node(c) = Absent \/ (Node(c) = Dir /\ request[c].recursive)

mkdir(c) ==
  /\ At(c, "mkdir", "start") /\ HasTurn(c)
  /\ \/ /\ ~ CanMake(c) /\ Answer(c, "error") /\ NoChange
     \/ /\ CanMake(c) /\ Answer(c, "ok")
        /\ Change([fs EXCEPT ![Path(c)] = Dir], Sess(c), c)
  /\ UNCHANGED << request, got, chunks, left, broken >>

-----------------------------------------------------------------------------
(* exists and list *)

\* Mutant of exists: only files are found (test -f).
existsFile(c) ==
  /\ At(c, "exists", "start") /\ HasTurn(c)
  /\ Answer(c, IF Node(c).kind = "file" THEN "true" ELSE "false")
  /\ NoChange /\ UNCHANGED << request, got, chunks, left, broken >>

exists(c) ==
  /\ At(c, "exists", "start") /\ HasTurn(c)
  /\ Answer(c, IF TestE(c) THEN "true" ELSE "false")
  /\ NoChange /\ UNCHANGED << request, got, chunks, left, broken >>

ListTest(c) ==
  /\ At(c, "list", "start") /\ HasTurn(c)
  /\ \/ /\ ~ TestE(c) /\ Answer(c, "not found")
     \/ /\ TestE(c) /\ Goto(c, "again") /\ UNCHANGED holder
  /\ NoChange /\ UNCHANGED << request, got, chunks, left, broken >>

\* stat() tests again; that it fails is of no account to list().
StatTest(c) ==
  /\ At(c, "list", "again") /\ HasTurn(c)
  /\ Goto(c, IF TestE(c) THEN "stat" ELSE "find")
  /\ NoChange /\ UNCHANGED << holder, request, got, chunks, left, broken >>

Stat(c) ==
  /\ At(c, "list", "stat") /\ HasTurn(c)
  /\ \/ /\ Node(c).kind = "file" /\ Answer(c, "not directory")
     \/ /\ Node(c).kind # "file" /\ Goto(c, "find") /\ UNCHANGED holder
  /\ NoChange /\ UNCHANGED << request, got, chunks, left, broken >>

\* find lists nothing, without an error, of a path that is a file.
ListFind(c) ==
  /\ At(c, "list", "find") /\ HasTurn(c)
  /\ Answer(c, CASE Node(c) = Absent -> "error"
                 [] Node(c) = Dir -> "listed"
                 [] OTHER -> "empty")
  /\ NoChange /\ UNCHANGED << request, got, chunks, left, broken >>

-----------------------------------------------------------------------------
(* A file as a stream of events: a turn for each block *)

StreamTest(c) ==
  /\ At(c, "stream", "start") /\ HasTurn(c)
  /\ \/ /\ ~ TestE(c) /\ Answer(c, "not found")
     \/ /\ TestE(c) /\ Goto(c, "size") /\ UNCHANGED holder
  /\ NoChange /\ UNCHANGED << request, got, chunks, left, broken >>

StreamSize(c) ==
  /\ At(c, "stream", "size") /\ HasTurn(c)
  /\ \/ /\ ~ TestE(c) /\ Answer(c, "error") /\ UNCHANGED got
     \/ /\ TestE(c) /\ Goto(c, "mime")
        /\ got' = [got EXCEPT ![c].size = Node(c).len]
        /\ UNCHANGED holder
  /\ NoChange /\ UNCHANGED << request, chunks, left, broken >>

\* The event 'metadata' is sent, to a client that is still there.
StreamMime(c) ==
  /\ At(c, "stream", "mime") /\ HasTurn(c)
  /\ got' = [got EXCEPT ![c].binary = IsBinary(Node(c))]
  /\ \/ /\ c \notin left /\ Goto(c, "dd") /\ UNCHANGED holder
     \/ /\ c \in left /\ Answer(c, "gone")
  /\ NoChange /\ UNCHANGED << request, chunks, left, broken >>

\* bytesRead < metadata.size.  bytesRead counts the characters of text: fewer
\* than its bytes when a line end was lost or a character has several.
More(c) == Len(chunks[c]) < got[c].size \/ got[c].short

\* The blocks of which exec() returns anything
Shown(c) == {i \in 1..Node(c).len : got[c].binary \/ Blocks[Node(c).of][i] # "newline"}

\* dd of the next block
StreamChunk(c) ==
  /\ At(c, "stream", "dd") /\ HasTurn(c) /\ More(c)
  /\ LET i == Len(chunks[c]) + 1
         out == Output(Node(c), got[c].binary, i)
     IN  \* a failed dd shows when there is no pipe behind it
         \/ /\ Node(c).kind # "file"
            /\ Answer(c, CASE c \in left -> "gone"
                           [] got[c].binary -> "complete"
                           [] OTHER -> "error")
            /\ UNCHANGED << got, chunks >>
         \/ /\ Node(c).kind = "file" /\ i \notin Shown(c)
            /\ Answer(c, IF c \in left THEN "gone" ELSE "complete")
            /\ UNCHANGED << got, chunks >>
         \/ /\ Node(c).kind = "file" /\ i \in Shown(c) /\ c \in left
            /\ Answer(c, "gone")
            /\ UNCHANGED << got, chunks >>
         \/ /\ Node(c).kind = "file" /\ i \in Shown(c) /\ c \notin left
            /\ chunks' = [chunks EXCEPT ![c] = Append(@, out)]
            /\ \E fewer \in IF got[c].binary THEN {FALSE} ELSE BOOLEAN :
                 got' = [got EXCEPT ![c].short = @ \/ ~ out.whole \/ fewer]
            /\ UNCHANGED << holder, pc, answer >>
  /\ NoChange /\ UNCHANGED << request, left, broken >>

\* The loop has ended; when a file has grown, what was lost of its text may
\* be made up for.
StreamComplete(c) ==
  /\ At(c, "stream", "dd")
  /\ ~ More(c) \/ Len(chunks[c]) > got[c].size
  /\ Answer(c, IF c \in left THEN "gone" ELSE "complete")
  /\ NoChange /\ UNCHANGED << request, got, chunks, left, broken >>

\* The client stops reading: the next event cannot be sent.
Leave(c) ==
  /\ request[c].op = "stream" /\ Begun(c) /\ c \notin left
  /\ left' = left \cup {c}
  /\ NoChange /\ UNCHANGED << holder, request, pc, got, chunks, answer, broken >>

-----------------------------------------------------------------------------
(* The stream as the SDK takes it (file-stream.ts) *)

Event(type, data) == [type |-> type, data |-> data]
NoData == [of |-> None, at |-> 0, whole |-> FALSE, torn |-> FALSE]

\* The events of a stream.  'metadata' counts as sent from the beginning: an
\* error in its stead ends the stream in the same way.
Events(c) ==
  << Event("metadata", NoData) >>
  \o [i \in DOMAIN chunks[c] |-> Event("chunk", chunks[c][i])]
  \o (CASE answer[c] = "complete" -> << Event("complete", NoData) >>
        [] answer[c] \in {"error", "not found"} -> << Event("error", NoData) >>
        [] OTHER -> << >>)

\* The connection may end at any moment; parseSSE puts the lines together again,
\* and drops the one that is not ended.
Received(c) == {SubSeq(Events(c), 1, n) : n \in 0..Len(Events(c))}

\* The chunks among the events, in their order
Yielded(events) ==
  LET upTo[n \in 0..Len(events)] ==
        IF n = 0 THEN << >>
        ELSE IF events[n].type = "chunk" THEN Append(upTo[n - 1], events[n].data)
        ELSE upTo[n - 1]
  IN upTo[Len(events)]

\* What streamFile yields until it returns or throws.  Mutant of streamFile: a
\* stream that just ends is taken for complete.
streamFileToEnd(events) ==
  [chunks |-> Yielded(events),
   thrown |-> \E i \in DOMAIN events : events[i].type = "error"]

streamFile(events) ==
  LET ends == {i \in DOMAIN events : events[i].type \in {"complete", "error"}}
      stop == IF ends = {} THEN Len(events) ELSE CHOOSE i \in ends : \A j \in ends : i <= j
  IN [chunks |-> Yielded(SubSeq(events, 1, stop)),
      thrown |-> ends = {} \/ events[stop].type = "error"]

\* The content collectFile returns, or nothing when streamFile throws.
collectFile(events) ==
  LET s == streamFile(events)
  IN [thrown |-> s.thrown, content |-> IF s.thrown THEN << >> ELSE s.chunks]

-----------------------------------------------------------------------------
(* git *)

\* git clone, into a path that is absent or an empty directory
Clone(c) ==
  /\ At(c, "clone", "start") /\ HasTurn(c)
  /\ \/ /\ Answer(c, "error") /\ NoChange
     \/ /\ Node(c).kind # "file" /\ Goto(c, "branch") /\ Hold(c)
        /\ Change([fs EXCEPT ![Path(c)] = Dir], Sess(c), c)
  /\ UNCHANGED << request, got, chunks, left, broken >>

\* git branch: without an answer of git the branch is the one asked for.
CloneBranch(c) ==
  /\ At(c, "clone", "branch") /\ HasTurn(c)
  /\ Answer(c, "ok")
  /\ NoChange /\ UNCHANGED << request, got, chunks, left, broken >>

-----------------------------------------------------------------------------
(* The surroundings *)

\* What a command may have done when its session fails under it.
Halfway(c) ==
  {fs} \cup
  (CASE At(c, "delete", "rm") /\ Node(c).kind = "file" -> {Removed(Path(c))}
     [] At(c, "move", "mv") /\ CanMove(Path(c), request[c].to) -> {Moved(Path(c), request[c].to)}
     [] At(c, "mkdir", "start") /\ CanMake(c) -> {[fs EXCEPT ![Path(c)] = Dir]}
     [] At(c, "write", "fill") -> {Filled(c, n) : n \in 0..Len(Blocks[request[c].content])}
     [] OTHER -> {})

\* The session cannot be had, its shell dies or the command times out.  A
\* test that was not made counts as one that found nothing, and a stat() that
\* was not made does not stop list().
SessionFails(c) ==
  /\ Begun(c) /\ HasTurn(c)
  /\ \E f \in Halfway(c) : Change(f, Sess(c), c)
  /\ broken' = broken \cup {c}
  /\ \/ /\ At(c, "exists", "start") /\ Answer(c, "false")
     \/ /\ request[c].op \in {"move", "list", "stream"} /\ pc[c] = "start" /\ Answer(c, "not found")
     \/ /\ request[c].op = "list" /\ pc[c] \in {"again", "stat"}
        /\ Goto(c, "find") /\ UNCHANGED holder
     \/ /\ ~ (request[c].op \in {"exists", "move", "list", "stream"} /\ pc[c] = "start")
        /\ pc[c] \notin {"again", "stat"}
        /\ Answer(c, "error")
  /\ UNCHANGED << request, got, chunks, left >>

\* A program in the background changes a path.
Interfere ==
  /\ interfered < MaxBackground
  /\ \E p \in Paths, n \in Background : fs[p] # n /\ Change([fs EXCEPT ![p] = n], None, None)
  /\ UNCHANGED << holder, callVars, broken >>

Next ==
  \/ \E c \in Calls :
       \/ handle(c) \/ Refuse(c) \/ SessionFails(c)
       \/ ReadTest(c) \/ ReadSize(c) \/ ReadMime(c) \/ ReadCat(c)
       \/ DeleteTest(c) \/ DeleteTestDir(c) \/ DeleteRm(c)
       \/ WriteOpen(c) \/ WriteFill(c)
       \/ MoveTest(c) \/ MoveMv(c) \/ mkdir(c)
       \/ exists(c) \/ ListTest(c) \/ StatTest(c) \/ Stat(c) \/ ListFind(c)
       \/ StreamTest(c) \/ StreamSize(c) \/ StreamMime(c) \/ StreamChunk(c)
       \/ StreamComplete(c) \/ Leave(c)
       \/ Clone(c) \/ CloneBranch(c)
  \/ Interfere

Spec == Init /\ [][Next]_vars

-----------------------------------------------------------------------------
(* Properties *)

\* What read() returns is one file: the size and the encoding are those of
\* the content (or the encoding the one asked for), whatever other requests do
\* meanwhile.  Only a program in the
\* background can come between its commands (file-service.ts:92-240; all
\* requests that change a file run in the session 'default',
\* file-handler.ts:67-239).
ReadConsistent ==
  \A c \in Calls : request[c].op = "read" /\ answer[c] = "ok" /\ None \notin changers[c] =>
    /\ got[c].size = got[c].content.len
    /\ got[c].binary = AsBinary(c, got[c].content)

\* Every answer was true at some moment of its request: what was not found
\* was absent then, what was made was there, what was removed was gone.  The
\* exceptions are a session that failed, which makes move, list, exists and
\* stream answer that there is nothing (file-service.ts:820), and, for a
\* write, a program that put another file in place meanwhile.
AnswersTrue ==
  \A c \in Calls :
    LET Was(kind) == \E n \in was[c] : n.kind = kind
    IN  /\ answer[c] \in {"not found", "false"} => Was("absent") \/ c \in broken
        /\ answer[c] = "true" => Was("file") \/ Was("dir")
        /\ answer[c] \in {"is directory", "listed"} => Was("dir")
        /\ answer[c] = "not directory" => Was("file")
        /\ answer[c] = "empty" => changers[c] # {} \/ c \in broken
        /\ answer[c] = "ok" =>
             CASE request[c].op = "read" -> got[c].content \in was[c]
               [] request[c].op \in {"delete", "move"} -> Was("absent")
               [] request[c].op = "write" -> Whole(request[c].content) \in was[c] \/ None \in changers[c]
               [] OTHER -> Was("dir")

\* What collectFile returns is every block of the file, in its order, if nobody
\* else changed the file meanwhile.  Two things are lost of a text, and nothing
\* else: the line end at the end of a block, and a character that two blocks
\* share, since each is decoded by itself (file-service.ts:1526-1612).  A stream
\* that is cut short is never taken for a file, and a file that nobody changes
\* is streamed to the end (file-stream.ts:70-175).
StreamWhole ==
  \A c \in Calls : request[c].op = "stream" /\ changers[c] = {} =>
    \A n \in was[c] : n.kind = "file" =>
      LET bare == ~ IsBinary(n) /\ n.len > 0 /\ Blocks[n.of][n.len] = "newline"
          last == IF bare THEN n.len - 1 ELSE n.len
      IN  /\ \A events \in Received(c) :
               LET f == collectFile(events)
               IN  ~ f.thrown =>
                     /\ Len(f.content) = last
                     /\ \A i \in 1..last :
                          /\ f.content[i].of = n.of /\ f.content[i].at = i
                          /\ ~ f.content[i].whole => ~ IsBinary(n) /\ Blocks[n.of][i] = "ended"
                          /\ f.content[i].torn => ~ IsBinary(n) /\ CutAt(n.of, i)
          /\ answer[c] = "complete" => ~ collectFile(Events(c)).thrown
          /\ answer[c] = "error" => c \in broken
=============================================================================
