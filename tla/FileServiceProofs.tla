-------------------------- MODULE FileServiceProofs --------------------------
(***************************************************************************)
(* Proofs about FileService, for all sets of requests, paths, sessions and *)
(* contents, and for any number of programs in the background.             *)
(***************************************************************************)
EXTENDS FileService, SequenceTheorems, WellFoundedInduction, TLAPS

-----------------------------------------------------------------------------
(***************************************************************************)
(* The inductive invariant                                                 *)
(***************************************************************************)

\* The types of what TypeOK leaves open.
DataOK ==
  /\ got \in [Calls -> [size : Nat, binary : BOOLEAN, content : Nodes, short : BOOLEAN]]
  /\ was \in [Calls -> SUBSET Nodes]
  /\ changers \in [Calls -> SUBSET (Sessions \cup {None})]
  /\ DOMAIN chunks = Calls

\* The operations the handlers do not pass a session on for.
InDefault == {"read", "write", "delete", "move", "mkdir"}

\* Operation op holds the lock of its session at this command, as it has to
\* finish what it began.
Holds(op, at) ==
  \/ op = "read" /\ at \in {"size", "mime", "cat"}
  \/ op = "delete" /\ at \in {"isdir", "rm"}
  \/ op = "write" /\ at = "fill"
  \/ op = "clone" /\ at = "branch"

\* The session a call runs in, and the lock it has.
SessionInv(c) ==
  /\ pc[c] = "idle" => chunks[c] = << >>
  /\ pc[c] # "idle" =>
       /\ request[c].op \in Ops
       /\ Path(c) \in Paths
       /\ request[c].op \in InDefault => Sess(c) = Default
       /\ request[c].op = "write" => request[c].content \in Contents
  /\ Holds(request[c].op, pc[c]) => holder[Sess(c)] = c

\* The history knows what is at the path of a call that is under way.
SeenInv(c) == Begun(c) => Node(c) \in was[c]

\* A read that no program in the background has disturbed: what was there is
\* there still, and what its commands have told is true of it.
ReadInv(c) ==
  request[c].op = "read" /\ None \notin changers[c] =>
    /\ pc[c] \in {"size", "mime", "cat"} => Node(c) # Absent
    /\ pc[c] \in {"mime", "cat"} => got[c].size = Node(c).len
    /\ pc[c] = "cat" => got[c].binary = AsBinary(c, Node(c))
    /\ answer[c] = "ok" =>
         /\ got[c].size = got[c].content.len
         /\ got[c].binary = AsBinary(c, got[c].content)

\* A write that nobody disturbs finds the file that it has emptied; list() asks
\* for the entries of what was no file; and the clone is a directory.
MadeInv(c) ==
  /\ request[c].op = "write" /\ pc[c] = "fill" /\ None \notin changers[c] =>
       Node(c) = File(request[c].content, 0)
  /\ request[c].op = "list" /\ pc[c] = "find" /\ changers[c] = {} /\ c \notin broken =>
       Node(c).kind # "file"
  /\ request[c].op = "clone" /\ pc[c] = "branch" => \E n \in was[c] : n.kind = "dir"

\* What AnswersTrue says of call c.
TrueAnswer(c) ==
  LET Was(kind) == \E n \in was[c] : n.kind = kind
  IN  /\ answer[c] \in {"not found", "false"} => Was("absent") \/ c \in broken
      /\ answer[c] = "true" => Was("file") \/ Was("dir")
      /\ answer[c] \in {"is directory", "listed"} => Was("dir")
      /\ answer[c] = "not directory" => Was("file")
      /\ answer[c] = "empty" => changers[c] # {} \/ c \in broken
      /\ answer[c] = "ok" =>
           CASE request[c].op = "read" -> got[c].content \in was[c]
             [] request[c].op \in {"delete", "move"} -> Was("absent")
             [] request[c].op = "write" -> Whole(request[c].content) \in was[c] \/ None \in changers[c]
             [] OTHER -> Was("dir")

CallInv(c) ==
  SessionInv(c) /\ SeenInv(c) /\ ReadInv(c) /\ MadeInv(c) /\ TrueAnswer(c)

IInv == TypeOK /\ DataOK /\ \A c \in Calls : CallInv(c)

-----------------------------------------------------------------------------
(***************************************************************************)
(* The shape of a step                                                     *)
(***************************************************************************)

\* Where a call is under way
Steps == {"start", "size", "mime", "cat", "fill", "isdir", "rm", "mv",
          "again", "stat", "find", "dd", "branch"}

Told == [size : Nat, binary : BOOLEAN, content : Nodes, short : BOOLEAN]

\* A call changes files in the session Default, or makes a directory.
Allowed(f, d) ==
  \A p \in Paths :
    \/ f[p] = fs[p]
    \/ request[d].op \in InDefault
    \/ fs[p].kind # "file" /\ f[p] = Dir

\* Call d goes on, has answered or stays where it is.
Moves(d) ==
  \/ \E w \in Steps : Goto(d, w) /\ (UNCHANGED holder \/ (HasTurn(d) /\ Hold(d)))
  \/ \E a \in Answers \ {"none"} : Answer(d, a)
  \/ UNCHANGED << holder, pc, answer >>

\* The files are as they were, or d has changed them.
Changes(d) ==
  \/ NoChange
  \/ /\ HasTurn(d)
     /\ \E f \in [Paths -> Nodes] : Change(f, Sess(d), d) /\ Allowed(f, d)

\* What d remembers, and what it has sent.
Notes(d) ==
  /\ got' = got \/ \E g \in Told : got' = [got EXCEPT ![d] = g]
  /\ \/ chunks' = chunks
     \/ request[d].op = "stream" /\ \E x : chunks' = [chunks EXCEPT ![d] = x]
  /\ left' \in SUBSET Calls
  /\ broken' \in {broken, broken \cup {d}}

Shape(d) == Begun(d) /\ request' = request /\ Moves(d) /\ Changes(d) /\ Notes(d)

\* What a path may become
LEMMA NodeTypes ==
  /\ Absent \in Nodes /\ Dir \in Nodes
  /\ \A v \in Contents : \A n \in 0..Len(Blocks[v]) : File(v, n) \in Nodes
  /\ \A v \in Contents : Len(Blocks[v]) \in Nat
  /\ \A n \in Nodes : n.kind \in {"absent", "dir", "file"}
  /\ \A n \in Nodes : n.kind = "absent" => n = Absent
  /\ \A n \in Nodes : n.kind = "dir" => n = Dir
  /\ \A n \in Nodes : n.len \in Nat
<1>1. \A v \in Contents : Blocks[v] \in Seq({"plain", "ended", "newline", "cut"})
  BY BlocksAssumption
<1>2. \A v \in Contents : Len(Blocks[v]) \in Nat
  BY <1>1
<1>3. \A n : n \in Nodes <=> \/ n = Absent \/ n = Dir
                             \/ \E v \in Contents : \E k \in 0..Len(Blocks[v]) : n = File(v, k)
  BY DEF Nodes
<1>4. /\ Absent.kind = "absent" /\ Absent.len = 0
      /\ Dir.kind = "dir" /\ Dir.len = 0
      /\ \A v, k : File(v, k).kind = "file" /\ File(v, k).len = k
  BY DEF Absent, Dir, File
<1>5. \A v \in Contents : \A k \in 0..Len(Blocks[v]) : k \in Nat
  BY <1>2
<1> HIDE DEF Absent, Dir, File
<1>6. Absent \in Nodes /\ Dir \in Nodes
  BY <1>3
<1>7. \A v \in Contents : \A n \in 0..Len(Blocks[v]) : File(v, n) \in Nodes
  BY <1>3
<1>8. ASSUME NEW n \in Nodes
      PROVE  /\ n.kind \in {"absent", "dir", "file"} /\ n.len \in Nat
             /\ n.kind = "absent" => n = Absent
             /\ n.kind = "dir" => n = Dir
  <2>1. CASE n = Absent \/ n = Dir
    BY <2>1, <1>4
  <2>2. CASE \E v \in Contents : \E k \in 0..Len(Blocks[v]) : n = File(v, k)
    BY <2>2, <1>4, <1>5
  <2> QED
    BY <1>3, <2>1, <2>2
<1> QED
  BY <1>2, <1>6, <1>7, <1>8

\* A step of a call that is under way
CallStep(d) ==
  \/ Refuse(d) \/ SessionFails(d) \/ ReadTest(d) \/ ReadSize(d) \/ ReadMime(d)
  \/ ReadCat(d) \/ DeleteTest(d) \/ DeleteTestDir(d) \/ DeleteRm(d) \/ WriteOpen(d)
  \/ WriteFill(d) \/ MoveTest(d) \/ MoveMv(d) \/ mkdir(d) \/ exists(d)
  \/ ListTest(d) \/ StatTest(d) \/ Stat(d) \/ ListFind(d) \/ StreamTest(d)
  \/ StreamSize(d) \/ StreamMime(d) \/ StreamChunk(d) \/ StreamComplete(d) \/ Leave(d)
  \/ Clone(d) \/ CloneBranch(d)

\* What is known of a call that is under way.
LEMMA UnderWay ==
  ASSUME IInv, NEW d \in Calls, Begun(d)
  PROVE  /\ Path(d) \in Paths /\ Sess(d) \in Sessions
         /\ Node(d) \in Nodes /\ Node(d) \in was[d]
         /\ pc[d] \in Steps /\ answer[d] = "none"
         /\ got[d] \in Told
BY DEF IInv, CallInv, TypeOK, DataOK, SessionInv, SeenInv, Begun, Node, Path, Sess, Steps, Told

\* What a removal, a move, a new directory and a write make of the files.
LEMMA RemovedAllowed ==
  ASSUME IInv, NEW d \in Calls, Begun(d), request[d].op = "delete"
  PROVE  Removed(Path(d)) \in [Paths -> Nodes] /\ Allowed(Removed(Path(d)), d)
<1>1. fs \in [Paths -> Nodes] /\ Path(d) \in Paths
  BY UnderWay DEF IInv, TypeOK
<1> QED
  BY <1>1, NodeTypes DEF Removed, Allowed, InDefault

\* A move
LEMMA MovedAllowed ==
  ASSUME IInv, NEW d \in Calls, Begun(d), request[d].op = "move"
  PROVE  Moved(Path(d), request[d].to) \in [Paths -> Nodes] /\ Allowed(Moved(Path(d), request[d].to), d)
<1>1. fs \in [Paths -> Nodes] /\ Path(d) \in Paths
  BY UnderWay DEF IInv, TypeOK
<1>2. \A q : [fs EXCEPT ![Path(d)] = Absent, ![q] = IF @ = Dir THEN Dir ELSE fs[Path(d)]]
               \in [Paths -> Nodes]
  BY <1>1, NodeTypes
<1> QED
  BY <1>2 DEF Moved, Allowed, InDefault

\* A directory that is made
LEMMA MadeAllowed ==
  ASSUME IInv, NEW d \in Calls, Begun(d), request[d].op = "mkdir"
  PROVE  [fs EXCEPT ![Path(d)] = Dir] \in [Paths -> Nodes] /\ Allowed([fs EXCEPT ![Path(d)] = Dir], d)
<1>1. fs \in [Paths -> Nodes] /\ Path(d) \in Paths
  BY UnderWay DEF IInv, TypeOK
<1> QED
  BY <1>1, NodeTypes DEF Allowed, InDefault

\* A clone, of what is no file
LEMMA ClonedAllowed ==
  ASSUME IInv, NEW d \in Calls, Begun(d), Node(d).kind # "file"
  PROVE  [fs EXCEPT ![Path(d)] = Dir] \in [Paths -> Nodes] /\ Allowed([fs EXCEPT ![Path(d)] = Dir], d)
<1>1. fs \in [Paths -> Nodes] /\ Path(d) \in Paths
  BY UnderWay DEF IInv, TypeOK
<1> QED
  BY <1>1, NodeTypes DEF Allowed, Node

\* A file that is emptied
LEMMA OpenedAllowed ==
  ASSUME IInv, NEW d \in Calls, Begun(d), request[d].op = "write"
  PROVE  [fs EXCEPT ![Path(d)] = File(request[d].content, 0)] \in [Paths -> Nodes] /\ Allowed([fs EXCEPT ![Path(d)] = File(request[d].content, 0)], d)
<1>1. fs \in [Paths -> Nodes] /\ Path(d) \in Paths
  BY UnderWay DEF IInv, TypeOK
<1>2. File(request[d].content, 0) \in Nodes
  BY NodeTypes DEF IInv, CallInv, SessionInv, Begun
<1> QED
  BY <1>1, <1>2 DEF Allowed, InDefault

\* All of a content is some of it.
LEMMA WholeInRange ==
  ASSUME IInv, NEW d \in Calls, Begun(d), request[d].op = "write"
  PROVE  Len(Blocks[request[d].content]) \in 0..Len(Blocks[request[d].content])
BY NodeTypes DEF IInv, CallInv, SessionInv, Begun

\* A file that is filled
LEMMA FilledAllowed ==
  ASSUME IInv, NEW d \in Calls, Begun(d), request[d].op = "write",
         NEW n \in 0..Len(Blocks[request[d].content])
  PROVE  Filled(d, n) \in [Paths -> Nodes] /\ Allowed(Filled(d, n), d)
<1>1. fs \in [Paths -> Nodes] /\ Path(d) \in Paths
  BY UnderWay DEF IInv, TypeOK
<1>2. File(request[d].content, n) \in Nodes
  BY NodeTypes DEF IInv, CallInv, SessionInv, Begun
<1> QED
  BY <1>1, <1>2 DEF Filled, Allowed, InDefault

\* What a command may have done when its session fails under it.
LEMMA HalfwayAllowed ==
  ASSUME IInv, NEW d \in Calls, Begun(d), NEW f \in Halfway(d)
  PROVE  f \in [Paths -> Nodes] /\ Allowed(f, d)
<1>1. CASE f = fs
  BY <1>1 DEF IInv, TypeOK, Allowed
<1>2. CASE At(d, "delete", "rm") /\ f = Removed(Path(d))
  BY <1>2, RemovedAllowed DEF At
<1>3. CASE At(d, "move", "mv") /\ f = Moved(Path(d), request[d].to)
  BY <1>3, MovedAllowed DEF At
<1>4. CASE At(d, "mkdir", "start") /\ f = [fs EXCEPT ![Path(d)] = Dir]
  BY <1>4, MadeAllowed DEF At
<1>5. CASE At(d, "write", "fill") /\ f \in {Filled(d, n) : n \in 0..Len(Blocks[request[d].content])}
  BY <1>5, FilledAllowed DEF At
<1>6. \/ f = fs
      \/ At(d, "delete", "rm") /\ f = Removed(Path(d))
      \/ At(d, "move", "mv") /\ f = Moved(Path(d), request[d].to)
      \/ At(d, "mkdir", "start") /\ f = [fs EXCEPT ![Path(d)] = Dir]
      \/ At(d, "write", "fill") /\ f \in {Filled(d, n) : n \in 0..Len(Blocks[request[d].content])}
  BY DEF Halfway
<1> QED
  BY <1>1, <1>2, <1>3, <1>4, <1>5, <1>6

\* A step of a call that has begun, whatever it is.
LEMMA StepShape ==
  ASSUME IInv, NEW d \in Calls
  PROVE  CallStep(d) => Shape(d)
<1>1. Refuse(d) => Shape(d)
  <2> SUFFICES ASSUME Refuse(d)
               PROVE  Shape(d)
    OBVIOUS
  <2>1. Begun(d) /\ request' = request
    BY DEF Refuse, At, Begun
  <2>2. Moves(d)
    BY DEF Refuse, Moves, Steps, Answers
  <2>3. Changes(d)
    BY DEF Refuse, Changes
  <2>4. Notes(d)
    BY <2>1, UnderWay DEF IInv, TypeOK, Refuse, Notes, Told
  <2> QED
    BY <2>1, <2>2, <2>3, <2>4 DEF Shape
<1>2. SessionFails(d) => Shape(d)
  <2> SUFFICES ASSUME SessionFails(d)
               PROVE  Shape(d)
    OBVIOUS
  <2>1. Begun(d) /\ request' = request
    BY DEF SessionFails, At, Begun
  <2>2. Moves(d)
    BY DEF SessionFails, Moves, Steps, Answers
  <2>3. Changes(d)
    <3>1. PICK f \in Halfway(d) : Change(f, Sess(d), d)
      BY DEF SessionFails
    <3>2. f \in [Paths -> Nodes] /\ Allowed(f, d)
      BY <2>1, <3>1, HalfwayAllowed
    <3> QED
      BY <3>1, <3>2 DEF SessionFails, Changes
  <2>4. Notes(d)
    BY <2>1, UnderWay DEF IInv, TypeOK, SessionFails, Notes, Told
  <2> QED
    BY <2>1, <2>2, <2>3, <2>4 DEF Shape
<1>3. ReadTest(d) => Shape(d)
  <2> SUFFICES ASSUME ReadTest(d)
               PROVE  Shape(d)
    OBVIOUS
  <2>1. Begun(d) /\ request' = request
    BY DEF ReadTest, At, Begun
  <2>2. Moves(d)
    BY DEF ReadTest, Moves, Steps, Answers
  <2>3. Changes(d)
    BY DEF ReadTest, Changes
  <2>4. Notes(d)
    BY <2>1, UnderWay DEF IInv, TypeOK, ReadTest, Notes, Told
  <2> QED
    BY <2>1, <2>2, <2>3, <2>4 DEF Shape
<1>4. ReadSize(d) => Shape(d)
  <2> SUFFICES ASSUME ReadSize(d)
               PROVE  Shape(d)
    OBVIOUS
  <2>1. Begun(d) /\ request' = request
    BY DEF ReadSize, At, Begun
  <2>2. Moves(d)
    BY DEF ReadSize, Moves, Steps, Answers
  <2>3. Changes(d)
    BY DEF ReadSize, Changes
  <2>4. Notes(d)
    <3>1. got[d] \in Told /\ Node(d) \in Nodes
      BY <2>1, UnderWay
    <3> DEFINE g == [got[d] EXCEPT !.size = Node(d).len]
    <3>2. g \in Told
      BY <3>1, NodeTypes DEF Told, IsBinary
    <3>3. got' = got \/ got' = [got EXCEPT ![d] = g]
      BY DEF ReadSize
    <3>4. UNCHANGED << chunks, left, broken >>
      BY DEF ReadSize
    <3> HIDE DEF g
    <3> QED
      BY <3>2, <3>3, <3>4 DEF IInv, TypeOK, Notes
  <2> QED
    BY <2>1, <2>2, <2>3, <2>4 DEF Shape
<1>5. ReadMime(d) => Shape(d)
  <2> SUFFICES ASSUME ReadMime(d)
               PROVE  Shape(d)
    OBVIOUS
  <2>1. Begun(d) /\ request' = request
    BY DEF ReadMime, At, Begun
  <2>2. Moves(d)
    BY DEF ReadMime, Moves, Steps, Answers
  <2>3. Changes(d)
    BY DEF ReadMime, Changes
  <2>4. Notes(d)
    <3>1. got[d] \in Told /\ Node(d) \in Nodes
      BY <2>1, UnderWay
    <3> DEFINE g == [got[d] EXCEPT !.binary = AsBinary(d, Node(d))]
    <3>2. g \in Told
      BY <3>1, NodeTypes DEF Told, IsBinary, AsBinary
    <3>3. got' = got \/ got' = [got EXCEPT ![d] = g]
      BY DEF ReadMime
    <3>4. UNCHANGED << chunks, left, broken >>
      BY DEF ReadMime
    <3> HIDE DEF g
    <3> QED
      BY <3>2, <3>3, <3>4 DEF IInv, TypeOK, Notes
  <2> QED
    BY <2>1, <2>2, <2>3, <2>4 DEF Shape
<1>6. ReadCat(d) => Shape(d)
  <2> SUFFICES ASSUME ReadCat(d)
               PROVE  Shape(d)
    OBVIOUS
  <2>1. Begun(d) /\ request' = request
    BY DEF ReadCat, At, Begun
  <2>2. Moves(d)
    BY DEF ReadCat, Moves, Steps, Answers
  <2>3. Changes(d)
    BY DEF ReadCat, Changes
  <2>4. Notes(d)
    BY <2>1, UnderWay DEF IInv, TypeOK, ReadCat, Notes, Told
  <2> QED
    BY <2>1, <2>2, <2>3, <2>4 DEF Shape
<1>7. DeleteTest(d) => Shape(d)
  <2> SUFFICES ASSUME DeleteTest(d)
               PROVE  Shape(d)
    OBVIOUS
  <2>1. Begun(d) /\ request' = request
    BY DEF DeleteTest, At, Begun
  <2>2. Moves(d)
    BY DEF DeleteTest, Moves, Steps, Answers
  <2>3. Changes(d)
    BY DEF DeleteTest, Changes
  <2>4. Notes(d)
    BY <2>1, UnderWay DEF IInv, TypeOK, DeleteTest, Notes, Told
  <2> QED
    BY <2>1, <2>2, <2>3, <2>4 DEF Shape
<1>8. DeleteTestDir(d) => Shape(d)
  <2> SUFFICES ASSUME DeleteTestDir(d)
               PROVE  Shape(d)
    OBVIOUS
  <2>1. Begun(d) /\ request' = request
    BY DEF DeleteTestDir, At, Begun
  <2>2. Moves(d)
    BY DEF DeleteTestDir, Moves, Steps, Answers
  <2>3. Changes(d)
    BY DEF DeleteTestDir, Changes
  <2>4. Notes(d)
    BY <2>1, UnderWay DEF IInv, TypeOK, DeleteTestDir, Notes, Told
  <2> QED
    BY <2>1, <2>2, <2>3, <2>4 DEF Shape
<1>9. DeleteRm(d) => Shape(d)
  <2> SUFFICES ASSUME DeleteRm(d)
               PROVE  Shape(d)
    OBVIOUS
  <2>1. Begun(d) /\ request' = request
    BY DEF DeleteRm, At, Begun
  <2>2. Moves(d)
    BY DEF DeleteRm, Moves, Steps, Answers
  <2>3. Changes(d)
    <3>1. CASE NoChange
      BY <3>1 DEF Changes
    <3>2. CASE ~ NoChange
      <4>1. Change(Removed(Path(d)), Sess(d), d)
        BY <3>2 DEF DeleteRm
      <4>2. Removed(Path(d)) \in [Paths -> Nodes] /\ Allowed(Removed(Path(d)), d)
        BY <2>1, <3>2, RemovedAllowed DEF DeleteRm, At
      <4> QED
        BY <4>1, <4>2 DEF DeleteRm, Changes
    <3> QED
      BY <3>1, <3>2
  <2>4. Notes(d)
    BY <2>1, UnderWay DEF IInv, TypeOK, DeleteRm, Notes, Told
  <2> QED
    BY <2>1, <2>2, <2>3, <2>4 DEF Shape
<1>10. WriteOpen(d) => Shape(d)
  <2> SUFFICES ASSUME WriteOpen(d)
               PROVE  Shape(d)
    OBVIOUS
  <2>1. Begun(d) /\ request' = request
    BY DEF WriteOpen, At, Begun
  <2>2. Moves(d)
    BY DEF WriteOpen, Moves, Steps, Answers
  <2>3. Changes(d)
    <3>1. CASE NoChange
      BY <3>1 DEF Changes
    <3>2. CASE ~ NoChange
      <4>1. Change([fs EXCEPT ![Path(d)] = File(request[d].content, 0)], Sess(d), d)
        BY <3>2 DEF WriteOpen
      <4>2. [fs EXCEPT ![Path(d)] = File(request[d].content, 0)] \in [Paths -> Nodes] /\ Allowed([fs EXCEPT ![Path(d)] = File(request[d].content, 0)], d)
        BY <2>1, <3>2, OpenedAllowed DEF WriteOpen, At
      <4> QED
        BY <4>1, <4>2 DEF WriteOpen, Changes
    <3> QED
      BY <3>1, <3>2
  <2>4. Notes(d)
    BY <2>1, UnderWay DEF IInv, TypeOK, WriteOpen, Notes, Told
  <2> QED
    BY <2>1, <2>2, <2>3, <2>4 DEF Shape
<1>11. WriteFill(d) => Shape(d)
  <2> SUFFICES ASSUME WriteFill(d)
               PROVE  Shape(d)
    OBVIOUS
  <2>1. Begun(d) /\ request' = request
    BY DEF WriteFill, At, Begun
  <2>2. Moves(d)
    BY DEF WriteFill, Moves, Steps, Answers
  <2>3. Changes(d)
    <3>1. PICK n \in 0..Len(Blocks[request[d].content]) : Change(Filled(d, n), Sess(d), d)
      BY <2>1, WholeInRange DEF WriteFill, At
    <3>2. Filled(d, n) \in [Paths -> Nodes] /\ Allowed(Filled(d, n), d)
      BY <2>1, FilledAllowed DEF WriteFill, At
    <3> QED
      BY <3>1, <3>2 DEF WriteFill, Changes
  <2>4. Notes(d)
    BY <2>1, UnderWay DEF IInv, TypeOK, WriteFill, Notes, Told
  <2> QED
    BY <2>1, <2>2, <2>3, <2>4 DEF Shape
<1>12. MoveTest(d) => Shape(d)
  <2> SUFFICES ASSUME MoveTest(d)
               PROVE  Shape(d)
    OBVIOUS
  <2>1. Begun(d) /\ request' = request
    BY DEF MoveTest, At, Begun
  <2>2. Moves(d)
    BY DEF MoveTest, Moves, Steps, Answers
  <2>3. Changes(d)
    BY DEF MoveTest, Changes
  <2>4. Notes(d)
    BY <2>1, UnderWay DEF IInv, TypeOK, MoveTest, Notes, Told
  <2> QED
    BY <2>1, <2>2, <2>3, <2>4 DEF Shape
<1>13. MoveMv(d) => Shape(d)
  <2> SUFFICES ASSUME MoveMv(d)
               PROVE  Shape(d)
    OBVIOUS
  <2>1. Begun(d) /\ request' = request
    BY DEF MoveMv, At, Begun
  <2>2. Moves(d)
    BY DEF MoveMv, Moves, Steps, Answers
  <2>3. Changes(d)
    <3>1. CASE NoChange
      BY <3>1 DEF Changes
    <3>2. CASE ~ NoChange
      <4>1. Change(Moved(Path(d), request[d].to), Sess(d), d)
        BY <3>2 DEF MoveMv
      <4>2. Moved(Path(d), request[d].to) \in [Paths -> Nodes] /\ Allowed(Moved(Path(d), request[d].to), d)
        BY <2>1, <3>2, MovedAllowed DEF MoveMv, At
      <4> QED
        BY <4>1, <4>2 DEF MoveMv, Changes
    <3> QED
      BY <3>1, <3>2
  <2>4. Notes(d)
    BY <2>1, UnderWay DEF IInv, TypeOK, MoveMv, Notes, Told
  <2> QED
    BY <2>1, <2>2, <2>3, <2>4 DEF Shape
<1>14. mkdir(d) => Shape(d)
  <2> SUFFICES ASSUME mkdir(d)
               PROVE  Shape(d)
    OBVIOUS
  <2>1. Begun(d) /\ request' = request
    BY DEF mkdir, At, Begun
  <2>2. Moves(d)
    BY DEF mkdir, Moves, Steps, Answers
  <2>3. Changes(d)
    <3>1. CASE NoChange
      BY <3>1 DEF Changes
    <3>2. CASE ~ NoChange
      <4>1. Change([fs EXCEPT ![Path(d)] = Dir], Sess(d), d)
        BY <3>2 DEF mkdir
      <4>2. [fs EXCEPT ![Path(d)] = Dir] \in [Paths -> Nodes] /\ Allowed([fs EXCEPT ![Path(d)] = Dir], d)
        BY <2>1, <3>2, MadeAllowed DEF mkdir, At
      <4> QED
        BY <4>1, <4>2 DEF mkdir, Changes
    <3> QED
      BY <3>1, <3>2
  <2>4. Notes(d)
    BY <2>1, UnderWay DEF IInv, TypeOK, mkdir, Notes, Told
  <2> QED
    BY <2>1, <2>2, <2>3, <2>4 DEF Shape
<1>15. exists(d) => Shape(d)
  <2> SUFFICES ASSUME exists(d)
               PROVE  Shape(d)
    OBVIOUS
  <2>1. Begun(d) /\ request' = request
    BY DEF exists, At, Begun
  <2>2. Moves(d)
    BY DEF exists, Moves, Steps, Answers
  <2>3. Changes(d)
    BY DEF exists, Changes
  <2>4. Notes(d)
    BY <2>1, UnderWay DEF IInv, TypeOK, exists, Notes, Told
  <2> QED
    BY <2>1, <2>2, <2>3, <2>4 DEF Shape
<1>16. ListTest(d) => Shape(d)
  <2> SUFFICES ASSUME ListTest(d)
               PROVE  Shape(d)
    OBVIOUS
  <2>1. Begun(d) /\ request' = request
    BY DEF ListTest, At, Begun
  <2>2. Moves(d)
    BY DEF ListTest, Moves, Steps, Answers
  <2>3. Changes(d)
    BY DEF ListTest, Changes
  <2>4. Notes(d)
    BY <2>1, UnderWay DEF IInv, TypeOK, ListTest, Notes, Told
  <2> QED
    BY <2>1, <2>2, <2>3, <2>4 DEF Shape
<1>17. StatTest(d) => Shape(d)
  <2> SUFFICES ASSUME StatTest(d)
               PROVE  Shape(d)
    OBVIOUS
  <2>1. Begun(d) /\ request' = request
    BY DEF StatTest, At, Begun
  <2>2. Moves(d)
    BY DEF StatTest, Moves, Steps, Answers
  <2>3. Changes(d)
    BY DEF StatTest, Changes
  <2>4. Notes(d)
    BY <2>1, UnderWay DEF IInv, TypeOK, StatTest, Notes, Told
  <2> QED
    BY <2>1, <2>2, <2>3, <2>4 DEF Shape
<1>18. Stat(d) => Shape(d)
  <2> SUFFICES ASSUME Stat(d)
               PROVE  Shape(d)
    OBVIOUS
  <2>1. Begun(d) /\ request' = request
    BY DEF Stat, At, Begun
  <2>2. Moves(d)
    BY DEF Stat, Moves, Steps, Answers
  <2>3. Changes(d)
    BY DEF Stat, Changes
  <2>4. Notes(d)
    BY <2>1, UnderWay DEF IInv, TypeOK, Stat, Notes, Told
  <2> QED
    BY <2>1, <2>2, <2>3, <2>4 DEF Shape
<1>19. ListFind(d) => Shape(d)
  <2> SUFFICES ASSUME ListFind(d)
               PROVE  Shape(d)
    OBVIOUS
  <2>1. Begun(d) /\ request' = request
    BY DEF ListFind, At, Begun
  <2>2. Moves(d)
    BY DEF ListFind, Moves, Steps, Answers
  <2>3. Changes(d)
    BY DEF ListFind, Changes
  <2>4. Notes(d)
    BY <2>1, UnderWay DEF IInv, TypeOK, ListFind, Notes, Told
  <2> QED
    BY <2>1, <2>2, <2>3, <2>4 DEF Shape
<1>20. StreamTest(d) => Shape(d)
  <2> SUFFICES ASSUME StreamTest(d)
               PROVE  Shape(d)
    OBVIOUS
  <2>1. Begun(d) /\ request' = request
    BY DEF StreamTest, At, Begun
  <2>2. Moves(d)
    BY DEF StreamTest, Moves, Steps, Answers
  <2>3. Changes(d)
    BY DEF StreamTest, Changes
  <2>4. Notes(d)
    BY <2>1, UnderWay DEF IInv, TypeOK, StreamTest, Notes, Told
  <2> QED
    BY <2>1, <2>2, <2>3, <2>4 DEF Shape
<1>21. StreamSize(d) => Shape(d)
  <2> SUFFICES ASSUME StreamSize(d)
               PROVE  Shape(d)
    OBVIOUS
  <2>1. Begun(d) /\ request' = request
    BY DEF StreamSize, At, Begun
  <2>2. Moves(d)
    BY DEF StreamSize, Moves, Steps, Answers
  <2>3. Changes(d)
    BY DEF StreamSize, Changes
  <2>4. Notes(d)
    <3>1. got[d] \in Told /\ Node(d) \in Nodes
      BY <2>1, UnderWay
    <3> DEFINE g == [got[d] EXCEPT !.size = Node(d).len]
    <3>2. g \in Told
      BY <3>1, NodeTypes DEF Told, IsBinary
    <3>3. got' = got \/ got' = [got EXCEPT ![d] = g]
      BY DEF StreamSize
    <3>4. UNCHANGED << chunks, left, broken >>
      BY DEF StreamSize
    <3> HIDE DEF g
    <3> QED
      BY <3>2, <3>3, <3>4 DEF IInv, TypeOK, Notes
  <2> QED
    BY <2>1, <2>2, <2>3, <2>4 DEF Shape
<1>22. StreamMime(d) => Shape(d)
  <2> SUFFICES ASSUME StreamMime(d)
               PROVE  Shape(d)
    OBVIOUS
  <2>1. Begun(d) /\ request' = request
    BY DEF StreamMime, At, Begun
  <2>2. Moves(d)
    BY DEF StreamMime, Moves, Steps, Answers
  <2>3. Changes(d)
    BY DEF StreamMime, Changes
  <2>4. Notes(d)
    <3>1. got[d] \in Told /\ Node(d) \in Nodes
      BY <2>1, UnderWay
    <3> DEFINE g == [got[d] EXCEPT !.binary = IsBinary(Node(d))]
    <3>2. g \in Told
      BY <3>1, NodeTypes DEF Told, IsBinary
    <3>3. got' = got \/ got' = [got EXCEPT ![d] = g]
      BY DEF StreamMime
    <3>4. UNCHANGED << chunks, left, broken >>
      BY DEF StreamMime
    <3> HIDE DEF g
    <3> QED
      BY <3>2, <3>3, <3>4 DEF IInv, TypeOK, Notes
  <2> QED
    BY <2>1, <2>2, <2>3, <2>4 DEF Shape
<1>23. StreamChunk(d) => Shape(d)
  <2> SUFFICES ASSUME StreamChunk(d)
               PROVE  Shape(d)
    OBVIOUS
  <2>1. Begun(d) /\ request' = request
    BY DEF StreamChunk, At, Begun
  <2>2. Moves(d)
    BY DEF StreamChunk, Moves, Steps, Answers
  <2>3. Changes(d)
    BY DEF StreamChunk, Changes
  <2>4. Notes(d)
    <3>1. got[d] \in Told
      BY <2>1, UnderWay
    <3> DEFINE out == Output(Node(d), got[d].binary, Len(chunks[d]) + 1)
               g(fewer) == [got[d] EXCEPT !.short = @ \/ ~ out.whole \/ fewer]
    <3>2. \A fewer \in BOOLEAN : g(fewer) \in Told
      BY <3>1 DEF Told
    <3>3. got' = got \/ \E fewer \in BOOLEAN : got' = [got EXCEPT ![d] = g(fewer)]
      BY DEF StreamChunk
    <3>4. chunks' = chunks \/ chunks' = [chunks EXCEPT ![d] = Append(chunks[d], out)]
      BY DEF StreamChunk
    <3>5. request[d].op = "stream" /\ UNCHANGED << left, broken >>
      BY DEF StreamChunk, At
    <3> HIDE DEF g, out
    <3> QED
      BY <3>2, <3>3, <3>4, <3>5 DEF IInv, TypeOK, Notes
  <2> QED
    BY <2>1, <2>2, <2>3, <2>4 DEF Shape
<1>24. StreamComplete(d) => Shape(d)
  <2> SUFFICES ASSUME StreamComplete(d)
               PROVE  Shape(d)
    OBVIOUS
  <2>1. Begun(d) /\ request' = request
    BY DEF StreamComplete, At, Begun
  <2>2. Moves(d)
    BY DEF StreamComplete, Moves, Steps, Answers
  <2>3. Changes(d)
    BY DEF StreamComplete, Changes
  <2>4. Notes(d)
    BY <2>1, UnderWay DEF IInv, TypeOK, StreamComplete, Notes, Told
  <2> QED
    BY <2>1, <2>2, <2>3, <2>4 DEF Shape
<1>25. Leave(d) => Shape(d)
  <2> SUFFICES ASSUME Leave(d)
               PROVE  Shape(d)
    OBVIOUS
  <2>1. Begun(d) /\ request' = request
    BY DEF Leave, At, Begun
  <2>2. Moves(d)
    BY DEF Leave, Moves, Steps, Answers
  <2>3. Changes(d)
    BY DEF Leave, Changes
  <2>4. Notes(d)
    BY <2>1, UnderWay DEF IInv, TypeOK, Leave, Notes, Told
  <2> QED
    BY <2>1, <2>2, <2>3, <2>4 DEF Shape
<1>26. Clone(d) => Shape(d)
  <2> SUFFICES ASSUME Clone(d)
               PROVE  Shape(d)
    OBVIOUS
  <2>1. Begun(d) /\ request' = request
    BY DEF Clone, At, Begun
  <2>2. Moves(d)
    BY DEF Clone, Moves, Steps, Answers
  <2>3. Changes(d)
    <3>1. CASE NoChange
      BY <3>1 DEF Changes
    <3>2. CASE ~ NoChange
      <4>1. Change([fs EXCEPT ![Path(d)] = Dir], Sess(d), d)
        BY <3>2 DEF Clone
      <4>2. [fs EXCEPT ![Path(d)] = Dir] \in [Paths -> Nodes] /\ Allowed([fs EXCEPT ![Path(d)] = Dir], d)
        BY <2>1, <3>2, ClonedAllowed DEF Clone, At
      <4> QED
        BY <4>1, <4>2 DEF Clone, Changes
    <3> QED
      BY <3>1, <3>2
  <2>4. Notes(d)
    BY <2>1, UnderWay DEF IInv, TypeOK, Clone, Notes, Told
  <2> QED
    BY <2>1, <2>2, <2>3, <2>4 DEF Shape
<1>27. CloneBranch(d) => Shape(d)
  <2> SUFFICES ASSUME CloneBranch(d)
               PROVE  Shape(d)
    OBVIOUS
  <2>1. Begun(d) /\ request' = request
    BY DEF CloneBranch, At, Begun
  <2>2. Moves(d)
    BY DEF CloneBranch, Moves, Steps, Answers
  <2>3. Changes(d)
    BY DEF CloneBranch, Changes
  <2>4. Notes(d)
    BY <2>1, UnderWay DEF IInv, TypeOK, CloneBranch, Notes, Told
  <2> QED
    BY <2>1, <2>2, <2>3, <2>4 DEF Shape
<1> QED
  BY <1>1, <1>2, <1>3, <1>4, <1>5, <1>6, <1>7, <1>8, <1>9, <1>10, <1>11, <1>12, <1>13, <1>14, <1>15, <1>16, <1>17, <1>18, <1>19, <1>20, <1>21, <1>22, <1>23, <1>24, <1>25, <1>26, <1>27 DEF CallStep

-----------------------------------------------------------------------------
(***************************************************************************)
(* What a step is to the calls that do not take it                         *)
(***************************************************************************)

\* The history of call c after a step
Witnessed(c) ==
  /\ ~ Begun(c) => was'[c] = was[c] /\ changers'[c] = changers[c]
  /\ Begun(c) => was'[c] = was[c] \cup {fs'[Path(c)]}
  /\ changers[c] \subseteq changers'[c]

\* Call c itself is where it was, and has its lock.
Kept(c) ==
  /\ request'[c] = request[c] /\ pc'[c] = pc[c] /\ answer'[c] = answer[c]
  /\ got'[c] = got[c] /\ chunks'[c] = chunks[c]
  /\ c \in broken' <=> c \in broken
  /\ holder[Sess(c)] = c => holder'[Sess(c)] = c

\* Somebody else has made the step: whoever changes the path of c is noted, and
\* nobody but the background changes what c found there while it has the lock.
Bystander(c) ==
  /\ Kept(c) /\ Witnessed(c)
  /\ Begun(c) /\ fs'[Path(c)] # Node(c) => changers'[c] # {}
  /\ /\ Holds(request[c].op, pc[c]) /\ request[c].op \in InDefault
     /\ Node(c) # Absent /\ None \notin changers'[c]
     => fs'[Path(c)] = Node(c)

\* A call that holds its lock is under way.
LEMMA HoldsBegun ==
  \A op, at : Holds(op, at) => at \in Steps \ {"start"}
BY DEF Holds, Steps

\* What a bystander knew still holds.
LEMMA BystanderKept ==
  ASSUME IInv, NEW c \in Calls, Bystander(c)
  PROVE  CallInv(c)'
<1>1. CallInv(c) /\ Kept(c) /\ Witnessed(c)
  BY DEF IInv, Bystander
<1>2. /\ Path(c)' = Path(c) /\ Sess(c)' = Sess(c) /\ Begun(c)' = Begun(c)
      /\ Node(c)' = fs'[Path(c)]
  BY <1>1 DEF Kept, Path, Sess, Begun, Node
<1>3. SessionInv(c)'
  BY <1>1, <1>2 DEF CallInv, SessionInv, Kept
<1>4. SeenInv(c)'
  BY <1>1, <1>2 DEF SeenInv, Witnessed
<1>5. was[c] \subseteq was'[c] /\ changers[c] \subseteq changers'[c]
  BY <1>1 DEF Witnessed
<1>6. ReadInv(c)'
  <2> SUFFICES ASSUME request[c].op = "read", None \notin changers'[c]
               PROVE  ReadInv(c)'
    BY <1>1 DEF ReadInv, Kept
  <2>1. None \notin changers[c]
    BY <1>5
  <2>2. pc[c] \in {"size", "mime", "cat"} => fs'[Path(c)] = Node(c)
    BY <1>1, <2>1 DEF CallInv, ReadInv, Bystander, Holds, InDefault
  <2> QED
    BY <1>1, <1>2, <2>1, <2>2 DEF CallInv, ReadInv, Kept, AsBinary
<1>7. MadeInv(c)'
  <2>1. request[c].op = "write" /\ pc[c] = "fill" /\ None \notin changers'[c] =>
          Node(c)' = File(request[c].content, 0)
    <3>1. File(request[c].content, 0) # Absent
      BY DEF File, Absent
    <3> QED
      BY <1>1, <1>2, <1>5, <3>1 DEF CallInv, MadeInv, Bystander, Holds, InDefault
  <2>2. request[c].op = "list" /\ pc[c] = "find" /\ changers'[c] = {} /\ c \notin broken =>
          Node(c)'.kind # "file"
    BY <1>1, <1>2, <1>5 DEF CallInv, MadeInv, Bystander, Begun
  <2>3. request[c].op = "clone" /\ pc[c] = "branch" => \E n \in was'[c] : n.kind = "dir"
    BY <1>1, <1>5 DEF CallInv, MadeInv
  <2> QED
    BY <1>1, <2>1, <2>2, <2>3 DEF MadeInv, Kept
<1>8. TrueAnswer(c)'
  BY <1>1, <1>5 DEF CallInv, TrueAnswer, Kept
<1> QED
  BY <1>3, <1>4, <1>6, <1>7, <1>8 DEF CallInv

\* A step of call d is a bystander's step to all others.
LEMMA ShapeBystander ==
  ASSUME IInv, NEW d \in Calls, Shape(d), NEW c \in Calls, c # d
  PROVE  Bystander(c)
<1>1. CallInv(c) /\ Begun(d)
  BY DEF IInv, Shape
<1>2. Sess(d) \in Sessions /\ Sess(d) # None
  BY <1>1, UnderWay, DefaultAssumption
<1>3. Kept(c)
  <2>1. request'[c] = request[c]
    BY DEF Shape
  <2>2. pc'[c] = pc[c] /\ answer'[c] = answer[c]
    BY DEF IInv, TypeOK, Shape, Moves, Goto, Answer
  <2>3. got'[c] = got[c]
    BY DEF IInv, DataOK, Shape, Notes
  <2>4. chunks'[c] = chunks[c]
    BY DEF IInv, DataOK, Shape, Notes
  <2>5. c \in broken' <=> c \in broken
    BY DEF Shape, Notes
  <2>6. holder[Sess(c)] = c => holder'[Sess(c)] = c
    BY <1>2, DefaultAssumption
       DEF IInv, TypeOK, Shape, Moves, Goto, Answer, Hold, HasTurn, Release, Sess
  <2> QED
    BY <2>1, <2>2, <2>3, <2>4, <2>5, <2>6 DEF Kept
<1>4. CASE NoChange
  <2>1. Witnessed(c)
    BY <1>1, <1>4 DEF NoChange, Witnessed, CallInv, SeenInv, Node
  <2> QED
    BY <1>3, <1>4, <2>1 DEF NoChange, Bystander, Node
<1>5. ASSUME HasTurn(d), NEW f \in [Paths -> Nodes], Change(f, Sess(d), d), Allowed(f, d)
      PROVE  Bystander(c)
  <2>1. /\ fs' = f
        /\ was'[c] = IF Begun(c) THEN was[c] \cup {f[Path(c)]} ELSE was[c]
        /\ changers'[c] = IF Begun(c) /\ c # d /\ f[Path(c)] # fs[Path(c)]
                          THEN changers[c] \cup {Sess(d)} ELSE changers[c]
    BY <1>5 DEF Change
  <2>2. Witnessed(c)
    BY <2>1 DEF Witnessed
  <2>3. Begun(c) /\ fs'[Path(c)] # Node(c) => changers'[c] # {}
    BY <2>1 DEF Node
  <2>4. ASSUME Holds(request[c].op, pc[c]), request[c].op \in InDefault, Node(c) # Absent
        PROVE  f[Path(c)] = Node(c)
    <3>1. pc[c] # "idle"
      BY <2>4, HoldsBegun DEF Steps
    <3>2. holder[Sess(c)] = c /\ Sess(c) = Default /\ Path(c) \in Paths
      BY <1>1, <2>4, <3>1 DEF CallInv, SessionInv
    <3>3. CASE request[d].op \in InDefault
      <4>1. Sess(d) = Default
        BY <3>3, <1>1 DEF IInv, CallInv, SessionInv, Begun
      <4>2. c \in {None, d}
        BY <1>5, <3>2, <4>1 DEF HasTurn
      <4> QED
        BY <4>2, DefaultAssumption
    <3>4. CASE fs[Path(c)].kind # "file" /\ f[Path(c)] = Dir
      <4>1. fs[Path(c)] \in Nodes
        BY <3>2 DEF IInv, TypeOK
      <4>2. fs[Path(c)] = Dir
        BY <2>4, <3>4, <4>1, NodeTypes DEF Node
      <4> QED
        BY <3>4, <4>2 DEF Node
    <3> QED
      BY <1>5, <3>2, <3>3, <3>4 DEF Allowed, Node
  <2> QED
    BY <1>3, <2>1, <2>2, <2>3, <2>4 DEF Bystander
<1> QED
  BY <1>4, <1>5 DEF Shape, Changes

\* So is a request that arrives,
LEMMA ArrivalBystander ==
  ASSUME IInv, NEW d \in Calls, handle(d), NEW c \in Calls, c # d
  PROVE  Bystander(c)
<1>1. CallInv(c)
  BY DEF IInv
<1>2. UNCHANGED << fs, holder, got, chunks, answer, left, changers, broken, interfered >>
  BY DEF handle
<1>3. pc'[c] = pc[c] /\ request'[c] = request[c] /\ was'[c] = was[c]
  BY DEF handle, IInv, TypeOK, DataOK
<1>4. Kept(c)
  BY <1>2, <1>3 DEF Kept
<1>5. Witnessed(c)
  BY <1>1, <1>2, <1>3 DEF Witnessed, CallInv, SeenInv, Node
<1> QED
  BY <1>2, <1>4, <1>5 DEF Bystander, Node

\* and what a program in the background does.
LEMMA BackgroundBystander ==
  ASSUME IInv, Interfere, NEW c \in Calls
  PROVE  Bystander(c)
<1>1. PICK f : Change(f, None, None)
  BY DEF Interfere
<1>2. c # None
  BY DefaultAssumption
<1>3. Kept(c)
  BY DEF Interfere, callVars, Kept
<1>4. /\ fs' = f
      /\ was'[c] = IF Begun(c) THEN was[c] \cup {f[Path(c)]} ELSE was[c]
      /\ changers'[c] = IF Begun(c) /\ f[Path(c)] # fs[Path(c)]
                        THEN changers[c] \cup {None} ELSE changers[c]
  BY <1>1, <1>2 DEF Change
<1>5. Witnessed(c)
  BY <1>4 DEF Witnessed
<1>6. Holds(request[c].op, pc[c]) => Begun(c)
  BY HoldsBegun DEF Begun, Steps
<1> QED
  BY <1>3, <1>4, <1>5, <1>6 DEF Bystander, Node

-----------------------------------------------------------------------------
(***************************************************************************)
(* What a step is to the call that takes it                                *)
(***************************************************************************)

\* What every step of a call is to the call itself
LEMMA OwnShape ==
  ASSUME IInv, NEW d \in Calls, Shape(d)
  PROVE  /\ request' = request /\ Path(d)' = Path(d) /\ Sess(d)' = Sess(d)
         /\ was'[d] = was[d] \cup {fs'[Path(d)]}
         /\ changers'[d] = changers[d]
         /\ pc'[d] # "idle"
         /\ SeenInv(d)'
<1>1. Begun(d) /\ request' = request /\ Node(d) \in was[d]
  BY UnderWay DEF Shape
<1>2. Path(d)' = Path(d) /\ Sess(d)' = Sess(d)
  BY <1>1 DEF Path, Sess
<1>3. was'[d] = was[d] \cup {fs'[Path(d)]} /\ changers'[d] = changers[d]
  <2>1. CASE NoChange
    BY <1>1, <2>1 DEF NoChange, Node
  <2>2. CASE \E f \in [Paths -> Nodes] : Change(f, Sess(d), d)
    BY <1>1, <2>2 DEF Change
  <2> QED
    BY <2>1, <2>2 DEF Shape, Changes
<1>4. pc'[d] # "idle"
  BY <1>1 DEF IInv, TypeOK, Shape, Moves, Goto, Answer, Steps, Begun
<1> QED
  BY <1>1, <1>2, <1>3, <1>4 DEF SeenInv, Node

\* What a call that takes a step needs to know of it
LEMMA OwnKept ==
  ASSUME IInv, NEW d \in Calls, Shape(d),
         Holds(request[d].op, pc'[d]) => holder'[Sess(d)] = d,
         ReadInv(d)', MadeInv(d)', TrueAnswer(d)'
  PROVE  CallInv(d)'
BY OwnShape DEF IInv, CallInv, SessionInv, Shape, Begun

\* Every step of a call keeps what is said of it.
LEMMA OwnStep ==
  ASSUME IInv, NEW d \in Calls, CallStep(d)
  PROVE  CallInv(d)'
<1>1. Shape(d) /\ CallInv(d)
  BY StepShape DEF IInv
<1>2. /\ request' = request /\ Path(d)' = Path(d)
      /\ was'[d] = was[d] \cup {fs'[Path(d)]} /\ changers'[d] = changers[d]
  BY <1>1, OwnShape
<1>3. /\ Path(d) \in Paths /\ Sess(d) \in Sessions /\ Node(d) \in Nodes
      /\ Node(d) \in was[d] /\ answer[d] = "none"
  BY <1>1, UnderWay DEF Shape
<1> DEFINE Had(kind) == \E n \in was'[d] : n.kind = kind
<1>a. /\ ~ TestE(d) => Had("absent")
      /\ TestE(d) => Had("file") \/ Had("dir")
      /\ Node(d) = Dir => Had("dir")
      /\ Node(d).kind = "file" => Had("file")
      /\ fs'[Path(d)] = Absent => Had("absent")
      /\ fs'[Path(d)] = Dir => Had("dir")
  <2>1. Absent.kind = "absent" /\ Dir.kind = "dir"
    BY DEF Absent, Dir
  <2>2. Node(d) \in was'[d] /\ fs'[Path(d)] \in was'[d]
    BY <1>2, <1>3
  <2>3. Node(d) # Absent => Node(d).kind \in {"file", "dir"}
    BY <1>3, NodeTypes
  <2> QED
    BY <2>1, <2>2, <2>3 DEF TestE
<1> USE NodeTypes
<1>4. CASE Refuse(d)
  <2>1. Holds(request[d].op, pc'[d]) => holder'[Sess(d)] = d
    BY <1>1, <1>3, <1>4 DEF IInv, TypeOK, CallInv, SessionInv, Refuse, At, Goto, Answer, Release, Hold, Holds
  <2>2. ReadInv(d)'
    BY <1>1, <1>2, <1>3, <1>4 DEF IInv, TypeOK, DataOK, CallInv, ReadInv, Refuse, At, Goto, Answer, Node, NoChange, TestE
  <2>3. MadeInv(d)'
    BY <1>1, <1>2, <1>3, <1>4 DEF IInv, TypeOK, DataOK, CallInv, MadeInv, Refuse, At, Goto, Answer, Node, NoChange, TestE
  <2>4. TrueAnswer(d)'
    BY <1>1, <1>2, <1>3, <1>4 DEF IInv, TypeOK, DataOK, CallInv, TrueAnswer, Refuse, At, Goto, Answer, Node, NoChange, TestE
  <2> QED
    BY <1>1, <2>1, <2>2, <2>3, <2>4, OwnKept
<1>5. CASE SessionFails(d)
  <2>1. Holds(request[d].op, pc'[d]) => holder'[Sess(d)] = d
    BY <1>1, <1>3, <1>5, ZenonT(60) DEF IInv, TypeOK, CallInv, SessionInv, SessionFails, At, Goto, Answer, Release, Hold, Holds
  <2>2. ReadInv(d)'
    BY <1>1, <1>2, <1>3, <1>5 DEF IInv, TypeOK, DataOK, CallInv, ReadInv, SessionFails, At, Goto, Answer, Node, NoChange, TestE
  <2>3. MadeInv(d)'
    BY <1>1, <1>2, <1>3, <1>5 DEF IInv, TypeOK, DataOK, CallInv, MadeInv, SessionFails, At, Goto, Answer, Node, NoChange, TestE
  <2>4. TrueAnswer(d)'
    BY <1>1, <1>2, <1>3, <1>5 DEF IInv, TypeOK, DataOK, CallInv, TrueAnswer, SessionFails, At, Goto, Answer, Node, NoChange, TestE
  <2> QED
    BY <1>1, <2>1, <2>2, <2>3, <2>4, OwnKept
<1>6. CASE ReadTest(d)
  <2>1. Holds(request[d].op, pc'[d]) => holder'[Sess(d)] = d
    BY <1>1, <1>3, <1>6 DEF IInv, TypeOK, CallInv, SessionInv, ReadTest, At, Goto, Answer, Release, Hold, Holds
  <2>2. ReadInv(d)'
    BY <1>1, <1>2, <1>3, <1>6 DEF IInv, TypeOK, DataOK, CallInv, ReadInv, ReadTest, At, Goto, Answer, Node, NoChange, TestE
  <2>3. MadeInv(d)'
    BY <1>1, <1>2, <1>3, <1>6 DEF IInv, TypeOK, DataOK, CallInv, MadeInv, ReadTest, At, Goto, Answer, Node, NoChange, TestE
  <2>4. TrueAnswer(d)'
    <3>1. answer'[d] = "none" \/ (answer'[d] = "not found" /\ ~ TestE(d))
      BY <1>3, <1>6 DEF IInv, TypeOK, ReadTest, Goto, Answer
    <3> QED
      BY <1>2, <1>a, <3>1 DEF TrueAnswer
  <2> QED
    BY <1>1, <2>1, <2>2, <2>3, <2>4, OwnKept
<1>7. CASE ReadSize(d)
  <2>1. Holds(request[d].op, pc'[d]) => holder'[Sess(d)] = d
    BY <1>1, <1>3, <1>7 DEF IInv, TypeOK, CallInv, SessionInv, ReadSize, At, Goto, Answer, Release, Hold, Holds
  <2>2. ReadInv(d)'
    BY <1>1, <1>2, <1>3, <1>7 DEF IInv, TypeOK, DataOK, CallInv, ReadInv, ReadSize, At, Goto, Answer, Node, NoChange, TestE
  <2>3. MadeInv(d)'
    BY <1>1, <1>2, <1>3, <1>7 DEF IInv, TypeOK, DataOK, CallInv, MadeInv, ReadSize, At, Goto, Answer, Node, NoChange, TestE
  <2>4. TrueAnswer(d)'
    BY <1>1, <1>2, <1>3, <1>7 DEF IInv, TypeOK, DataOK, CallInv, TrueAnswer, ReadSize, At, Goto, Answer, Node, NoChange, TestE
  <2> QED
    BY <1>1, <2>1, <2>2, <2>3, <2>4, OwnKept
<1>8. CASE ReadMime(d)
  <2>1. Holds(request[d].op, pc'[d]) => holder'[Sess(d)] = d
    BY <1>1, <1>3, <1>8 DEF IInv, TypeOK, CallInv, SessionInv, ReadMime, At, Goto, Answer, Release, Hold, Holds
  <2>2. ReadInv(d)'
    BY <1>1, <1>2, <1>3, <1>8 DEF IInv, TypeOK, DataOK, CallInv, ReadInv, ReadMime, At, Goto, Answer, Node, NoChange, TestE, AsBinary
  <2>3. MadeInv(d)'
    BY <1>1, <1>2, <1>3, <1>8 DEF IInv, TypeOK, DataOK, CallInv, MadeInv, ReadMime, At, Goto, Answer, Node, NoChange, TestE
  <2>4. TrueAnswer(d)'
    BY <1>1, <1>2, <1>3, <1>8 DEF IInv, TypeOK, DataOK, CallInv, TrueAnswer, ReadMime, At, Goto, Answer, Node, NoChange, TestE
  <2> QED
    BY <1>1, <2>1, <2>2, <2>3, <2>4, OwnKept
<1>9. CASE ReadCat(d)
  <2>1. Holds(request[d].op, pc'[d]) => holder'[Sess(d)] = d
    BY <1>1, <1>3, <1>9 DEF IInv, TypeOK, CallInv, SessionInv, ReadCat, At, Goto, Answer, Release, Hold, Holds
  <2>2. ReadInv(d)'
    <3>1. /\ answer'[d] = "error" \/ (answer'[d] = "ok" /\ got'[d].content = Node(d))
          /\ pc'[d] = "done" /\ pc[d] = "cat"
          /\ got'[d].size = got[d].size /\ got'[d].binary = got[d].binary
      BY <1>3, <1>9 DEF IInv, TypeOK, DataOK, ReadCat, At, Answer
    <3>2. request' = request /\ changers[d] \subseteq changers'[d] /\ ReadInv(d)
      BY <1>1, <1>2, <1>9 DEF ReadCat, CallInv, NoChange
    <3> QED
      BY <3>1, <3>2 DEF ReadInv, AsBinary
  <2>3. MadeInv(d)'
    BY <1>1, <1>2, <1>3, <1>9 DEF IInv, TypeOK, DataOK, CallInv, MadeInv, ReadCat, At, Goto, Answer, Node, NoChange, TestE
  <2>4. TrueAnswer(d)'
    <3>1. answer'[d] = "error" \/ (answer'[d] = "ok" /\ got'[d].content = Node(d))
      BY <1>3, <1>9 DEF IInv, TypeOK, DataOK, ReadCat, Goto, Answer
    <3>2. request[d].op = "read"
      BY <1>9 DEF ReadCat, At
    <3>3. Node(d) \in was'[d]
      BY <1>2, <1>3
    <3> QED
      BY <1>2, <1>a, <3>1, <3>2, <3>3 DEF TrueAnswer
  <2> QED
    BY <1>1, <2>1, <2>2, <2>3, <2>4, OwnKept
<1>10. CASE DeleteTest(d)
  <2>1. Holds(request[d].op, pc'[d]) => holder'[Sess(d)] = d
    BY <1>1, <1>3, <1>10 DEF IInv, TypeOK, CallInv, SessionInv, DeleteTest, At, Goto, Answer, Release, Hold, Holds
  <2>2. ReadInv(d)'
    BY <1>1, <1>2, <1>3, <1>10 DEF IInv, TypeOK, DataOK, CallInv, ReadInv, DeleteTest, At, Goto, Answer, Node, NoChange, TestE
  <2>3. MadeInv(d)'
    BY <1>1, <1>2, <1>3, <1>10 DEF IInv, TypeOK, DataOK, CallInv, MadeInv, DeleteTest, At, Goto, Answer, Node, NoChange, TestE
  <2>4. TrueAnswer(d)'
    <3>1. answer'[d] = "none" \/ (answer'[d] = "not found" /\ ~ TestE(d))
      BY <1>3, <1>10 DEF IInv, TypeOK, DeleteTest, Goto, Answer
    <3> QED
      BY <1>2, <1>a, <3>1 DEF TrueAnswer
  <2> QED
    BY <1>1, <2>1, <2>2, <2>3, <2>4, OwnKept
<1>11. CASE DeleteTestDir(d)
  <2>1. Holds(request[d].op, pc'[d]) => holder'[Sess(d)] = d
    BY <1>1, <1>3, <1>11 DEF IInv, TypeOK, CallInv, SessionInv, DeleteTestDir, At, Goto, Answer, Release, Hold, Holds
  <2>2. ReadInv(d)'
    BY <1>1, <1>2, <1>3, <1>11 DEF IInv, TypeOK, DataOK, CallInv, ReadInv, DeleteTestDir, At, Goto, Answer, Node, NoChange, TestE
  <2>3. MadeInv(d)'
    BY <1>1, <1>2, <1>3, <1>11 DEF IInv, TypeOK, DataOK, CallInv, MadeInv, DeleteTestDir, At, Goto, Answer, Node, NoChange, TestE
  <2>4. TrueAnswer(d)'
    <3>1. answer'[d] = "none" \/ (answer'[d] = "is directory" /\ Node(d) = Dir)
      BY <1>3, <1>11 DEF IInv, TypeOK, DeleteTestDir, Goto, Answer
    <3> QED
      BY <1>2, <1>a, <3>1 DEF TrueAnswer
  <2> QED
    BY <1>1, <2>1, <2>2, <2>3, <2>4, OwnKept
<1>12. CASE DeleteRm(d)
  <2>1. Holds(request[d].op, pc'[d]) => holder'[Sess(d)] = d
    BY <1>1, <1>3, <1>12 DEF IInv, TypeOK, CallInv, SessionInv, DeleteRm, At, Goto, Answer, Release, Hold, Holds
  <2>2. ReadInv(d)'
    BY <1>1, <1>2, <1>3, <1>12 DEF IInv, TypeOK, DataOK, CallInv, ReadInv, DeleteRm, At, Goto, Answer, Node, NoChange, TestE
  <2>3. MadeInv(d)'
    BY <1>1, <1>2, <1>3, <1>12 DEF IInv, TypeOK, DataOK, CallInv, MadeInv, DeleteRm, At, Goto, Answer, Node, NoChange, TestE
  <2>4. TrueAnswer(d)'
    <3>1. answer'[d] = "error" \/ (answer'[d] = "ok" /\ fs' = Removed(Path(d)))
      BY <1>3, <1>12 DEF IInv, TypeOK, DeleteRm, Goto, Answer, Change
    <3>2. Removed(Path(d))[Path(d)] = Absent
      BY <1>3 DEF Removed, IInv, TypeOK
    <3>3. request[d].op = "delete"
      BY <1>12 DEF DeleteRm, At
    <3> QED
      BY <1>2, <1>a, <3>1, <3>2, <3>3 DEF TrueAnswer
  <2> QED
    BY <1>1, <2>1, <2>2, <2>3, <2>4, OwnKept
<1>13. CASE WriteOpen(d)
  <2>1. Holds(request[d].op, pc'[d]) => holder'[Sess(d)] = d
    BY <1>1, <1>3, <1>13 DEF IInv, TypeOK, CallInv, SessionInv, WriteOpen, At, Goto, Answer, Release, Hold, Holds
  <2>2. ReadInv(d)'
    BY <1>1, <1>2, <1>3, <1>13 DEF IInv, TypeOK, DataOK, CallInv, ReadInv, WriteOpen, At, Goto, Answer, Node, NoChange, TestE
  <2>3. MadeInv(d)'
    <3>1. request[d].op = "write"
      BY <1>13 DEF WriteOpen, At
    <3>2. pc'[d] = "fill" => fs' = [fs EXCEPT ![Path(d)] = File(request[d].content, 0)]
      BY <1>13 DEF IInv, TypeOK, WriteOpen, Goto, Answer, Change
    <3>3. Node(d)' = fs'[Path(d)]
      BY <1>2 DEF Node
    <3>4. fs \in [Paths -> Nodes]
      BY DEF IInv, TypeOK
    <3> QED
      BY <1>2, <1>3, <3>1, <3>2, <3>3, <3>4 DEF MadeInv
  <2>4. TrueAnswer(d)'
    BY <1>1, <1>2, <1>3, <1>13 DEF IInv, TypeOK, DataOK, CallInv, TrueAnswer, WriteOpen, At, Goto, Answer, Node, NoChange, TestE
  <2> QED
    BY <1>1, <2>1, <2>2, <2>3, <2>4, OwnKept
<1>14. CASE WriteFill(d)
  <2>1. Holds(request[d].op, pc'[d]) => holder'[Sess(d)] = d
    BY <1>1, <1>3, <1>14 DEF IInv, TypeOK, CallInv, SessionInv, WriteFill, At, Goto, Answer, Release, Hold, Holds
  <2>2. ReadInv(d)'
    BY <1>1, <1>2, <1>3, <1>14 DEF IInv, TypeOK, DataOK, CallInv, ReadInv, WriteFill, At, Goto, Answer, Node, NoChange, TestE
  <2>3. MadeInv(d)'
    BY <1>1, <1>2, <1>3, <1>14 DEF IInv, TypeOK, DataOK, CallInv, MadeInv, WriteFill, At, Goto, Answer, Node, NoChange, TestE
  <2>4. TrueAnswer(d)'
    <3>1. answer'[d] \in {"error", "ok"} /\ request[d].op = "write"
      BY <1>3, <1>14 DEF IInv, TypeOK, WriteFill, Goto, Answer, At
    <3>2. answer'[d] = "ok" => fs' = Filled(d, Len(Blocks[request[d].content]))
      BY <1>3, <1>14 DEF IInv, TypeOK, WriteFill, Goto, Answer, Change
    <3>3. None \notin changers[d] => Node(d) = File(request[d].content, 0)
      BY <1>1, <1>14 DEF WriteFill, At, CallInv, MadeInv
    <3>4. None \notin changers[d] => Filled(d, Len(Blocks[request[d].content]))[Path(d)] = Whole(request[d].content)
      BY <1>3, <3>3 DEF IInv, TypeOK, Filled, Whole
    <3>5. fs'[Path(d)] \in was'[d]
      BY <1>2
    <3> QED
      BY <1>2, <1>a, <3>1, <3>2, <3>3, <3>4, <3>5 DEF TrueAnswer
  <2> QED
    BY <1>1, <2>1, <2>2, <2>3, <2>4, OwnKept
<1>15. CASE MoveTest(d)
  <2>1. Holds(request[d].op, pc'[d]) => holder'[Sess(d)] = d
    BY <1>1, <1>3, <1>15 DEF IInv, TypeOK, CallInv, SessionInv, MoveTest, At, Goto, Answer, Release, Hold, Holds
  <2>2. ReadInv(d)'
    BY <1>1, <1>2, <1>3, <1>15 DEF IInv, TypeOK, DataOK, CallInv, ReadInv, MoveTest, At, Goto, Answer, Node, NoChange, TestE
  <2>3. MadeInv(d)'
    BY <1>1, <1>2, <1>3, <1>15 DEF IInv, TypeOK, DataOK, CallInv, MadeInv, MoveTest, At, Goto, Answer, Node, NoChange, TestE
  <2>4. TrueAnswer(d)'
    <3>1. answer'[d] = "none" \/ (answer'[d] = "not found" /\ ~ TestE(d))
      BY <1>3, <1>15 DEF IInv, TypeOK, MoveTest, Goto, Answer
    <3> QED
      BY <1>2, <1>a, <3>1 DEF TrueAnswer
  <2> QED
    BY <1>1, <2>1, <2>2, <2>3, <2>4, OwnKept
<1>16. CASE MoveMv(d)
  <2>1. Holds(request[d].op, pc'[d]) => holder'[Sess(d)] = d
    BY <1>1, <1>3, <1>16 DEF IInv, TypeOK, CallInv, SessionInv, MoveMv, At, Goto, Answer, Release, Hold, Holds
  <2>2. ReadInv(d)'
    BY <1>1, <1>2, <1>3, <1>16 DEF IInv, TypeOK, DataOK, CallInv, ReadInv, MoveMv, At, Goto, Answer, Node, NoChange, TestE
  <2>3. MadeInv(d)'
    BY <1>1, <1>2, <1>3, <1>16 DEF IInv, TypeOK, DataOK, CallInv, MadeInv, MoveMv, At, Goto, Answer, Node, NoChange, TestE
  <2>4. TrueAnswer(d)'
    <3>1. answer'[d] = "error" \/ (answer'[d] = "ok" /\ fs' = Moved(Path(d), request[d].to) /\ Path(d) # request[d].to)
      BY <1>3, <1>16 DEF IInv, TypeOK, MoveMv, Goto, Answer, Change, CanMove
    <3>2. Path(d) # request[d].to => Moved(Path(d), request[d].to)[Path(d)] = Absent
      BY <1>3 DEF Moved, IInv, TypeOK
    <3>3. request[d].op = "move"
      BY <1>16 DEF MoveMv, At
    <3> QED
      BY <1>2, <1>a, <3>1, <3>2, <3>3 DEF TrueAnswer
  <2> QED
    BY <1>1, <2>1, <2>2, <2>3, <2>4, OwnKept
<1>17. CASE mkdir(d)
  <2>1. Holds(request[d].op, pc'[d]) => holder'[Sess(d)] = d
    BY <1>1, <1>3, <1>17 DEF IInv, TypeOK, CallInv, SessionInv, mkdir, At, Goto, Answer, Release, Hold, Holds
  <2>2. ReadInv(d)'
    BY <1>1, <1>2, <1>3, <1>17 DEF IInv, TypeOK, DataOK, CallInv, ReadInv, mkdir, At, Goto, Answer, Node, NoChange, TestE
  <2>3. MadeInv(d)'
    BY <1>1, <1>2, <1>3, <1>17 DEF IInv, TypeOK, DataOK, CallInv, MadeInv, mkdir, At, Goto, Answer, Node, NoChange, TestE
  <2>4. TrueAnswer(d)'
    <3>1. answer'[d] = "error" \/ (answer'[d] = "ok" /\ fs' = [fs EXCEPT ![Path(d)] = Dir])
      BY <1>3, <1>17 DEF IInv, TypeOK, mkdir, Goto, Answer, Change
    <3>2. [fs EXCEPT ![Path(d)] = Dir][Path(d)] = Dir
      BY <1>3 DEF IInv, TypeOK
    <3>3. request[d].op = "mkdir"
      BY <1>17 DEF mkdir, At
    <3> QED
      BY <1>2, <1>a, <3>1, <3>2, <3>3 DEF TrueAnswer
  <2> QED
    BY <1>1, <2>1, <2>2, <2>3, <2>4, OwnKept
<1>18. CASE exists(d)
  <2>1. Holds(request[d].op, pc'[d]) => holder'[Sess(d)] = d
    BY <1>1, <1>3, <1>18 DEF IInv, TypeOK, CallInv, SessionInv, exists, At, Goto, Answer, Release, Hold, Holds
  <2>2. ReadInv(d)'
    BY <1>1, <1>2, <1>3, <1>18 DEF IInv, TypeOK, DataOK, CallInv, ReadInv, exists, At, Goto, Answer, Node, NoChange, TestE
  <2>3. MadeInv(d)'
    BY <1>1, <1>2, <1>3, <1>18 DEF IInv, TypeOK, DataOK, CallInv, MadeInv, exists, At, Goto, Answer, Node, NoChange, TestE
  <2>4. TrueAnswer(d)'
    <3>1. answer'[d] = IF TestE(d) THEN "true" ELSE "false"
      BY <1>3, <1>18 DEF IInv, TypeOK, exists, Goto, Answer
    <3> QED
      BY <1>2, <1>a, <3>1 DEF TrueAnswer
  <2> QED
    BY <1>1, <2>1, <2>2, <2>3, <2>4, OwnKept
<1>19. CASE ListTest(d)
  <2>1. Holds(request[d].op, pc'[d]) => holder'[Sess(d)] = d
    BY <1>1, <1>3, <1>19 DEF IInv, TypeOK, CallInv, SessionInv, ListTest, At, Goto, Answer, Release, Hold, Holds
  <2>2. ReadInv(d)'
    BY <1>1, <1>2, <1>3, <1>19 DEF IInv, TypeOK, DataOK, CallInv, ReadInv, ListTest, At, Goto, Answer, Node, NoChange, TestE
  <2>3. MadeInv(d)'
    BY <1>1, <1>2, <1>3, <1>19 DEF IInv, TypeOK, DataOK, CallInv, MadeInv, ListTest, At, Goto, Answer, Node, NoChange, TestE
  <2>4. TrueAnswer(d)'
    <3>1. answer'[d] = "none" \/ (answer'[d] = "not found" /\ ~ TestE(d))
      BY <1>3, <1>19 DEF IInv, TypeOK, ListTest, Goto, Answer
    <3> QED
      BY <1>2, <1>a, <3>1 DEF TrueAnswer
  <2> QED
    BY <1>1, <2>1, <2>2, <2>3, <2>4, OwnKept
<1>20. CASE StatTest(d)
  <2>1. Holds(request[d].op, pc'[d]) => holder'[Sess(d)] = d
    BY <1>1, <1>3, <1>20 DEF IInv, TypeOK, CallInv, SessionInv, StatTest, At, Goto, Answer, Release, Hold, Holds
  <2>2. ReadInv(d)'
    BY <1>1, <1>2, <1>3, <1>20 DEF IInv, TypeOK, DataOK, CallInv, ReadInv, StatTest, At, Goto, Answer, Node, NoChange, TestE
  <2>3. MadeInv(d)'
    <3>1. request[d].op = "list"
      BY <1>20 DEF StatTest, At
    <3>2. pc'[d] = "find" => Node(d) = Absent
      BY <1>20 DEF IInv, TypeOK, StatTest, Goto, TestE
    <3>3. Node(d)' = Node(d)
      BY <1>2, <1>20 DEF Node, StatTest, NoChange
    <3>4. Absent.kind # "file"
      BY DEF Absent
    <3> QED
      BY <1>2, <3>1, <3>2, <3>3, <3>4 DEF MadeInv
  <2>4. TrueAnswer(d)'
    BY <1>1, <1>2, <1>3, <1>20 DEF IInv, TypeOK, DataOK, CallInv, TrueAnswer, StatTest, At, Goto, Answer, Node, NoChange, TestE
  <2> QED
    BY <1>1, <2>1, <2>2, <2>3, <2>4, OwnKept
<1>21. CASE Stat(d)
  <2>1. Holds(request[d].op, pc'[d]) => holder'[Sess(d)] = d
    BY <1>1, <1>3, <1>21 DEF IInv, TypeOK, CallInv, SessionInv, Stat, At, Goto, Answer, Release, Hold, Holds
  <2>2. ReadInv(d)'
    BY <1>1, <1>2, <1>3, <1>21 DEF IInv, TypeOK, DataOK, CallInv, ReadInv, Stat, At, Goto, Answer, Node, NoChange, TestE
  <2>3. MadeInv(d)'
    BY <1>1, <1>2, <1>3, <1>21 DEF IInv, TypeOK, DataOK, CallInv, MadeInv, Stat, At, Goto, Answer, Node, NoChange, TestE
  <2>4. TrueAnswer(d)'
    BY <1>1, <1>2, <1>3, <1>21 DEF IInv, TypeOK, DataOK, CallInv, TrueAnswer, Stat, At, Goto, Answer, Node, NoChange, TestE
  <2> QED
    BY <1>1, <2>1, <2>2, <2>3, <2>4, OwnKept
<1>22. CASE ListFind(d)
  <2>1. Holds(request[d].op, pc'[d]) => holder'[Sess(d)] = d
    BY <1>1, <1>3, <1>22 DEF IInv, TypeOK, CallInv, SessionInv, ListFind, At, Goto, Answer, Release, Hold, Holds
  <2>2. ReadInv(d)'
    BY <1>1, <1>2, <1>3, <1>22 DEF IInv, TypeOK, DataOK, CallInv, ReadInv, ListFind, At, Goto, Answer, Node, NoChange, TestE
  <2>3. MadeInv(d)'
    BY <1>1, <1>2, <1>3, <1>22 DEF IInv, TypeOK, DataOK, CallInv, MadeInv, ListFind, At, Goto, Answer, Node, NoChange, TestE
  <2>4. TrueAnswer(d)'
    <3>1. answer'[d] \in {"error", "listed", "empty"}
      BY <1>3, <1>22 DEF IInv, TypeOK, ListFind, Goto, Answer
    <3>2. answer'[d] = "listed" => Node(d) = Dir
      BY <1>3, <1>22 DEF IInv, TypeOK, ListFind, Goto, Answer
    <3>3. answer'[d] = "empty" => Node(d).kind = "file"
      BY <1>3, <1>22 DEF IInv, TypeOK, ListFind, Goto, Answer, Absent, Dir
    <3>4. Node(d).kind = "file" => changers[d] # {} \/ d \in broken
      BY <1>1, <1>22 DEF ListFind, At, CallInv, MadeInv
    <3>5. broken' = broken
      BY <1>22 DEF ListFind
    <3> QED
      BY <1>2, <1>a, <3>1, <3>2, <3>3, <3>4, <3>5 DEF TrueAnswer
  <2> QED
    BY <1>1, <2>1, <2>2, <2>3, <2>4, OwnKept
<1>23. CASE StreamTest(d)
  <2>1. Holds(request[d].op, pc'[d]) => holder'[Sess(d)] = d
    BY <1>1, <1>3, <1>23 DEF IInv, TypeOK, CallInv, SessionInv, StreamTest, At, Goto, Answer, Release, Hold, Holds
  <2>2. ReadInv(d)'
    BY <1>1, <1>2, <1>3, <1>23 DEF IInv, TypeOK, DataOK, CallInv, ReadInv, StreamTest, At, Goto, Answer, Node, NoChange, TestE
  <2>3. MadeInv(d)'
    BY <1>1, <1>2, <1>3, <1>23 DEF IInv, TypeOK, DataOK, CallInv, MadeInv, StreamTest, At, Goto, Answer, Node, NoChange, TestE
  <2>4. TrueAnswer(d)'
    <3>1. answer'[d] = "none" \/ (answer'[d] = "not found" /\ ~ TestE(d))
      BY <1>3, <1>23 DEF IInv, TypeOK, StreamTest, Goto, Answer
    <3> QED
      BY <1>2, <1>a, <3>1 DEF TrueAnswer
  <2> QED
    BY <1>1, <2>1, <2>2, <2>3, <2>4, OwnKept
<1>24. CASE StreamSize(d)
  <2>1. Holds(request[d].op, pc'[d]) => holder'[Sess(d)] = d
    BY <1>1, <1>3, <1>24 DEF IInv, TypeOK, CallInv, SessionInv, StreamSize, At, Goto, Answer, Release, Hold, Holds
  <2>2. ReadInv(d)'
    BY <1>1, <1>2, <1>3, <1>24 DEF IInv, TypeOK, DataOK, CallInv, ReadInv, StreamSize, At, Goto, Answer, Node, NoChange, TestE
  <2>3. MadeInv(d)'
    BY <1>1, <1>2, <1>3, <1>24 DEF IInv, TypeOK, DataOK, CallInv, MadeInv, StreamSize, At, Goto, Answer, Node, NoChange, TestE
  <2>4. TrueAnswer(d)'
    BY <1>1, <1>2, <1>3, <1>24 DEF IInv, TypeOK, DataOK, CallInv, TrueAnswer, StreamSize, At, Goto, Answer, Node, NoChange, TestE
  <2> QED
    BY <1>1, <2>1, <2>2, <2>3, <2>4, OwnKept
<1>25. CASE StreamMime(d)
  <2>1. Holds(request[d].op, pc'[d]) => holder'[Sess(d)] = d
    BY <1>1, <1>3, <1>25 DEF IInv, TypeOK, CallInv, SessionInv, StreamMime, At, Goto, Answer, Release, Hold, Holds
  <2>2. ReadInv(d)'
    BY <1>1, <1>2, <1>3, <1>25 DEF IInv, TypeOK, DataOK, CallInv, ReadInv, StreamMime, At, Goto, Answer, Node, NoChange, TestE
  <2>3. MadeInv(d)'
    BY <1>1, <1>2, <1>3, <1>25 DEF IInv, TypeOK, DataOK, CallInv, MadeInv, StreamMime, At, Goto, Answer, Node, NoChange, TestE
  <2>4. TrueAnswer(d)'
    BY <1>1, <1>2, <1>3, <1>25 DEF IInv, TypeOK, DataOK, CallInv, TrueAnswer, StreamMime, At, Goto, Answer, Node, NoChange, TestE
  <2> QED
    BY <1>1, <2>1, <2>2, <2>3, <2>4, OwnKept
<1>26. CASE StreamChunk(d)
  <2>1. Holds(request[d].op, pc'[d]) => holder'[Sess(d)] = d
    BY <1>1, <1>3, <1>26 DEF IInv, TypeOK, CallInv, SessionInv, StreamChunk, At, Goto, Answer, Release, Hold, Holds
  <2>2. ReadInv(d)'
    BY <1>1, <1>2, <1>3, <1>26 DEF IInv, TypeOK, DataOK, CallInv, ReadInv, StreamChunk, At, Goto, Answer, Node, NoChange, TestE
  <2>3. MadeInv(d)'
    BY <1>1, <1>2, <1>3, <1>26 DEF IInv, TypeOK, DataOK, CallInv, MadeInv, StreamChunk, At, Goto, Answer, Node, NoChange, TestE
  <2>4. TrueAnswer(d)'
    BY <1>1, <1>2, <1>3, <1>26 DEF IInv, TypeOK, DataOK, CallInv, TrueAnswer, StreamChunk, At, Goto, Answer, Node, NoChange, TestE
  <2> QED
    BY <1>1, <2>1, <2>2, <2>3, <2>4, OwnKept
<1>27. CASE StreamComplete(d)
  <2>1. Holds(request[d].op, pc'[d]) => holder'[Sess(d)] = d
    BY <1>1, <1>3, <1>27 DEF IInv, TypeOK, CallInv, SessionInv, StreamComplete, At, Goto, Answer, Release, Hold, Holds
  <2>2. ReadInv(d)'
    BY <1>1, <1>2, <1>3, <1>27 DEF IInv, TypeOK, DataOK, CallInv, ReadInv, StreamComplete, At, Goto, Answer, Node, NoChange, TestE
  <2>3. MadeInv(d)'
    BY <1>1, <1>2, <1>3, <1>27 DEF IInv, TypeOK, DataOK, CallInv, MadeInv, StreamComplete, At, Goto, Answer, Node, NoChange, TestE
  <2>4. TrueAnswer(d)'
    BY <1>1, <1>2, <1>3, <1>27 DEF IInv, TypeOK, DataOK, CallInv, TrueAnswer, StreamComplete, At, Goto, Answer, Node, NoChange, TestE
  <2> QED
    BY <1>1, <2>1, <2>2, <2>3, <2>4, OwnKept
<1>28. CASE Leave(d)
  <2>1. Holds(request[d].op, pc'[d]) => holder'[Sess(d)] = d
    BY <1>1, <1>3, <1>28 DEF IInv, TypeOK, CallInv, SessionInv, Leave, At, Goto, Answer, Release, Hold, Holds
  <2>2. ReadInv(d)'
    BY <1>1, <1>2, <1>3, <1>28 DEF IInv, TypeOK, DataOK, CallInv, ReadInv, Leave, At, Goto, Answer, Node, NoChange, TestE
  <2>3. MadeInv(d)'
    BY <1>1, <1>2, <1>3, <1>28 DEF IInv, TypeOK, DataOK, CallInv, MadeInv, Leave, At, Goto, Answer, Node, NoChange, TestE
  <2>4. TrueAnswer(d)'
    BY <1>1, <1>2, <1>3, <1>28 DEF IInv, TypeOK, DataOK, CallInv, TrueAnswer, Leave, At, Goto, Answer, Node, NoChange, TestE
  <2> QED
    BY <1>1, <2>1, <2>2, <2>3, <2>4, OwnKept
<1>29. CASE Clone(d)
  <2>1. Holds(request[d].op, pc'[d]) => holder'[Sess(d)] = d
    BY <1>1, <1>3, <1>29 DEF IInv, TypeOK, CallInv, SessionInv, Clone, At, Goto, Answer, Release, Hold, Holds
  <2>2. ReadInv(d)'
    BY <1>1, <1>2, <1>3, <1>29 DEF IInv, TypeOK, DataOK, CallInv, ReadInv, Clone, At, Goto, Answer, Node, NoChange, TestE
  <2>3. MadeInv(d)'
    <3>1. request[d].op = "clone"
      BY <1>29 DEF Clone, At
    <3>2. pc'[d] = "branch" => fs' = [fs EXCEPT ![Path(d)] = Dir]
      BY <1>29 DEF IInv, TypeOK, Clone, Goto, Answer, Change
    <3>3. fs \in [Paths -> Nodes]
      BY DEF IInv, TypeOK
    <3>4. pc'[d] = "branch" => Had("dir")
      BY <1>3, <1>a, <3>2, <3>3
    <3> QED
      BY <1>2, <3>1, <3>4 DEF MadeInv
  <2>4. TrueAnswer(d)'
    BY <1>1, <1>2, <1>3, <1>29 DEF IInv, TypeOK, DataOK, CallInv, TrueAnswer, Clone, At, Goto, Answer, Node, NoChange, TestE
  <2> QED
    BY <1>1, <2>1, <2>2, <2>3, <2>4, OwnKept
<1>30. CASE CloneBranch(d)
  <2>1. Holds(request[d].op, pc'[d]) => holder'[Sess(d)] = d
    BY <1>1, <1>3, <1>30 DEF IInv, TypeOK, CallInv, SessionInv, CloneBranch, At, Goto, Answer, Release, Hold, Holds
  <2>2. ReadInv(d)'
    BY <1>1, <1>2, <1>3, <1>30 DEF IInv, TypeOK, DataOK, CallInv, ReadInv, CloneBranch, At, Goto, Answer, Node, NoChange, TestE
  <2>3. MadeInv(d)'
    BY <1>1, <1>2, <1>3, <1>30 DEF IInv, TypeOK, DataOK, CallInv, MadeInv, CloneBranch, At, Goto, Answer, Node, NoChange, TestE
  <2>4. TrueAnswer(d)'
    <3>1. answer'[d] = "ok"
      BY <1>3, <1>30 DEF IInv, TypeOK, CloneBranch, Goto, Answer
    <3>2. request[d].op = "clone"
      BY <1>30 DEF CloneBranch, At
    <3>3. Had("dir")
      BY <1>1, <1>2, <1>30 DEF CloneBranch, At, CallInv, MadeInv
    <3> QED
      BY <1>2, <1>a, <3>1, <3>2, <3>3 DEF TrueAnswer
  <2> QED
    BY <1>1, <2>1, <2>2, <2>3, <2>4, OwnKept
<1> QED
  BY <1>4, <1>5, <1>6, <1>7, <1>8, <1>9, <1>10, <1>11, <1>12, <1>13, <1>14, <1>15, <1>16, <1>17, <1>18, <1>19, <1>20, <1>21, <1>22, <1>23, <1>24, <1>25, <1>26, <1>27, <1>28, <1>29, <1>30 DEF CallStep

\* A request that arrives keeps what is said of it.
LEMMA ArrivalStep ==
  ASSUME IInv, NEW d \in Calls, handle(d)
  PROVE  CallInv(d)'
<1>1. CallInv(d) /\ pc[d] = "idle" /\ answer[d] = "none"
  BY DEF IInv, TypeOK, handle
<1>2. PICK op \in Ops, p \in Paths, s \in Sessions :
        /\ request'[d].op = op
        /\ request'[d].path = p
        /\ request'[d].sess = SessionOf(op, s)
        /\ op = "write" => request'[d].content \in Contents
        /\ was'[d] = {fs[p]}
  <2>1. PICK op \in Ops, p \in Paths, s \in Sessions :
          \E q \in IF op = "move" THEN Paths ELSE {None},
             v \in IF op = "write" THEN Contents ELSE {None},
             r \in IF op = "mkdir" THEN BOOLEAN ELSE {FALSE},
             e \in IF op = "read" THEN Encodings ELSE {"none"} :
            /\ request' = [request EXCEPT ![d] = [op |-> op, path |-> p, to |-> q, content |-> v,
                                                  recursive |-> r, encoding |-> e,
                                                  sess |-> SessionOf(op, s)]]
            /\ was' = [was EXCEPT ![d] = {fs[p]}]
    BY DEF handle
  <2>2. PICK q \in IF op = "move" THEN Paths ELSE {None},
             v \in IF op = "write" THEN Contents ELSE {None},
             r \in IF op = "mkdir" THEN BOOLEAN ELSE {FALSE},
             e \in IF op = "read" THEN Encodings ELSE {"none"} :
            /\ request' = [request EXCEPT ![d] = [op |-> op, path |-> p, to |-> q, content |-> v,
                                                  recursive |-> r, encoding |-> e,
                                                  sess |-> SessionOf(op, s)]]
            /\ was' = [was EXCEPT ![d] = {fs[p]}]
    BY <2>1
  <2>3. request'[d] = [op |-> op, path |-> p, to |-> q, content |-> v, recursive |-> r,
                       encoding |-> e, sess |-> SessionOf(op, s)]
    BY <2>2 DEF IInv, TypeOK
  <2>4. was'[d] = {fs[p]}
    BY <2>2 DEF IInv, DataOK
  <2>5. op = "write" => v \in Contents
    BY <2>2
  <2> QED
    BY <2>3, <2>4, <2>5
<1>3. pc'[d] = "start" /\ answer'[d] = "none" /\ fs' = fs
  BY <1>1 DEF handle, IInv, TypeOK
<1>4. SessionInv(d)'
  BY <1>1, <1>2, <1>3 DEF SessionInv, Path, Sess, SessionOf, InDefault, Holds
<1>5. SeenInv(d)'
  BY <1>2, <1>3 DEF SeenInv, Node, Path
<1>6. ReadInv(d)' /\ MadeInv(d)' /\ TrueAnswer(d)'
  BY <1>3 DEF ReadInv, MadeInv, TrueAnswer
<1> QED
  BY <1>4, <1>5, <1>6 DEF CallInv

-----------------------------------------------------------------------------
(***************************************************************************)
(* Types                                                                   *)
(***************************************************************************)

\* The files and their history after a change
LEMMA ChangeTypes ==
  ASSUME IInv, NEW s \in Sessions \cup {None}, NEW f \in [Paths -> Nodes], NEW x,
         Change(f, s, x), s = None => interfered < MaxBackground
  PROVE  /\ fs' \in [Paths -> Nodes]
         /\ was' \in [Calls -> SUBSET Nodes]
         /\ changers' \in [Calls -> SUBSET (Sessions \cup {None})]
         /\ interfered' \in 0..MaxBackground
<1>1. fs' \in [Paths -> Nodes]
  BY DEF Change
<1>2. \A c \in Calls : Begun(c) => f[Path(c)] \in Nodes
  BY UnderWay
<1>3. was' \in [Calls -> SUBSET Nodes]
  <2>1. \A c \in Calls : (IF Begun(c) THEN was[c] \cup {f[Path(c)]} ELSE was[c]) \in SUBSET Nodes
    BY <1>2 DEF IInv, DataOK
  <2> QED
    BY <2>1 DEF Change
<1>4. changers' \in [Calls -> SUBSET (Sessions \cup {None})]
  BY DEF Change, IInv, DataOK
<1>5. interfered' \in 0..MaxBackground
  BY BoundAssumption DEF Change, IInv, TypeOK
<1> QED
  BY <1>1, <1>3, <1>4, <1>5

\* Where the calls are, and who has which lock
ProgressOK ==
  /\ holder \in [Sessions -> Calls \cup {None}]
  /\ pc \in [Calls -> {"idle", "done"} \cup Steps]
  /\ answer \in [Calls -> Answers]
  /\ \A s \in Sessions : holder[s] # None => Begun(holder[s]) /\ request[holder[s]].sess = s
  /\ \A c \in Calls : answer[c] # "none" <=> pc[c] = "done"

\* A call that moves keeps all that.
LEMMA MovesTypes ==
  ASSUME IInv, NEW d \in Calls, Begun(d), Moves(d), request' = request
  PROVE  ProgressOK'
<1>1. /\ ProgressOK /\ Sess(d) \in Sessions
  BY UnderWay DEF IInv, TypeOK, ProgressOK, Steps
<1>2. ASSUME NEW w \in Steps, Goto(d, w), UNCHANGED holder \/ (HasTurn(d) /\ Hold(d))
      PROVE  ProgressOK'
  <2>1. w \notin {"idle", "done"} /\ d # None
    BY DefaultAssumption DEF Steps
  <2>2. pc' = [pc EXCEPT ![d] = w] /\ answer' = answer
    BY <1>2 DEF Goto
  <2>3. holder' \in [Sessions -> Calls \cup {None}]
    BY <1>1, <1>2 DEF ProgressOK, Hold
  <2>4. pc' \in [Calls -> {"idle", "done"} \cup Steps]
    BY <1>1, <2>2 DEF ProgressOK
  <2>5. \A s \in Sessions : holder'[s] # None => holder'[s] \in Calls /\ (holder'[s] = d \/ holder'[s] = holder[s])
    BY <1>1, <1>2, <2>3 DEF ProgressOK, Hold
  <2>6. \A s \in Sessions : holder'[s] = d => request[d].sess = s
    BY <1>1, <1>2, <2>1 DEF ProgressOK, Hold, Sess
  <2>7. \A s \in Sessions : holder'[s] # None => Begun(holder[s])' /\ request'[holder'[s]].sess = s
    BY <1>1, <2>1, <2>2, <2>5, <2>6 DEF ProgressOK, Begun
  <2>8. \A c \in Calls : answer'[c] # "none" <=> pc'[c] = "done"
    BY <1>1, <2>1, <2>2 DEF ProgressOK, Begun
  <2> QED
    BY <1>1, <2>2, <2>3, <2>4, <2>7, <2>8 DEF ProgressOK
<1>3. ASSUME NEW a \in Answers \ {"none"}, Answer(d, a)
      PROVE  ProgressOK'
  <2>1. pc' = [pc EXCEPT ![d] = "done"] /\ answer' = [answer EXCEPT ![d] = a]
    BY <1>3 DEF Answer
  <2>2. holder' = [s \in Sessions |-> IF holder[s] = d THEN None ELSE holder[s]]
    BY <1>3 DEF Answer, Release
  <2>3. holder' \in [Sessions -> Calls \cup {None}]
    BY <1>1, <2>2 DEF ProgressOK
  <2>4. \A s \in Sessions : holder'[s] # None => holder'[s] = holder[s] /\ holder[s] # d /\ holder[s] \in Calls
    BY <1>1, <2>2 DEF ProgressOK
  <2>5. \A s \in Sessions : holder'[s] # None => Begun(holder[s])' /\ request'[holder'[s]].sess = s
    BY <1>1, <2>1, <2>4 DEF ProgressOK, Begun
  <2>6. pc' \in [Calls -> {"idle", "done"} \cup Steps] /\ answer' \in [Calls -> Answers]
    BY <1>1, <2>1 DEF ProgressOK
  <2>7. \A c \in Calls : answer'[c] # "none" <=> pc'[c] = "done"
    BY <1>1, <2>1 DEF ProgressOK
  <2> QED
    BY <2>3, <2>5, <2>6, <2>7 DEF ProgressOK
<1>4. CASE UNCHANGED << holder, pc, answer >>
  BY <1>1, <1>4 DEF ProgressOK, Begun
<1> QED
  BY <1>2, <1>3, <1>4 DEF Moves

\* A step of a call keeps the types.
LEMMA ShapeTypes ==
  ASSUME IInv, NEW d \in Calls, Shape(d)
  PROVE  TypeOK' /\ DataOK'
<1>1. ProgressOK' /\ request' = request
  BY MovesTypes DEF Shape
<1>2. /\ fs' \in [Paths -> Nodes]
      /\ was' \in [Calls -> SUBSET Nodes]
      /\ changers' \in [Calls -> SUBSET (Sessions \cup {None})]
      /\ interfered' \in 0..MaxBackground
  <2>1. CASE NoChange
    BY <2>1 DEF NoChange, IInv, TypeOK, DataOK
  <2>2. Sess(d) \in Sessions /\ Sess(d) # None
    BY UnderWay, DefaultAssumption DEF Shape
  <2>3. CASE \E f \in [Paths -> Nodes] : Change(f, Sess(d), d)
    BY <2>2, <2>3, ChangeTypes
  <2> QED
    BY <2>1, <2>3 DEF Shape, Changes
<1>3. got' \in [Calls -> Told]
  <2>1. got \in [Calls -> Told]
    BY DEF IInv, DataOK, Told
  <2> QED
    BY <2>1 DEF Shape, Notes
<1>4. DOMAIN chunks' = Calls
  BY DEF Shape, Notes, IInv, DataOK
<1>5. \A c \in Calls : Len(chunks'[c]) > 0 => request[c].op = "stream"
  <2>1. \A c \in Calls : c # d => chunks'[c] = chunks[c]
    BY DEF Shape, Notes, IInv, DataOK
  <2>2. chunks'[d] = chunks[d] \/ request[d].op = "stream"
    BY DEF Shape, Notes
  <2> QED
    BY <2>1, <2>2 DEF IInv, TypeOK
<1>6. left' \cup broken' \subseteq Calls
  BY DEF Shape, Notes, IInv, TypeOK
<1>7. DataOK'
  BY <1>2, <1>3, <1>4 DEF DataOK, Told
<1>8. \A c \in Calls :
        /\ got'[c].size \in Nat /\ {got'[c].binary, got'[c].short} \subseteq BOOLEAN
        /\ got'[c].content \in Nodes
        /\ was'[c] \subseteq Nodes /\ changers'[c] \subseteq Sessions \cup {None}
  BY <1>2, <1>3 DEF Told
<1>9. request' \in [Calls -> [op : Ops \cup {None}, path : Paths \cup {None}, to : Paths \cup {None},
                             content : Contents \cup {None}, recursive : BOOLEAN,
                             encoding : Encodings, sess : Sessions]]
  BY <1>1 DEF IInv, TypeOK
<1> QED
  BY <1>1, <1>2, <1>5, <1>6, <1>7, <1>8, <1>9 DEF TypeOK, ProgressOK, Steps

\* So does a request that arrives,
LEMMA ArrivalTypes ==
  ASSUME IInv, NEW d \in Calls, handle(d)
  PROVE  TypeOK' /\ DataOK'
<1>1. pc[d] = "idle" /\ answer[d] = "none" /\ chunks[d] = << >>
  BY DEF IInv, TypeOK, CallInv, SessionInv, handle
<1>2. UNCHANGED << fs, holder, got, chunks, answer, left, changers, broken, interfered >>
  BY DEF handle
<1>3. pc' = [pc EXCEPT ![d] = "start"]
  BY DEF handle
<1>4. \A c \in Calls : c # d => request'[c] = request[c] /\ pc'[c] = pc[c]
  BY <1>3 DEF handle, IInv, TypeOK
<1>5. request' \in [Calls -> [op : Ops \cup {None}, path : Paths \cup {None}, to : Paths \cup {None},
                             content : Contents \cup {None}, recursive : BOOLEAN,
                             encoding : Encodings, sess : Sessions]]
  <2>1. PICK op \in Ops, p \in Paths, s \in Sessions, q \in Paths \cup {None},
             v \in Contents \cup {None}, r \in BOOLEAN, e \in Encodings :
          request' = [request EXCEPT ![d] = [op |-> op, path |-> p, to |-> q, content |-> v,
                                             recursive |-> r, encoding |-> e,
                                             sess |-> SessionOf(op, s)]]
    <3>1. PICK op \in Ops, p \in Paths, s \in Sessions :
            \E q \in IF op = "move" THEN Paths ELSE {None},
               v \in IF op = "write" THEN Contents ELSE {None},
               r \in IF op = "mkdir" THEN BOOLEAN ELSE {FALSE},
               e \in IF op = "read" THEN Encodings ELSE {"none"} :
              /\ request' = [request EXCEPT ![d] = [op |-> op, path |-> p, to |-> q, content |-> v,
                                                    recursive |-> r, encoding |-> e,
                                                    sess |-> SessionOf(op, s)]]
              /\ was' = [was EXCEPT ![d] = {fs[p]}]
      BY DEF handle
    <3>2. /\ (IF op = "move" THEN Paths ELSE {None}) \subseteq Paths \cup {None}
          /\ (IF op = "write" THEN Contents ELSE {None}) \subseteq Contents \cup {None}
          /\ (IF op = "mkdir" THEN BOOLEAN ELSE {FALSE}) \subseteq BOOLEAN
          /\ (IF op = "read" THEN Encodings ELSE {"none"}) \subseteq Encodings
      BY DEF Encodings
    <3>3. PICK q \in IF op = "move" THEN Paths ELSE {None},
               v \in IF op = "write" THEN Contents ELSE {None},
               r \in IF op = "mkdir" THEN BOOLEAN ELSE {FALSE},
               e \in IF op = "read" THEN Encodings ELSE {"none"} :
              /\ request' = [request EXCEPT ![d] = [op |-> op, path |-> p, to |-> q, content |-> v,
                                                    recursive |-> r, encoding |-> e,
                                                    sess |-> SessionOf(op, s)]]
              /\ was' = [was EXCEPT ![d] = {fs[p]}]
      BY <3>1
    <3>4. q \in Paths \cup {None} /\ v \in Contents \cup {None} /\ r \in BOOLEAN
          /\ e \in Encodings
      BY <3>2, <3>3
    <3> QED
      BY <3>3, <3>4
  <2>2. SessionOf(op, s) \in Sessions
    BY DefaultAssumption DEF SessionOf
  <2>3. [op |-> op, path |-> p, to |-> q, content |-> v, recursive |-> r,
         encoding |-> e, sess |-> SessionOf(op, s)]
          \in [op : Ops \cup {None}, path : Paths \cup {None}, to : Paths \cup {None},
               content : Contents \cup {None}, recursive : BOOLEAN,
               encoding : Encodings, sess : Sessions]
    BY <2>2
  <2> QED
    BY <2>1, <2>3 DEF IInv, TypeOK
<1>6. was' \in [Calls -> SUBSET Nodes]
  <2>1. PICK p \in Paths : was' = [was EXCEPT ![d] = {fs[p]}]
    BY DEF handle
  <2> QED
    BY <2>1 DEF IInv, TypeOK, DataOK
<1>7. \A s \in Sessions : holder[s] # None =>
        holder[s] \in Calls /\ holder[s] # d /\ Begun(holder[s]) /\ request[holder[s]].sess = s
  BY <1>1 DEF IInv, TypeOK, Begun
<1>8. \A s \in Sessions : holder[s] # None => Begun(holder[s])' /\ request'[holder[s]].sess = s
  BY <1>2, <1>4, <1>7 DEF Begun
<1>9. pc' \in [Calls -> {"idle", "done"} \cup Steps] /\ \A c \in Calls : answer[c] # "none" <=> pc'[c] = "done"
  BY <1>1, <1>3 DEF IInv, TypeOK, Steps
<1>10. \A c \in Calls : Len(chunks[c]) > 0 => request'[c].op = "stream"
  BY <1>1, <1>4 DEF IInv, TypeOK
<1>11. DataOK'
  BY <1>2, <1>6 DEF IInv, DataOK
<1> QED
  BY <1>2, <1>5, <1>6, <1>8, <1>9, <1>10, <1>11 DEF IInv, TypeOK, DataOK, Steps

\* and what a program in the background does.
LEMMA BackgroundTypes ==
  ASSUME IInv, Interfere
  PROVE  TypeOK' /\ DataOK'
<1>1. PICK p \in Paths, n \in Background : Change([fs EXCEPT ![p] = n], None, None)
  BY DEF Interfere
<1>2. [fs EXCEPT ![p] = n] \in [Paths -> Nodes]
  BY BackgroundAssumption DEF IInv, TypeOK
<1>3. interfered < MaxBackground
  BY DEF Interfere
<1>4. /\ fs' \in [Paths -> Nodes]
      /\ was' \in [Calls -> SUBSET Nodes]
      /\ changers' \in [Calls -> SUBSET (Sessions \cup {None})]
      /\ interfered' \in 0..MaxBackground
  BY <1>1, <1>2, <1>3, ChangeTypes
<1>5. UNCHANGED << holder, request, pc, got, chunks, answer, left, broken >>
  BY DEF Interfere, callVars
<1>6. \A s \in Sessions : holder[s] # None => Begun(holder[s])'
  BY <1>5 DEF IInv, TypeOK, Begun
<1> QED
  BY <1>4, <1>5, <1>6 DEF IInv, TypeOK, DataOK

-----------------------------------------------------------------------------
(***************************************************************************)
(* The theorems                                                            *)
(***************************************************************************)

\* The invariant holds at first.
LEMMA InitIInv == Init => IInv
<1> SUFFICES ASSUME Init
             PROVE  IInv
  OBVIOUS
<1>1. Unknown \in Told /\ None \notin Sessions /\ Default \in Sessions
  BY NodeTypes, DefaultAssumption DEF Unknown, Told
<1>2. \A v \in Contents : Whole(v) \in Nodes
  BY NodeTypes DEF Whole
<1>3. fs \in [Paths -> Nodes]
  BY <1>2, NodeTypes DEF Init
<1>4. TypeOK
  BY <1>1, <1>3, BoundAssumption DEF Init, TypeOK, Told, Answers, Encodings
<1>5. DataOK
  BY <1>1 DEF Init, DataOK, Told
<1>6. ASSUME NEW c \in Calls
      PROVE  CallInv(c)
  <2>1. request[c].op = None /\ pc[c] = "idle" /\ chunks[c] = << >> /\ answer[c] = "none"
        /\ request[c].content = None
    BY DEF Init
  <2> QED
    BY <2>1 DEF CallInv, SessionInv, SeenInv, ReadInv, MadeInv, TrueAnswer, Begun, Holds
<1> QED
  BY <1>4, <1>5, <1>6 DEF IInv

\* Every step keeps the invariant.
LEMMA NextIInv == IInv /\ [Next]_vars => IInv'
<1> SUFFICES ASSUME IInv, [Next]_vars
             PROVE  IInv'
  OBVIOUS
<1>1. ASSUME NEW d \in Calls, CallStep(d)
      PROVE  IInv'
  <2>1. Shape(d)
    BY <1>1, StepShape
  <2>2. TypeOK' /\ DataOK'
    BY <2>1, ShapeTypes
  <2>3. \A c \in Calls : CallInv(c)'
    BY <1>1, <2>1, ShapeBystander, BystanderKept, OwnStep
  <2> QED
    BY <2>2, <2>3 DEF IInv
<1>2. ASSUME NEW d \in Calls, handle(d)
      PROVE  IInv'
  <2>1. TypeOK' /\ DataOK'
    BY <1>2, ArrivalTypes
  <2>2. \A c \in Calls : CallInv(c)'
    BY <1>2, ArrivalBystander, BystanderKept, ArrivalStep
  <2> QED
    BY <2>1, <2>2 DEF IInv
<1>3. CASE Interfere
  <2>1. TypeOK' /\ DataOK'
    BY <1>3, BackgroundTypes
  <2>2. \A c \in Calls : CallInv(c)'
    BY <1>3, BackgroundBystander, BystanderKept
  <2> QED
    BY <2>1, <2>2 DEF IInv
<1>4. CASE UNCHANGED vars
  <2>1. UNCHANGED << fs, holder, request, pc, got, chunks, answer, left, was, changers, broken, interfered >>
    BY <1>4 DEF vars, callVars, historyVars
  <2>2. TypeOK'
    BY <2>1 DEF IInv, TypeOK, Begun
  <2>3. DataOK'
    BY <2>1 DEF IInv, DataOK
  <2>4. ASSUME NEW c \in Calls
        PROVE  Bystander(c)
    <3>1. Begun(c) => Node(c) \in was[c]
      BY UnderWay
    <3>2. Kept(c)
      BY <2>1 DEF Kept
    <3>3. Witnessed(c)
      BY <2>1, <3>1 DEF Witnessed, Node
    <3> QED
      BY <2>1, <3>2, <3>3 DEF Bystander, Node
  <2>5. \A c \in Calls : CallInv(c)'
    BY <2>4, BystanderKept
  <2> QED
    BY <2>2, <2>3, <2>5 DEF IInv
<1> QED
  BY <1>1, <1>2, <1>3, <1>4 DEF Next, CallStep

\* The inductive invariant: the session and the lock of each call, what the
\* history knows of its path, and what its commands have told that is true
\* still (file-service.ts:92-1612, git-service.ts).
THEOREM FilesInvariant == Spec => []IInv
BY InitIInv, NextIInv, PTL DEF Spec

\* The types; a lock is held by a call that is under way in its session.
THEOREM TypeCorrect == Spec => []TypeOK
<1>1. IInv => TypeOK
  BY DEF IInv
<1> QED
  BY <1>1, FilesInvariant, PTL

\* What read() returns is one file, whatever requests there are beside it,
\* in its session and in others (file-service.ts:92-240).
THEOREM ReadsAreConsistent == Spec => []ReadConsistent
<1>1. IInv => ReadConsistent
  BY DEF IInv, CallInv, ReadInv, ReadConsistent
<1> QED
  BY <1>1, FilesInvariant, PTL

\* Every answer was true at some moment of its request (file-service.ts:820).
THEOREM AnswersAreTrue == Spec => []AnswersTrue
<1>1. IInv => AnswersTrue
  BY DEF IInv, CallInv, TrueAnswer, AnswersTrue
<1> QED
  BY <1>1, FilesInvariant, PTL

-----------------------------------------------------------------------------
(***************************************************************************)
(* Streams                                                                 *)
(***************************************************************************)

\* How many blocks of a file a stream has chunks of: the last may be but a line end.
Bare(n) == n.of \notin Binary /\ n.len > 0 /\ Blocks[n.of][n.len] = "newline"
Count(n) == IF Bare(n) THEN n.len - 1 ELSE n.len

\* The chunks of the first k blocks
Chunks(n, k) == [i \in 1..k |-> Output(n, IsBinary(n), i)]

\* What a stream has been told of the node that has been there all the time, and
\* what it has sent of it.
Streams(c, n) ==
  /\ Begun(c) => Node(c) = n
  /\ pc[c] \in {"start", "size", "mime", "dd", "done"}
  /\ pc[c] \in {"start", "size", "mime"} => chunks[c] = << >>
  /\ pc[c] \in {"mime", "dd"} => got[c].size = n.len
  /\ pc[c] = "dd" => got[c].binary = IsBinary(n)
  /\ n.kind = "file" =>
       /\ \E k \in 0..Count(n) :
            /\ chunks[c] = Chunks(n, k)
            /\ answer[c] = "complete" => k = Count(n)
       /\ answer[c] = "error" => c \in broken

\* A stream the file of which nobody else changes.
StreamInv(c) ==
  /\ pc[c] = "idle" => was[c] = {}
  /\ pc[c] # "idle" /\ request[c].op = "stream" /\ changers[c] = {} =>
       \E n \in Nodes : was[c] = {n} /\ Streams(c, n)

\* All streams
StreamsInv == \A c \in Calls : StreamInv(c)

-----------------------------------------------------------------------------
(***************************************************************************)
(* What a step is to a stream                                              *)
(***************************************************************************)

\* A file and its blocks
LEMMA FileNodes ==
  ASSUME NEW n \in Nodes, n.kind = "file"
  PROVE  /\ n.of \in Contents /\ n.len \in 0..Len(Blocks[n.of]) /\ n.len \in Nat
         /\ Len(Blocks[n.of]) \in Nat /\ DOMAIN Blocks[n.of] = 1..Len(Blocks[n.of])
         /\ Count(n) \in 0..n.len
<1>0. PICK v \in Contents : \E k \in 0..Len(Blocks[v]) : n = File(v, k)
  BY DEF Nodes, Absent, Dir
<1>1. PICK k \in 0..Len(Blocks[v]) : n = File(v, k)
  BY <1>0
<1>2. n.of = v /\ n.len = k
  BY <1>1 DEF File
<1>3. Blocks[v] \in Seq({"plain", "ended", "newline", "cut"})
  BY BlocksAssumption
<1>4. Len(Blocks[v]) \in Nat /\ DOMAIN Blocks[v] = 1..Len(Blocks[v])
  BY <1>3
<1>5. k \in Nat
  BY <1>4
<1>6. Count(n) \in 0..k
  BY <1>2, <1>5 DEF Count, Bare
<1> QED
  BY <1>2, <1>4, <1>5, <1>6

\* No chunks, and one more
LEMMA ChunksOf ==
  /\ \A n : Chunks(n, 0) = << >>
  /\ \A n : \A k \in Nat : Len(Chunks(n, k)) = k /\ DOMAIN Chunks(n, k) = 1..k
  /\ \A n : \A k \in Nat :
       Append(Chunks(n, k), Output(n, IsBinary(n), k + 1)) = Chunks(n, k + 1)
<1> DEFINE O(n, i) == Output(n, IsBinary(n), i)
<1>1. \A n, k : Chunks(n, k) = [i \in 1..k |-> O(n, i)]
  BY DEF Chunks
<1> HIDE DEF O
<1>2. \A n : Chunks(n, 0) = << >>
  BY <1>1
<1>3. ASSUME NEW n, NEW k \in Nat
      PROVE  /\ Chunks(n, k) \in Seq({O(n, i) : i \in 1..k})
             /\ Len(Chunks(n, k)) = k /\ DOMAIN Chunks(n, k) = 1..k
  BY <1>1
<1>4. ASSUME NEW n, NEW k \in Nat
      PROVE  Append(Chunks(n, k), O(n, k + 1)) = Chunks(n, k + 1)
  <2> DEFINE all == {O(n, i) : i \in 1..(k + 1)}
  <2>1. Chunks(n, k) \in Seq(all)
    BY <1>1
  <2>2. O(n, k + 1) \in all
    OBVIOUS
  <2>3. Chunks(n, k + 1) \in Seq(all) /\ Len(Chunks(n, k + 1)) = k + 1
    BY <1>1
  <2>4. Len(Chunks(n, k)) = k
    BY <1>3
  <2> HIDE DEF all
  <2> DEFINE s == Chunks(n, k)
             t == Append(s, O(n, k + 1))
  <2>5. /\ t \in Seq(all) /\ Len(t) = k + 1
        /\ \A i \in 1..k : t[i] = s[i]
        /\ t[k + 1] = O(n, k + 1)
    BY <2>1, <2>2, <2>4
  <2>6. \A i \in 1..(k + 1) : t[i] = Chunks(n, k + 1)[i]
    <3>1. \A i \in 1..k : s[i] = O(n, i)
      BY <1>1
    <3>2. \A i \in 1..(k + 1) : Chunks(n, k + 1)[i] = O(n, i)
      BY <1>1
    <3> HIDE DEF s, t
    <3> QED
      BY <2>5, <3>1, <3>2
  <2> HIDE DEF t
  <2>7. t = Chunks(n, k + 1)
    BY <2>3, <2>5, <2>6
  <2> QED
    BY <2>7 DEF t
<1> QED
  BY <1>2, <1>3, <1>4 DEF O

\* What others do does not disturb a stream, or they are noted.
LEMMA StreamBystander ==
  ASSUME NEW c \in Calls, StreamInv(c), Bystander(c)
  PROVE  StreamInv(c)'
<1>1. Kept(c) /\ Witnessed(c)
  BY DEF Bystander
<1>2. /\ Path(c)' = Path(c) /\ Begun(c)' = Begun(c) /\ Node(c)' = fs'[Path(c)]
  BY <1>1 DEF Kept, Path, Begun, Node
<1>3. pc'[c] = "idle" => was'[c] = {}
  BY <1>1 DEF StreamInv, Kept, Witnessed, Begun
<1>4. ASSUME pc[c] # "idle", request[c].op = "stream", changers'[c] = {}
      PROVE  \E n \in Nodes : was'[c] = {n} /\ Streams(c, n)'
  <2>1. changers[c] = {}
    BY <1>1, <1>4 DEF Witnessed
  <2>2. PICK n \in Nodes : was[c] = {n} /\ Streams(c, n)
    BY <1>4, <2>1 DEF StreamInv
  <2>3. Begun(c) => Node(c)' = Node(c) /\ Node(c) = n
    BY <1>2, <1>4, <2>2 DEF Bystander, Streams
  <2>4. was'[c] = {n}
    BY <1>1, <1>2, <2>2, <2>3 DEF Witnessed
  <2>5. Streams(c, n)'
    BY <1>1, <1>2, <2>2, <2>3 DEF Streams, Kept
  <2> QED
    BY <2>4, <2>5
<1> QED
  BY <1>1, <1>3, <1>4 DEF StreamInv, Kept

\* A stream that is asked for
LEMMA StreamArrival ==
  ASSUME IInv, NEW d \in Calls, handle(d)
  PROVE  StreamInv(d)'
<1>1. CallInv(d) /\ pc[d] = "idle" /\ answer[d] = "none" /\ chunks[d] = << >>
  BY DEF IInv, TypeOK, CallInv, SessionInv, handle
<1>2. PICK p \in Paths : request'[d].path = p /\ was'[d] = {fs[p]}
  BY SMTT(60) DEF handle, IInv, TypeOK, DataOK
<1>3. pc'[d] = "start" /\ answer'[d] = "none" /\ fs' = fs /\ chunks'[d] = << >>
  BY <1>1 DEF handle, IInv, TypeOK
<1>4. fs[p] \in Nodes /\ Node(d)' = fs[p]
  BY <1>2, <1>3 DEF IInv, TypeOK, Node, Path
<1>5. PICK n \in Nodes : was'[d] = {n} /\ Node(d)' = n
  BY <1>2, <1>4
<1>6. n.kind = "file" => 0 \in 0..Count(n)
  BY <1>5, FileNodes
<1>7. ASSUME n.kind = "file"
      PROVE  \E k \in 0..Count(n) : chunks'[d] = Chunks(n, k) /\ (answer'[d] = "complete" => k = Count(n))
  BY <1>3, <1>6, <1>7, ChunksOf
<1>8. Streams(d, n)'
  BY <1>3, <1>5, <1>7 DEF Streams
<1>9. \E m \in Nodes : was'[d] = {m} /\ Streams(d, m)'
  BY <1>5, <1>8, Zenon
<1> QED
  BY <1>3, <1>9 DEF StreamInv

\* What a step of a stream is to a stream the file of which nobody else changes
LEMMA StreamOwn ==
  ASSUME IInv, NEW d \in Calls, CallStep(d), StreamInv(d)
  PROVE  StreamInv(d)'
<1>1. Shape(d) /\ IInv
  BY StepShape
<1>2. /\ request' = request /\ Path(d)' = Path(d)
      /\ was'[d] = was[d] \cup {fs'[Path(d)]} /\ changers'[d] = changers[d]
      /\ pc'[d] # "idle"
  BY <1>1, OwnShape
<1>3. Begun(d) /\ answer[d] = "none" /\ pc[d] # "idle" /\ Node(d) \in Nodes
  BY <1>1, UnderWay DEF Shape, Begun
<1> SUFFICES ASSUME request[d].op = "stream", changers[d] = {}
             PROVE  \E n \in Nodes : was'[d] = {n} /\ Streams(d, n)'
  BY <1>2 DEF StreamInv
<1>4. PICK n \in Nodes : was[d] = {n} /\ Streams(d, n)
  BY <1>3 DEF StreamInv
<1>5. Node(d) = n
  BY <1>3, <1>4 DEF Streams
<1>6. fs' = fs
  <2>1. CASE SessionFails(d)
    BY <2>1, <1>3 DEF SessionFails, Halfway, At, Change
  <2>2. CASE ~ SessionFails(d)
    BY <2>2 DEF CallStep, Refuse, ReadTest, ReadSize, ReadMime, ReadCat, DeleteTest, DeleteTestDir,
          DeleteRm, WriteOpen, WriteFill, MoveTest, MoveMv, mkdir, exists, ListTest, StatTest, Stat,
          ListFind, StreamTest, StreamSize, StreamMime, StreamChunk, StreamComplete, Leave, Clone,
          CloneBranch, At, NoChange
  <2> QED
    BY <2>1, <2>2
<1>7. was'[d] = {n} /\ Node(d)' = n
  BY <1>2, <1>4, <1>5, <1>6 DEF Node
<1> SUFFICES Streams(d, n)'
  BY <1>7, Zenon
<1>8. CASE Refuse(d) \/ SessionFails(d)
  <2>1. pc'[d] = "done" /\ answer'[d] \in {"invalid", "not found", "error"} /\ chunks' = chunks
    BY <1>3, <1>8 DEF Refuse, SessionFails, Answer, At, IInv, TypeOK
  <2>2. answer'[d] = "error" => d \in broken'
    BY <1>3, <1>8 DEF Refuse, SessionFails, Answer, At, IInv, TypeOK
  <2> QED
    BY <1>4, <2>1, <2>2 DEF Streams, Begun
<1>9. CASE StreamTest(d)
  <2>1. /\ pc[d] = "start" /\ chunks' = chunks
        /\ \/ pc'[d] = "done" /\ answer'[d] = "not found"
           \/ pc'[d] = "size" /\ answer' = answer
    BY <1>3, <1>9 DEF StreamTest, Answer, Goto, At, IInv, TypeOK
  <2> QED
    BY <1>3, <1>4, <1>7, <2>1 DEF Streams, Begun
<1>10. CASE StreamSize(d)
  <2>1. /\ pc[d] = "size" /\ chunks' = chunks
        /\ \/ pc'[d] = "done" /\ answer'[d] = "error" /\ Node(d) = Absent
           \/ pc'[d] = "mime" /\ answer' = answer /\ got'[d].size = n.len
    BY <1>3, <1>5, <1>10 DEF StreamSize, Answer, Goto, At, IInv, TypeOK, DataOK, TestE
  <2>2. Absent.kind # "file"
    BY DEF Absent
  <2> QED
    BY <1>3, <1>4, <1>5, <1>7, <2>1, <2>2 DEF Streams, Begun
<1>11. CASE StreamMime(d)
  <2>1. /\ pc[d] = "mime" /\ chunks' = chunks
        /\ got'[d].binary = IsBinary(n) /\ got'[d].size = got[d].size
        /\ \/ pc'[d] = "done" /\ answer'[d] = "gone"
           \/ pc'[d] = "dd" /\ answer' = answer
    BY <1>3, <1>5, <1>11 DEF StreamMime, Answer, Goto, At, IInv, TypeOK, DataOK
  <2> QED
    BY <1>3, <1>4, <1>7, <2>1 DEF Streams, Begun
<1>12. CASE StreamChunk(d)
  <2>1. /\ pc[d] = "dd" /\ got[d].size = n.len /\ got[d].binary = IsBinary(n)
        /\ broken' = broken
    BY <1>4, <1>12 DEF StreamChunk, At, Streams
  <2>2. CASE n.kind # "file"
    <3>1. chunks' = chunks /\ pc'[d] = "done"
      BY <1>3, <1>5, <1>12, <2>2 DEF StreamChunk, Answer, IInv, TypeOK
    <3> QED
      BY <1>4, <1>7, <2>2, <3>1 DEF Streams, Begun
  <2>3. CASE n.kind = "file"
    <3>1. PICK k \in 0..Count(n) : chunks[d] = Chunks(n, k)
      BY <1>4, <2>3 DEF Streams
    <3>2. k \in Nat /\ n.len \in Nat /\ Count(n) \in Nat /\ Count(n) <= n.len /\ k <= Count(n)
      BY <2>3, <3>1, FileNodes
    <3>3. Len(chunks[d]) = k
      BY <3>1, <3>2, ChunksOf
    <3>4. ASSUME k + 1 \notin Shown(d)
          PROVE  k = Count(n)
      <4>1. k + 1 \notin 1..n.len \/ (~ IsBinary(n) /\ Blocks[n.of][k + 1] = "newline")
        BY <1>5, <2>1, <3>4 DEF Shown
      <4>2. CASE k + 1 \notin 1..n.len
        BY <3>2, <4>2
      <4>3. CASE k + 1 \in 1..n.len /\ ~ IsBinary(n) /\ Blocks[n.of][k + 1] = "newline"
        <5>1. k + 1 = n.len
          BY <2>3, <3>2, <4>3, FileNodes, BlocksAssumption
        <5>2. Bare(n)
          BY <2>3, <3>2, <4>3, <5>1 DEF Bare, IsBinary
        <5> QED
          BY <3>2, <5>1, <5>2 DEF Count
      <4> QED
        BY <4>1, <4>2, <4>3
    <3>5. ASSUME k + 1 \in Shown(d)
          PROVE  k + 1 \in 0..Count(n)
      <4>1. k + 1 \in 1..n.len /\ (IsBinary(n) \/ Blocks[n.of][k + 1] # "newline")
        BY <1>5, <2>1, <3>5 DEF Shown
      <4>2. Bare(n) => k + 1 # n.len
        BY <2>3, <4>1, <3>2 DEF Bare, IsBinary
      <4> QED
        BY <3>2, <4>1, <4>2 DEF Count
    <3>6. \/ k + 1 \notin Shown(d) /\ chunks' = chunks /\ pc'[d] = "done" /\ answer'[d] # "error"
          \/ chunks' = chunks /\ pc'[d] = "done" /\ answer'[d] = "gone"
          \/ /\ k + 1 \in Shown(d) /\ UNCHANGED << pc, answer >>
             /\ chunks'[d] = Append(chunks[d], Output(n, IsBinary(n), k + 1))
             /\ got'[d].size = got[d].size /\ got'[d].binary = got[d].binary
      <4>1. DOMAIN pc = Calls /\ DOMAIN answer = Calls /\ DOMAIN chunks = Calls
            /\ got \in [Calls -> Told]
        BY DEF IInv, TypeOK, DataOK, Told
      <4>2. \/ /\ k + 1 \notin Shown(d) /\ Answer(d, IF d \in left THEN "gone" ELSE "complete")
               /\ chunks' = chunks
            \/ Answer(d, "gone") /\ chunks' = chunks
            \/ /\ k + 1 \in Shown(d) /\ UNCHANGED << pc, answer >>
               /\ chunks' = [chunks EXCEPT ![d] = Append(@, Output(n, IsBinary(n), k + 1))]
               /\ \E x : got' = [got EXCEPT ![d].short = x]
        BY <1>3, <1>5, <1>12, <2>1, <2>3, <3>3 DEF StreamChunk
      <4>3. CASE /\ k + 1 \notin Shown(d) /\ Answer(d, IF d \in left THEN "gone" ELSE "complete")
                 /\ chunks' = chunks
        BY <1>3, <4>1, <4>3 DEF Answer
      <4>4. CASE Answer(d, "gone") /\ chunks' = chunks
        BY <1>3, <4>1, <4>4 DEF Answer
      <4>5. CASE /\ k + 1 \in Shown(d) /\ UNCHANGED << pc, answer >>
                 /\ chunks' = [chunks EXCEPT ![d] = Append(@, Output(n, IsBinary(n), k + 1))]
                 /\ \E x : got' = [got EXCEPT ![d].short = x]
        <5>1. PICK x : got' = [got EXCEPT ![d].short = x]
          BY <4>5
        <5>2. got'[d].size = got[d].size /\ got'[d].binary = got[d].binary
          BY <1>3, <4>1, <5>1 DEF Told
        <5>3. \A y : chunks' = [chunks EXCEPT ![d] = Append(@, y)] =>
                chunks'[d] = Append(chunks[d], y)
          BY <4>1
        <5> QED
          BY <4>5, <5>2, <5>3
      <4> QED
        BY <4>2, <4>3, <4>4, <4>5
    <3>7. CASE k + 1 \notin Shown(d) /\ chunks' = chunks /\ pc'[d] = "done" /\ answer'[d] # "error"
      BY <1>7, <3>1, <3>4, <3>7 DEF Streams, Begun
    <3>8. CASE chunks' = chunks /\ pc'[d] = "done" /\ answer'[d] = "gone"
      BY <1>7, <3>1, <3>8 DEF Streams, Begun
    <3>9. CASE /\ k + 1 \in Shown(d) /\ UNCHANGED << pc, answer >>
               /\ chunks'[d] = Append(chunks[d], Output(n, IsBinary(n), k + 1))
               /\ got'[d].size = got[d].size /\ got'[d].binary = got[d].binary
      <4>1. chunks'[d] = Chunks(n, k + 1)
        BY <3>1, <3>2, <3>9, ChunksOf
      <4> QED
        BY <1>3, <1>7, <2>1, <3>5, <3>9, <4>1 DEF Streams, Begun
    <3> QED
      BY <3>6, <3>7, <3>8, <3>9
  <2> QED
    BY <2>2, <2>3
<1>13. CASE StreamComplete(d)
  <2>1. /\ pc[d] = "dd" /\ got[d].size = n.len
        /\ chunks' = chunks /\ pc'[d] = "done" /\ answer'[d] \in {"gone", "complete"}
        /\ Len(chunks[d]) >= n.len \/ Len(chunks[d]) > n.len
    BY <1>3, <1>4, <1>13 DEF StreamComplete, More, Answer, At, Streams, IInv, TypeOK
  <2>2. CASE n.kind # "file"
    BY <1>4, <1>7, <2>1, <2>2 DEF Streams, Begun
  <2>3. CASE n.kind = "file"
    <3>1. PICK k \in 0..Count(n) : chunks[d] = Chunks(n, k)
      BY <1>4, <2>3 DEF Streams
    <3>2. k \in Nat /\ n.len \in Nat /\ Count(n) \in Nat /\ Count(n) <= n.len /\ k <= Count(n)
      BY <2>3, <3>1, FileNodes
    <3>3. Len(chunks[d]) = k
      BY <3>1, <3>2, ChunksOf
    <3>4. k = Count(n)
      BY <2>1, <3>2, <3>3
    <3> QED
      BY <1>7, <2>1, <3>1, <3>4 DEF Streams, Begun
  <2> QED
    BY <2>2, <2>3
<1>14. CASE Leave(d)
  <2>1. UNCHANGED << request, pc, got, chunks, answer, broken >>
    BY <1>14 DEF Leave
  <2> QED
    BY <1>4, <1>7, <2>1 DEF Streams, Begun
<1> QED
  BY <1>8, <1>9, <1>10, <1>11, <1>12, <1>13, <1>14
     DEF CallStep, ReadTest, ReadSize, ReadMime, ReadCat, DeleteTest, DeleteTestDir,
         DeleteRm, WriteOpen, WriteFill, MoveTest, MoveMv, mkdir, exists, ListTest, StatTest, Stat,
         ListFind, Clone, CloneBranch, At

\* At first no stream has begun.
LEMMA InitStreams == Init => StreamsInv
BY DEF Init, StreamsInv, StreamInv

\* Whoever takes it, a step keeps what is said of the streams.
LEMMA NextStreams == IInv /\ StreamsInv /\ [Next]_vars => StreamsInv'
<1> SUFFICES ASSUME IInv, StreamsInv, [Next]_vars, NEW c \in Calls
             PROVE  StreamInv(c)'
  BY DEF StreamsInv
<1>0. StreamInv(c)
  BY DEF StreamsInv
<1>1. ASSUME NEW d \in Calls, CallStep(d)
      PROVE  StreamInv(c)'
  BY <1>0, <1>1, StepShape, ShapeBystander, StreamBystander, StreamOwn
<1>2. ASSUME NEW d \in Calls, handle(d)
      PROVE  StreamInv(c)'
  BY <1>0, <1>2, ArrivalBystander, StreamBystander, StreamArrival
<1>3. CASE Interfere
  BY <1>0, <1>3, BackgroundBystander, StreamBystander
<1>4. CASE UNCHANGED vars
  BY <1>0, <1>4 DEF vars, callVars, historyVars, StreamInv, Streams, Begun, Node, Path
<1> QED
  BY <1>1, <1>2, <1>3, <1>4 DEF Next, CallStep

-----------------------------------------------------------------------------
(***************************************************************************)
(* What is collected of a stream                                           *)
(***************************************************************************)

\* Two sequences, one after the other
LEMMA Joined ==
  ASSUME NEW S, NEW a \in Seq(S), NEW b \in Seq(S)
  PROVE  /\ a \o b \in Seq(S) /\ Len(a \o b) = Len(a) + Len(b)
         /\ \A i \in 1..Len(a) : (a \o b)[i] = a[i]
         /\ \A i \in 1..Len(b) : (a \o b)[Len(a) + i] = b[i]
OBVIOUS

\* What a stream of the first k blocks is made of
EventsTo(n, k) ==
  [type : {"metadata", "chunk", "complete", "error"},
   data : {NoData} \cup {Output(n, IsBinary(n), i) : i \in 1..k}]

\* The events of a stream that has sent k blocks, and of which a is answered
EventsAfter(n, k, a, es) ==
  /\ es \in Seq(EventsTo(n, k)) /\ es[1].type = "metadata"
  /\ \A i \in 1..k : es[i + 1].type = "chunk" /\ es[i + 1].data = Chunks(n, k)[i]
  /\ IF a \in {"complete", "error", "not found"}
     THEN Len(es) = k + 2 /\ es[k + 2].type = IF a = "complete" THEN "complete" ELSE "error"
     ELSE Len(es) = k + 1

\* Such are the events of a stream.
LEMMA EventsOf ==
  ASSUME NEW c, NEW n, NEW k \in Nat, chunks[c] = Chunks(n, k)
  PROVE  EventsAfter(n, k, answer[c], Events(c))
<1> DEFINE out == {Output(n, IsBinary(n), i) : i \in 1..k}
           ev == [type : {"metadata", "chunk", "complete", "error"}, data : {NoData} \cup out]
           first == << Event("metadata", NoData) >>
           sent == [i \in DOMAIN chunks[c] |-> Event("chunk", chunks[c][i])]
           last == CASE answer[c] = "complete" -> << Event("complete", NoData) >>
                     [] answer[c] \in {"error", "not found"} -> << Event("error", NoData) >>
                     [] OTHER -> << >>
<1>1. /\ DOMAIN chunks[c] = 1..k
      /\ \A i \in 1..k : chunks[c][i] \in out /\ chunks[c][i] = Chunks(n, k)[i]
  <2>1. \A i \in 1..k : Chunks(n, k)[i] = Output(n, IsBinary(n), i)
    BY DEF Chunks
  <2>2. \A i \in 1..k : Output(n, IsBinary(n), i) \in out
    OBVIOUS
  <2> HIDE DEF out
  <2> QED
    BY <2>1, <2>2, ChunksOf
<1> HIDE DEF out
<1>2. first \in Seq(ev) /\ Len(first) = 1 /\ first[1].type = "metadata"
  BY DEF Event
<1>3. sent \in Seq(ev) /\ Len(sent) = k
      /\ \A i \in 1..k : sent[i].type = "chunk" /\ sent[i].data = Chunks(n, k)[i]
  <2>1. \A i \in 1..k : Event("chunk", chunks[c][i]) \in ev
    BY <1>1 DEF Event
  <2>2. sent = [i \in 1..k |-> Event("chunk", chunks[c][i])]
    BY <1>1
  <2>3. \A i \in 1..k : sent[i].type = "chunk" /\ sent[i].data = Chunks(n, k)[i]
    BY <1>1, <2>2 DEF Event
  <2> HIDE DEF ev
  <2> QED
    BY <2>1, <2>2, <2>3
<1>4. /\ last \in Seq(ev)
      /\ answer[c] \in {"complete", "error", "not found"} => Len(last) = 1
      /\ answer[c] = "complete" => last[1].type = "complete"
      /\ answer[c] \in {"error", "not found"} => last[1].type = "error"
      /\ answer[c] \notin {"complete", "error", "not found"} => Len(last) = 0
  <2>1. /\ Event("complete", NoData) \in ev /\ Event("complete", NoData).type = "complete"
        /\ Event("error", NoData) \in ev /\ Event("error", NoData).type = "error"
    BY DEF Event
  <2> HIDE DEF ev
  <2>2. << >> \in Seq(ev)
    OBVIOUS
  <2>3. CASE answer[c] = "complete"
    <3>1. last = << Event("complete", NoData) >>
      BY <2>3
    <3> QED
      BY <2>1, <2>3, <3>1
  <2>4. CASE answer[c] \in {"error", "not found"}
    <3>1. last = << Event("error", NoData) >>
      BY <2>4
    <3> HIDE DEF last
    <3>2. Len(last) = 1 /\ last[1].type = "error" /\ last \in Seq(ev)
      BY <2>1, <3>1
    <3> QED
      BY <2>4, <3>2
  <2>5. CASE answer[c] \notin {"complete", "error", "not found"}
    <3>1. last = << >>
      BY <2>5
    <3> QED
      BY <2>2, <2>5, <3>1
  <2> QED
    BY <2>3, <2>4, <2>5
<1>5. Events(c) = first \o sent \o last
  BY DEF Events
<1> HIDE DEF ev, first, sent, last
<1> DEFINE begun == first \o sent
<1>6. begun \in Seq(ev) /\ Len(begun) = k + 1
      /\ begun[1] = first[1] /\ \A i \in 1..k : begun[i + 1] = sent[i]
  <2>1. /\ begun \in Seq(ev) /\ Len(begun) = 1 + k
        /\ (\A i \in 1..1 : begun[i] = first[i]) /\ (\A i \in 1..k : begun[1 + i] = sent[i])
    <3>1. /\ first \o sent \in Seq(ev) /\ Len(first \o sent) = Len(first) + Len(sent)
          /\ (\A i \in 1..Len(first) : (first \o sent)[i] = first[i])
          /\ (\A i \in 1..Len(sent) : (first \o sent)[Len(first) + i] = sent[i])
      <4>1. first \in Seq(ev) /\ sent \in Seq(ev)
        BY <1>2, <1>3
      <4> QED
        BY <4>1, Joined
    <3> HIDE DEF begun
    <3>2. begun = first \o sent
      BY DEF begun
    <3> QED
      BY <1>2, <1>3, <3>1, <3>2, Zenon
  <2> HIDE DEF begun
  <2> QED
    BY <2>1
<1> HIDE DEF begun
<1>7. Events(c) \in Seq(ev) /\ Len(Events(c)) = k + 1 + Len(last)
      /\ (\A i \in 1..(k + 1) : Events(c)[i] = begun[i])
      /\ (Len(last) = 1 => Events(c)[k + 2] = last[1])
  <2>1. Events(c) = begun \o last
    BY <1>5 DEF begun
  <2>2. /\ Events(c) \in Seq(ev) /\ Len(Events(c)) = k + 1 + Len(last)
        /\ (\A i \in 1..(k + 1) : Events(c)[i] = begun[i])
        /\ (\A i \in 1..Len(last) : Events(c)[k + 1 + i] = last[i])
    <3>1. /\ begun \o last \in Seq(ev) /\ Len(begun \o last) = Len(begun) + Len(last)
          /\ (\A i \in 1..Len(begun) : (begun \o last)[i] = begun[i])
          /\ (\A i \in 1..Len(last) : (begun \o last)[Len(begun) + i] = last[i])
      <4>1. begun \in Seq(ev) /\ last \in Seq(ev)
        BY <1>4, <1>6
      <4> QED
        BY <4>1, Joined
    <3> QED
      BY <1>6, <2>1, <3>1, Zenon
  <2> QED
    BY <2>2
<1>8. 1 \in 1..(k + 1) /\ \A i \in 1..k : i + 1 \in 1..(k + 1)
  OBVIOUS
<1>9. Events(c) \in Seq(EventsTo(n, k))
  BY <1>7 DEF ev, out, EventsTo
<1>10. Events(c)[1].type = "metadata"
  BY <1>2, <1>6, <1>7, <1>8
<1>11. \A i \in 1..k : Events(c)[i + 1].type = "chunk" /\ Events(c)[i + 1].data = Chunks(n, k)[i]
  BY <1>3, <1>6, <1>7, <1>8
<1>12. /\ Len(last) = 1 => Len(Events(c)) = k + 2 /\ Events(c)[k + 2] = last[1]
       /\ Len(last) = 0 => Len(Events(c)) = k + 1
  <2>1. k + 1 + 1 = k + 2 /\ k + 1 + 0 = k + 1
    OBVIOUS
  <2>2. Len(Events(c)) = k + 1 + Len(last)
    BY <1>7
  <2>3. Len(last) = 1 => Len(Events(c)) = k + 1 + 1
    BY <2>2, Zenon
  <2>4. Len(last) = 0 => Len(Events(c)) = k + 1 + 0
    BY <2>2, Zenon
  <2> QED
    BY <1>7, <2>1, <2>3, <2>4, Zenon
<1>13. /\ answer[c] \in {"complete", "error", "not found"} => Len(Events(c)) = k + 2
       /\ answer[c] = "complete" => Events(c)[k + 2].type = "complete"
       /\ answer[c] \in {"error", "not found"} => Events(c)[k + 2].type = "error"
       /\ answer[c] \notin {"complete", "error", "not found"} => Len(Events(c)) = k + 1
  BY <1>4, <1>12
<1> QED
  BY <1>9, <1>10, <1>11, <1>13 DEF EventsAfter

\* Some number of a set is the least.
LEMMA LeastOf ==
  ASSUME NEW T, T \subseteq Nat, T # {}
  PROVE  \E x \in T : \A y \in T : x <= y
<1> DEFINE R == OpToRel(<, Nat)
<1>1. \A x, y \in Nat : y < x => << y, x >> \in R
  BY DEF OpToRel
<1>2. IsWellFoundedOn(R, Nat)
  BY NatLessThanWellFounded
<1> HIDE DEF R
<1>3. PICK x \in T : \A y \in T : << y, x >> \notin R
  BY <1>2, WFMin
<1>4. \A y \in T : ~ (y < x)
  BY <1>1, <1>3
<1> QED
  BY <1>3, <1>4

\* Of events that are chunks but for the first and the last, these chunks are yielded.
LEMMA YieldedChunks ==
  ASSUME NEW es, NEW n, NEW k \in Nat, Len(es) = k + 2,
         es[1].type # "chunk", es[k + 2].type # "chunk",
         \A i \in 1..k : es[i + 1].type = "chunk" /\ es[i + 1].data = Chunks(n, k)[i]
  PROVE  Yielded(es) = Chunks(n, k)
<1> DEFINE Body(f, m) == IF m = 0 THEN << >>
                         ELSE IF es[m].type = "chunk" THEN Append(f[m - 1], es[m].data)
                         ELSE f[m - 1]
           Before(m) == IF m = 0 THEN 0 ELSE IF m = k + 2 THEN k ELSE m - 1
           g == [m \in 0..(k + 2) |-> Chunks(n, Before(m))]
           u == CHOOSE f : f = [m \in 0..(k + 2) |-> Body(f, m)]
<1>1. Yielded(es) = u[k + 2]
  BY DEF Yielded
<1>2. ASSUME NEW f, NEW m \in 1..(k + 2), f[m - 1] = g[m - 1]
      PROVE  Body(f, m) = g[m]
  <2>1. g[m - 1] = Chunks(n, Before(m - 1)) /\ g[m] = Chunks(n, Before(m))
    BY <1>2
  <2>2. CASE m = 1 \/ m = k + 2
    <3>1. es[m].type # "chunk" /\ Before(m - 1) = Before(m)
      BY <2>2
    <3> QED
      BY <1>2, <2>1, <3>1
  <2>3. CASE m # 1 /\ m # k + 2
    <3>1. m - 1 \in 1..k /\ (m - 1) + 1 = m
      BY <2>3
    <3>2. es[m].type = "chunk" /\ es[m].data = Chunks(n, k)[m - 1]
      BY <3>1
    <3>3. Chunks(n, k)[m - 1] = Output(n, IsBinary(n), m - 1)
      BY <3>1 DEF Chunks
    <3>4. Before(m - 1) = m - 2 /\ Before(m) = m - 1
      BY <2>3, <3>1
    <3>5. m - 2 \in Nat /\ (m - 2) + 1 = m - 1
      BY <3>1
    <3>6. Append(Chunks(n, m - 2), Output(n, IsBinary(n), m - 1)) = Chunks(n, m - 1)
      BY <3>5, ChunksOf
    <3>7. Body(f, m) = Append(f[m - 1], es[m].data)
      BY <2>3, <3>2
    <3>8. f[m - 1] = Chunks(n, m - 2) /\ g[m] = Chunks(n, m - 1)
      BY <1>2, <2>1, <3>4
    <3> HIDE DEF Body, g
    <3> QED
      BY <3>2, <3>3, <3>6, <3>7, <3>8
  <2> QED
    BY <2>2, <2>3
<1>3. Body(u, 0) = g[0] /\ Body(g, 0) = g[0]
  BY ChunksOf
<1>4. g = [m \in 0..(k + 2) |-> Body(g, m)]
  <2>1. \A m \in 0..(k + 2) : Body(g, m) = g[m]
    <3>1. \A m \in 0..(k + 2) : m = 0 \/ m \in 1..(k + 2)
      OBVIOUS
    <3> QED
      BY <1>2, <1>3, <3>1
  <2> QED
    BY <2>1
<1>5. u = [m \in 0..(k + 2) |-> Body(u, m)]
  <2> HIDE DEF Body, g
  <2> QED
    BY <1>4
<1> HIDE DEF u
<1>6. \A m \in 0..(k + 2) : u[m] = Body(u, m)
  BY <1>5
<1> DEFINE T == {m \in 0..(k + 2) : u[m] # g[m]}
<1>7. T = {}
  <2> HIDE DEF Body, g
  <2> SUFFICES ASSUME T # {}
               PROVE  FALSE
    OBVIOUS
  <2>0. T \subseteq Nat
    OBVIOUS
  <2>1. PICK m \in T : \A y \in T : m <= y
    <3> HIDE DEF T
    <3> QED
      BY <2>0, LeastOf
  <2>2. m \in 0..(k + 2) /\ m # 0
    BY <1>3, <1>6, <2>1
  <2>3. m \in 1..(k + 2) /\ m - 1 \in 0..(k + 2) /\ m - 1 < m
    BY <2>2
  <2>4. u[m - 1] = g[m - 1]
    BY <2>1, <2>3
  <2> QED
    BY <1>2, <1>6, <2>1, <2>3, <2>4
<1>8. u[k + 2] = g[k + 2]
  <2> HIDE DEF g
  <2> QED
    BY <1>7
<1>9. g[k + 2] = Chunks(n, k)
  OBVIOUS
<1> QED
  BY <1>1, <1>8, <1>9

\* What ends a stream
Ending == {"complete", "error"}

\* Without an event that ends the stream streamFile throws.
LEMMA CutShort ==
  ASSUME NEW es, \A i \in DOMAIN es : es[i].type \notin Ending
  PROVE  collectFile(es).thrown
<1>1. {i \in DOMAIN es : es[i].type \in {"complete", "error"}} = {}
  BY DEF Ending
<1>2. streamFile(es).thrown
  BY <1>1 DEF streamFile
<1> QED
  BY <1>2 DEF collectFile

\* With one, and that the last, all is taken.
LEMMA TakenWhole ==
  ASSUME NEW S, NEW es \in Seq(S), NEW m \in Nat, m > 0, Len(es) = m,
         \A i \in 1..m : es[i].type \in Ending <=> i = m
  PROVE  /\ collectFile(es).thrown <=> es[m].type = "error"
         /\ es[m].type # "error" => collectFile(es).content = Yielded(es)
<1> DEFINE ends == {i \in DOMAIN es : es[i].type \in {"complete", "error"}}
           stop == IF ends = {} THEN Len(es) ELSE CHOOSE i \in ends : \A j \in ends : i <= j
<1>1. ends = {m}
  BY DEF Ending
<1>2. stop = m
  <2> HIDE DEF ends
  <2> QED
    BY <1>1
<1>3. SubSeq(es, 1, m) = es
  BY SubSeqFull
<1>4. /\ streamFile(es).chunks = Yielded(SubSeq(es, 1, stop))
      /\ streamFile(es).thrown = (ends = {} \/ es[stop].type = "error")
  BY DEF streamFile
<1> HIDE DEF ends, stop
<1>5. ends # {}
  BY <1>1
<1>6. /\ streamFile(es).chunks = Yielded(es)
      /\ streamFile(es).thrown <=> es[m].type = "error"
  BY <1>2, <1>3, <1>4, <1>5
<1> QED
  BY <1>6 DEF collectFile

\* What is collected of the events of a stream, whenever its connection ends
LEMMA Collected ==
  ASSUME NEW c, NEW n, NEW k \in Nat, chunks[c] = Chunks(n, k)
  PROVE  /\ \A events \in Received(c) : ~ collectFile(events).thrown =>
              answer[c] = "complete" /\ collectFile(events).content = Chunks(n, k)
         /\ answer[c] = "complete" => ~ collectFile(Events(c)).thrown
<1> DEFINE over == answer[c] \in {"complete", "error", "not found"}
<1>0. PICK es : es = Events(c) /\ EventsAfter(n, k, answer[c], es)
  BY EventsOf
<1>1. /\ es \in Seq(EventsTo(n, k)) /\ es[1].type = "metadata"
      /\ \A i \in 1..k : es[i + 1].type = "chunk" /\ es[i + 1].data = Chunks(n, k)[i]
  BY <1>0 DEF EventsAfter
<1>2. /\ over => Len(es) = k + 2
      /\ answer[c] = "complete" => es[k + 2].type = "complete"
      /\ over /\ answer[c] # "complete" => es[k + 2].type = "error"
      /\ ~ over => Len(es) = k + 1
  BY <1>0 DEF EventsAfter
<1> HIDE DEF over
<1>3. \A i \in 1..(k + 1) : es[i].type \notin Ending
  <2>1. \A i \in 1..(k + 1) : i = 1 \/ (i - 1 \in 1..k /\ (i - 1) + 1 = i)
    OBVIOUS
  <2>2. \A i \in 1..(k + 1) : es[i].type \in {"metadata", "chunk"}
    BY <1>1, <2>1
  <2> QED
    BY <2>2 DEF Ending
<1>4. ASSUME over
      PROVE  /\ collectFile(es).thrown <=> answer[c] # "complete"
             /\ answer[c] = "complete" => collectFile(es).content = Chunks(n, k)
  <2>1. Len(es) = k + 2 /\ es[k + 2].type \in Ending
        /\ (es[k + 2].type = "error" <=> answer[c] # "complete")
    BY <1>2, <1>4 DEF Ending
  <2>2. \A i \in 1..(k + 2) : es[i].type \in Ending <=> i = k + 2
    BY <1>3, <2>1
  <2>3. k + 2 \in Nat /\ k + 2 > 0
    OBVIOUS
  <2>4. /\ collectFile(es).thrown <=> es[k + 2].type = "error"
        /\ es[k + 2].type # "error" => collectFile(es).content = Yielded(es)
    BY <1>1, <2>1, <2>2, <2>3, TakenWhole
  <2>5. es[1].type # "chunk" /\ es[k + 2].type # "chunk"
    BY <1>1, <2>1 DEF Ending
  <2>6. Yielded(es) = Chunks(n, k)
    <3>1. Len(es) = k + 2 /\ es[1].type # "chunk" /\ es[k + 2].type # "chunk"
      BY <2>1, <2>5
    <3>2. \A i \in 1..k : es[i + 1].type = "chunk" /\ es[i + 1].data = Chunks(n, k)[i]
      BY <1>1, Zenon
    <3> QED
      BY <3>1, <3>2, YieldedChunks
  <2> QED
    BY <2>1, <2>4, <2>6
<1>5. ASSUME NEW events \in Received(c), ~ collectFile(events).thrown
      PROVE  over /\ events = es
  <2>1. PICK m \in 0..Len(es) : events = SubSeq(es, 1, m)
    BY <1>0, <1>5 DEF Received
  <2>2. Len(es) \in Nat
    BY <1>1
  <2>3. m \in Nat /\ m <= Len(es)
    BY <2>1, <2>2
  <2>4. DOMAIN events = 1..m /\ \A i \in 1..m : events[i] = es[i]
    BY <1>1, <2>1, <2>3
  <2>5. PICK i \in 1..m : es[i].type \in Ending
    BY <1>5, <2>4, CutShort
  <2>6. i \notin 1..(k + 1)
    BY <1>3, <2>5
  <2>7. m > k + 1
    BY <2>3, <2>5, <2>6
  <2>8. over
    BY <1>2, <2>2, <2>3, <2>7
  <2>9. m = Len(es)
    BY <1>2, <2>3, <2>7, <2>8
  <2>10. SubSeq(es, 1, Len(es)) = es
    BY <1>1, SubSeqFull
  <2> QED
    BY <2>1, <2>8, <2>9, <2>10
<1>6. answer[c] = "complete" => over
  BY DEF over
<1>7. \A events \in Received(c) : ~ collectFile(events).thrown =>
        answer[c] = "complete" /\ collectFile(events).content = Chunks(n, k)
  BY <1>4, <1>5
<1>8. answer[c] = "complete" => ~ collectFile(es).thrown
  BY <1>4, <1>6
<1> QED
  BY <1>0, <1>7, <1>8

\* The content is that of file n: all of its blocks, but for what a text loses.
Retained(n, content) ==
  /\ Len(content) = Count(n)
  /\ \A i \in 1..Count(n) :
       /\ content[i].of = n.of /\ content[i].at = i
       /\ ~ content[i].whole => ~ IsBinary(n) /\ Blocks[n.of][i] = "ended"
       /\ content[i].torn => ~ IsBinary(n) /\ CutAt(n.of, i)

\* The chunks of all blocks are the file.
LEMMA AllKept ==
  ASSUME NEW n \in Nodes, n.kind = "file"
  PROVE  Retained(n, Chunks(n, Count(n)))
<1>1. Count(n) \in Nat /\ n.len \in Nat /\ Count(n) <= n.len
  BY FileNodes
<1>2. Len(Chunks(n, Count(n))) = Count(n)
  BY <1>1, ChunksOf
<1>3. ASSUME NEW i \in 1..Count(n)
      PROVE  Chunks(n, Count(n))[i] = Output(n, IsBinary(n), i)
  BY DEF Chunks
<1>4. \A i \in 1..Count(n) : n.len > 0
  BY <1>1
<1>5. \A i \in 1..Count(n) : ~ IsBinary(n) => n.of \notin Binary
  BY <1>4 DEF IsBinary
<1>6. ASSUME NEW i \in 1..Count(n)
      PROVE  /\ Output(n, IsBinary(n), i).of = n.of /\ Output(n, IsBinary(n), i).at = i
             /\ ~ Output(n, IsBinary(n), i).whole =>
                  ~ IsBinary(n) /\ Blocks[n.of][i] = "ended"
             /\ Output(n, IsBinary(n), i).torn => ~ IsBinary(n) /\ CutAt(n.of, i)
  BY <1>5 DEF Output
<1> QED
  BY <1>2, <1>3, <1>6 DEF Retained

\* What a stream has been told and has sent goes with the file that was there.
THEOREM StreamInvariant == Spec => [](IInv /\ StreamsInv)
<1>1. Init => IInv /\ StreamsInv
  BY InitIInv, InitStreams
<1>2. IInv /\ StreamsInv /\ [Next]_vars => IInv' /\ StreamsInv'
  BY NextIInv, NextStreams
<1> QED
  BY <1>1, <1>2, PTL DEF Spec

\* What collectFile returns is all blocks of the file, wherever the stream was cut,
\* but for the line ends and the characters that the ends of blocks cost a text;
\* and a file that nobody changes is streamed to its end
\* (file-service.ts:1526-1612, file-stream.ts:70-175).
THEOREM StreamsAreWhole == Spec => []StreamWhole
<1>1. IInv /\ StreamsInv => StreamWhole
  <2>0. \A n : n.kind = "file" =>
          (Bare(n) <=> ~ IsBinary(n) /\ n.len > 0 /\ Blocks[n.of][n.len] = "newline")
    BY DEF Bare, IsBinary
  <2> SUFFICES ASSUME StreamsInv, NEW c \in Calls, request[c].op = "stream", changers[c] = {},
                      NEW n \in was[c], n.kind = "file"
               PROVE  /\ \A events \in Received(c) :
                           ~ collectFile(events).thrown => Retained(n, collectFile(events).content)
                      /\ answer[c] = "complete" => ~ collectFile(Events(c)).thrown
                      /\ answer[c] = "error" => c \in broken
    BY <2>0 DEF StreamWhole, Retained, Count
  <2>1. n \in Nodes /\ Streams(c, n)
    BY DEF StreamsInv, StreamInv
  <2>2. PICK k \in 0..Count(n) : chunks[c] = Chunks(n, k) /\ (answer[c] = "complete" => k = Count(n))
    BY <2>1 DEF Streams
  <2>3. k \in Nat
    BY <2>1, <2>2, FileNodes
  <2>4. /\ \A events \in Received(c) : ~ collectFile(events).thrown =>
             answer[c] = "complete" /\ collectFile(events).content = Chunks(n, k)
        /\ answer[c] = "complete" => ~ collectFile(Events(c)).thrown
    BY <2>2, <2>3, Collected
  <2>5. answer[c] = "error" => c \in broken
    BY <2>1 DEF Streams
  <2>6. Retained(n, Chunks(n, Count(n)))
    BY <2>1, AllKept
  <2> QED
    BY <2>2, <2>4, <2>5, <2>6
<1> QED
  BY <1>1, StreamInvariant, PTL

=============================================================================
