--------------------------- MODULE MCFileService ---------------------------
(* Small instances of FileService. *)
EXTENDS FileService, TLC

CONSTANTS text, data

\* A text of four blocks: the first ends with a line end, the second inside a
\* character, the last is nothing but a line end; and a binary file of one block.
MCBlocks ==
  [v \in Contents |-> IF v = text THEN << "ended", "cut", "plain", "newline" >>
                                   ELSE << "plain" >>]
MCSymmetry == Permutations(Calls) \cup Permutations(Paths)
MCBackground == {Absent, Whole(data)}
=============================================================================
