---------------------------- MODULE MCProcessWaits ----------------------------
(* A small instance of ProcessWaits: the awaited line comes on stderr, another *)
(* one on stdout. *)
EXTENDS ProcessWaits

SomeText == {<< "stdout", "other" >>, << "stderr", "ready" >>}

===============================================================================
