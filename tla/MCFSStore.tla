----------------------------- MODULE MCFSStore -----------------------------
(* The store on two files and two names.                                   *)
EXTENDS FSStore

CONSTANTS a, b

Content(n, v) == [name |-> n, version |-> v]

A1 == Content(a, 1)
A2 == Content(a, 2)
B1 == Content(b, 1)

AllSpecs == {A1, A2, B1}

(* Each file keeps to names of its own; file 1 is also broken for a while. *)
OwnNames == {1} \X {A1, A2, Broken} \cup {2} \X {B1}

(* One file, renamed in an edit, rewritten and broken.                     *)
OneFile == {1} \X {A1, A2, B1, Broken}

(* Every file may hold every name.                                         *)
AnyName == {1, 2} \X {A1, B1} \cup {<<1, Broken>>}

NoMoves == {}
OneMove == {<<1, 2>>}
=============================================================================
