------------------------------ MODULE MCFat32 ------------------------------
(* A disk of five clusters with two cells each, and lengths that fill a    *)
(* cluster or need a second one: three files in the root, so that it gets  *)
(* a second cluster and entries in it can hide; or a file beside another   *)
(* and in a directory.  And, by itself, the names as they are typed.       *)
EXTENDS RamDisk

VARIABLE part

X == <<"x">>
Y == <<"y">>
Z == <<"z">>
XY == <<"x", "y">>
MCPaths == {X, Y, Z, XY}
MCLengths == {2, 3}

(* The calls write one text, and WriteReadsBack tries the other as well.   *)
Before == CHOOSE t \in Texts : TRUE

(* Three files; one of them grows and shrinks, one grows.                  *)
Flat ==
  \/ \E p \in {X, Y, Z} : Create(p, FALSE) \/ Delete(p)
  \/ Write(X, Before, 2) \/ Write(X, Before, 3) \/ Write(Y, Before, 3)

(* A directory, which may be written over, and what is in it.              *)
Deep ==
  \/ Create(X, TRUE)
  \/ \E p \in {X, Y, XY} : Create(p, FALSE) \/ Delete(p)
  \/ Write(X, Before, 3) \/ Write(XY, Before, 2) \/ Write(XY, Before, 3)

-----------------------------------------------------------------------------
(* Stems and extensions that fit, fill their room and do not fit, small and*)
(* capital letters, dots in every place, and no name at all.               *)
MCTyped ==
  {<<>>, <<"a">>, <<"A">>, <<"a", "b">>, <<"a", "b", "b">>, <<"a", "b", "b", "a">>,
   <<"a", ".">>, <<"a", ".", "a">>, <<"a", ".", "b">>, <<"a", ".", "a", "b">>,
   <<"a", "b", "b", ".", "b">>, <<"a", "b", "b", "a", ".", "b">>, <<"b", "b", ".", "a">>,
   <<".">>, <<".", ".">>, <<".", "a">>, <<"a", ".", ".">>, <<"A", ".", "B">>}

-----------------------------------------------------------------------------
MCInit == part \in {"flat", "deep", "names"} /\ Init /\ DosNames!Init

MCNext ==
  \/ part = "flat" /\ Flat /\ UNCHANGED <<part, tree>>
  \/ part = "deep" /\ Deep /\ UNCHANGED <<part, tree>>
  \/ part = "names" /\ DosNames!Next /\ UNCHANGED <<part, disk>>

MCSpec == MCInit /\ [][MCNext]_<<part, tree, disk>>
=============================================================================
