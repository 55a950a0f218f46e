------------------------------- MODULE Dos83 -------------------------------
(***************************************************************************)
(* The names of the FAT32 RAM disk of src/fb.c: what a caller types is     *)
(* packed into eight and three capitals, and unpacked when a directory is  *)
(* listed.  A path is a sequence of names without slashes, a name a        *)
(* sequence of characters; clusters and cells are in Fat32.                *)
(***************************************************************************)
EXTENDS Integers, Sequences, SequencesExt, FiniteSets, FiniteSetsExt, Functions

CONSTANTS
  NameMax,    \* 8, the room of a name, and of a directory's name in a path
  ExtMax,     \* 3
  Typed,      \* the names callers use, free of blanks
  MaxEntries  \* bound: how many entries there are at a time

NameConstants == {NameMax, ExtMax} \subseteq Nat \ {0} /\ Typed \subseteq Seq(STRING)

VARIABLE tree  \* of each entry, by its packed path: the name it was created
               \* with (history), and whether it is a directory

-----------------------------------------------------------------------------
Upper(s) == [i \in DOMAIN s |-> CASE s[i] = "a" -> "A" [] s[i] = "b" -> "B" [] OTHER -> s[i]]
Cut(s, n) == SubSeq(s, 1, IF Len(s) < n THEN Len(s) ELSE n)

(* Up to the first dot.                                                    *)
Stem(s) == SubSeq(s, 1, Min({i \in 1 .. Len(s) : s[i] = "."} \cup {Len(s) + 1}) - 1)

(* pack_83: a stem that does not fit hides the dot behind it.              *)
Pack(s) ==
  [name |-> Cut(Upper(Stem(s)), NameMax),
   ext  |-> IF Len(Stem(s)) > NameMax THEN <<>>
            ELSE Cut(Upper(SubSeq(s, Len(Stem(s)) + 2, Len(s))), ExtMax)]

(* As Unpack, but the dot is always there.                                 *)
UnpackDotted(e) == e.name \o <<".">> \o e.ext

Unpack(e) == IF e.ext = <<>> THEN e.name ELSE e.name \o <<".">> \o e.ext

(* path_split and resolve_parent: the last name is packed as it is, those  *)
(* before it are cut to NameMax characters with their dots.                *)
Packed(path) ==
  [i \in DOMAIN path |-> Pack(IF i = Len(path) THEN path[i] ELSE Cut(path[i], NameMax))]

IsDirectory(p) == p = <<>> \/ (p \in DOMAIN tree /\ tree[p].dir)

-----------------------------------------------------------------------------
Init == tree = [p \in {} |-> [typed |-> <<>>, dir |-> FALSE]]

TypedPaths == {<<a>> : a \in Typed} \cup {<<a, b>> : a, b \in Typed}

(* fat32_create.                                                           *)
Create(path, isDir) ==
  LET p == Packed(path)
  IN  /\ IsDirectory(Front(p))
      /\ p \notin DOMAIN tree /\ Cardinality(DOMAIN tree) < MaxEntries
      /\ tree' = [q \in DOMAIN tree \cup {p} |->
                    IF q = p THEN [typed |-> Last(path), dir |-> isDir] ELSE tree[q]]

(* fat32_delete: what was below cannot be reached any more.                *)
Delete(path) ==
  /\ IsDirectory(Front(Packed(path))) /\ Packed(path) \in DOMAIN tree
  /\ tree' = Restrict(tree, {q \in DOMAIN tree : ~IsPrefix(Packed(path), q)})

Next == \E path \in TypedPaths : (\E isDir \in BOOLEAN : Create(path, isDir)) \/ Delete(path)

Spec == Init /\ [][Next]_tree

-----------------------------------------------------------------------------
(* Properties.                                                             *)

Fits(s) ==
  /\ Len(Stem(s)) <= NameMax /\ Len(s) - Len(Stem(s)) - 1 <= ExtMax
  /\ s # <<>> => Len(Stem(s)) # Len(s) - 1

(* A listing leads back: a name that fits is listed as it was typed, in    *)
(* capitals, whatever else was created, so no two of them meet; and the    *)
(* listed names name their entry again, as long as those of the            *)
(* directories on the way have no more than NameMax characters.            *)
ListingsLeadBack ==
  \A p \in DOMAIN tree :
    LET listed == [i \in DOMAIN p |-> Unpack(p[i])]
    IN  /\ Fits(tree[p].typed) => Last(listed) = Upper(tree[p].typed)
        /\ (\A i \in 1 .. Len(p) - 1 : Len(listed[i]) <= NameMax) => Packed(listed) = p
=============================================================================
