----------------------------- MODULE MCFsShell -----------------------------
(* Small instances of FsShell: a table of three slots, names that are      *)
(* prefixes of each other, and archives with every kind of entry.          *)
EXTENDS FsShell

A == <<"a">>
AB == <<"ab">>
InA == <<"a", "b">>
Dot == <<".">>

MCNamePrefix == {<<"a", "ab">>}

(* "." comes from an archive only: no command can name it, and the slot it *)
(* takes is one less for the others.                                       *)
Neighbours == {Root, A, AB, Dot}
Nested == {Root, A, InA, Dot}

MCTexts == {"short"}
MCTextLen == [t \in MCTexts |-> 1]

MCPayloads == {"packed"}

DirEntry(p) == [path |-> p, kind |-> "dir", size |-> 0, data |-> NoData]
RegEntry(p, n) ==
  [path |-> p, kind |-> "reg", size |-> n, data |-> IF n = 0 THEN NoData ELSE "packed"]
OtherEntry(p) == [path |-> p, kind |-> "other", size |-> 0, data |-> NoData]

(* Archives that name a path twice, hold a file of at least InlineSize     *)
(* bytes, or an empty file and more entries than the table has slots.      *)
TwiceArchive == <<RegEntry(A, 1), RegEntry(A, 2), DirEntry(AB), RegEntry(AB, 1)>>
LargeArchive == <<RegEntry(A, 3), DirEntry(AB)>>
LongArchive == <<DirEntry(Dot), RegEntry(A, 0), RegEntry(AB, 1)>>
Unruly == {TwiceArchive, LargeArchive, LongArchive}
Large == {LargeArchive}

(* Archives whose files are shorter than InlineSize and named once; `find .*)
(* | cpio` writes "." first, then the tree.                                *)
NoArchive == <<>>
TreeArchive == <<DirEntry(Dot), DirEntry(A), RegEntry(InA, 2)>>
DeviceArchive == <<OtherEntry(InA), RegEntry(A, 2)>>
Trees == {NoArchive, TreeArchive, DeviceArchive}

(* The counters can drift upwards without end once a slot was wiped or the *)
(* editor was used.                                                        *)
MaxUsed == 4
MaxTotal == 4
CountersBounded == fs.used <= MaxUsed /\ fs.total <= MaxTotal
=============================================================================
