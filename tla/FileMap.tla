------------------------------ MODULE FileMap ------------------------------
(***************************************************************************)
(* What the ES1 commands promise, without slots, flags or scans: a map     *)
(* from paths to files with room for Capacity of them.  An operation       *)
(* touches only the paths it names, and everything else keeps its owner,   *)
(* its size and its content.  The content is what a reader is to find in   *)
(* the file, wherever it is kept.  FsShell says which operation each of    *)
(* its steps has to be.                                                    *)
(***************************************************************************)
EXTENDS Integers, FiniteSets

CONSTANTS
  Paths,     \* the names files can have
  Capacity,  \* how many of them can exist at once, a number
  Blank,     \* the content of a new file
  None       \* marks a path without a file

VARIABLE files

Exists == {p \in Paths : files[p] # None}
HasRoom == Cardinality(Exists) < Capacity

New(isDir, who) == [dir |-> isDir, owner |-> who, size |-> 0, data |-> Blank]

(* What an operation that writes to p for who finds there, if it may write *)
(* there, and the file with n bytes of new content d.                      *)
Writable(p) == IF files[p] = None THEN HasRoom ELSE ~files[p].dir
Opened(p, who) == IF files[p] = None THEN New(FALSE, who) ELSE files[p]
Filled(p, who, d, n) == [Opened(p, who) EXCEPT !.data = d, !.size = n]

Init == files = [p \in Paths |-> IF p = <<>> THEN New(TRUE, "root") ELSE None]

Create(p, isDir, who) ==
  /\ files[p] = None
  /\ HasRoom
  /\ files' = [files EXCEPT ![p] = New(isDir, who)]

Remove(p) ==
  /\ files[p] # None
  /\ files' = [files EXCEPT ![p] = None]

(* A file is stored at p, or stored again.                                 *)
Store(p, who, d, n) ==
  /\ Writable(p)
  /\ files' = [files EXCEPT ![p] = Filled(p, who, d, n)]

(* A file is copied or moved, and nothing else is.                         *)
IsFile(p) == files[p] # None /\ ~files[p].dir

Copy(p, q, who) ==
  /\ IsFile(p)
  /\ Store(q, who, files[p].data, files[p].size)

Move(p, q, who) ==
  /\ IsFile(p)
  /\ p # q
  /\ Writable(q)
  /\ files' = [files EXCEPT ![q] = Filled(q, who, files[p].data, files[p].size),
                            ![p] = None]
=============================================================================
