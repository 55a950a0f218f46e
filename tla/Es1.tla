-------------------------------- MODULE Es1 --------------------------------
(***************************************************************************)
(* ES1, the flat in-memory file system of BlexOS (src/es1.c).              *)
(*                                                                         *)
(* The state of the file system is one record                              *)
(*   [nodes |-> [Slots -> Node], used |-> Nat, total |-> Nat]              *)
(* which stands for es1_nodes and for the two counters of the superblock.  *)
(* This module holds the operations of es1.c as functions from such a      *)
(* record to the next one; module FsShell calls them the way               *)
(* drivers/cpio.c and commands/command_logic.c do.                         *)
(***************************************************************************)
EXTENDS Integers, FiniteSets, Sequences

CONSTANTS
  MaxNodes,    \* ES1_MAX_NODES: the number of node slots (32 in the build)
  InlineSize,  \* ES1_INLINE_SIZE: bytes of inline_data (480 in the build)
  Paths,       \* absolute paths, as sequences of names; <<>> is "/"
  Texts,       \* what a user can type or edit into a file
  TextLen,     \* the length in bytes of each text
  Payloads     \* what the files of an archive hold

Slots == 0 .. MaxNodes - 1
Root == <<>>
NoPath == <<"">>    \* the path bytes of a zeroed node
Zeros == "zeros"    \* an inline_data area that was never written to
NoData == ""        \* the ext_data of a zeroed node

ASSUME ConstantsAssumption ==
  /\ MaxNodes \in Nat \ {0}
  /\ InlineSize \in Nat \ {0}
  /\ Root \in Paths
  /\ NoPath \notin Paths
  /\ Zeros \notin Texts
  /\ TextLen \in [Texts -> Nat]
  /\ \A t \in Texts : TextLen[t] < InlineSize

(* The last conjunct: a shell line has fewer than 64 bytes, and the editor *)
(* stops saving after InlineSize - 1 bytes.                                *)

Flags == {"USED", "DIR", "EXTDATA"}
Users == {"root", "user"}
NoOwner == ""

(* ext stands for the archive's memory that ext_data points to.  mtime is  *)
(* never written and ext_size never read: the node keeps neither.  The     *)
(* permission string follows from the DIR flag.                            *)
Node == [flags : SUBSET Flags,
         path  : Paths \cup {NoPath},
         owner : Users \cup {NoOwner},
         size  : Nat,
         data  : Texts \cup {Zeros},
         ext   : Payloads \cup {NoData}]

FileSystem == [nodes : [Slots -> Node], used : Nat, total : Nat]

NewNode(p, fl, who) ==
  [flags |-> fl, path |-> p, owner |-> who, size |-> 0, data |-> Zeros,
   ext |-> NoData]

ZeroNode == NewNode(NoPath, {}, NoOwner)

-----------------------------------------------------------------------------
(* Looking at a file system.                                               *)

Live(fs) == {i \in Slots : "USED" \in fs.nodes[i].flags}
At(fs, p) == {i \in Live(fs) : fs.nodes[i].path = p}
Vacant(fs) == Slots \ Live(fs)

(* Every loop over es1_nodes stops at the first slot that fits.            *)
First(S) == CHOOSE i \in S : \A j \in S : i <= j

(* es1_find, split into the question and the answer.                       *)
Found(fs, p) == At(fs, p) # {}
Find(fs, p) == First(At(fs, p))
NodeAt(fs, p) == fs.nodes[Find(fs, p)]
IsDir(fs, p) == Found(fs, p) /\ "DIR" \in NodeAt(fs, p).flags

-----------------------------------------------------------------------------
(* The operations.                                                         *)

(* As Alloc, but used_nodes is not incremented.                            *)
AllocUncounted(fs, p, fl, who) ==
  IF Vacant(fs) = {}
  THEN fs
  ELSE [fs EXCEPT !.nodes[First(Vacant(fs))] = NewNode(p, fl, who)]

(* es1_alloc, with the owner its callers store into the new node; nothing  *)
(* changes when every slot is taken.                                       *)
Alloc(fs, p, fl, who) ==
  IF Vacant(fs) = {}
  THEN fs
  ELSE [fs EXCEPT !.nodes[First(Vacant(fs))] = NewNode(p, fl, who),
                  !.used = @ + 1]

(* As Less, but without the test that the total covers the size.           *)
LessUnguarded(total, size) == total - size

Less(total, size) == IF total >= size THEN total - size ELSE total

(* As Free, but used_nodes is not decremented.                             *)
FreeUncounted(fs, p) ==
  IF ~Found(fs, p)
  THEN fs
  ELSE [nodes |-> [fs.nodes EXCEPT ![Find(fs, p)] = ZeroNode],
        used  |-> fs.used,
        total |-> Less(fs.total, NodeAt(fs, p).size)]

(* es1_free.                                                               *)
Free(fs, p) ==
  IF ~Found(fs, p)
  THEN fs
  ELSE [nodes |-> [fs.nodes EXCEPT ![Find(fs, p)] = ZeroNode],
        used  |-> IF fs.used > 0 THEN fs.used - 1 ELSE fs.used,
        total |-> Less(fs.total, NodeAt(fs, p).size)]

(* inline_data is the last member of the packed node: the terminating NUL  *)
(* of a content of InlineSize bytes lands on the low byte of the next      *)
(* slot's flags, which holds every flag.  Behind the last slot there is    *)
(* no node left to hit.                                                    *)
Terminate(nodes, i, len) ==
  IF len = InlineSize /\ i + 1 \in Slots
  THEN [nodes EXCEPT ![i + 1].flags = {}]
  ELSE nodes

Clamp(len) == IF len > InlineSize THEN InlineSize ELSE len

(* As Write, but the old size stays in the total.                          *)
WriteAddsOnly(fs, p, d, len) ==
  IF ~Found(fs, p) \/ IsDir(fs, p)
  THEN fs
  ELSE LET i == Find(fs, p)
           n == Clamp(len)
       IN  [nodes |-> Terminate([fs.nodes EXCEPT ![i].data = d, ![i].size = n],
                                i, n),
            used  |-> fs.used,
            total |-> fs.total + n]

(* As Write, but the node keeps the size it had.                           *)
WriteKeepsSize(fs, p, d, len) ==
  IF ~Found(fs, p) \/ IsDir(fs, p)
  THEN fs
  ELSE LET i == Find(fs, p)
       IN  [fs EXCEPT !.nodes = Terminate([@ EXCEPT ![i].data = d], i, Clamp(len)),
                      !.total = Less(@, fs.nodes[i].size) + Clamp(len)]

(* As Write, but a directory is not refused.                               *)
WriteToAnything(fs, p, d, len) ==
  IF ~Found(fs, p)
  THEN fs
  ELSE LET i == Find(fs, p)
           n == Clamp(len)
       IN  [nodes |-> Terminate([fs.nodes EXCEPT ![i].data = d, ![i].size = n],
                                i, n),
            used  |-> fs.used,
            total |-> Less(fs.total, fs.nodes[i].size) + n]

(* es1_write: len bytes that hold the text d, into the regular file at p.  *)
(* Only an area of zeros is ever longer than InlineSize, so the clamp      *)
(* leaves d what it is.                                                    *)
Write(fs, p, d, len) ==
  IF ~Found(fs, p) \/ IsDir(fs, p)
  THEN fs
  ELSE LET i == Find(fs, p)
           n == Clamp(len)
       IN  [nodes |-> Terminate([fs.nodes EXCEPT ![i].data = d, ![i].size = n],
                                i, n),
            used  |-> fs.used,
            total |-> Less(fs.total, fs.nodes[i].size) + n]

(* es1_init: an empty table that holds the root directory only.            *)
Formatted ==
  Alloc([nodes |-> [i \in Slots |-> ZeroNode], used |-> 0, total |-> 0],
        Root, {"USED", "DIR"}, "root")
=============================================================================
